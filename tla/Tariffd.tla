------------------------------ MODULE Tariffd ------------------------------
(***************************************************************************)
(* The process: its configuration, boot.Run, the goroutine that serves,    *)
(* the signal, the drain deadline, and the requests in flight, each on its *)
(* way through the writers of Pipeline.                                    *)
(*                                                                         *)
(* A connection carries one request.  Of the package net/http the model    *)
(* has what boot.go relies on: Serve accepts until the listener fails or   *)
(* the server shuts down; Shutdown closes the listener and the connections *)
(* that wait for a request, and returns when no request is left or its     *)
(* context is done; Close drops every connection.                          *)
(***************************************************************************)
EXTENDS Pipeline, Config

CONSTANTS Environments,  \* the process may be started in
          Connections,   \* that clients may open
          Requests       \* that may arrive on them

ASSUME EnvironmentsAssumption == \A e \in Environments : e.tokens \in Seq(STRING)
ASSUME RequestsAssumption == \A q \in Requests : IsRequest(q)

VARIABLES environment,
          auth,       \* the tokens that Auth holds; without any, requests are open
          run,        \* where the process is, boot.Run after "loading"
          outcome,    \* what it ended with
          serve,      \* where the goroutine that serves is
          errCh,      \* what Serve returned: at most one error is ever sent
          signalled,  \* whether ctx is done
          expired,    \* whether drainCtx is done
          at,         \* where a connection, and the request on it, is
          asked,      \* the request
          answer,     \* what is being written
          op,         \* how many operations of the answer are done
          response,   \* the response
          logged      \* the status in the log line, 0 before there is one

given    == <<environment, auth>>
process  == <<given, run, outcome, serve, errCh, signalled, expired>>
traffic  == <<at, asked, answer, op, response, logged>>
vars     == <<process, traffic>>

Nothing == [format |-> NoFormat, code |-> 0]

\* A request is in flight from its header to the end of its response.
InFlight == {"arrived", "writing", "panicked", "returned"}

Init ==
    /\ environment \in Environments /\ auth = <<>>
    /\ run = "loading" /\ outcome = "none" /\ serve = "absent" /\ errCh = "empty"
    /\ signalled = FALSE /\ expired = FALSE
    /\ at = [c \in Connections |-> "away"]
    /\ asked \in [Connections -> Requests]
    /\ answer = [c \in Connections |-> Nothing]
    /\ op = [c \in Connections |-> 0]
    /\ response = [c \in Connections |-> EmptyResponse]
    /\ logged = [c \in Connections |-> 0]

-----------------------------------------------------------------------------
(***************************************************************************)
(* main and boot.Run.                                                      *)
(***************************************************************************)
Return(result) ==
    /\ run' = "returned"
    /\ outcome' = result

\* main ends before it asks for signals when there is a problem.
Configure ==
    /\ run = "loading"
    /\ LET cfg == Load(environment)
       IN  \/ cfg.ok /\ run' = "booting" /\ auth' = cfg.tokens /\ UNCHANGED outcome
           \/ ~cfg.ok /\ Return("config") /\ UNCHANGED auth
    /\ UNCHANGED <<environment, serve, errCh, signalled, expired, traffic>>

Listen ==
    /\ run = "booting"
    /\ \/ /\ run' = "selecting" /\ serve' = "starting"
          /\ UNCHANGED outcome
       \/ Return("listen") /\ UNCHANGED serve
    /\ UNCHANGED <<given, errCh, signalled, expired, traffic>>

\* The select: of two cases that are ready, either may be taken.
ServeFailed ==
    /\ run = "selecting" /\ errCh # "empty"
    /\ Return("serve")
    /\ UNCHANGED <<given, serve, errCh, signalled, expired, traffic>>

\* Faulty: the server is closed at once.
CloseOnSignal ==
    /\ run = "selecting" /\ signalled
    /\ Return("stopped")
    /\ UNCHANGED <<given, serve, errCh, signalled, expired, traffic>>

BeginDrain ==
    /\ run = "selecting" /\ signalled
    /\ run' = "draining"
    /\ UNCHANGED <<given, outcome, serve, errCh, signalled, expired, traffic>>

Drained ==
    /\ run = "draining"
    /\ \A c \in Connections : at[c] \notin InFlight \cup {"open"}
    /\ Return("stopped")
    /\ UNCHANGED <<given, serve, errCh, signalled, expired, traffic>>

\* Faulty: Shutdown is given a context that is never done.
OverdueNever == FALSE

Overdue ==
    /\ run = "draining" /\ expired
    /\ Return("drain")
    /\ UNCHANGED <<given, serve, errCh, signalled, expired, traffic>>

Run == Configure \/ Listen \/ ServeFailed \/ BeginDrain \/ Drained \/ Overdue

(***************************************************************************)
(* What happens to it: signals, the clock, the serving goroutine.          *)
(***************************************************************************)

\* A second signal, and one that comes before Run, changes nothing more.  One
\* that comes while main is loading ends it, and is left out.
Signal == /\ run \notin {"loading", "returned"}
          /\ signalled' = TRUE
          /\ UNCHANGED <<given, run, outcome, serve, errCh, expired, traffic>>

Expire == /\ run = "draining" /\ ~expired
          /\ expired' = TRUE
          /\ UNCHANGED <<given, run, outcome, serve, errCh, signalled, traffic>>

\* Serve may start after the server has been shut down.
Serve == /\ run # "returned" /\ serve = "starting"
         /\ IF run = "draining" THEN serve' = "ended" /\ errCh' = "closed"
            ELSE serve' = "accepting" /\ UNCHANGED errCh
         /\ UNCHANGED <<given, run, outcome, signalled, expired, traffic>>

AcceptFails ==
    /\ run # "returned" /\ serve = "accepting"
    /\ serve' = "ended"
    /\ errCh' = IF run = "draining" THEN "closed" ELSE "failed"
    /\ UNCHANGED <<given, run, outcome, signalled, expired, traffic>>

-----------------------------------------------------------------------------
(***************************************************************************)
(* A connection and its request, while the process lives.                  *)
(***************************************************************************)
Moves(c, from, to) ==
    /\ run # "returned"
    /\ at[c] = from
    /\ at' = [at EXCEPT ![c] = to]
    /\ UNCHANGED <<process, asked>>

Accept(c) == /\ serve = "accepting" /\ run = "selecting"
             /\ Moves(c, "away", "open")
             /\ UNCHANGED <<answer, op, response, logged>>

\* Shutdown closes a connection that waits for a request, if need be after a
\* while; a client may go away at any time before its request is read.
CloseOpen(c) == /\ Moves(c, "open", "closed")
                /\ UNCHANGED <<answer, op, response, logged>>

Arrive(c) == /\ Moves(c, "open", "arrived")
             /\ UNCHANGED <<answer, op, response, logged>>

\* The wrappers are entered and the request is routed.
Dispatch(c) == /\ Moves(c, "arrived", "writing")
               /\ \E a \in Answers(auth, asked[c]) : answer' = [answer EXCEPT ![c] = a]
               /\ UNCHANGED <<op, response, logged>>

\* One operation of the answer, through both writers.
Write(c) == /\ op[c] < Operations
            /\ Moves(c, "writing", "writing")
            /\ op' = [op EXCEPT ![c] = @ + 1]
            /\ response' = [response EXCEPT ![c] = Written(@, answer[c], op[c] + 1)]
            /\ UNCHANGED <<answer, logged>>

\* A logic bug in a handler, before, between or after its writes.
Panic(c) == /\ Handles(auth, asked[c])
            /\ Moves(c, "writing", "panicked")
            /\ UNCHANGED <<answer, op, response, logged>>

Recover(c) == /\ Moves(c, "panicked", "returned")
              /\ response' = [response EXCEPT ![c] = Recovered(@)]
              /\ UNCHANGED <<answer, op, logged>>

HandlerReturns(c) == /\ op[c] = Operations
                     /\ Moves(c, "writing", "returned")
                     /\ UNCHANGED <<answer, op, response, logged>>

\* The log line, and the end of the response.
Log(c) == /\ Moves(c, "returned", "done")
          /\ logged' = [logged EXCEPT ![c] = Logged(response[c])]
          /\ response' = [response EXCEPT ![c] = Finished(@)]
          /\ UNCHANGED <<answer, op>>

Traffic(c) == \/ Accept(c) \/ CloseOpen(c) \/ Arrive(c) \/ Dispatch(c) \/ Write(c)
              \/ Panic(c) \/ Recover(c) \/ HandlerReturns(c) \/ Log(c)

Next == \/ Run \/ Signal \/ Expire \/ Serve \/ AcceptFails
        \/ \E c \in Connections : Traffic(c)

Spec == Init /\ [][Next]_vars

\* Only Run itself and the clock are relied upon: handlers and clients may take
\* for ever.
FairSpec == Spec /\ WF_vars(Run) /\ WF_vars(Expire)

-----------------------------------------------------------------------------
(***************************************************************************)
(* Properties.                                                             *)
(***************************************************************************)
\* jsonMuxErrors, "every error is a JSON body" holds for routing failures too,
\* and recovering: one response for every request, in one format and one piece,
\* whoever wrote it and wherever a handler panicked.  Only a panic after its
\* header and the mux, by a redirect or for the asterisk form, leave no body.
OneAnswer ==
    \A c \in Connections : at[c] = "done" =>
      LET w == response[c]
      IN  /\ Len(w.body) <= 1
          /\ \A i \in 1 .. Len(w.body) : w.body[i] = w.format
          /\ w.sent >= 400 /\ asked[c].path # "star" => w.format = "json"
          /\ w.body = <<>> => asked[c].path \in {"star", "unclean"} \/ Handles(auth, asked[c])
          /\ op[c] < 2 => w.sent = 500 /\ w.body = <<"json">>

\* "The same recorder the logger reads": the line in the log has the status the
\* client was sent, after a panic and after the mux was rewritten too.
LogTellsTheStatus ==
    \A c \in Connections : at[c] = "done" => logged[c] = response[c].sent

\* boot.Run "drains in-flight requests for up to the configured shutdown
\* timeout": Run does not report an orderly stop while a request is cut off, none
\* is cut off by a drain before its deadline, and the end of serving that Run
\* brings about itself is not taken for a failure to serve.
OrderlyStop ==
    /\ outcome = "stopped" => signalled /\ \A c \in Connections : at[c] \notin InFlight
    /\ outcome = "drain" => signalled /\ expired
    /\ outcome = "serve" => errCh = "failed"

\* "Authentication is an optional static bearer-token set": a request for a
\* compute endpoint is refused for its token exactly when the environment of the
\* process names one and the request presents none of those it names.
Named == {environment.tokens[i] : i \in DOMAIN environment.tokens} \ {Blank}

TokensAreAsked ==
    \A c \in Connections : at[c] = "done" /\ Gated(asked[c]) =>
      (response[c].sent = 401 <=> Named # {} /\ asked[c].token \notin Named)

\* "serves until ctx is cancelled": once signalled, Run returns, though no
\* request in flight may ever end.
StopsWhenTold == signalled ~> run = "returned"

=============================================================================
