----------------------------- MODULE MCTariffd -----------------------------
(***************************************************************************)
(* Two connections, on which any of the telling requests may come, to a    *)
(* process that was given tokens, a list without any, or a mistake.        *)
(***************************************************************************)
EXTENDS Tariffd

Request(path, registered, token) ==
    [path |-> path, registered |-> registered, token |-> token]

TellingRequests ==
    {Request("compute", TRUE, "b"), Request("compute", TRUE, "none"),
     Request("compute", FALSE, "a"), Request("openapi", TRUE, "none"),
     Request("openapi", FALSE, "c"), Request("healthz", FALSE, "none"),
     Request("unclean", TRUE, "none"),
     Request("unclean", FALSE, "none"), Request("star", TRUE, "none")}

Environment(tokens) ==
    [tokens |-> tokens, level |-> "", readTimeout |-> "", writeTimeout |-> "positive",
     idleTimeout |-> "", shutdownTimeout |-> ""]

\* "a, ,b", "," and mistakes.
SmallEnvironments ==
    {Environment(<<"a", Blank, "b">>), Environment(<<Blank, Blank>>)}
      \cup {[Environment(<<"a">>) EXCEPT !.level = "verbose"]}
      \cup {[Environment(<<"a">>) EXCEPT !.shutdownTimeout = d] : d \in {"zero", "unread"}}
      \cup {[Environment(<<"a">>) EXCEPT !.readTimeout = "negative"]}

=============================================================================
