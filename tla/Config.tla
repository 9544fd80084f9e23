------------------------------- MODULE Config -------------------------------
(***************************************************************************)
(* config.go: what tariffd makes of its environment.  The list of tokens   *)
(* is the sequence of what stands between its commas, each a name or       *)
(* Blank; the empty list is <<Blank>>.  The text of a duration is known by *)
(* what time.ParseDuration reads, if it reads anything.  Any address is    *)
(* taken as it is.                                                         *)
(***************************************************************************)
EXTENDS Sequences, SequencesExt

Blank == "blank"

Levels == {"", "debug", "info", "warn", "error"}

Timeouts == {"readTimeout", "writeTimeout", "idleTimeout", "shutdownTimeout"}

\* An absent timeout has a default.
DurationFits(text) == text \in {"", "positive"}

\* Faulty: what is blank between two commas is kept, as a token.
ParseTokensRaw(text) == text

ParseTokens(text) ==
    FoldLeft(LAMBDA tokens, part : IF part = Blank THEN tokens ELSE Append(tokens, part),
             <<>>, text)

\* The tokens, or the kind of the first problem that is found.
Load(env) ==
    IF env.level \notin Levels THEN [ok |-> FALSE, why |-> "level"]
    ELSE IF \E t \in Timeouts : ~DurationFits(env[t])
    THEN [ok |-> FALSE, why |-> "timeout"]
    ELSE [ok |-> TRUE, tokens |-> ParseTokens(env.tokens)]

=============================================================================
