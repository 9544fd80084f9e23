----------------------------- MODULE FrontEnds ------------------------------
(***************************************************************************)
(* The two front ends of the library side by side: the same call is put to *)
(* tariffd and to the engine of the playground, which mean to be one in    *)
(* two copies.  tariffd's compose handler takes its steps, as in           *)
(* ComposeService; what the other endpoints do with a call is one step.    *)
(* A client that walks a billing cycle asks for the boundary after the one *)
(* it was told.                                                            *)
(***************************************************************************)
EXTENDS ComposeService

CONSTANTS Calls,     \* of the endpoints but compose
          MaxExact,  \* 2^53: the floats of a page hold every integer up to it
          MaxWalk    \* bound: the boundaries a client walks

Page == INSTANCE Playground

Bodies == {"good", "malformed", "unknown_field", "second_value", "oversized", "closed_twice"}

\* The endpoints but compose, with the fields of each that hold a time.
TimesOf == [rate |-> {}, proration |-> {"start", "end", "at"},
            fraction |-> {"start", "end", "from", "to"}, boundary |-> {"from", "anchor"},
            scenario |-> {}]

\* The offset of a timestamp is in minutes.
IsTime(text) ==
    text.form = "timestamp" =>
      text.at \in Int /\ text.offset \in Int /\ text.offset % TicksPerSecond = 0

\* The rest of a call may be anything: every other text is known by what the
\* handlers compare it with.
IsCall(c) ==
    /\ c.endpoint \in DOMAIN TimesOf
    /\ {"endpoint"} \cup TimesOf[c.endpoint] \subseteq DOMAIN c
    /\ c.endpoint # "scenario" => c.body \in Bodies
    /\ c.endpoint = "boundary" => /\ {"body", "unit", "calendar"} \subseteq DOMAIN c
                                  /\ IsTime(c.from) /\ IsTime(c.anchor)
    /\ c.endpoint = "rate" => IsCharge(c)

ASSUME BodiesAssumption == \A r \in Requests : r.body \in Bodies
ASSUME CallsAssumption == \A c \in Calls : IsCall(c)
ASSUME RateLenAssumption == MaxRateLen \in Nat
ASSUME MaxExactAssumption == MaxExact \in Nat \ {0}
ASSUME ClockAssumption ==
    /\ TicksPerSecond \in Nat \ {0} /\ TicksPerDay \in Nat \ {0}
    /\ TicksPerDay % TicksPerSecond = 0

VARIABLES call,     \* what is asked, of compose the request
          served,   \* tariffd's answer
          played,   \* the page's answer
          walked    \* how many boundaries the client went on from

fronts    == <<call, served, played, walked>>
frontVars == <<fronts, vars>>

\* The compose handler when it is not asked.
Idle == /\ phase = "idle"
        /\ request = [body |-> "none", currency |-> Nil, steps |-> <<>>]
        /\ run = [upTo |-> 0, done |-> 0,
                  inv |-> EmptyInvoice("unset"), balances |-> [b \in Balances |-> 0]]
        /\ invoice = EmptyInvoice("unset")
        /\ shown = [b \in Balances |-> 0]
        /\ prev = 0 /\ effects = <<>> /\ answer = Pending /\ after = <<>>

FrontInit ==
    /\ \/ Idle /\ call \in Calls
       \/ Init /\ call = [endpoint |-> "compose", body |-> request.body,
                          currency |-> request.currency, steps |-> request.steps]
    /\ served = Pending /\ played = Pending /\ walked = 0

\* tariffd has no scenarios, and answers compose when the handler has.
Ask == /\ played = Pending
       /\ call.endpoint = "compose" => phase = "answered"
       /\ played' = Page!Handle(call)
       /\ served' = CASE call.endpoint = "scenario" -> Pending
                      [] call.endpoint = "compose"  -> answer
                      [] OTHER                      -> Service!Handle(call)
       /\ UNCHANGED <<call, walked, vars>>

\* The next boundary is asked for from the one that was told.
Walk == /\ call.endpoint = "boundary" /\ served.code = "ok"
        /\ walked < MaxWalk
        /\ walked' = walked + 1
        /\ call' = [call EXCEPT !.from = served.value.next]
        /\ served' = Service!HandleBoundary(call')
        /\ played' = Page!HandleBoundary(call')
        /\ UNCHANGED vars

FrontNext == Ask \/ Walk \/ (Next /\ UNCHANGED fronts)

FrontSpec == FrontInit /\ [][FrontNext]_frontVars

-----------------------------------------------------------------------------
(***************************************************************************)
(* Properties.                                                             *)
(***************************************************************************)
\* The code mapping of the page is "the same taxonomy tariffd uses over HTTP",
\* and its guards mirror tariffd's, by hand.  What tariffd takes, the page
\* takes, with the same amounts; what only the page takes has a date for a time,
\* an unknown field or a body over the cap; of anything else, the refusals of a
\* composition included, they say the same.
\*
\* The same amount is the same text, and the same number where a float holds it:
\* amounts do not cross "lossless", as the page's engine says, beyond 2^53.
Dated == \E f \in DOMAIN call : f \in {"start", "end", "at", "from", "to", "anchor"}
                                /\ call[f].form = "date"

SameNumber(seen, told) == Page!Size(told) <= MaxExact => seen = told

SameAmount(seen, told) == seen.text = told.text /\ SameNumber(seen.minor, told.minor)

SameLines(seen, told) ==
    /\ DOMAIN seen = DOMAIN told
    /\ \A k \in DOMAIN told : /\ SameNumber(seen[k].units, told[k].units)
                             /\ SameAmount(seen[k].subtotal, told[k].subtotal)

SameSteps(seen, told) ==
    /\ DOMAIN seen = DOMAIN told
    /\ \A k \in DOMAIN told :
         /\ SameAmount(seen[k].effect, told[k].effect)
         /\ IF call.steps[k].type \in Draws
            THEN SameAmount(seen[k].balance, told[k].balance)
            ELSE seen[k].balance = told[k].balance

Tells(seen, told) == \A f \in DOMAIN told :
    CASE f \in {"total", "subtotal", "credit", "charge", "net"} -> SameAmount(seen[f], told[f])
      [] f = "lines" -> SameLines(seen[f], told[f])
      [] f = "steps" -> SameSteps(seen[f], told[f])
      [] OTHER       -> seen[f] = told[f]

Alike == played.code = served.code /\ played.field = served.field

AnswersAgree ==
    /\ played.code = "ok" /\ served.code = "ok" => Tells(played.value, served.value)
    /\ \/ Alike
       \/ Dated /\ served.code = "invalid_argument"
       \/ call.body # "good" /\ (served.code = "ok" => call.body = "closed_twice")

\* The fraction echoed with a proration is the one that the fraction endpoint
\* answers for what is left of the period.
Left == [endpoint |-> "fraction", body |-> call.body, basis |-> call.basis,
         start |-> call.start, end |-> call.end, from |-> call.at, to |-> call.end]

FrontEndsAgree ==
    played # Pending =>
      /\ served # Pending => AnswersAgree
      /\ call.endpoint = "proration" /\ played.code = "ok" =>
           played.value.fraction = Page!HandleFraction(Left).value.fraction

\* "An unrecognised error is the server's problem": whatever is asked, of compose
\* too, tariffd never answers with a 500 and the page never without a code, but
\* for a body that is no JSON.  Every sentinel that the library can return has a
\* row in both tables.
EveryErrorIsNamed ==
    played # Pending =>
      /\ served # Pending => served.status # 500
      /\ played.code = "error" => call.body \in {"malformed", "second_value", "closed_twice"}

\* The running column of the page, a sum of its own that nothing guards, tells
\* what the total was after each step of the composition.  It shows the text.
RunningTellsTheTotal ==
    call.endpoint = "compose" /\ played.code = "ok" /\ served.code = "ok" =>
      \A i \in 1 .. N :
        played.value.steps[i].running.text = Format(After(i).total, Scale)

\* boundaryResponse is "the next cycle boundary strictly after from": a client
\* that goes on from what it was told, a text without parts of a second, meets
\* every cycle once.  The anchor is at a whole second: the walk does not leave
\* the first boundary of any other.  The walk ends with the year 9999: a later
\* boundary is told in a text that parseTime refuses.
Months(time) ==
    LET date == Service!Cycles!DateOf((time.at + time.offset) \div TicksPerDay)
    IN  date.year * 12 + date.month

AnswersLeadOn ==
    [][call' # call /\ call'.from.form = "timestamp"
         /\ (call.calendar \/ call.anchor.at % TicksPerSecond = 0) =>
         Months(served'.value.next) =
           Months(served.value.next) + (IF call.unit = "yearly" THEN 12 ELSE 1)]_frontVars

=============================================================================
