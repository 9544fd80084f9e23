----------------------------- MODULE MCCompose -----------------------------
(***************************************************************************)
(* Small instances of Compose.                                             *)
(***************************************************************************)
EXTENDS Compose, TLC

Rated(t)  == [sameCurrency |-> TRUE,  rated |-> TRUE,  total |-> t]
Foreign   == [sameCurrency |-> FALSE, rated |-> TRUE,  total |-> 1]
RateFails == [sameCurrency |-> TRUE,  rated |-> FALSE, total |-> 0]

Pct(num, den) == [n |-> num, d |-> den]

\* One caller, the whole range of arguments, the invalid ones included.
RichRatings   == {Rated(3), Rated(MaxInt), Foreign, RateFails}
RichPercents  == {Pct(1, 2), Pct(2, 3), Pct(-1, 2), Pct(3, 2), Nil}
RichAmounts   == {MinInt, 1, MaxInt}
RichFloors    == {-1, 2, MaxInt}
RichOpenings  == {-1, 2, MaxInt}
RichRoundings == {"half_up", "floor", "unset"}

\* Two callers who contend for the balances.
FewRatings   == {Rated(2)}
FewPercents  == {Pct(1, 2)}
FewAmounts   == {}
FewFloors    == {}
FewOpenings  == {0, 1, 3}
FewRoundings == {"half_up"}

\* currency.go: "Format renders a count of minor units as a plain decimal
\* string": the sign, the whole part and the fraction of every returned
\* total denote that total, in a currency of one decimal with base Scale.
Scale == 2

Denotes(text, minor) ==
    /\ text.whole >= 0
    /\ text.frac \in 0 .. Scale - 1
    /\ minor = (IF text.neg THEN -1 ELSE 1) * (text.whole * Scale + text.frac)

TotalIsRendered == \A c \in Callers :
    pc[c] = "returned" => Denotes(Format(inv[c].total, Scale), inv[c].total)

=============================================================================
