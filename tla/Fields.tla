------------------------------- MODULE Fields -------------------------------
(***************************************************************************)
(* What the handlers of both front ends, tariffd and the playground, are   *)
(* made of: the parts of a request are read one after the other, the       *)
(* first that is not understood ends it, and only then is the library      *)
(* called.                                                                 *)
(*                                                                         *)
(* Texts are known by what their readers make of them.  The text of a rate *)
(* is its length, the exponent that follows an e if there is one (Nil), by *)
(* its length and value, and the rational that big.Rat reads (Nil if it    *)
(* reads none).  The text of a time is its form and, where it denotes one, *)
(* an instant and the offset it was written with.  A body is known by what *)
(* a strict and a lenient reader of JSON would object to.                  *)
(***************************************************************************)
EXTENDS Integers, Sequences

Parsed(value)   == [ok |-> TRUE, value |-> value]
Refused(answer) == [ok |-> FALSE, answer |-> answer]

\* The answer to a request whose parts are read in the order given; last is
\* what it comes to when all of them are understood.
Concluded(parts, last) ==
    LET bad   == {k \in DOMAIN parts : ~parts[k].ok}
        first == CHOOSE k \in bad : \A j \in bad : k <= j
    IN  IF bad = {} THEN last ELSE parts[first].answer

\* Parts that are read in the order given as one part of its own, of value when
\* all of them are understood.
Joined(parts, value) ==
    IF \A k \in DOMAIN parts : parts[k].ok THEN Parsed(value)
    ELSE Refused(Concluded(parts, value))

\* big.Rat's RatString: lowest terms.
Canonical(ratio) ==
    LET divides(k) == ratio.n % k = 0 /\ ratio.d % k = 0
        gcd == CHOOSE k \in 1 .. ratio.d :
                 divides(k) /\ \A j \in k + 1 .. ratio.d : ~divides(j)
    IN  [n |-> ratio.n \div gcd, d |-> ratio.d \div gcd]

\* The local times of an offset, which never changes.  Package time would take
\* the zone of the process for an offset that it is at; the process is at UTC,
\* as in the image of tariffd, or at the one offset of a page.
ZoneOf(time) == [at |-> 0, before |-> time.offset, after |-> time.offset,
                 reading |-> time.offset]

=============================================================================
