------------------------------- MODULE Ledger -------------------------------
(***************************************************************************)
(* What a composition promises the owner of the balances, whatever steps   *)
(* it runs: a composition is opened, and then in ONE step it is either     *)
(* settled, drawing balances down without ever overdrawing one, or refused *)
(* with every balance as it was.  No state in between, with some of the    *)
(* draws of an invoice made and others not, can be seen.                   *)
(***************************************************************************)
EXTENDS Integers

CONSTANTS Callers, Balances, Openings

VARIABLES balance,   \* the value of each balance
          status     \* what became of each caller's composition

vars == <<balance, status>>

Init == /\ balance \in [Balances -> Openings]
        /\ status = [c \in Callers |-> "none"]

Open(c) == /\ status[c] # "open"
           /\ status' = [status EXCEPT ![c] = "open"]
           /\ UNCHANGED balance

\* A balance is left alone or drawn down, never below zero.
Drawn(b) == \/ balance'[b] = balance[b]
            \/ 0 <= balance'[b] /\ balance'[b] < balance[b]

Settle(c) == /\ status[c] = "open"
             /\ status' = [status EXCEPT ![c] = "settled"]
             /\ balance' \in [Balances -> Int]
             /\ \A b \in Balances : Drawn(b)

Refuse(c) == /\ status[c] # "refused"
             /\ status' = [status EXCEPT ![c] = "refused"]
             /\ UNCHANGED balance

Next == \E c \in Callers : Open(c) \/ Settle(c) \/ Refuse(c)

Spec == Init /\ [][Next]_vars

=============================================================================
