----------------------------- MODULE ContextLog -----------------------------
(***************************************************************************)
(* What a persistent context promises: a log of records per context that   *)
(* only grows, and grows by the whole of one turn at a time.               *)
(***************************************************************************)
EXTENDS Sequences

CONSTANTS
    Contexts,   \* the contexts of the tenants
    Exchanges   \* the sequences of records a turn may leave behind

VARIABLE log    \* log[c]: the records of context c, oldest first

Init == log = [c \in Contexts |-> <<>>]

AppendTurn(c) == \E records \in Exchanges : log' = [log EXCEPT ![c] = @ \o records]

Next == \E c \in Contexts : AppendTurn(c)

Spec == Init /\ [][Next]_log

=============================================================================
