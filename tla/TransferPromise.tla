--------------------------- MODULE TransferPromise ---------------------------
(***************************************************************************)
(* What the system promises of a transfer's money, whoever carries it out: *)
(* the recipient is paid at most once, the executor that paid through its  *)
(* API is charged at most once and never for a payment that was not made,  *)
(* the customer is told "completed" only of a transfer that was paid, and  *)
(* is refunded only if nobody paid it or after it was reported completed.  *)
(***************************************************************************)
EXTENDS Naturals

CONSTANTS Tx, Groups

VARIABLES
    payouts,    \* times the recipient was paid
    charges,    \* times each executor group was charged for it
    reported,   \* the transfer is shown as completed
    refund      \* "no"; "open", of an unpaid one; "settled", of a completed one

vars == <<payouts, charges, reported, refund>>

Init ==
    /\ payouts = [t \in Tx |-> 0]
    /\ charges = [t \in Tx |-> [g \in Groups |-> 0]]
    /\ reported = [t \in Tx |-> FALSE]
    /\ refund = [t \in Tx |-> "no"]

\* The one payout of a transfer, possibly reported at once.
Pay(t) ==
    /\ payouts[t] = 0 /\ refund[t] = "no" /\ ~reported[t]
    /\ payouts' = [payouts EXCEPT ![t] = 1]
    /\ \/ UNCHANGED reported
       \/ reported' = [reported EXCEPT ![t] = TRUE]
    /\ UNCHANGED <<charges, refund>>

Charge(t, g) ==
    /\ payouts[t] = 1
    /\ \A h \in Groups : charges[t][h] = 0
    /\ charges' = [charges EXCEPT ![t][g] = 1]
    /\ UNCHANGED <<payouts, reported, refund>>

Report(t) ==
    /\ payouts[t] = 1 /\ refund[t] = "no" /\ ~reported[t]
    /\ reported' = [reported EXCEPT ![t] = TRUE]
    /\ UNCHANGED <<payouts, charges, refund>>

Refund(t) ==
    /\ payouts[t] = 0 /\ refund[t] = "no"
    /\ refund' = [refund EXCEPT ![t] = "open"]
    /\ UNCHANGED <<payouts, charges, reported>>

Settle(t) ==
    /\ reported[t]
    /\ reported' = [reported EXCEPT ![t] = FALSE]
    /\ refund' = [refund EXCEPT ![t] = "settled"]
    /\ UNCHANGED <<payouts, charges>>

Next == \E t \in Tx : \/ Pay(t) \/ Report(t) \/ Refund(t) \/ Settle(t)
                      \/ \E g \in Groups : Charge(t, g)

Spec == Init /\ [][Next]_vars
==============================================================================
