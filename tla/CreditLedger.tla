----------------------------- MODULE CreditLedger -----------------------------
(***************************************************************************)
(* What points_sync promises, without workers, rows or requests: a user's  *)
(* settled points are imported once.  Credit granted to a user never       *)
(* exceeds the most that the settled points have justified so far, and is  *)
(* never taken back.                                                       *)
(***************************************************************************)
EXTENDS Integers

CONSTANT Users

VARIABLES
    entitled, \* Users -> the most credit the settled points have justified so far
    granted   \* Users -> credit granted

Init ==
    /\ entitled \in [Users -> Nat]
    /\ granted = [u \in Users |-> 0]

Settle(u) ==
    /\ entitled'[u] \in Nat /\ entitled'[u] > entitled[u]
    /\ entitled' = [entitled EXCEPT ![u] = entitled'[u]]
    /\ UNCHANGED granted

Grant(u) ==
    /\ \E n \in 1..(entitled[u] - granted[u]) : granted' = [granted EXCEPT ![u] = @ + n]
    /\ UNCHANGED entitled

Next == \E u \in Users : Settle(u) \/ Grant(u)

Spec == Init /\ [][Next]_<<entitled, granted>>
=============================================================================
