--------------------------- MODULE ReceiptPromise ---------------------------
(***************************************************************************)
(* What an `*_with_action` flow promises the owner of a receipt, with no   *)
(* chain, validator or script in sight: a stake is held, a verdict is      *)
(* reached once, and the stake then leaves exactly once, to the place the  *)
(* verdict names ("settle pays out on success and refunds on failure").    *)
(***************************************************************************)
EXTENDS Naturals

CONSTANTS Receipts  \* the receipt addresses

Verdicts == {"pending", "success", "failure"}

VARIABLES held,      \* held[r]: stakes the protocol holds for r
          verdict,   \* verdict[r]: the verdict on the stake held now
          paid,      \* paid[r]: stakes that were paid out
          refunded   \* refunded[r]: stakes that went back

promiseVars == <<held, verdict, paid, refunded>>

PromiseInit ==
    /\ held = [r \in Receipts |-> 0]
    /\ verdict = [r \in Receipts |-> "pending"]
    /\ paid = [r \in Receipts |-> 0]
    /\ refunded = [r \in Receipts |-> 0]

Hold(r) ==
    /\ held[r] = 0
    /\ held' = [held EXCEPT ![r] = 1]
    /\ UNCHANGED <<verdict, paid, refunded>>

Decide(r) ==
    /\ held[r] = 1
    /\ verdict[r] = "pending"
    /\ \E v \in Verdicts \ {"pending"} : verdict' = [verdict EXCEPT ![r] = v]
    /\ UNCHANGED <<held, paid, refunded>>

Release(r) ==
    /\ held[r] = 1
    /\ \/ /\ verdict[r] = "success"
          /\ paid' = [paid EXCEPT ![r] = @ + 1]
          /\ UNCHANGED refunded
       \/ /\ verdict[r] = "failure"
          /\ refunded' = [refunded EXCEPT ![r] = @ + 1]
          /\ UNCHANGED paid
    /\ held' = [held EXCEPT ![r] = 0]
    /\ verdict' = [verdict EXCEPT ![r] = "pending"]

PromiseNext == \E r \in Receipts : Hold(r) \/ Decide(r) \/ Release(r)

PromiseSpec == PromiseInit /\ [][PromiseNext]_promiseVars

=============================================================================
