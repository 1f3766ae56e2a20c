----------------------------- MODULE ReceiptChain -----------------------------
(***************************************************************************)
(* The life of a receipt account on the two chains, as the SDK's builders, *)
(* receipt helpers and scripts rely on it.                                 *)
(*                                                                         *)
(*   absent --Stage--> stub on base --Clone--> copy on the ER              *)
(*     ^                                          | `_er`                  *)
(*     |                                          v                        *)
(*     +--settle-- open on base <--Undelegate-- decided copy               *)
(*                                                                         *)
(* A receipt is a PDA, so its address is reused: every staging starts a    *)
(* new generation of the same address.  The `_er` step may be queued by    *)
(* the base transaction or sent by a client; the settle step may be run by *)
(* the action the commit queued or sent by a client.  Queued actions can   *)
(* fail, and then somebody has to drive the step.                          *)
(*                                                                         *)
(* The program itself is not part of the repository: its handlers are      *)
(* taken from how the builders call them and what the clients expect.      *)
(***************************************************************************)
EXTENDS Naturals

CONSTANTS Receipts,   \* receipt addresses (one owner+mint, or owner+pool, each)
          MaxGen      \* bound: how often one address is staged

ASSUME MaxGenAssumption == MaxGen \in Nat

VARIABLES
    base,          \* base[r]: the account on the base chain
    er,            \* er[r]: the delegated copy on the ER
    queuedEr,      \* queuedEr[r]: generations whose queued `_er` has not fired
    queuedSettle,  \* queuedSettle[r]: generations whose queued settle has not
    escrow,        \* escrow[r]: stakes held for the receipt
    paid,          \* paid[r]: stakes paid out
    refunded,      \* refunded[r]: stakes sent back
    (* history *)
    gen,           \* gen[r]: how often the address was staged
    verdicts       \* verdicts[r][g]: what `_er` decided in generation g

chainVars == <<base, er, queuedEr, queuedSettle, escrow, paid, refunded,
               gen, verdicts>>

Gens == 1..MaxGen

(***************************************************************************)
(* `processed` and the receipt's output field in one value: "pending" is   *)
(* processed = 0, the other two are processed = 1 with an output above     *)
(* zero and with output zero.                                              *)
(***************************************************************************)
Decisions == {"pending", "success", "failure"}
Finals == Decisions \ {"pending"}

\* "stub": owned by the delegation program; "open": owned by the program.
BaseAccount == [state : {"absent", "stub", "open"}, decision : Decisions]
ErAccount   == [live : BOOLEAN, decision : Decisions]

NoAccount == [state |-> "absent", decision |-> "pending"]
NoCopy    == [live |-> FALSE, decision |-> "pending"]

ChainInit ==
    /\ base = [r \in Receipts |-> NoAccount]
    /\ er = [r \in Receipts |-> NoCopy]
    /\ queuedEr = [r \in Receipts |-> {}]
    /\ queuedSettle = [r \in Receipts |-> {}]
    /\ escrow = [r \in Receipts |-> 0]
    /\ paid = [r \in Receipts |-> 0]
    /\ refunded = [r \in Receipts |-> 0]
    /\ gen = [r \in Receipts |-> 0]
    /\ verdicts = [r \in Receipts |-> [g \in Gens |-> "pending"]]

-----------------------------------------------------------------------------
(* The program's handlers: when each would succeed, and what it does.      *)

\* (mutant) the account is created "if needed"
CanStage_IfNeeded(r) == gen[r] < MaxGen

\* `*_with_action`: creating the PDA fails while the account exists.
CanStage(r) == base[r].state = "absent" /\ gen[r] < MaxGen

StageEffect(r, queue) ==
    /\ base' = [base EXCEPT ![r] = [state |-> "stub", decision |-> "pending"]]
    /\ gen' = [gen EXCEPT ![r] = @ + 1]
    /\ escrow' = [escrow EXCEPT ![r] = @ + 1]
    /\ queuedEr' = [queuedEr EXCEPT ![r] = IF queue THEN @ \cup {gen'[r]} ELSE @]
    /\ UNCHANGED <<er, queuedSettle, paid, refunded, verdicts>>

\* (mutant) processed is not looked at
CanEr_Again(r) == er[r].live

\* `*_er`: needs the delegated copy, and processed = 0 (else error 6076).
CanEr(r) == er[r].live /\ er[r].decision = "pending"

ErEffect(r, v) ==
    /\ er' = [er EXCEPT ![r].decision = v]
    /\ verdicts' = [verdicts EXCEPT ![r][gen[r]] = v]
    /\ UNCHANGED <<base, queuedSettle, escrow, paid, refunded, gen>>

\* `*_settle`: needs the receipt back on base and processed = 1 (else 6077).
CanSettle(r) == base[r].state = "open" /\ base[r].decision # "pending"

\* (mutant) the receipt survives its settle
SettleEffect_KeepsReceipt(r) ==
    /\ IF base[r].decision = "success"
         THEN paid' = [paid EXCEPT ![r] = @ + 1] /\ UNCHANGED refunded
         ELSE refunded' = [refunded EXCEPT ![r] = @ + 1] /\ UNCHANGED paid
    /\ escrow' = [escrow EXCEPT ![r] = @ - 1]
    /\ UNCHANGED <<base, er, queuedEr, gen, verdicts>>

SettleEffect(r) ==
    /\ IF base[r].decision = "success"
         THEN /\ paid' = [paid EXCEPT ![r] = @ + 1]
              /\ UNCHANGED refunded
         ELSE /\ refunded' = [refunded EXCEPT ![r] = @ + 1]
              /\ UNCHANGED paid
    /\ escrow' = [escrow EXCEPT ![r] = @ - 1]
    /\ base' = [base EXCEPT ![r] = NoAccount]
    /\ UNCHANGED <<er, queuedEr, gen, verdicts>>
-----------------------------------------------------------------------------
(* The validator.                                                          *)

\* The ER clones a delegated account it has not cloned yet.
Clone(r) ==
    /\ base[r].state = "stub"
    /\ ~er[r].live
    /\ er' = [er EXCEPT ![r] = [live |-> TRUE, decision |-> base[r].decision]]
    /\ UNCHANGED <<base, queuedEr, queuedSettle, escrow, paid, refunded, gen,
                   verdicts>>

\* The `_er` the base transaction queued runs on the ER ...
QueuedErRuns(r) ==
    \E g \in queuedEr[r] :
        /\ CanEr(r)
        /\ \E v \in Finals : ErEffect(r, v)
        /\ queuedEr' = [queuedEr EXCEPT ![r] = @ \ {g}]

\* ... or fails (it ran too late, or out of accounts) and is not retried.
QueuedErFails(r) ==
    \E g \in queuedEr[r] :
        /\ queuedEr' = [queuedEr EXCEPT ![r] = @ \ {g}]
        /\ UNCHANGED <<base, er, queuedSettle, escrow, paid, refunded, gen,
                       verdicts>>

\* (mutant) the ER keeps its copy
Undelegate_KeepsCopy(r) ==
    /\ er[r].live
    /\ er[r].decision # "pending"
    /\ base' = [base EXCEPT ![r] = [state |-> "open", decision |-> er[r].decision]]
    /\ queuedSettle' = [queuedSettle EXCEPT ![r] = @ \cup {gen[r]}]
    /\ UNCHANGED <<er, queuedEr, escrow, paid, refunded, gen, verdicts>>

\* commit_and_undelegate: the ER's copy overwrites the stub, the program owns
\* the account again and settle is queued behind it.
Undelegate(r) ==
    /\ er[r].live
    /\ er[r].decision # "pending"
    /\ base' = [base EXCEPT ![r] = [state |-> "open", decision |-> er[r].decision]]
    /\ er' = [er EXCEPT ![r] = NoCopy]
    /\ queuedSettle' = [queuedSettle EXCEPT ![r] = @ \cup {gen[r]}]
    /\ UNCHANGED <<queuedEr, escrow, paid, refunded, gen, verdicts>>

QueuedSettleRuns(r) ==
    \E g \in queuedSettle[r] :
        /\ CanSettle(r)
        /\ SettleEffect(r)
        /\ queuedSettle' = [queuedSettle EXCEPT ![r] = @ \ {g}]

\* "that action can fail, leaving the receipt undelegated + processed + open"
QueuedSettleFails(r) ==
    \E g \in queuedSettle[r] :
        /\ queuedSettle' = [queuedSettle EXCEPT ![r] = @ \ {g}]
        /\ UNCHANGED <<base, er, queuedEr, escrow, paid, refunded, gen, verdicts>>

Validator(r) ==
    \/ Clone(r)
    \/ QueuedErRuns(r)
    \/ QueuedErFails(r)
    \/ Undelegate(r)
    \/ QueuedSettleRuns(r)
    \/ QueuedSettleFails(r)
-----------------------------------------------------------------------------
(* Anybody's transactions, with no assumption about who sends them when.   *)

SendStage(r)  == \E q \in BOOLEAN : CanStage(r) /\ StageEffect(r, q)
SendEr(r)     == \E v \in Finals : CanEr(r) /\ ErEffect(r, v) /\ UNCHANGED queuedEr
SendSettle(r) == CanSettle(r) /\ SettleEffect(r) /\ UNCHANGED queuedSettle

ChainNext ==
    \E r \in Receipts :
        Validator(r) \/ SendStage(r) \/ SendEr(r) \/ SendSettle(r)

ChainSpec == ChainInit /\ [][ChainNext]_chainVars

\* The stake taken by the g-th staging has left: the address is free, or was
\* free before it was staged again.
Closed(r, g) == g < gen[r] \/ base[r].state = "absent"
-----------------------------------------------------------------------------
ChainTypeOK ==
    /\ base \in [Receipts -> BaseAccount]
    /\ er \in [Receipts -> ErAccount]
    /\ queuedEr \in [Receipts -> SUBSET Gens]
    /\ queuedSettle \in [Receipts -> SUBSET Gens]
    /\ escrow \in [Receipts -> Nat]
    /\ paid \in [Receipts -> Nat]
    /\ refunded \in [Receipts -> Nat]
    /\ gen \in [Receipts -> 0..MaxGen]
    /\ verdicts \in [Receipts -> [Gens -> Decisions]]

\* Every stake is accounted for: it is held by the one open receipt, or it was
\* paid out, or it was refunded - whichever of the queued action, a script and
\* a second script settled it, and however often the address was reused.
Conservation ==
    \A r \in Receipts :
        /\ escrow[r] = IF base[r].state = "absent" THEN 0 ELSE 1
        /\ gen[r] = escrow[r] + paid[r] + refunded[r]

\* What is on either chain is the verdict of the current generation: no stale
\* copy or stub of an earlier staging is ever settled.
CopiesAgree ==
    \A r \in Receipts :
        /\ er[r].live => base[r].state = "stub"
        /\ base[r].state # "open" => base[r].decision = "pending"
        /\ base[r].state = "open" =>
              /\ base[r].decision = verdicts[r][gen[r]]
              /\ base[r].decision # "pending"
        /\ er[r].live => er[r].decision = verdicts[r][gen[r]]

\* A stake leaves the escrow only after `_er` decided about that very stake,
\* and it goes where the verdict says.
SettledAsDecided ==
    [][\A r \in Receipts :
          /\ paid'[r] # paid[r] => verdicts[r][gen[r]] = "success"
          /\ refunded'[r] # refunded[r] => verdicts[r][gen[r]] = "failure"]_chainVars

\* A verdict is final: no queued, repeated or late `_er` decides a second time.
VerdictIsFinal ==
    [][\A r \in Receipts, g \in Gens :
          verdicts[r][g] # "pending" => verdicts'[r][g] = verdicts[r][g]]_chainVars

(***************************************************************************)
(* The chains keep the promise.  The abstract verdict is read from the ER  *)
(* copy while there is one and from the base account otherwise.            *)
(***************************************************************************)
Verdict == [r \in Receipts |-> IF er[r].live THEN er[r].decision
                                             ELSE base[r].decision]

Promise == INSTANCE ReceiptPromise WITH held <- escrow, verdict <- Verdict
PromiseKept == Promise!PromiseSpec
=============================================================================
