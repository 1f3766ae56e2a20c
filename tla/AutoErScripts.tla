----------------------------- MODULE AutoErScripts -----------------------------
(***************************************************************************)
(* The flows whose `_er` step the program always queues itself: the FAF    *)
(* scripts of examples/token and the collateral withdrawal of              *)
(* examples/setup.  They send one base transaction, then watch the base    *)
(* chain for the receipt to go away:                                       *)
(*   "token"     deposit / withdraw / collect: driveAutoErFlow             *)
(*   "resume"    the same with RESUME=1: `_er` by hand, then watch         *)
(*   "withdraw"  requestWithdrawal.ts, paid for by a throwaway key         *)
(* None of them sends a settle.                                            *)
(*                                                                         *)
(* They read the base chain at "confirmed"; what that shows may be older   *)
(* than what the sender's own confirmation level made it wait for.         *)
(***************************************************************************)
EXTENDS ReceiptChain

CONSTANTS Drivers,    \* running scripts
          WaitsFor,   \* txConfirmationCommitment: "processed" or "confirmed"
          RpcMiss,    \* may a read fail (and be caught as null or 0)?
          Dust        \* stagings whose `_er` the program may reject for ever

ASSUME AutoErAssumption == /\ WaitsFor \in {"processed", "confirmed"}
                           /\ RpcMiss \in BOOLEAN
ASSUME DustAssumption == Dust \subseteq Receipts \X Gens

VARIABLES kind,  \* kind[r]: what r is the receipt of (never changes)
          view,  \* view[r]: what "confirmed" reads of the base chain show
          drv,   \* drv[d]: the state of script process d
          late   \* transactions whose sender stopped waiting for them

autoVars == <<chainVars, kind, view, drv, late>>

ScriptsFor == [token |-> {"token", "resume"}, escrow |-> {"withdraw"}]

Pcs == {"idle", "stageTx", "pollEr", "erTx", "poll", "await", "balance",
        "purse", "reclaimTx"}

(***************************************************************************)
(* seen: awaitClosed's flag; answer: what it returned; purse: lamports are *)
(* left with the throwaway payer                                           *)
(* target (history): the generation the script is about, 0 if none         *)
(***************************************************************************)
Driver == [pc : Pcs, script : {"none", "token", "resume", "withdraw"},
           r : Receipts, seen : BOOLEAN, answer : {"none", "closed", "timeout"},
           purse : BOOLEAN, tx : {"none", "sent", "ok", "err"},
           res : {"none", "settled", "error"}, target : 0..MaxGen]

TxKinds == {"stage", "er"}

Init ==
    /\ ChainInit
    /\ kind \in [Receipts -> {"token", "escrow"}]
    /\ view = [r \in Receipts |-> [gen |-> 0, exists |-> FALSE]]
    /\ drv \in [Drivers -> {[pc |-> "idle", script |-> "none", r |-> r,
                             seen |-> FALSE, answer |-> "none", purse |-> FALSE,
                             tx |-> "none", res |-> "none", target |-> 0]
                              : r \in Receipts}]
    /\ late = {}
-----------------------------------------------------------------------------
\* A block is confirmed: "confirmed" reads move on to the account's next state,
\* its close or its next staging.
Confirm(r) ==
    /\ \/ /\ view[r].exists
          /\ Closed(r, view[r].gen)
          /\ view' = [view EXCEPT ![r].exists = FALSE]
       \/ /\ ~view[r].exists
          /\ view[r].gen < gen[r]
          /\ view' = [view EXCEPT ![r] = [gen |-> @.gen + 1, exists |-> TRUE]]
    /\ UNCHANGED <<chainVars, kind, drv, late>>

\* getAccountInfo on base, and a failed read caught as null.
Exists(r) == {view[r].exists} \cup (IF RpcMiss THEN {FALSE} ELSE {})

\* getAccountInfo on the ER, which may also serve a read-only clone.
VisibleOnEr(r) ==
    CASE base[r].state = "absent" -> {FALSE}
      [] base[r].state = "open"   -> BOOLEAN
      [] base[r].state = "stub"   -> {er[r].live} \cup (IF RpcMiss THEN {FALSE} ELSE {})

(* Moves of script process d. *)
Becomes(d, D) == drv' = [drv EXCEPT ![d] = D]
Goto(d, pc) == Becomes(d, [drv[d] EXCEPT !.pc = pc])
Finish(d, res) == Becomes(d, [drv[d] EXCEPT !.pc = "idle", !.res = res, !.tx = "none",
                                            !.seen = FALSE])
Send(d, pc) == Becomes(d, [drv[d] EXCEPT !.pc = pc, !.tx = "sent"])

Local == UNCHANGED <<chainVars, kind, view, late>>
-----------------------------------------------------------------------------
\* (mutant) RESUME=1 is not looked at
Start_AlwaysStages(d, s, r) ==
    /\ drv[d].pc = "idle"
    /\ s \in ScriptsFor[kind[r]]
    /\ Becomes(d, [pc |-> "stageTx", script |-> s, r |-> r, seen |-> FALSE,
                   answer |-> "none", purse |-> FALSE, tx |-> "sent",
                   res |-> "none", target |-> 0])
    /\ Local

\* main(): stage, or with RESUME=1 look for the receipt on the ER.  A
\* withdrawal funds a new throwaway payer in its own transaction.
Start(d, s, r) ==
    /\ drv[d].pc = "idle"
    /\ s \in ScriptsFor[kind[r]]
    /\ Becomes(d, [pc |-> IF s = "resume" THEN "pollEr" ELSE "stageTx",
                   script |-> s, r |-> r, seen |-> FALSE, answer |-> "none",
                   purse |-> FALSE, tx |-> IF s = "resume" THEN "none" ELSE "sent",
                   res |-> "none", target |-> 0])
    /\ Local

\* (mutant) a delegated account on base is enough
PollErSees_Base(d) ==
    /\ drv[d].pc = "pollEr"
    /\ base[drv[d].r].state = "stub"
    /\ Becomes(d, [drv[d] EXCEPT !.pc = "erTx", !.tx = "sent", !.target = gen[drv[d].r]])
    /\ Local

\* pollVisibleOnEr: the ER has the receipt; or 30 s pass and it throws.
PollErSees(d) ==
    /\ drv[d].pc = "pollEr"
    /\ TRUE \in VisibleOnEr(drv[d].r)
    /\ Becomes(d, [drv[d] EXCEPT !.pc = "erTx", !.tx = "sent", !.target = gen[drv[d].r]])
    /\ Local

PollErExpires(d) == drv[d].pc = "pollEr" /\ Finish(d, "error") /\ Local

AfterTx(D) == CASE D.pc = "reclaimTx" -> "idle"
                [] D.pc = "stageTx" /\ D.script = "withdraw" -> "await"
                [] OTHER -> "poll"

\* (mutant) the sender returns before the block is confirmed
TxOk_Early(d) ==
    /\ drv[d].tx = "ok"
    /\ Becomes(d, [drv[d] EXCEPT !.pc = AfterTx(drv[d]), !.tx = "none",
                                 !.res = IF drv[d].pc = "reclaimTx" THEN "settled" ELSE @])
    /\ Local

\* sendBase / sendEr return once the block is at the client's commitment ...
TxOk(d) ==
    /\ drv[d].tx = "ok"
    /\ WaitsFor = "confirmed" => view[drv[d].r].gen >= drv[d].target
    /\ Becomes(d, [drv[d] EXCEPT !.pc = AfterTx(drv[d]), !.tx = "none",
                                 !.res = IF drv[d].pc = "reclaimTx" THEN "settled" ELSE @])
    /\ Local

\* ... or throw, because the transaction failed ...
TxFailed(d) == drv[d].tx = "err" /\ Finish(d, "error") /\ Local

KeepLate(d) ==
    late' = IF drv[d].tx = "sent" /\ drv[d].pc \in {"stageTx", "erTx"}
              THEN late \cup {[kind |-> IF drv[d].pc = "stageTx" THEN "stage" ELSE "er",
                               r |-> drv[d].r]}
              ELSE late

\* ... or because the wait for it ran out; it may land later all the same.
TxExpires(d) ==
    /\ drv[d].tx = "sent"
    /\ KeepLate(d)
    /\ Finish(d, "error")
    /\ UNCHANGED <<chainVars, kind, view>>

\* (mutant) a receipt that is back on base counts as settled
Poll_UndelegatedIsDone(d) ==
    /\ drv[d].pc = "poll"
    /\ \/ FALSE \in Exists(drv[d].r) \/ base[drv[d].r].state = "open"
    /\ Finish(d, "settled")
    /\ Local

\* pollReceiptSettled: the first read that shows no account ends it ...
Poll(d) ==
    /\ drv[d].pc = "poll"
    /\ FALSE \in Exists(drv[d].r)
    /\ Finish(d, "settled")
    /\ Local

\* ... and so do 90 s.
PollExpires(d) == drv[d].pc = "poll" /\ Finish(d, "error") /\ Local

\* awaitClosed: "closed" is seen and then gone ...
Await(d) ==
    /\ drv[d].pc = "await"
    /\ \/ TRUE \in Exists(drv[d].r) /\ Becomes(d, [drv[d] EXCEPT !.seen = TRUE])
       \/ /\ FALSE \in Exists(drv[d].r) /\ drv[d].seen
          /\ Becomes(d, [drv[d] EXCEPT !.pc = "balance", !.answer = "closed"])
    /\ Local

\* ... or 30 s, which outlast the confirmation of the script's own block.
AwaitExpires(d) ==
    /\ drv[d].pc = "await"
    /\ view[drv[d].r].gen >= drv[d].target
    /\ Becomes(d, [drv[d] EXCEPT !.pc = "balance", !.answer = "timeout"])
    /\ Local

\* The answer is not looked at.  getTokenAccountBalance of the owner's
\* account, which throws on an RPC error.
Balance(d) ==
    /\ drv[d].pc = "balance"
    /\ \/ Goto(d, "purse")
       \/ RpcMiss /\ Finish(d, "error")
    /\ Local

\* getBalance of the throwaway payer, a "confirmed" read: it shows what the
\* script's own block funded once that block is confirmed.
PayerHas(d) == drv[d].purse /\ view[drv[d].r].gen >= drv[d].target

\* (mutant) the payer is emptied only if the escrow was seen to close
Purse_IfClosed(d) ==
    /\ drv[d].pc = "purse"
    /\ \/ PayerHas(d) /\ drv[d].answer = "closed" /\ Send(d, "reclaimTx")
       \/ (~PayerHas(d) \/ drv[d].answer # "closed" \/ RpcMiss) /\ Finish(d, "settled")
    /\ Local

\* What is there is sent back to the owner; a failed read counts as 0.
Purse(d) ==
    /\ drv[d].pc = "purse"
    /\ \/ PayerHas(d) /\ Send(d, "reclaimTx")
       \/ (~PayerHas(d) \/ RpcMiss) /\ Finish(d, "settled")
    /\ Local

\* The process is killed; its transaction is not.
Crash(d) ==
    /\ drv[d].pc # "idle"
    /\ KeepLate(d)
    /\ Finish(d, "error")
    /\ UNCHANGED <<chainVars, kind, view>>
-----------------------------------------------------------------------------
\* The program accepts a transaction.  `*_with_action` always queues `_er`.
Execute(k, r) ==
    \/ k = "stage" /\ CanStage(r) /\ StageEffect(r, TRUE)
    \/ k = "er" /\ CanEr(r) /\ UNCHANGED queuedEr /\ \E v \in Finals : ErEffect(r, v)

LandStage(d) ==
    /\ drv[d].pc = "stageTx" /\ drv[d].tx = "sent"
    /\ Execute("stage", drv[d].r)
    /\ Becomes(d, [drv[d] EXCEPT !.tx = "ok", !.target = gen'[drv[d].r],
                                 !.purse = (drv[d].script = "withdraw")])
    /\ UNCHANGED <<kind, view, late>>

LandEr(d) ==
    /\ drv[d].pc = "erTx" /\ drv[d].tx = "sent"
    /\ Execute("er", drv[d].r)
    /\ Becomes(d, [drv[d] EXCEPT !.tx = "ok"])
    /\ UNCHANGED <<kind, view, late>>

LandReclaim(d) ==
    /\ drv[d].pc = "reclaimTx" /\ drv[d].tx = "sent"
    /\ Becomes(d, [drv[d] EXCEPT !.tx = "ok", !.purse = FALSE])
    /\ Local

\* Any transaction may be rejected: out of turn, or because of its amounts, its
\* accounts or its fees.
LandFails(d) ==
    /\ drv[d].tx = "sent"
    /\ Becomes(d, [drv[d] EXCEPT !.tx = "err"])
    /\ Local

\* One set element stands for any number of copies.
LandLate ==
    \E x \in late :
        /\ Execute(x.kind, x.r)
        /\ late' \in {late, late \ {x}}
        /\ UNCHANGED <<kind, view, drv>>

\* They are dropped, or rejected.
DropLate ==
    /\ \E x \in late : late' = late \ {x}
    /\ UNCHANGED <<chainVars, kind, view, drv>>

\* Another client of the same owner stages.
FrontEnd(r) == CanStage(r) /\ StageEffect(r, TRUE) /\ UNCHANGED <<kind, view, drv, late>>

\* The ER clones accounts of confirmed blocks only.
CloneConfirmed(r) ==
    /\ view[r].gen = gen[r]
    /\ Clone(r)
    /\ UNCHANGED <<kind, view, drv, late>>

Chain(r) ==
    /\ QueuedErRuns(r) \/ QueuedErFails(r) \/ Undelegate(r)
         \/ QueuedSettleRuns(r) \/ QueuedSettleFails(r)
    /\ UNCHANGED <<kind, view, drv, late>>

Step(d) ==
    \/ PollErSees(d) \/ PollErExpires(d) \/ TxOk(d) \/ TxFailed(d) \/ TxExpires(d)
    \/ Poll(d) \/ PollExpires(d) \/ Await(d) \/ AwaitExpires(d)
    \/ Balance(d) \/ Purse(d)

Land(d) == LandStage(d) \/ LandEr(d) \/ LandReclaim(d) \/ LandFails(d)

Next ==
    \/ \E d \in Drivers :
          \/ \E r \in Receipts, s \in {"token", "resume", "withdraw"} : Start(d, s, r)
          \/ Step(d)
          \/ Land(d)
          \/ Crash(d)
    \/ \E r \in Receipts : Confirm(r) \/ FrontEnd(r) \/ CloneConfirmed(r) \/ Chain(r)
    \/ LandLate
    \/ DropLate

Spec == Init /\ [][Next]_autoVars

(***************************************************************************)
(* Fairness: blocks are confirmed and delegated accounts cloned, waits     *)
(* end, and the user reruns the script with RESUME=1 and is not killed,    *)
(* timed out or rejected every single time - except that the program may   *)
(* reject the `_er` of a dust staging for ever.  Nothing is assumed of the *)
(* queued actions.                                                         *)
(***************************************************************************)
Waits(d) == TxOk(d) \/ TxFailed(d) \/ TxExpires(d) \/ PollErExpires(d) \/ PollExpires(d)
              \/ AwaitExpires(d) \/ Balance(d) \/ Purse(d)

FairSpec ==
    /\ Spec
    /\ \A r \in Receipts : WF_autoVars(Confirm(r)) /\ WF_autoVars(CloneConfirmed(r))
    /\ \A d \in Drivers :
          /\ WF_autoVars(Waits(d))
          /\ \A r \in Receipts :
                /\ SF_autoVars(Start(d, "resume", r))
                /\ SF_autoVars(drv[d].r = r /\ PollErSees(d))
                /\ SF_autoVars(drv[d].r = r /\ <<r, gen[r]>> \notin Dust /\ LandEr(d))
-----------------------------------------------------------------------------
TypeOK ==
    /\ ChainTypeOK
    /\ kind \in [Receipts -> {"token", "escrow"}]
    /\ view \in [Receipts -> [gen : 0..MaxGen, exists : BOOLEAN]]
    /\ drv \in [Drivers -> Driver]
    /\ late \subseteq [kind : TxKinds, r : Receipts]

\* A token script that reports "receipt settled + closed on base" is right about
\* the staking it sent or resumed, although it takes the first read that shows
\* no account for the end.
TokenSettled ==
    \A d \in Drivers :
        drv[d].res = "settled" /\ drv[d].script # "withdraw"
            => Closed(drv[d].r, drv[d].target)

\* awaitClosed answers "closed" only when the escrow of this very withdrawal is
\* gone, even if the address was staged before and is staged again.
ClosedAnswer ==
    \A d \in Drivers :
        drv[d].answer = "closed" => Closed(drv[d].r, drv[d].target)

\* The `_er` a RESUME run sends is about a stake that the ER can decide, unless
\* the queued one decided it first ("double-executes") or it is closed: a stake
\* the run found on the ER is never out of its reach.
ErIsDue ==
    \A d \in Drivers :
        drv[d].pc = "erTx" =>
            LET r == drv[d].r
            IN  \/ CanEr(r)
                \/ verdicts[r][gen[r]] # "pending"
                \/ drv[d].target < gen[r]

\* A withdrawal that ran to its end left nothing with its throwaway payer.
PayerEmptied ==
    \A d \in Drivers :
        drv[d].res = "settled" /\ drv[d].script = "withdraw" => ~drv[d].purse

\* RESUME=1 is a recovery path: a stake of a token flow whose queued `_er` was
\* lost is decided all the same, if it is not dust.
ResumeDecides ==
    \A r \in Receipts, g \in Gens :
        <<r, g>> \notin Dust =>
            (kind[r] = "token" /\ gen[r] = g ~> verdicts[r][g] # "pending")
=============================================================================
