------------------------------- MODULE LpScripts -------------------------------
(***************************************************************************)
(* The LP / migrate scripts of examples/lp as processes that race each     *)
(* other, the validator and a front end over the same receipt address:     *)
(*   "new"      a flow script with an amount: stage, poll, `_er`, finalize *)
(*   "resume"   the same script with amount 0                              *)
(*   "close"    closeReceipt.ts                                            *)
(*   "pending"  processOne of _pending.ts                                  *)
(* Every RPC read and every transaction is a step of its own: what a       *)
(* script knows is what it read, and a transaction it gave up on may still *)
(* land.                                                                   *)
(***************************************************************************)
EXTENDS ReceiptChain

CONSTANTS Drivers,   \* running scripts
          Scripts,   \* the scripts they may run
          RpcMiss,   \* may an RPC read fail (and be caught as null)?
          Dust       \* stagings whose steps the program may reject for ever

ASSUME ScriptsAssumption == /\ Scripts \subseteq {"new", "resume", "close", "pending"}
                            /\ RpcMiss \in BOOLEAN
ASSUME DustAssumption == Dust \subseteq Receipts \X Gens

VARIABLES drv,   \* drv[d]: the state of script process d
          late   \* transactions whose sender stopped waiting for them

scriptVars == <<chainVars, drv, late>>

Kinds == {"stage", "er", "settle"}
Results == {"none", "absent", "delegated", "auto", "pending", "needs-er",
            "settle", "error"}
Pcs == {"idle", "stageTx", "readBase", "readEr", "fetch", "poll", "erTx",
        "wait", "decide", "settleTx", "verify"}

(***************************************************************************)
(* seen: the base account as the script's first read showed it             *)
(* tx: the transaction it waits for; branch: the decision finalize read    *)
(* target (history): the generation the script is about, 0 if none         *)
(***************************************************************************)
Driver == [pc : Pcs, script : Scripts \cup {"none"}, r : Receipts,
           seen : {"absent", "stub", "open"}, branch : Decisions,
           tx : {"none", "sent", "ok", "err"}, res : Results, target : 0..MaxGen]

Late == [kind : Kinds, r : Receipts]

Init ==
    /\ ChainInit
    /\ drv \in [Drivers -> {[pc |-> "idle", script |-> "none", r |-> r,
                             seen |-> "absent", branch |-> "pending",
                             tx |-> "none", res |-> "none", target |-> 0]
                              : r \in Receipts}]
    /\ late = {}

-----------------------------------------------------------------------------
(* What a read of the base chain or of the ER may show. A failed read is   *)
(* caught and looks like a missing account. The ER may also serve a        *)
(* read-only clone of an account that is not delegated.                    *)

BaseReads(r) == {base[r].state} \cup (IF RpcMiss THEN {"absent"} ELSE {})

ErReads(r) ==
    CASE base[r].state = "absent" -> {FALSE}
      [] base[r].state = "open"   -> BOOLEAN
      [] base[r].state = "stub"   -> {er[r].live} \cup (IF RpcMiss THEN {FALSE} ELSE {})

(* Moves of script process d. *)
Becomes(d, D) == drv' = [drv EXCEPT ![d] = D]

\* (Once the caller has routed on receiptState, what it saw first is gone.)
Goto(d, pc) == Becomes(d, [drv[d] EXCEPT !.pc = pc, !.seen = "absent"])

Finish(d, res) ==
    Becomes(d, [drv[d] EXCEPT !.pc = "idle", !.res = res, !.seen = "absent",
                              !.tx = "none"])

Send(d, pc) == Becomes(d, [drv[d] EXCEPT !.pc = pc, !.tx = "sent"])

Local == UNCHANGED <<chainVars, late>>
-----------------------------------------------------------------------------
\* main() of a script: pick the receipt, and resume or stage.
Start(d, s, r) ==
    /\ drv[d].pc = "idle"
    /\ Becomes(d, [pc |-> IF s = "new" THEN "stageTx" ELSE "readBase",
                   script |-> s, r |-> r, seen |-> "absent", branch |-> "pending",
                   tx |-> IF s = "new" THEN "sent" ELSE "none", res |-> "none",
                   target |-> IF s # "new" /\ base[r].state # "absent"
                                THEN gen[r] ELSE 0])
    /\ Local

\* (mutant) an account the program does not own counts as missing
ReadBase_ForeignIsAbsent(d) ==
    /\ drv[d].pc = "readBase"
    /\ \E st \in BaseReads(drv[d].r) :
          Becomes(d, [drv[d] EXCEPT !.pc = "readEr",
                                    !.seen = IF st = "open" THEN st ELSE "absent",
                                    !.target = IF st = "absent" THEN @ ELSE gen[drv[d].r]])
    /\ Local

\* receiptState, first read: getAccountInfo on base, errors caught as null.
ReadBase(d) ==
    /\ drv[d].pc = "readBase"
    /\ \E st \in BaseReads(drv[d].r) :
          Becomes(d, [drv[d] EXCEPT !.pc = "readEr", !.seen = st,
                                    !.target = IF st = "absent" THEN @ ELSE gen[drv[d].r]])
    /\ Local

\* receiptState, second read: getAccountInfo on the ER, then the routing of
\* the caller: nothing to do, fetch the account, or "delegated".
ReadEr(d) ==
    /\ drv[d].pc = "readEr"
    /\ \E visible \in ErReads(drv[d].r) :
          \/ /\ drv[d].seen = "absent" /\ ~visible
             /\ Finish(d, "absent")
          \/ /\ drv[d].seen = "open"
             /\ Goto(d, "fetch")
          \/ /\ drv[d].seen = "stub"
             /\ IF drv[d].script = "close" THEN Finish(d, "delegated")
                                           ELSE Goto(d, "poll")
          \/ /\ drv[d].seen = "absent" /\ visible
             /\ IF drv[d].script = "close"
                  THEN Finish(d, "delegated")
                  ELSE Becomes(d, [drv[d] EXCEPT !.pc = "poll", !.seen = "absent",
                                                 !.target = gen[drv[d].r]])
    /\ Local

\* receiptState, third read: program.account[ns].fetch throws on a missing
\* account and on an RPC error; it decodes a delegated account too.
Fetch(d) ==
    LET r == drv[d].r IN
    /\ drv[d].pc = "fetch"
    /\ \/ /\ base[r].state = "absent" \/ RpcMiss
          /\ Finish(d, "error")
       \/ /\ base[r].state # "absent"
          /\ Goto(d, IF base[r].decision # "pending" \/ drv[d].script = "close"
                       THEN "wait" ELSE "poll")
    /\ Local

\* (mutant) the `_er` transaction is sent without waiting for the clone
PollSees_Blind(d) ==
    /\ drv[d].pc = "poll"
    /\ Send(d, "erTx")
    /\ Local

\* pollVisibleOnEr: go on when the ER shows the receipt; on timeout the flow
\* scripts throw, processOne tries `_er` anyway.
PollSees(d) ==
    /\ drv[d].pc = "poll"
    /\ TRUE \in ErReads(drv[d].r)
    /\ Send(d, "erTx")
    /\ Local

PollExpires(d) ==
    /\ drv[d].pc = "poll"
    /\ IF drv[d].script = "pending" THEN Send(d, "erTx") ELSE Finish(d, "error")
    /\ Local

AfterTx(pc) == CASE pc = "stageTx" -> "poll" [] pc = "erTx" -> "wait"
                 [] pc = "settleTx" -> "verify"

\* sendBase / sendEr return ...
TxOk(d) ==
    /\ drv[d].tx = "ok"
    /\ Becomes(d, [drv[d] EXCEPT !.pc = AfterTx(@), !.tx = "none"])
    /\ Local

\* ... or throw, because the transaction failed ...
TxFailed(d) ==
    /\ drv[d].tx = "err"
    /\ Finish(d, "error")
    /\ Local

TxKind(pc) == CASE pc = "stageTx" -> "stage" [] pc = "erTx" -> "er"
                [] pc = "settleTx" -> "settle"

\* ... or because the wait for it ran out; it may land later all the same.
TxExpires(d) ==
    /\ drv[d].tx = "sent" \/ (RpcMiss /\ drv[d].pc = "erTx" /\ drv[d].tx # "none")
    /\ late' = IF drv[d].tx = "sent"
                 THEN late \cup {[kind |-> TxKind(drv[d].pc), r |-> drv[d].r]}
                 ELSE late
    /\ Finish(d, "error")
    /\ UNCHANGED chainVars

\* (mutants) an account owned by the delegation program counts as closed; the
\* owner is not looked at
Wait_DelegatedIsGone(d) ==
    /\ drv[d].pc = "wait"
    /\ \E st \in BaseReads(drv[d].r) :
          \/ st # "open" /\ Finish(d, "auto")
          \/ st = "open" /\ Goto(d, "decide")
    /\ Local

Wait_AnyOwner(d) ==
    /\ drv[d].pc = "wait"
    /\ \E st \in BaseReads(drv[d].r) :
          \/ st = "absent" /\ Finish(d, "auto")
          \/ st # "absent" /\ Goto(d, "decide")
    /\ Local

\* finalizeReceipt 1: null means closed, owned by the program means ours to
\* close; a delegated account is read again until the wait ends.
Wait(d) ==
    /\ drv[d].pc = "wait"
    /\ \E st \in BaseReads(drv[d].r) :
          \/ st = "absent" /\ Finish(d, "auto")
          \/ st = "open" /\ Goto(d, "decide")
          \/ st = "stub" /\ Finish(d, "pending")
    /\ Local

\* (mutants) an undelegated receipt is settled without reading processed; the
\* output's meaning is inverted; settling is left to the queued action
Decide_Unprocessed(d) ==
    LET r == drv[d].r IN
    /\ drv[d].pc = "decide"
    /\ \/ base[r].state = "absent" /\ Finish(d, "error")
       \/ /\ base[r].state # "absent"
          /\ Becomes(d, [drv[d] EXCEPT !.pc = "settleTx", !.tx = "sent",
                                       !.branch = base[r].decision, !.target = gen[r]])
    /\ Local

Decide_Inverted(d) ==
    LET r == drv[d].r IN
    /\ drv[d].pc = "decide"
    /\ \/ base[r].decision = "pending" /\ Finish(d, "error")
       \/ /\ base[r].decision # "pending"
          /\ Becomes(d, [drv[d] EXCEPT !.pc = "settleTx", !.tx = "sent",
                                       !.branch = CHOOSE b \in Finals : b # base[r].decision,
                                       !.target = gen[r]])
    /\ Local

Decide_TrustsQueue(d) == drv[d].pc = "decide" /\ Finish(d, "settle") /\ Local

\* finalizeReceipt 2: fetch the receipt, and drive settle if it is processed.
Decide(d) ==
    LET r == drv[d].r IN
    /\ drv[d].pc = "decide"
    /\ \/ /\ base[r].state = "absent" \/ RpcMiss
          /\ Finish(d, "error")
       \/ /\ base[r].state # "absent"
          /\ base[r].decision = "pending"
          /\ Finish(d, "needs-er")
       \/ /\ base[r].state # "absent"
          /\ base[r].decision # "pending"
          /\ Becomes(d, [drv[d] EXCEPT !.pc = "settleTx", !.tx = "sent",
                                       !.branch = base[r].decision, !.target = gen[r]])
    /\ Local

\* finalizeReceipt 3: the settle transaction went through; is it gone?  The
\* sender waits for "processed" and the read is of "confirmed", so the account
\* may still be there.
Verify(d) ==
    /\ drv[d].pc = "verify"
    /\ \E st \in BaseReads(drv[d].r) \cup {"open"} :
          Finish(d, IF st = "absent" THEN "settle" ELSE "error")
    /\ Local

\* The process is killed; its transaction is not.
Crash(d) ==
    /\ drv[d].pc # "idle"
    /\ late' = IF drv[d].tx = "sent"
                 THEN late \cup {[kind |-> TxKind(drv[d].pc), r |-> drv[d].r]}
                 ELSE late
    /\ Finish(d, "error")
    /\ UNCHANGED chainVars
-----------------------------------------------------------------------------
\* The program accepts a transaction.
Execute(kind, r) ==
    \/ kind = "stage" /\ CanStage(r) /\ StageEffect(r, FALSE)
    \/ kind = "er" /\ CanEr(r) /\ UNCHANGED queuedEr /\ \E v \in Finals : ErEffect(r, v)
    \/ kind = "settle" /\ CanSettle(r) /\ SettleEffect(r) /\ UNCHANGED queuedSettle

LandOk(d) ==
    /\ drv[d].tx = "sent"
    /\ Execute(TxKind(drv[d].pc), drv[d].r)
    /\ Becomes(d, [drv[d] EXCEPT !.tx = "ok",
                                 !.target = IF drv[d].pc = "stageTx" THEN gen'[drv[d].r]
                                                                     ELSE @])
    /\ UNCHANGED late

\* ... or rejects it: out of turn, or because of its amounts ("trips a `> 0`
\* constraint and leaves the receipt open"), its accounts or the price.
LandFails(d) ==
    /\ drv[d].tx = "sent"
    /\ Becomes(d, [drv[d] EXCEPT !.tx = "err"])
    /\ Local

\* Late transactions: one set element stands for any number of copies.
LandLate ==
    \E x \in late :
        /\ Execute(x.kind, x.r)
        /\ late' \in {late, late \ {x}}
        /\ UNCHANGED drv

\* They are dropped, or rejected.
DropLate ==
    /\ \E x \in late : late' = late \ {x}
    /\ UNCHANGED <<chainVars, drv>>

\* A front end of the same owner stages with the `_er` step queued.
FrontEnd(r) == CanStage(r) /\ StageEffect(r, TRUE) /\ UNCHANGED <<drv, late>>

Chain(r) == Validator(r) /\ UNCHANGED <<drv, late>>

Step(d) ==
    \/ ReadBase(d) \/ ReadEr(d) \/ Fetch(d) \/ PollSees(d) \/ PollExpires(d)
    \/ TxOk(d) \/ TxFailed(d) \/ TxExpires(d) \/ Wait(d) \/ Decide(d) \/ Verify(d)

Next ==
    \/ \E d \in Drivers :
          \/ \E s \in Scripts, r \in Receipts : Start(d, s, r)
          \/ Step(d)
          \/ LandOk(d) \/ LandFails(d)
          \/ Crash(d)
    \/ \E r \in Receipts : FrontEnd(r) \/ Chain(r)
    \/ LandLate
    \/ DropLate

Spec == Init /\ [][Next]_scriptVars

(***************************************************************************)
(* Fairness: the validator keeps cloning and undelegating, and the user    *)
(* reruns a receipt's script and is not killed, timed out, outrun or       *)
(* rejected every single time - except that the program may reject the     *)
(* steps of a dust staging for ever. Nothing is assumed of the queued      *)
(* actions, of the front end, or of transactions nobody waits for.         *)
(***************************************************************************)
ChainFairness ==
    \A r \in Receipts : /\ WF_scriptVars(Clone(r) /\ UNCHANGED <<drv, late>>)
                        /\ WF_scriptVars(Undelegate(r) /\ UNCHANGED <<drv, late>>)

\* A wait ends, one way or the other.
Timers(d) == TxOk(d) \/ TxFailed(d) \/ TxExpires(d) \/ PollExpires(d) \/ Verify(d)

\* The `_er` or settle a script drives for r is accepted.
Accepted(d, r) ==
    /\ drv[d].r = r /\ drv[d].pc \in {"erTx", "settleTx"}
    /\ <<r, gen[r]>> \notin Dust
    /\ LandOk(d)

DriverFairness(d) ==
    /\ WF_scriptVars(Timers(d))
    /\ \A r \in Receipts :
          /\ SF_scriptVars(Start(d, "resume", r))
          /\ SF_scriptVars(drv[d].r = r /\ ReadBase(d))
          /\ SF_scriptVars(drv[d].r = r /\ ReadEr(d))
          /\ SF_scriptVars(drv[d].r = r /\ Fetch(d))
          /\ SF_scriptVars(drv[d].r = r /\ PollSees(d))
          /\ SF_scriptVars(drv[d].r = r /\ Wait(d))
          /\ SF_scriptVars(drv[d].r = r /\ Decide(d))
          /\ SF_scriptVars(Accepted(d, r))

FairSpec == Spec /\ ChainFairness /\ \A d \in Drivers : DriverFairness(d)
-----------------------------------------------------------------------------
TypeOK ==
    /\ ChainTypeOK
    /\ drv \in [Drivers -> Driver]
    /\ late \subseteq Late

\* A script that reports its receipt closed ("already closed, nothing to
\* resume", "closed by the ER-queued action", "receipt closed on base") is
\* right about the staking it was started on or read, whoever closed it and
\* however often the address was staged again meanwhile.
ClosedClaim ==
    \A d \in Drivers :
        drv[d].res \in {"absent", "auto", "settle"} /\ drv[d].target # 0
            => Closed(drv[d].r, drv[d].target)

\* The outcome finalizeReceipt reports with action "settle" is the verdict of
\* the staking it read, even when another script's settle won the race and
\* this one's hit a later staking of the same address.
OutcomeIsVerdict ==
    \A d \in Drivers :
        drv[d].res = "settle" =>
            /\ drv[d].branch = verdicts[drv[d].r][drv[d].target]
            /\ Closed(drv[d].r, drv[d].target)

\* Whoever raced it, the state of the receipt is never what stops a step a
\* script drives, unless the step was taken meanwhile: an `_er` is sent for a
\* receipt the ER can decide or has decided, a settle for one that is decided
\* and back on base or closed. (processOne sends `_er` without having seen the
\* receipt on the ER.)
DrivenStepIsDue ==
    \A d \in Drivers :
        LET r == drv[d].r
            g == drv[d].target
        IN  g # 0 =>
              /\ drv[d].pc = "erTx" /\ drv[d].script # "pending"
                    => CanEr(r) \/ verdicts[r][g] # "pending"
              /\ drv[d].pc = "settleTx" => CanSettle(r) \/ Closed(r, g)

\* "_er hasn't committed (shouldn't happen on the undelegated path)": when
\* finalizeReceipt reports needs-er all the same, the staking it waited for is
\* closed and what it read is a later one - it is never this stake that the
\* caller has to drive `_er` for.
NeedsErMeansReused ==
    \A d \in Drivers :
        drv[d].res = "needs-er" /\ drv[d].target # 0
            => Closed(drv[d].r, drv[d].target)

\* Rerunning a script heals: whatever was killed, lost, late, raced or rejected,
\* every stake is eventually paid out or sent back, if it is not dust.
SelfHealing ==
    \A r \in Receipts, g \in Gens :
        <<r, g>> \notin Dust => (gen[r] = g ~> Closed(r, g))
=============================================================================
