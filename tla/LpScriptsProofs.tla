--------------------------- MODULE LpScriptsProofs ---------------------------
(***************************************************************************)
(* What the LP scripts may rely on, for any number of scripts, receipts    *)
(* and re-stagings.  First, whatever scripts, crashes and late             *)
(* transactions do, the chains only ever take the steps of ReceiptChain,   *)
(* so its theorems carry over.  Second, a receipt only ever moves forward  *)
(* (ChainMovesOn), so what a script read about a staging stays true or the *)
(* staging is closed: that is why its reports are right as long as no RPC  *)
(* error is mistaken for a missing account.                                *)
(***************************************************************************)
EXTENDS LpScripts, ReceiptChainProofs

ScriptsTypeOK == drv \in [Drivers -> Driver] /\ late \subseteq Late

-----------------------------------------------------------------------------
(* Types.                                                                  *)

LEMMA DriverFields ==
    ASSUME ScriptsTypeOK, NEW d \in Drivers
    PROVE  /\ drv[d].pc \in Pcs /\ drv[d].script \in Scripts \cup {"none"}
           /\ drv[d].r \in Receipts /\ drv[d].seen \in {"absent", "stub", "open"}
           /\ drv[d].branch \in Decisions
           /\ drv[d].tx \in {"none", "sent", "ok", "err"}
           /\ drv[d].res \in Results /\ drv[d].target \in 0..MaxGen
  BY DEF ScriptsTypeOK, Driver

\* An execution is a step of the chains.
LEMMA ExecuteIsChainStep ==
    ASSUME NEW kind \in Kinds, NEW r \in Receipts, Execute(kind, r)
    PROVE  ChainNext
  <1>1. CASE kind = "stage" /\ CanStage(r) /\ StageEffect(r, FALSE)
    BY <1>1 DEF ChainNext, SendStage
  <1>2. CASE /\ kind = "er" /\ CanEr(r) /\ UNCHANGED queuedEr
             /\ \E v \in Finals : ErEffect(r, v)
    BY <1>2 DEF ChainNext, SendEr
  <1>3. CASE /\ kind = "settle" /\ CanSettle(r) /\ SettleEffect(r)
             /\ UNCHANGED queuedSettle
    BY <1>3 DEF ChainNext, SendSettle
  <1> QED BY <1>1, <1>2, <1>3 DEF Execute

LEMMA StepIsChainStep ==
    ASSUME ScriptsTypeOK, [Next]_scriptVars
    PROVE  [ChainNext]_chainVars
  <1>1. CASE UNCHANGED scriptVars
    BY <1>1 DEF scriptVars
  <1>2. ASSUME NEW d \in Drivers, NEW s \in Scripts, NEW r \in Receipts, Start(d, s, r)
        PROVE  UNCHANGED chainVars
    BY <1>2 DEF Start, Local
  <1>3. ASSUME NEW d \in Drivers, Step(d) \/ LandFails(d) \/ Crash(d)
        PROVE  UNCHANGED chainVars
    BY <1>3 DEF Step, ReadBase, ReadEr, Fetch, PollSees, PollExpires, TxOk, TxFailed,
       TxExpires, Wait, Decide, Verify, LandFails, Crash, Local
  <1>4. ASSUME NEW d \in Drivers, LandOk(d)
        PROVE  ChainNext
    <2>1. drv[d].r \in Receipts
      BY DriverFields
    <2>2. CASE TxKind(drv[d].pc) \in Kinds
      BY <1>4, <2>1, <2>2, ExecuteIsChainStep DEF LandOk
    <2>3. CASE TxKind(drv[d].pc) \notin Kinds
      BY <1>4, <2>3 DEF LandOk, Execute, Kinds
    <2> QED BY <2>2, <2>3
  <1>5. ASSUME NEW r \in Receipts, FrontEnd(r) \/ Chain(r)
        PROVE  ChainNext
    BY <1>5 DEF FrontEnd, Chain, ChainNext, SendStage
  <1>6. CASE LandLate
    BY <1>6, ExecuteIsChainStep DEF LandLate, ScriptsTypeOK, Late
  <1>7. CASE DropLate
    BY <1>7 DEF DropLate
  <1> QED BY <1>1, <1>2, <1>3, <1>4, <1>5, <1>6, <1>7 DEF Next

-----------------------------------------------------------------------------
(***************************************************************************)
(* What a script in state D knows: the staging it read is the current one  *)
(* or is over; a settle is only driven for a staging that is decided and   *)
(* back on base; and its reports are right.                                *)
(***************************************************************************)
TxPcs == {"stageTx", "erTx", "settleTx"}

ReportsRight(D) ==
    /\ ~RpcMiss /\ D.res \in {"absent", "auto", "settle"} /\ D.target # 0
          => Closed(D.r, D.target)
    /\ D.res = "needs-er" /\ D.target # 0 => Closed(D.r, D.target)
    /\ D.res = "settle" => D.target # 0 /\ D.branch = verdicts[D.r][D.target]
                                       /\ D.branch # "pending"

Knows(D) ==
    /\ D.tx # "none" => D.pc \in TxPcs
    /\ D.target <= gen[D.r]
    /\ D.pc # "idle" => D.res = "none"
    /\ ~RpcMiss /\ D.pc = "readEr" /\ D.seen = "absent" /\ D.target # 0
          => Closed(D.r, D.target)
    /\ D.pc \in {"settleTx", "verify"} =>
          /\ D.target # 0
          /\ D.branch = verdicts[D.r][D.target] /\ D.branch # "pending"
          /\ Closed(D.r, D.target) \/ base[D.r].state = "open"
    /\ D.pc = "erTx" /\ D.script # "pending" /\ D.target # 0 => OnErOrDecided(D.r, D.target)
    /\ D.pc = "decide" /\ D.target # 0 => Closed(D.r, D.target) \/ base[D.r].state = "open"
    /\ ReportsRight(D)

ScriptsInv == ScriptsTypeOK /\ \A d \in Drivers : Knows(drv[d])

LEMMA IsDriver == ASSUME ScriptsInv, NEW d \in Drivers PROVE drv[d] \in Driver
  BY DEF ScriptsInv, ScriptsTypeOK

\* Knowledge survives every step of the chains.
LEMMA KnowledgeLasts ==
    ASSUME ChainInv, [ChainNext]_chainVars, NEW D \in Driver, Knows(D)
    PROVE  Knows(D)'
  <1>1. D.r \in Receipts /\ D.target \in 0..MaxGen
    BY DEF Driver
  <1>2. gen[D.r] \in 0..MaxGen /\ gen'[D.r] \in 0..MaxGen /\ gen'[D.r] >= gen[D.r]
    BY <1>1, ChainMovesOn DEF MovesOn, ChainInv, ChainTypeOK
  <1>3. Closed(D.r, D.target) => Closed(D.r, D.target)'
    BY <1>1, <1>2, ChainMovesOn, MaxGenAssumption DEF MovesOn, Closed, Knows
  <1>4. base[D.r].state = "open" => base'[D.r].state = "open" \/ Closed(D.r, D.target)'
    BY <1>1, <1>2, ChainMovesOn, MaxGenAssumption DEF MovesOn, Closed, Knows
  <1>5. D.target # 0 /\ verdicts[D.r][D.target] # "pending"
           => verdicts'[D.r][D.target] = verdicts[D.r][D.target]
    BY <1>1, ChainMovesOn, MaxGenAssumption DEF MovesOn, Gens
  <1>6. D.target <= gen'[D.r]
    BY <1>1, <1>2, MaxGenAssumption DEF Knows
  <1>7. D.target # 0 /\ OnErOrDecided(D.r, D.target) => OnErOrDecided(D.r, D.target)'
    BY <1>1, ErOrDecidedLasts, MaxGenAssumption DEF Gens
  <1> QED BY <1>3, <1>4, <1>5, <1>6, <1>7 DEF Knows, ReportsRight

-----------------------------------------------------------------------------
(***************************************************************************)
(* Every action moves one script to a state it may be in, knowing what it  *)
(* may know, while the chains take a step of their own.                    *)
(***************************************************************************)
Moves(d) == \E D \in Driver : Becomes(d, D) /\ Knows(D)' /\ late' \subseteq Late

LEMMA LocalMove ==
    ASSUME ScriptsTypeOK, NEW d \in Drivers, NEW D \in Driver,
           Becomes(d, D), Knows(D), Local
    PROVE  Moves(d)
  <1>1. Knows(D)'
    BY DEF Local, chainVars, Knows, ReportsRight, Closed, OnErOrDecided
  <1> QED BY <1>1 DEF Moves, Local, ScriptsTypeOK

LEMMA FinishMove ==
    ASSUME ChainInv, ScriptsInv, NEW d \in Drivers, NEW res \in Results,
           Finish(d, res), UNCHANGED chainVars, late' \subseteq Late,
           ReportsRight([drv[d] EXCEPT !.res = res])
    PROVE  Moves(d)
  <1>1. PICK D \in Driver :
           D = [drv[d] EXCEPT !.pc = "idle", !.res = res, !.seen = "absent", !.tx = "none"]
    BY IsDriver DEF Driver, Pcs
  <1>2. Becomes(d, D)
    BY <1>1 DEF Finish
  <1>3. PICK E \in Driver : E = [drv[d] EXCEPT !.res = res]
    BY DEF ScriptsInv, ScriptsTypeOK, Driver
  <1>4. /\ D.pc = "idle" /\ D.tx = "none" /\ D.r = drv[d].r
        /\ D.res = res /\ D.target = drv[d].target /\ D.branch = drv[d].branch
    BY <1>1 DEF ScriptsInv, ScriptsTypeOK, Driver
  <1>5. E.res = res /\ E.r = D.r /\ E.target = D.target /\ E.branch = D.branch
    BY <1>1, <1>3 DEF ScriptsInv, ScriptsTypeOK, Driver
  <1>6. Knows(D)
    BY <1>3, <1>4, <1>5 DEF Knows, ReportsRight, ScriptsInv
  <1>7. Knows(D)'
    BY <1>6 DEF chainVars, Knows, ReportsRight, Closed, OnErOrDecided
  <1> QED BY <1>2, <1>7 DEF Moves

\* A script that gives up claims nothing.
LEMMA ErrorMove ==
    ASSUME ChainInv, ScriptsInv, NEW d \in Drivers,
           NEW res \in {"none", "error", "delegated", "pending"},
           Finish(d, res), UNCHANGED chainVars, late' \subseteq Late
    PROVE  Moves(d)
  <1>1. ReportsRight([drv[d] EXCEPT !.res = res])
    BY DEF ReportsRight, ScriptsInv, ScriptsTypeOK, Driver
  <1> QED BY <1>1, FinishMove DEF Results

\* Going on to a step that needs no knowledge.
LEMMA GotoMove ==
    ASSUME ChainInv, ScriptsInv, NEW d \in Drivers, drv[d].pc \notin TxPcs \cup {"idle"},
           NEW pc \in {"poll", "wait", "decide", "fetch"}, Goto(d, pc), Local,
           pc = "decide" => base[drv[d].r].state = "open"
    PROVE  Moves(d)
  <1>1. PICK D \in Driver : D = [drv[d] EXCEPT !.pc = pc, !.seen = "absent"]
    BY IsDriver DEF Driver, Pcs
  <1>2. /\ D.pc = pc /\ D.tx = drv[d].tx /\ D.r = drv[d].r
        /\ D.res = drv[d].res /\ D.target = drv[d].target /\ D.branch = drv[d].branch
    BY <1>1 DEF ScriptsInv, ScriptsTypeOK, Driver
  <1>3. Knows(D)
    BY <1>2 DEF Knows, ReportsRight, ScriptsInv, TxPcs
  <1> QED BY <1>1, <1>3, LocalMove DEF ScriptsInv, Goto

LEMMA SendErMove ==
    ASSUME ChainInv, ScriptsInv, NEW d \in Drivers, drv[d].pc # "idle",
           Send(d, "erTx"), Local,
           drv[d].script # "pending" /\ drv[d].target # 0
               => OnErOrDecided(drv[d].r, drv[d].target)
    PROVE  Moves(d)
  <1>1. PICK D \in Driver : D = [drv[d] EXCEPT !.pc = "erTx", !.tx = "sent"]
    BY IsDriver DEF Driver, Pcs
  <1>2. /\ D.pc = "erTx" /\ D.r = drv[d].r /\ D.script = drv[d].script
        /\ D.res = drv[d].res /\ D.target = drv[d].target /\ D.branch = drv[d].branch
    BY <1>1 DEF ScriptsInv, ScriptsTypeOK, Driver
  <1>3. Knows(D)
    BY <1>2 DEF Knows, ReportsRight, ScriptsInv, TxPcs
  <1> QED BY <1>1, <1>3, LocalMove DEF ScriptsInv, Send

LEMMA StartMove ==
    ASSUME ChainInv, ScriptsInv, NEW d \in Drivers, NEW s \in Scripts, NEW r \in Receipts,
           Start(d, s, r)
    PROVE  Moves(d)
  <1>1. gen[r] \in 0..MaxGen /\ 0 \in 0..MaxGen /\ 0 <= gen[r]
    BY MaxGenAssumption DEF ChainInv, ChainTypeOK
  <1>2. PICK g \in {0, gen[r]}, D \in Driver :
           D = [pc |-> IF s = "new" THEN "stageTx" ELSE "readBase",
                script |-> s, r |-> r, seen |-> "absent", branch |-> "pending",
                tx |-> IF s = "new" THEN "sent" ELSE "none", res |-> "none",
                target |-> g] /\ Becomes(d, D)
    BY <1>1 DEF Start, Driver, Pcs, Decisions, Results
  <1>3. Knows(D)
    BY <1>1, <1>2 DEF Knows, ReportsRight, TxPcs
  <1> QED BY <1>2, <1>3, LocalMove DEF Start, ScriptsInv

LEMMA ReadBaseMove ==
    ASSUME ChainInv, ScriptsInv, NEW d \in Drivers, ReadBase(d)
    PROVE  Moves(d)
  <1>1. /\ drv[d].r \in Receipts /\ gen[drv[d].r] \in 0..MaxGen
        /\ base[drv[d].r].state \in {"absent", "stub", "open"}
    BY DriverFields DEF ScriptsInv, ChainInv, ChainTypeOK, BaseAccount
  <1>2. PICK st \in BaseReads(drv[d].r) :
           Becomes(d, [drv[d] EXCEPT !.pc = "readEr", !.seen = st,
                                     !.target = IF st = "absent" THEN @ ELSE gen[drv[d].r]])
    BY DEF ReadBase
  <1>3. st \in {"absent", "stub", "open"}
    BY <1>1, <1>2 DEF BaseReads
  <1>4. PICK D \in Driver :
          D = [drv[d] EXCEPT !.pc = "readEr", !.seen = st,
                             !.target = IF st = "absent" THEN @ ELSE gen[drv[d].r]]
    <2>1. PICK C \in Driver : C = drv[d]
      BY DEF ScriptsInv, ScriptsTypeOK
    <2>2. PICK t \in 0..MaxGen : t = IF st = "absent" THEN C.target ELSE gen[drv[d].r]
      BY <1>1 DEF Driver
    <2>3. [C EXCEPT !.pc = "readEr", !.seen = st, !.target = t] \in Driver
      BY <1>3 DEF Driver, Pcs
    <2> QED BY <2>1, <2>2, <2>3
  <1>5. /\ D.pc = "readEr" /\ D.seen = st /\ D.tx = drv[d].tx /\ D.r = drv[d].r
        /\ D.res = drv[d].res /\ D.branch = drv[d].branch
        /\ D.target = IF st = "absent" THEN drv[d].target ELSE gen[drv[d].r]
    BY <1>4 DEF ScriptsInv, ScriptsTypeOK, Driver
  <1>6. ~RpcMiss /\ st = "absent" => base[D.r].state = "absent"
    BY <1>2, <1>5 DEF BaseReads
  <1>7. D.tx = "none" /\ D.res = "none" /\ D.target <= gen[D.r]
    BY <1>1, <1>5 DEF ReadBase, ScriptsInv, Knows, TxPcs
  <1>8. Knows(D)
    BY <1>5, <1>6, <1>7 DEF Knows, ReportsRight, Closed
  <1> QED BY <1>2, <1>4, <1>8, LocalMove DEF ReadBase, ScriptsInv

\* "absent" is only reported when the first read found nothing.
LEMMA ReadErMove ==
    ASSUME ChainInv, ScriptsInv, NEW d \in Drivers, ReadEr(d)
    PROVE  Moves(d)
  <1>0. drv[d].pc = "readEr" /\ Local /\ late' \subseteq Late /\ UNCHANGED chainVars
    BY DEF ReadEr, Local, ScriptsInv, ScriptsTypeOK
  <1>1. CASE drv[d].seen = "absent" /\ Finish(d, "absent")
    <2>1. ReportsRight([drv[d] EXCEPT !.res = "absent"])
      BY <1>0, <1>1 DEF ReportsRight, Knows, ScriptsInv, ScriptsTypeOK, Driver
    <2> QED BY <1>0, <1>1, <2>1, FinishMove DEF Results
  <1>2. CASE Goto(d, "fetch") \/ Goto(d, "poll")
    BY <1>0, <1>2, GotoMove DEF TxPcs
  <1>3. CASE Finish(d, "delegated")
    BY <1>0, <1>3, ErrorMove
  <1>4. CASE Becomes(d, [drv[d] EXCEPT !.pc = "poll", !.seen = "absent",
                                       !.target = gen[drv[d].r]])
    <2>1. gen[drv[d].r] \in 0..MaxGen
      BY DriverFields DEF ScriptsInv, ChainInv, ChainTypeOK
    <2>2. PICK D \in Driver : D = [drv[d] EXCEPT !.pc = "poll", !.seen = "absent",
                                                  !.target = gen[drv[d].r]]
      BY <2>1, IsDriver DEF Driver, Pcs
    <2>3. /\ D.pc = "poll" /\ D.tx = drv[d].tx /\ D.r = drv[d].r /\ D.res = drv[d].res
          /\ D.target = gen[drv[d].r]
      BY <2>2 DEF ScriptsInv, ScriptsTypeOK, Driver
    <2>4. Knows(D)
      BY <1>0, <2>1, <2>3 DEF Knows, ReportsRight, ScriptsInv, TxPcs
    <2> QED BY <1>0, <1>4, <2>2, <2>4, LocalMove DEF ScriptsInv
  <1> QED BY <1>1, <1>2, <1>3, <1>4 DEF ReadEr

LEMMA FetchMove ==
    ASSUME ChainInv, ScriptsInv, NEW d \in Drivers, Fetch(d)
    PROVE  Moves(d)
  <1>0. /\ drv[d].pc = "fetch" /\ Local /\ late' \subseteq Late /\ UNCHANGED chainVars
        /\ Finish(d, "error") \/ Goto(d, "wait") \/ Goto(d, "poll")
    BY DEF Fetch, Local, ScriptsInv, ScriptsTypeOK
  <1> QED BY <1>0, ErrorMove, GotoMove DEF TxPcs

\* `_er` is sent for a receipt the ER shows, except by processOne.
LEMMA PollMove ==
    ASSUME ChainInv, ScriptsInv, NEW d \in Drivers, PollSees(d) \/ PollExpires(d)
    PROVE  Moves(d)
  <1>0. drv[d].pc = "poll" /\ Local /\ late' \subseteq Late /\ UNCHANGED chainVars
    BY DEF PollSees, PollExpires, Local, ScriptsInv, ScriptsTypeOK
  <1>1. CASE Finish(d, "error")
    BY <1>0, <1>1, ErrorMove
  <1>2. CASE PollSees(d)
    <2>1. /\ drv[d].r \in Receipts /\ drv[d].target \in 0..MaxGen
          /\ drv[d].target <= gen[drv[d].r]
      BY DriverFields DEF ScriptsInv, Knows
    <2>2. /\ base[drv[d].r].state # "absent"
          /\ base[drv[d].r].state = "stub" => er[drv[d].r].live
      BY <1>2 DEF PollSees, ErReads
    <2>3. drv[d].target # 0 => drv[d].target \in Gens
      BY <2>1, MaxGenAssumption DEF Gens
    <2>4. drv[d].target # 0 => OnErOrDecided(drv[d].r, drv[d].target)
      BY <2>1, <2>2, <2>3, ServedIsOnErOrDecided
    <2> QED BY <1>0, <1>2, <2>4, SendErMove DEF PollSees
  <1>3. CASE drv[d].script = "pending" /\ Send(d, "erTx")
    BY <1>0, <1>3, SendErMove
  <1> QED BY <1>1, <1>2, <1>3 DEF PollExpires

\* A settle that went through is verified for the staging it was driven for.
LEMMA TxOkMove ==
    ASSUME ChainInv, ScriptsInv, NEW d \in Drivers, TxOk(d)
    PROVE  Moves(d)
  <1>0. drv[d].pc \in TxPcs /\ AfterTx(drv[d].pc) \in {"poll", "wait", "verify"}
    BY DEF TxOk, ScriptsInv, Knows, TxPcs, AfterTx
  <1>1. PICK D \in Driver : D = [drv[d] EXCEPT !.pc = AfterTx(@), !.tx = "none"]
    BY <1>0, IsDriver DEF Driver, Pcs
  <1>2. /\ D.pc = AfterTx(drv[d].pc) /\ D.tx = "none" /\ D.r = drv[d].r
        /\ D.res = drv[d].res /\ D.target = drv[d].target /\ D.branch = drv[d].branch
    BY <1>1 DEF ScriptsInv, ScriptsTypeOK, Driver
  <1>3. D.pc = "verify" => drv[d].pc = "settleTx"
    BY <1>0, <1>2 DEF AfterTx, TxPcs
  <1>4. Knows(D)
    BY <1>0, <1>2, <1>3 DEF Knows, ReportsRight, ScriptsInv, TxPcs
  <1> QED BY <1>1, <1>4, LocalMove DEF TxOk, ScriptsInv

LEMMA GiveUpMove ==
    ASSUME ChainInv, ScriptsInv, NEW d \in Drivers,
           TxFailed(d) \/ TxExpires(d) \/ Crash(d)
    PROVE  Moves(d)
  <1>1. Finish(d, "error") /\ UNCHANGED chainVars
    BY DEF TxFailed, TxExpires, Crash, Local
  <1>2. late' = late \/ (drv[d].tx = "sent" /\ late' =
            late \cup {[kind |-> TxKind(drv[d].pc), r |-> drv[d].r]})
    BY DEF TxFailed, TxExpires, Crash, Local
  <1>3. drv[d].tx = "sent" => [kind |-> TxKind(drv[d].pc), r |-> drv[d].r] \in Late
    BY DriverFields DEF ScriptsInv, Knows, TxPcs, TxKind, Late, Kinds
  <1>4. late' \subseteq Late
    BY <1>2, <1>3 DEF ScriptsInv, ScriptsTypeOK
  <1> QED BY <1>1, <1>4, ErrorMove

\* Without RPC errors, "auto" is reported of an account that is gone.
LEMMA WaitMove ==
    ASSUME ChainInv, ScriptsInv, NEW d \in Drivers, Wait(d)
    PROVE  Moves(d)
  <1>0. drv[d].pc = "wait" /\ Local /\ late' \subseteq Late /\ UNCHANGED chainVars
    BY DEF Wait, Local, ScriptsInv, ScriptsTypeOK
  <1>1. CASE "absent" \in BaseReads(drv[d].r) /\ Finish(d, "auto")
    <2>1. ~RpcMiss => base[drv[d].r].state = "absent"
      BY <1>1 DEF BaseReads
    <2>2. ReportsRight([drv[d] EXCEPT !.res = "auto"])
      BY <2>1 DEF ReportsRight, Closed, ScriptsInv, ScriptsTypeOK, Driver
    <2> QED BY <1>0, <1>1, <2>2, FinishMove DEF Results
  <1>2. CASE base[drv[d].r].state = "open" /\ Goto(d, "decide")
    BY <1>0, <1>2, GotoMove DEF TxPcs
  <1>3. CASE Finish(d, "pending")
    BY <1>0, <1>3, ErrorMove
  <1>4. "open" \in BaseReads(drv[d].r) => base[drv[d].r].state = "open"
    BY DEF BaseReads
  <1> QED BY <1>1, <1>2, <1>3, <1>4 DEF Wait

\* The decision finalizeReceipt reads is the verdict of the current staging.
LEMMA DecideMove ==
    ASSUME ChainInv, ScriptsInv, NEW d \in Drivers, Decide(d)
    PROVE  Moves(d)
  <1> DEFINE r == drv[d].r
  <1>0. drv[d].pc = "decide" /\ Local /\ late' \subseteq Late /\ UNCHANGED chainVars
    BY DEF Decide, Local, ScriptsInv, ScriptsTypeOK
  <1>1. CASE Finish(d, "error")
    BY <1>0, <1>1, ErrorMove
  <1>2. CASE /\ base[r].state # "absent" /\ base[r].decision = "pending"
             /\ Finish(d, "needs-er")
    <2>1. base[r].state # "open"
      BY <1>2, DriverFields DEF ScriptsInv, ChainInv, CopiesAgree
    <2>2. ReportsRight([drv[d] EXCEPT !.res = "needs-er"])
      BY <1>0, <2>1 DEF ReportsRight, Knows, ScriptsInv, ScriptsTypeOK, Driver, Closed
    <2> QED BY <1>0, <1>2, <2>2, FinishMove DEF Results
  <1>3. CASE /\ base[r].state # "absent" /\ base[r].decision # "pending"
             /\ Becomes(d, [drv[d] EXCEPT !.pc = "settleTx", !.tx = "sent",
                                          !.branch = base[r].decision, !.target = gen[r]])
    <2>1. /\ r \in Receipts /\ gen[r] \in Gens /\ gen[r] \in 0..MaxGen
          /\ base[r].decision \in Decisions
      BY <1>3, DriverFields, LiveReceiptWasStaged
      DEF ScriptsInv, ChainInv, ChainTypeOK, BaseAccount
    <2>2. /\ base[r].state = "open" /\ base[r].decision = verdicts[r][gen[r]]
          /\ gen[r] # 0
      BY <1>3, <2>1 DEF ChainInv, CopiesAgree, Gens
    <2>3. PICK D \in Driver :
             D = [drv[d] EXCEPT !.pc = "settleTx", !.tx = "sent",
                                !.branch = base[r].decision, !.target = gen[r]]
      BY <2>1, IsDriver DEF Driver, Pcs
    <2>4. /\ D.pc = "settleTx" /\ D.r = r /\ D.branch = base[r].decision
          /\ D.target = gen[r] /\ D.res = drv[d].res
      BY <2>3 DEF ScriptsInv, ScriptsTypeOK, Driver
    <2>5. D.res = "none"
      BY <1>0, <2>4 DEF ScriptsInv, Knows
    <2>6. Knows(D)
      BY <1>3, <2>1, <2>2, <2>4, <2>5 DEF Knows, ReportsRight, TxPcs
    <2> QED BY <1>0, <1>3, <2>3, <2>6, LocalMove DEF ScriptsInv
  <1> QED BY <1>1, <1>2, <1>3 DEF Decide

LEMMA VerifyMove ==
    ASSUME ChainInv, ScriptsInv, NEW d \in Drivers, Verify(d)
    PROVE  Moves(d)
  <1>0. drv[d].pc = "verify" /\ Local /\ late' \subseteq Late /\ UNCHANGED chainVars
    BY DEF Verify, Local, ScriptsInv, ScriptsTypeOK
  <1>1. CASE "absent" \in BaseReads(drv[d].r) /\ Finish(d, "settle")
    <2>1. ~RpcMiss => base[drv[d].r].state = "absent"
      BY <1>1 DEF BaseReads
    <2>2. ReportsRight([drv[d] EXCEPT !.res = "settle"])
      BY <1>0, <2>1 DEF ReportsRight, Closed, Knows, ScriptsInv, ScriptsTypeOK, Driver
    <2> QED BY <1>0, <1>1, <2>2, FinishMove DEF Results
  <1>2. CASE Finish(d, "error")
    BY <1>0, <1>2, ErrorMove
  <1> QED BY <1>1, <1>2 DEF Verify

\* The chains move under a script whose transaction is accepted.
LEMMA LandMove ==
    ASSUME ChainInv, ScriptsInv, NEW d \in Drivers, LandOk(d)
    PROVE  Moves(d)
  <1>1. [ChainNext]_chainVars
    BY StepIsChainStep DEF ScriptsInv, Next
  <1>2. /\ drv[d].r \in Receipts /\ drv[d] \in Driver /\ Knows(drv[d])
        /\ drv[d].tx = "sent" /\ drv[d].pc \in TxPcs /\ late' \subseteq Late
    BY DriverFields DEF LandOk, ScriptsInv, ScriptsTypeOK, Knows
  <1>3. PICK C \in Driver : C = drv[d]
    BY <1>2
  <1>4. Knows(C)'
    BY <1>1, <1>2, <1>3, KnowledgeLasts
  <1>5. gen'[C.r] \in 0..MaxGen /\ gen'[C.r] <= gen'[C.r]
    BY <1>1, <1>2, <1>3, ChainMovesOn, MaxGenAssumption DEF MovesOn
  <1>6. PICK g \in 0..MaxGen :
           /\ Becomes(d, [C EXCEPT !.tx = "ok", !.target = g])
           /\ g = C.target \/ (C.pc = "stageTx" /\ g = gen'[C.r])
    <2>1. C.target \in 0..MaxGen
      BY DEF Driver
    <2> QED BY <1>3, <1>5, <2>1 DEF LandOk
  <1>7. PICK D \in Driver : D = [C EXCEPT !.tx = "ok", !.target = g]
    BY DEF Driver
  <1>8. /\ D.pc = C.pc /\ D.r = C.r /\ D.res = C.res /\ D.branch = C.branch
        /\ D.seen = C.seen /\ D.script = C.script /\ D.target = g
    BY <1>7 DEF Driver
  <1>9. C.pc \in TxPcs /\ C.res = "none"
    BY <1>2, <1>3 DEF Knows, TxPcs
  <1>10. Knows(D)'
    <2>1. CASE g = C.target
      BY <1>4, <1>8, <1>9, <2>1 DEF Knows, ReportsRight, Closed
    <2>2. CASE C.pc = "stageTx" /\ g = gen'[C.r]
      BY <1>5, <1>8, <1>9, <2>2 DEF Knows, ReportsRight, TxPcs
    <2> QED BY <1>6, <2>1, <2>2
  <1> QED BY <1>2, <1>6, <1>7, <1>10 DEF Moves

\* A rejected transaction changes nothing but what its sender hears.
LEMMA RejectedMove ==
    ASSUME ChainInv, ScriptsInv, NEW d \in Drivers, LandFails(d)
    PROVE  Moves(d)
  <1>1. PICK D \in Driver : D = [drv[d] EXCEPT !.tx = "err"]
    BY IsDriver DEF Driver
  <1>2. /\ D.pc = drv[d].pc /\ D.pc \in TxPcs /\ D.r = drv[d].r
        /\ D.script = drv[d].script /\ D.seen = drv[d].seen
        /\ D.res = drv[d].res /\ D.target = drv[d].target /\ D.branch = drv[d].branch
    BY <1>1 DEF LandFails, ScriptsInv, ScriptsTypeOK, Driver, Knows
  <1>3. Knows(D)
    BY <1>2 DEF Knows, ReportsRight, ScriptsInv
  <1> QED BY <1>1, <1>3, LocalMove DEF LandFails, ScriptsInv

-----------------------------------------------------------------------------
LEMMA ScriptsInitInv ==
    ASSUME Init
    PROVE  ChainInv /\ ScriptsInv
  <1>1. ChainInv
    BY ChainInitInv DEF Init
  <1>2. \A d \in Drivers : \E r \in Receipts :
           drv[d] = [pc |-> "idle", script |-> "none", r |-> r, seen |-> "absent",
                     branch |-> "pending", tx |-> "none", res |-> "none", target |-> 0]
    BY DEF Init
  <1>3. ScriptsTypeOK
    BY MaxGenAssumption DEF Init, ScriptsTypeOK, Driver, Pcs, Decisions, Results
  <1>4. ASSUME NEW d \in Drivers PROVE Knows(drv[d])
    <2>0. PICK r \in Receipts :
             drv[d] = [pc |-> "idle", script |-> "none", r |-> r, seen |-> "absent",
                       branch |-> "pending", tx |-> "none", res |-> "none", target |-> 0]
      BY <1>2
    <2>1. drv[d].pc = "idle" /\ drv[d].tx = "none" /\ drv[d].res = "none"
      BY <2>0
    <2>2. drv[d].target = 0 /\ drv[d].r \in Receipts
      BY <2>0
    <2>3. gen[drv[d].r] = 0
      BY <2>2 DEF Init, ChainInit
    <2> QED BY <2>1, <2>2, <2>3 DEF Knows, ReportsRight
  <1> QED BY <1>1, <1>3, <1>4 DEF ScriptsInv

LEMMA ActionMoves ==
    ASSUME ChainInv, ScriptsInv, NEW d \in Drivers,
           \/ \E s \in Scripts, r \in Receipts : Start(d, s, r)
           \/ Step(d) \/ LandOk(d) \/ LandFails(d) \/ Crash(d)
    PROVE  Moves(d)
  BY StartMove, ReadBaseMove, ReadErMove, FetchMove, PollMove, TxOkMove,
     GiveUpMove, WaitMove, DecideMove, VerifyMove, LandMove, RejectedMove DEF Step

LEMMA ScriptsNextInv ==
    ASSUME ChainInv, ScriptsInv, [Next]_scriptVars
    PROVE  ScriptsInv'
  <1>1. [ChainNext]_chainVars
    BY StepIsChainStep DEF ScriptsInv
  <1>2. ASSUME NEW d \in Drivers, Moves(d)
        PROVE  ScriptsInv'
    <2>1. PICK D \in Driver : Becomes(d, D) /\ Knows(D)' /\ late' \subseteq Late
      BY <1>2 DEF Moves
    <2>2. ScriptsTypeOK'
      BY <2>1 DEF Becomes, ScriptsInv, ScriptsTypeOK
    <2>3. ASSUME NEW e \in Drivers PROVE Knows(drv[e])'
      <3>1. PICK E \in Driver : E = drv'[e]
        BY <2>2 DEF ScriptsTypeOK
      <3>2. e = d => E = D
        BY <2>1, <3>1 DEF Becomes, ScriptsInv, ScriptsTypeOK
      <3>3. e # d => E = drv[e] /\ Knows(E)
        BY <2>1, <3>1 DEF Becomes, ScriptsInv, ScriptsTypeOK
      <3>4. Knows(E)'
        BY <1>1, <2>1, <3>2, <3>3, KnowledgeLasts
      <3> QED BY <3>1, <3>4 DEF Knows, ReportsRight, Closed
    <2> QED BY <2>2, <2>3 DEF ScriptsInv
  <1>3. CASE UNCHANGED drv /\ late' \subseteq Late
    <2>1. ASSUME NEW e \in Drivers PROVE Knows(drv[e])'
      <3>1. PICK E \in Driver : E = drv[e] /\ E = drv'[e]
        BY <1>3 DEF ScriptsInv, ScriptsTypeOK
      <3>2. Knows(E)'
        BY <1>1, <3>1, KnowledgeLasts DEF ScriptsInv
      <3> QED BY <3>1, <3>2 DEF Knows, ReportsRight, Closed
    <2> QED BY <1>3, <2>1 DEF ScriptsInv, ScriptsTypeOK
  <1>4. CASE \/ UNCHANGED scriptVars \/ LandLate \/ DropLate
             \/ \E r \in Receipts : FrontEnd(r) \/ Chain(r)
    BY <1>3, <1>4 DEF scriptVars, LandLate, DropLate, FrontEnd, Chain, ScriptsInv,
       ScriptsTypeOK
  <1> QED BY <1>2, <1>4, ActionMoves DEF Next

\* What each script process remembers of the chains, while others race with it.
THEOREM ScriptsInvariant == Spec => [](ChainInv /\ ScriptsInv)
  <1>1. Init => ChainInv /\ ScriptsInv
    BY ScriptsInitInv
  <1>2. ChainInv /\ ScriptsInv /\ [Next]_scriptVars => (ChainInv /\ ScriptsInv)'
    BY ScriptsNextInv, ChainNextInv, StepIsChainStep DEF ScriptsInv
  <1> QED BY <1>1, <1>2, PTL DEF Spec

\* Any number of scripts, crashes, late transactions and front ends make the
\* chains take only the steps of ReceiptChain.
THEOREM ScriptsFollowChain == Spec => ChainSpec
  <1>1. Init => ChainInit
    BY DEF Init
  <1>2. ScriptsInv /\ [Next]_scriptVars => [ChainNext]_chainVars
    BY StepIsChainStep DEF ScriptsInv
  <1> QED BY <1>1, <1>2, ScriptsInvariant, PTL DEF Spec, ChainSpec

\* So they implement the promise: a verdict is final, and a stake leaves once, to
\* where its own verdict says.
THEOREM ScriptsKeepPromise == Spec => PromiseKept
  BY ScriptsFollowChain, ChainKeepsPromise, PTL

\* Type correctness of the scripts.
THEOREM ScriptsTyping == Spec => []TypeOK
  <1>1. ChainInv /\ ScriptsInv => TypeOK
    BY DEF ChainInv, ScriptsInv, ScriptsTypeOK, TypeOK
  <1> QED BY <1>1, ScriptsInvariant, PTL

\* Whatever scripts race over a receipt, no stake is lost or paid twice.
THEOREM ScriptsConserveStakes == Spec => []Conservation
  BY ScriptsFollowChain, StakesAreConserved, PTL

\* A script that reports its receipt closed is right, if a failed RPC read is
\* not mistaken for a missing account.
THEOREM ClosedClaimsAreTrue == ASSUME ~RpcMiss PROVE Spec => []ClosedClaim
  <1>1. ChainInv /\ ScriptsInv => ClosedClaim
    BY DEF ScriptsInv, Knows, ReportsRight, ClosedClaim
  <1> QED BY <1>1, ScriptsInvariant, PTL

\* The outcome a script reports after driving settle is the verdict of the
\* staging it read, also under races and re-stagings.
THEOREM ReportedOutcomeIsVerdict == ASSUME ~RpcMiss PROVE Spec => []OutcomeIsVerdict
  <1>1. ChainInv /\ ScriptsInv => OutcomeIsVerdict
    BY DEF ScriptsInv, Knows, ReportsRight, OutcomeIsVerdict
  <1> QED BY <1>1, ScriptsInvariant, PTL

\* A step a script drives is due, or was taken meanwhile, also if reads fail
\* and whoever races it: a rejection of it is about amounts, prices or accounts,
\* never about the state of the receipt.
THEOREM DrivenStepsAreDue == Spec => []DrivenStepIsDue
  <1>1. ChainInv /\ ScriptsInv => DrivenStepIsDue
    <2> SUFFICES ASSUME ChainInv, ScriptsInv, NEW d \in Drivers, drv[d].target # 0
                 PROVE  /\ drv[d].pc = "erTx" /\ drv[d].script # "pending"
                              => \/ CanEr(drv[d].r)
                                 \/ verdicts[drv[d].r][drv[d].target] # "pending"
                        /\ drv[d].pc = "settleTx"
                              => \/ CanSettle(drv[d].r)
                                 \/ Closed(drv[d].r, drv[d].target)
      BY DEF DrivenStepIsDue
    <2>1. drv[d].r \in Receipts /\ Knows(drv[d])
      BY DriverFields DEF ScriptsInv
    <2>2. drv[d].pc = "settleTx" => \/ CanSettle(drv[d].r)
                                    \/ Closed(drv[d].r, drv[d].target)
      BY <2>1 DEF Knows, CanSettle, ChainInv, CopiesAgree
    <2>3. OnErOrDecided(drv[d].r, drv[d].target)
             => \/ CanEr(drv[d].r)
                \/ verdicts[drv[d].r][drv[d].target] # "pending"
      BY <2>1 DEF OnErOrDecided, CanEr, ChainInv, CopiesAgree
    <2> QED BY <2>1, <2>2, <2>3 DEF Knows
  <1> QED BY <1>1, ScriptsInvariant, PTL

\* finalizeReceipt only reports needs-er of a stake that is closed, because it
\* read a later staging of the address, also if reads fail.
THEOREM NeedsErIsAboutReuse == Spec => []NeedsErMeansReused
  <1>1. ChainInv /\ ScriptsInv => NeedsErMeansReused
    BY DEF ScriptsInv, Knows, ReportsRight, NeedsErMeansReused
  <1> QED BY <1>1, ScriptsInvariant, PTL
=============================================================================
