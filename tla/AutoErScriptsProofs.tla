-------------------------- MODULE AutoErScriptsProofs --------------------------
(***************************************************************************)
(* What the flows with a queued `_er` may say, for any number of scripts,  *)
(* receipts and re-stagings.  "Confirmed" reads lag behind the chain but   *)
(* never run ahead of it (ViewIsPast); a client that waits for "confirmed" *)
(* only watches a receipt once the view has reached its staging, and then  *)
(* a read without the account does mean that this staging is closed.       *)
(***************************************************************************)
EXTENDS AutoErScripts, ReceiptChainProofs

ScriptsTypeOK ==
    /\ kind \in [Receipts -> {"token", "escrow"}]
    /\ view \in [Receipts -> [gen : 0..MaxGen, exists : BOOLEAN]]
    /\ drv \in [Drivers -> Driver]
    /\ late \subseteq [kind : TxKinds, r : Receipts]

LEMMA DriverFields ==
    ASSUME ScriptsTypeOK, NEW d \in Drivers
    PROVE  /\ drv[d].pc \in Pcs /\ drv[d].script \in {"none", "token", "resume", "withdraw"}
           /\ drv[d].r \in Receipts /\ drv[d].seen \in BOOLEAN
           /\ drv[d].answer \in {"none", "closed", "timeout"}
           /\ drv[d].purse \in BOOLEAN
           /\ drv[d].tx \in {"none", "sent", "ok", "err"}
           /\ drv[d].res \in {"none", "settled", "error"} /\ drv[d].target \in 0..MaxGen
  BY DEF ScriptsTypeOK, Driver

LEMMA ExecuteIsChainStep ==
    ASSUME NEW r \in Receipts, NEW k, Execute(k, r)
    PROVE  ChainNext
  BY DEF Execute, ChainNext, SendStage, SendEr

LEMMA StepIsChainStep ==
    ASSUME ScriptsTypeOK, [Next]_autoVars
    PROVE  [ChainNext]_chainVars
  <1>1. CASE UNCHANGED autoVars
    BY <1>1 DEF autoVars
  <1>2. ASSUME NEW d \in Drivers,
               \/ \E r \in Receipts, s \in {"token", "resume", "withdraw"} : Start(d, s, r)
               \/ Step(d) \/ Crash(d)
        PROVE  UNCHANGED chainVars
    BY <1>2 DEF Start, Step, PollErSees, PollErExpires, TxOk, TxFailed, TxExpires, Poll,
       PollExpires, Await, AwaitExpires, Balance, Purse, Crash, Local
  <1>3. ASSUME NEW d \in Drivers, Land(d)
        PROVE  [ChainNext]_chainVars
    BY <1>3, DriverFields, ExecuteIsChainStep DEF Land, LandStage, LandEr, LandReclaim,
       LandFails, Local
  <1>4. ASSUME NEW r \in Receipts, Confirm(r) \/ FrontEnd(r) \/ CloneConfirmed(r) \/ Chain(r)
        PROVE  [ChainNext]_chainVars
    BY <1>4 DEF Confirm, FrontEnd, CloneConfirmed, Chain, ChainNext, SendStage, Validator
  <1>5. CASE LandLate
    BY <1>5, ExecuteIsChainStep DEF LandLate, ScriptsTypeOK
  <1>6. CASE DropLate
    BY <1>6 DEF DropLate
  <1> QED BY <1>1, <1>2, <1>3, <1>4, <1>5, <1>6 DEF Next

-----------------------------------------------------------------------------
(* The confirmed view.                                                     *)

\* A "confirmed" read never shows a staging, or a close, that did not happen.
ViewIsPast ==
    \A r \in Receipts :
        /\ view[r].gen <= gen[r]
        /\ ~view[r].exists => Closed(r, view[r].gen)

\* A closed staging stays closed.
LEMMA ClosedLasts ==
    ASSUME ChainInv, [ChainNext]_chainVars, NEW r \in Receipts, NEW g \in 0..MaxGen,
           g <= gen[r], Closed(r, g)
    PROVE  Closed(r, g)'
  <1>1. gen[r] \in Nat /\ gen'[r] \in Nat /\ g \in Nat
    BY ChainMovesOn, MaxGenAssumption DEF MovesOn, ChainInv, ChainTypeOK
  <1> QED BY <1>1, ChainMovesOn DEF MovesOn, Closed

LEMMA ViewStep ==
    ASSUME ChainInv, ScriptsTypeOK, ViewIsPast, [ChainNext]_chainVars,
           UNCHANGED view \/ \E r \in Receipts : Confirm(r)
    PROVE  /\ view' \in [Receipts -> [gen : 0..MaxGen, exists : BOOLEAN]]
           /\ ViewIsPast'
           /\ \A r \in Receipts : view'[r].gen >= view[r].gen
  <1> USE MaxGenAssumption
  <1>0. \A r \in Receipts : /\ gen[r] \in Nat /\ gen'[r] \in Nat /\ gen'[r] >= gen[r]
                            /\ view[r].gen \in Nat
    BY ChainMovesOn DEF MovesOn, ChainInv, ChainTypeOK, ScriptsTypeOK
  <1>1. CASE UNCHANGED view
    <2>1. \A r \in Receipts : ~view[r].exists => Closed(r, view[r].gen)'
      BY <1>1, ClosedLasts DEF ViewIsPast, ScriptsTypeOK
    <2> QED BY <1>0, <1>1, <2>1 DEF ViewIsPast, ScriptsTypeOK, Closed
  <1>2. ASSUME NEW s \in Receipts, Confirm(s)
        PROVE  /\ view' \in [Receipts -> [gen : 0..MaxGen, exists : BOOLEAN]]
               /\ ViewIsPast'
               /\ \A r \in Receipts : view'[r].gen >= view[r].gen
    <2>0. UNCHANGED <<gen, base>>
      BY <1>2 DEF Confirm, chainVars
    <2>1. CASE view[s].exists /\ Closed(s, view[s].gen)
               /\ view' = [view EXCEPT ![s].exists = FALSE]
      <3>1. view' \in [Receipts -> [gen : 0..MaxGen, exists : BOOLEAN]]
        BY <2>1 DEF ScriptsTypeOK
      <3>2. \A r \in Receipts : view'[r].gen = view[r].gen
                                /\ (r # s => view'[r].exists = view[r].exists)
        BY <2>1 DEF ScriptsTypeOK
      <3>3. ViewIsPast'
        BY <2>0, <2>1, <3>2 DEF ViewIsPast, Closed
      <3> QED BY <1>0, <3>1, <3>2, <3>3
    <2>2. CASE view[s].gen < gen[s]
               /\ view' = [view EXCEPT ![s] = [gen |-> @.gen + 1, exists |-> TRUE]]
      <3>0. view[s].gen + 1 \in 0..MaxGen /\ view[s].gen + 1 <= gen[s]
        BY <1>0, <2>2 DEF ChainInv, ChainTypeOK, ScriptsTypeOK
      <3>1. view' \in [Receipts -> [gen : 0..MaxGen, exists : BOOLEAN]]
        BY <2>2, <3>0 DEF ScriptsTypeOK
      <3>2. /\ view'[s].gen = view[s].gen + 1 /\ view'[s].exists
            /\ \A r \in Receipts : r # s => view'[r] = view[r]
        BY <2>2 DEF ScriptsTypeOK
      <3>3. ViewIsPast'
        BY <2>0, <3>0, <3>2 DEF ViewIsPast, Closed
      <3>4. \A r \in Receipts : view'[r].gen >= view[r].gen
        BY <1>0, <3>2
      <3> QED BY <3>1, <3>3, <3>4
    <2> QED BY <1>2, <2>1, <2>2 DEF Confirm
  <1> QED BY <1>1, <1>2

-----------------------------------------------------------------------------
(***************************************************************************)
(* What a script in state D knows.                                         *)
(***************************************************************************)
TxPcs == {"stageTx", "erTx", "reclaimTx"}

Watches(D) == WaitsFor = "confirmed" /\ D.pc \in {"poll", "await", "balance", "purse"}
                  => D.target <= view[D.r].gen

ReportsRight(D) ==
    ~RpcMiss /\ WaitsFor = "confirmed" =>
        /\ D.res = "settled" /\ D.script # "withdraw" => Closed(D.r, D.target)
        /\ D.answer = "closed" => Closed(D.r, D.target)

\* A stake RESUME found on the ER is still there, or decided, or long closed.
FoundOnEr(D) ==
    D.pc = "erTx" /\ ~(D.target < gen[D.r]) =>
        D.target \in Gens /\ (er[D.r].live \/ verdicts[D.r][D.target] # "pending")

Knows(D) ==
    /\ D.target <= gen[D.r]
    /\ D.tx # "none" => D.pc \in TxPcs
    /\ D.pc # "idle" => D.res = "none"
    /\ D.pc \in {"stageTx", "pollEr", "erTx", "poll", "await"} => D.answer = "none"
    /\ D.pc \in {"await", "balance", "purse", "reclaimTx"} => D.script = "withdraw"
    /\ D.pc \in {"pollEr", "erTx", "poll"} => D.script # "withdraw"
    /\ D.pc = "reclaimTx" /\ D.tx = "ok" => ~D.purse
    /\ ~RpcMiss /\ WaitsFor = "confirmed" /\ D.res = "settled" /\ D.script = "withdraw"
          => ~D.purse
    /\ Watches(D) /\ ReportsRight(D) /\ FoundOnEr(D)

ScriptsInv == ScriptsTypeOK /\ ViewIsPast /\ \A d \in Drivers : Knows(drv[d])

LEMMA IsDriver == ASSUME ScriptsInv, NEW d \in Drivers PROVE drv[d] \in Driver
  BY DEF ScriptsInv, ScriptsTypeOK

\* The chain keeps what RESUME found.
LEMMA FoundLasts ==
    ASSUME ChainInv, [ChainNext]_chainVars, NEW D \in Driver, D.target <= gen[D.r],
           FoundOnEr(D)
    PROVE  FoundOnEr(D)'
  <1> USE MaxGenAssumption
  <1>0. D.r \in Receipts /\ D.target \in 0..MaxGen
    BY DEF Driver
  <1>1. gen[D.r] \in Nat /\ gen'[D.r] \in Nat /\ gen'[D.r] >= gen[D.r]
    BY <1>0, ChainMovesOn DEF MovesOn, ChainInv, ChainTypeOK
  <1>2. SUFFICES ASSUME D.pc = "erTx", D.target = gen[D.r], gen'[D.r] = gen[D.r]
                 PROVE  er'[D.r].live \/ verdicts'[D.r][D.target] # "pending"
    BY <1>0, <1>1 DEF FoundOnEr
  <1>3. D.target \in Gens /\ (er[D.r].live \/ verdicts[D.r][D.target] # "pending")
    BY <1>0, <1>1, <1>2 DEF FoundOnEr
  <1>4. OnErOrDecided(D.r, D.target)'
    BY <1>0, <1>2, <1>3, ErOrDecidedLasts DEF OnErOrDecided
  <1> QED BY <1>2, <1>4 DEF OnErOrDecided

\* What a script knows stays true while the chains and the view move on.
LEMMA KnowledgeLasts ==
    ASSUME ChainInv, ScriptsTypeOK, [ChainNext]_chainVars,
           view' \in [Receipts -> [gen : 0..MaxGen, exists : BOOLEAN]],
           \A r \in Receipts : view'[r].gen >= view[r].gen,
           NEW D \in Driver, Knows(D)
    PROVE  Knows(D)'
  <1> USE MaxGenAssumption
  <1>0. D.r \in Receipts /\ D.target \in 0..MaxGen /\ D.target <= gen[D.r]
    BY DEF Driver, Knows
  <1>1. gen[D.r] \in Nat /\ gen'[D.r] \in Nat /\ gen'[D.r] >= gen[D.r]
        /\ view[D.r].gen \in Nat /\ view'[D.r].gen \in Nat
    BY <1>0, ChainMovesOn DEF MovesOn, ChainInv, ChainTypeOK, ScriptsTypeOK
  <1>2. D.target <= gen'[D.r]
    BY <1>0, <1>1
  <1>3. Watches(D)'
    BY <1>0, <1>1 DEF Watches, Knows
  <1>4. ReportsRight(D)'
    BY <1>0, ClosedLasts DEF ReportsRight, Knows
  <1>5. FoundOnEr(D)'
    BY <1>0, FoundLasts DEF Knows
  <1> QED BY <1>2, <1>3, <1>4, <1>5 DEF Knows

-----------------------------------------------------------------------------
(***************************************************************************)
(* Each action of a script takes it to a state in which it knows.          *)
(***************************************************************************)
LateTx == [kind : TxKinds, r : Receipts]

Moves(d) ==
    \E D \in Driver :
        /\ Becomes(d, D) /\ Knows(D)'
        /\ UNCHANGED <<kind, view>> /\ late' \subseteq LateTx

LEMMA LocalMove ==
    ASSUME ScriptsInv, NEW d \in Drivers, NEW D \in Driver, Becomes(d, D), Knows(D),
           UNCHANGED <<chainVars, kind, view>>, late' \subseteq LateTx
    PROVE  Moves(d)
  <1>1. Knows(D)'
    BY DEF Knows, Watches, ReportsRight, FoundOnEr, Closed, chainVars
  <1> QED BY <1>1 DEF Moves

LEMMA LocalKeepsLate ==
    ASSUME ScriptsInv, Local
    PROVE  UNCHANGED <<chainVars, kind, view>> /\ late' \subseteq LateTx
  BY DEF Local, ScriptsInv, ScriptsTypeOK, LateTx

LEMMA ErrorMove ==
    ASSUME ScriptsInv, NEW d \in Drivers, Finish(d, "error"),
           UNCHANGED <<chainVars, kind, view>>, late' \subseteq LateTx
    PROVE  Moves(d)
  <1>1. PICK D \in Driver : D = [drv[d] EXCEPT !.pc = "idle", !.res = "error",
                                               !.tx = "none", !.seen = FALSE]
    <2>1. drv[d] \in Driver /\ "idle" \in Pcs
      BY DEF ScriptsInv, ScriptsTypeOK, Pcs
    <2>2. [drv[d] EXCEPT !.pc = "idle", !.res = "error", !.tx = "none", !.seen = FALSE]
            \in Driver
      BY <2>1 DEF Driver
    <2> QED BY <2>2
  <1>2. /\ D.pc = "idle" /\ D.tx = "none" /\ D.res = "error" /\ D.r = drv[d].r
        /\ D.target = drv[d].target /\ D.answer = drv[d].answer
    BY <1>1 DEF ScriptsInv, ScriptsTypeOK, Driver
  <1>3. Knows(D)
    BY <1>2 DEF ScriptsInv, Knows, Watches, ReportsRight, FoundOnEr
  <1> QED BY <1>1, <1>3, LocalMove DEF Finish

LEMMA StartMove ==
    ASSUME ChainInv, ScriptsInv, NEW d \in Drivers,
           NEW s \in {"token", "resume", "withdraw"}, NEW r \in Receipts, Start(d, s, r)
    PROVE  Moves(d)
  <1>1. PICK D \in Driver :
           D = [pc |-> IF s = "resume" THEN "pollEr" ELSE "stageTx",
                script |-> s, r |-> r, seen |-> FALSE, answer |-> "none",
                purse |-> FALSE, tx |-> IF s = "resume" THEN "none" ELSE "sent",
                res |-> "none", target |-> 0]
    <2>1. \A pc \in Pcs, tx \in {"none", "sent"} :
             [pc |-> pc, script |-> s, r |-> r, seen |-> FALSE, answer |-> "none",
              purse |-> FALSE, tx |-> tx, res |-> "none", target |-> 0] \in Driver
      BY MaxGenAssumption DEF Driver
    <2>2. (IF s = "resume" THEN "pollEr" ELSE "stageTx") \in Pcs
          /\ (IF s = "resume" THEN "none" ELSE "sent") \in {"none", "sent"}
      BY DEF Pcs
    <2> QED BY <2>1, <2>2
  <1>2. /\ D.pc = (IF s = "resume" THEN "pollEr" ELSE "stageTx") /\ D.script = s
        /\ D.tx = (IF s = "resume" THEN "none" ELSE "sent") /\ D.r = r
        /\ D.res = "none" /\ D.answer = "none" /\ D.target = 0
    BY <1>1
  <1>3. D.target <= gen[D.r]
    BY <1>2, MaxGenAssumption DEF ChainInv, ChainTypeOK
  <1>4. Knows(D)
    BY <1>2, <1>3 DEF Knows, Watches, ReportsRight, FoundOnEr, TxPcs
  <1> QED BY <1>1, <1>4, LocalMove, LocalKeepsLate DEF Start

\* What the ER serves is the live copy, or the clone of a decided receipt.
LEMMA PollErSeesMove ==
    ASSUME ChainInv, ScriptsInv, NEW d \in Drivers, PollErSees(d)
    PROVE  Moves(d)
  <1> DEFINE r == drv[d].r
  <1>0. r \in Receipts /\ gen[r] \in 0..MaxGen /\ base[r].state # "absent"
    BY DriverFields DEF PollErSees, VisibleOnEr, ScriptsInv, ChainInv, ChainTypeOK
  <1>1. gen[r] \in Gens
    BY <1>0, LiveReceiptWasStaged DEF ChainInv
  <1>2. er[r].live \/ verdicts[r][gen[r]] # "pending"
    <2>1. CASE base[r].state = "open"
      BY <1>0, <2>1 DEF ChainInv, CopiesAgree
    <2>2. CASE base[r].state = "stub"
      BY <2>2 DEF PollErSees, VisibleOnEr
    <2> QED BY <1>0, <2>1, <2>2 DEF ChainInv, ChainTypeOK, BaseAccount
  <1>3. PICK D \in Driver :
           D = [drv[d] EXCEPT !.pc = "erTx", !.tx = "sent", !.target = gen[r]]
    <2>1. drv[d] \in Driver /\ "erTx" \in Pcs
      BY DEF ScriptsInv, ScriptsTypeOK, Pcs
    <2>2. [drv[d] EXCEPT !.pc = "erTx", !.tx = "sent", !.target = gen[r]] \in Driver
      BY <1>0, <2>1 DEF Driver
    <2> QED BY <2>2
  <1>4. /\ D.pc = "erTx" /\ D.tx = "sent" /\ D.r = r /\ D.target = gen[r]
        /\ D.res = drv[d].res /\ D.answer = drv[d].answer /\ D.script = drv[d].script
    BY <1>3 DEF ScriptsInv, ScriptsTypeOK, Driver
  <1>5. D.res = "none" /\ D.answer = "none" /\ D.script # "withdraw"
    BY <1>4 DEF PollErSees, ScriptsInv, Knows
  <1>6. Knows(D)
    BY <1>0, <1>1, <1>2, <1>4, <1>5, MaxGenAssumption
    DEF Knows, Watches, ReportsRight, FoundOnEr, TxPcs
  <1> QED BY <1>3, <1>6, LocalMove, LocalKeepsLate DEF PollErSees

\* A client that waits for "confirmed" watches a receipt it can see.
LEMMA TxOkMove ==
    ASSUME ChainInv, ScriptsInv, NEW d \in Drivers, TxOk(d)
    PROVE  Moves(d)
  <1>0. /\ drv[d].pc \in TxPcs /\ drv[d].res = "none" /\ drv[d].tx = "ok"
        /\ AfterTx(drv[d]) \in {"idle", "await", "poll"}
    BY DEF TxOk, ScriptsInv, Knows, TxPcs, AfterTx
  <1>1. PICK res \in {"none", "settled"} :
           res = IF drv[d].pc = "reclaimTx" THEN "settled" ELSE drv[d].res
    BY <1>0
  <1>2. PICK D \in Driver :
           D = [drv[d] EXCEPT !.pc = AfterTx(drv[d]), !.tx = "none", !.res = res]
    <2>1. PICK pc \in Pcs : pc = AfterTx(drv[d])
      BY <1>0 DEF Pcs
    <2>2. PICK C \in Driver : C = drv[d]
      BY IsDriver
    <2>3. [C EXCEPT !.pc = pc, !.tx = "none", !.res = res] \in Driver
      BY DEF Driver
    <2> QED BY <2>1, <2>2, <2>3
  <1>3. /\ D.pc = AfterTx(drv[d]) /\ D.tx = "none" /\ D.res = res /\ D.r = drv[d].r
        /\ D.target = drv[d].target /\ D.answer = drv[d].answer
        /\ D.script = drv[d].script /\ D.purse = drv[d].purse
    BY <1>2 DEF ScriptsInv, ScriptsTypeOK, Driver
  <1>4. Becomes(d, D) /\ (WaitsFor = "confirmed" => view[D.r].gen >= D.target)
    BY <1>1, <1>2, <1>3 DEF TxOk, ScriptsInv, ScriptsTypeOK, Driver
  <1>5. Watches(D)
    <2>1. D.r \in Receipts /\ D.target \in Nat /\ view[D.r].gen \in Nat
      BY MaxGenAssumption DEF Driver, ScriptsInv, ScriptsTypeOK
    <2> QED BY <1>4, <2>1 DEF Watches
  <1>6. Knows(D)
    <2>1. CASE drv[d].pc = "reclaimTx"
      <3>1. /\ D.pc = "idle" /\ D.res = "settled" /\ D.script = "withdraw" /\ ~D.purse
            /\ D.target <= gen[D.r]
        BY <1>0, <1>1, <1>3, <2>1 DEF ScriptsInv, Knows, AfterTx
      <3>2. ReportsRight(D)
        BY <1>3, <3>1 DEF ScriptsInv, Knows, ReportsRight
      <3> QED BY <1>3, <1>5, <3>1, <3>2 DEF Knows, FoundOnEr
    <2>2. CASE drv[d].pc \in {"stageTx", "erTx"}
      <3>1. /\ D.pc = (IF drv[d].pc = "stageTx" /\ D.script = "withdraw"
                         THEN "await" ELSE "poll")
            /\ D.res = "none" /\ D.answer = "none" /\ D.target <= gen[D.r]
            /\ D.pc = "poll" => D.script # "withdraw"
        BY <1>0, <1>1, <1>3, <2>2 DEF ScriptsInv, Knows, AfterTx
      <3> QED BY <1>3, <1>5, <3>1 DEF Knows, ReportsRight, FoundOnEr
    <2> QED BY <1>0, <2>1, <2>2 DEF TxPcs
  <1> QED BY <1>4, <1>6, LocalMove, LocalKeepsLate DEF TxOk

LEMMA GiveUpMove ==
    ASSUME ChainInv, ScriptsInv, NEW d \in Drivers,
           TxFailed(d) \/ TxExpires(d) \/ Crash(d) \/ PollErExpires(d) \/ PollExpires(d)
    PROVE  Moves(d)
  <1>1. Finish(d, "error") /\ UNCHANGED <<chainVars, kind, view>>
    BY DEF TxFailed, TxExpires, Crash, PollErExpires, PollExpires, Local
  <1>2. \/ late' = late
        \/ late' = late \cup {[kind |-> IF drv[d].pc = "stageTx" THEN "stage" ELSE "er",
                               r |-> drv[d].r]}
    BY DEF TxFailed, TxExpires, Crash, PollErExpires, PollExpires, Local, KeepLate
  <1>3. [kind |-> IF drv[d].pc = "stageTx" THEN "stage" ELSE "er", r |-> drv[d].r] \in LateTx
    BY DriverFields DEF ScriptsInv, LateTx, TxKinds
  <1>4. late' \subseteq LateTx
    BY <1>2, <1>3 DEF ScriptsInv, ScriptsTypeOK, LateTx
  <1> QED BY <1>1, <1>4, ErrorMove

\* A read without the account, once the view has reached the staging.
LEMMA GoneIsClosed ==
    ASSUME ChainInv, ScriptsInv, NEW D \in Driver, Knows(D), ~RpcMiss,
           WaitsFor = "confirmed", D.pc \in {"poll", "await"}, FALSE \in Exists(D.r)
    PROVE  Closed(D.r, D.target)
  <1>1. /\ D.r \in Receipts /\ D.target \in Nat /\ view[D.r].gen \in Nat
        /\ gen[D.r] \in Nat
    BY MaxGenAssumption DEF Driver, ScriptsInv, ScriptsTypeOK, ChainInv, ChainTypeOK
  <1>2. D.target <= view[D.r].gen
    BY DEF Knows, Watches
  <1>3. Closed(D.r, view[D.r].gen)
    BY <1>1 DEF Exists, ScriptsInv, ViewIsPast
  <1> QED BY <1>1, <1>2, <1>3 DEF Closed

LEMMA PollMove ==
    ASSUME ChainInv, ScriptsInv, NEW d \in Drivers, Poll(d)
    PROVE  Moves(d)
  <1>0. drv[d].pc = "poll" /\ Finish(d, "settled") /\ Local
    BY DEF Poll
  <1>1. PICK C \in Driver : C = drv[d] /\ Knows(C)
    BY DEF ScriptsInv, ScriptsTypeOK
  <1>2. ~RpcMiss /\ WaitsFor = "confirmed" => Closed(C.r, C.target)
    BY <1>0, <1>1, GoneIsClosed DEF Poll
  <1>3. PICK D \in Driver : D = [C EXCEPT !.pc = "idle", !.res = "settled",
                                          !.tx = "none", !.seen = FALSE]
    BY DEF Driver, Pcs
  <1>4. /\ D.pc = "idle" /\ D.tx = "none" /\ D.res = "settled" /\ D.r = C.r
        /\ D.target = C.target /\ D.answer = C.answer /\ D.script = C.script
    BY <1>3 DEF Driver
  <1>5. C.script # "withdraw" /\ C.answer = "none" /\ C.target <= gen[C.r]
    BY <1>0, <1>1 DEF Knows
  <1>6. Knows(D)
    BY <1>2, <1>4, <1>5 DEF Knows, Watches, ReportsRight, FoundOnEr
  <1> QED BY <1>0, <1>1, <1>3, <1>6, LocalMove, LocalKeepsLate DEF Finish

LEMMA AwaitMove ==
    ASSUME ChainInv, ScriptsInv, NEW d \in Drivers, Await(d) \/ AwaitExpires(d)
    PROVE  Moves(d)
  <1>0. drv[d].pc = "await" /\ Local
    BY DEF Await, AwaitExpires
  <1>1. PICK C \in Driver : C = drv[d] /\ Knows(C)
    BY DEF ScriptsInv, ScriptsTypeOK
  <1>2. /\ C.script = "withdraw" /\ C.answer = "none" /\ C.res = "none" /\ C.tx = "none"
        /\ C.target <= gen[C.r] /\ (WaitsFor = "confirmed" => C.target <= view[C.r].gen)
    BY <1>0, <1>1 DEF Knows, Watches, TxPcs
  <1>3. CASE Becomes(d, [C EXCEPT !.seen = TRUE])
    <2>1. PICK D \in Driver : D = [C EXCEPT !.seen = TRUE]
      BY DEF Driver
    <2>2. /\ D.pc = C.pc /\ D.tx = C.tx /\ D.res = C.res /\ D.r = C.r /\ D.target = C.target
          /\ D.answer = C.answer /\ D.script = C.script /\ D.purse = C.purse
      BY <2>1 DEF Driver
    <2>3. Knows(D)
      BY <1>1, <2>2 DEF Knows, Watches, ReportsRight, FoundOnEr
    <2> QED BY <1>0, <1>3, <2>1, <2>3, LocalMove, LocalKeepsLate
  <1>4. ASSUME NEW a \in {"closed", "timeout"},
               Becomes(d, [C EXCEPT !.pc = "balance", !.answer = a]),
               a = "closed" => FALSE \in Exists(C.r)
        PROVE  Moves(d)
    <2>1. PICK D \in Driver : D = [C EXCEPT !.pc = "balance", !.answer = a]
      BY DEF Driver, Pcs
    <2>2. /\ D.pc = "balance" /\ D.tx = C.tx /\ D.res = C.res /\ D.r = C.r
          /\ D.target = C.target /\ D.answer = a /\ D.script = C.script
      BY <2>1 DEF Driver
    <2>3. ~RpcMiss /\ WaitsFor = "confirmed" /\ a = "closed" => Closed(C.r, C.target)
      BY <1>0, <1>1, <1>4, GoneIsClosed
    <2>4. Knows(D)
      BY <1>2, <2>2, <2>3 DEF Knows, Watches, ReportsRight, FoundOnEr
    <2> QED BY <1>0, <1>4, <2>1, <2>4, LocalMove, LocalKeepsLate
  <1> QED BY <1>1, <1>3, <1>4 DEF Await, AwaitExpires

\* A withdrawal ends with its payer emptied, or on its way to be.
LEMMA PurseMove ==
    ASSUME ChainInv, ScriptsInv, NEW d \in Drivers, Balance(d) \/ Purse(d)
    PROVE  Moves(d)
  <1>0. drv[d].pc \in {"balance", "purse"} /\ Local
    BY DEF Balance, Purse
  <1>1. PICK C \in Driver : C = drv[d] /\ Knows(C)
    BY DEF ScriptsInv, ScriptsTypeOK
  <1>2. /\ C.script = "withdraw" /\ C.res = "none" /\ C.tx = "none"
        /\ C.target <= gen[C.r] /\ ReportsRight(C)
        /\ WaitsFor = "confirmed" => C.target <= view[C.r].gen
    BY <1>0, <1>1 DEF Knows, Watches, TxPcs
  <1>3. ASSUME NEW p \in {"purse", "reclaimTx"}, NEW tx \in {"none", "sent"},
               tx # "none" => p = "reclaimTx",
               Becomes(d, [C EXCEPT !.pc = p, !.tx = tx])
        PROVE  Moves(d)
    <2>1. PICK D \in Driver : D = [C EXCEPT !.pc = p, !.tx = tx]
      BY DEF Driver, Pcs
    <2>2. /\ D.pc = p /\ D.tx = tx /\ D.res = "none" /\ D.r = C.r /\ D.target = C.target
          /\ D.answer = C.answer /\ D.script = "withdraw"
      BY <1>2, <2>1 DEF Driver
    <2>3. Knows(D)
      BY <1>2, <1>3, <2>2 DEF Knows, Watches, ReportsRight, FoundOnEr, TxPcs
    <2> QED BY <1>0, <1>3, <2>1, <2>3, LocalMove, LocalKeepsLate
  <1>4. CASE Goto(d, "purse")
    <2>1. [C EXCEPT !.pc = "purse"] = [C EXCEPT !.pc = "purse", !.tx = "none"]
      BY <1>2 DEF Driver
    <2> QED BY <1>1, <1>3, <1>4, <2>1 DEF Goto
  <1>5. CASE Send(d, "reclaimTx")
    BY <1>1, <1>3, <1>5 DEF Send
  <1>6. CASE Finish(d, "error")
    BY <1>0, <1>6, ErrorMove, LocalKeepsLate
  <1>7. CASE (~PayerHas(d) \/ RpcMiss) /\ Finish(d, "settled")
    <2>1. PICK D \in Driver : D = [C EXCEPT !.pc = "idle", !.res = "settled",
                                            !.tx = "none", !.seen = FALSE]
      BY DEF Driver, Pcs
    <2>2. /\ D.pc = "idle" /\ D.tx = "none" /\ D.res = "settled" /\ D.r = C.r
          /\ D.target = C.target /\ D.answer = C.answer /\ D.script = "withdraw"
          /\ D.purse = C.purse
      BY <1>2, <2>1 DEF Driver
    <2>3. ~RpcMiss /\ WaitsFor = "confirmed" => ~C.purse
      <3>1. C.target \in Nat /\ view[C.r].gen \in Nat
        BY MaxGenAssumption DEF Driver, ScriptsInv, ScriptsTypeOK
      <3> QED BY <1>1, <1>2, <1>7, <3>1 DEF PayerHas
    <2>4. Knows(D)
      BY <1>2, <2>2, <2>3 DEF Knows, Watches, ReportsRight, FoundOnEr
    <2> QED BY <1>0, <1>1, <1>7, <2>1, <2>4, LocalMove, LocalKeepsLate DEF Finish
  <1> QED BY <1>1, <1>4, <1>5, <1>6, <1>7 DEF Balance, Purse

\* The chains move under a script that waits for its transaction.
LEMMA LandMove ==
    ASSUME ChainInv, ScriptsInv, NEW d \in Drivers, Land(d)
    PROVE  Moves(d)
  <1>1. [ChainNext]_chainVars
    BY StepIsChainStep DEF ScriptsInv, Next
  <1>2. /\ UNCHANGED <<kind, view>> /\ late' \subseteq LateTx
        /\ drv[d].tx = "sent" /\ drv[d].pc \in TxPcs
    BY DEF Land, LandStage, LandEr, LandReclaim, LandFails, Local, ScriptsInv,
       ScriptsTypeOK, Knows, LateTx, TxPcs
  <1>3. PICK C \in Driver : C = drv[d] /\ Knows(C)
    BY DEF ScriptsInv, ScriptsTypeOK
  <1>4. Knows(C)'
    <2>1. \A r \in Receipts : view'[r].gen >= view[r].gen
      BY <1>2, MaxGenAssumption DEF ScriptsInv, ScriptsTypeOK
    <2> QED BY <1>1, <1>2, <1>3, <2>1, KnowledgeLasts DEF ScriptsInv, ScriptsTypeOK
  <1>5. C.pc \in TxPcs /\ C.res = "none" /\ C.target \in 0..MaxGen /\ C.r \in Receipts
        /\ C.purse \in BOOLEAN
    BY <1>2, <1>3 DEF Knows, TxPcs, Driver
  <1>6. gen'[C.r] \in 0..MaxGen /\ gen'[C.r] <= gen'[C.r]
    BY <1>1, <1>5, ChainMovesOn, MaxGenAssumption DEF MovesOn
  <1>7. PICK tx \in {"ok", "err"}, g \in 0..MaxGen, p \in BOOLEAN :
           /\ Becomes(d, [C EXCEPT !.tx = tx, !.target = g, !.purse = p])
           /\ g = C.target \/ (C.pc = "stageTx" /\ g = gen'[C.r])
           /\ C.pc = "reclaimTx" /\ tx = "ok" => ~p
    <2>1. CASE LandStage(d)
      <3>1. Becomes(d, [C EXCEPT !.tx = "ok", !.target = gen'[C.r],
                                 !.purse = (C.script = "withdraw")])
        BY <1>3, <2>1 DEF LandStage
      <3> QED BY <1>3, <1>6, <2>1, <3>1 DEF LandStage
    <2>2. CASE LandEr(d) \/ LandFails(d)
      <3>1. PICK tx \in {"ok", "err"} : /\ Becomes(d, [C EXCEPT !.tx = tx])
                                        /\ C.pc = "reclaimTx" => tx = "err"
        BY <1>3, <2>2 DEF LandEr, LandFails
      <3>2. [C EXCEPT !.tx = tx]
              = [C EXCEPT !.tx = tx, !.target = C.target, !.purse = C.purse]
        BY DEF Driver
      <3> QED BY <1>5, <3>1, <3>2
    <2>3. CASE LandReclaim(d)
      <3>1. Becomes(d, [C EXCEPT !.tx = "ok", !.purse = FALSE])
        BY <1>3, <2>3 DEF LandReclaim
      <3>2. [C EXCEPT !.tx = "ok", !.purse = FALSE]
              = [C EXCEPT !.tx = "ok", !.target = C.target, !.purse = FALSE]
        BY DEF Driver
      <3> QED BY <1>5, <3>1, <3>2
    <2> QED BY <2>1, <2>2, <2>3 DEF Land
  <1>8. PICK D \in Driver : D = [C EXCEPT !.tx = tx, !.target = g, !.purse = p]
    BY DEF Driver
  <1>9. /\ D.pc = C.pc /\ D.r = C.r /\ D.res = C.res /\ D.script = C.script
        /\ D.answer = C.answer /\ D.target = g /\ D.purse = p /\ D.tx = tx
    BY <1>8 DEF Driver
  <1>10. Knows(D)'
    <2>1. Watches(D)' /\ (D.tx # "none" => D.pc \in TxPcs)
          /\ (D.pc = "reclaimTx" /\ D.tx = "ok" => ~D.purse)
      BY <1>5, <1>7, <1>9 DEF Watches, TxPcs
    <2>2. CASE g = C.target
      BY <1>4, <1>5, <1>9, <2>1, <2>2 DEF Knows, ReportsRight, FoundOnEr, Closed
    <2>3. CASE C.pc = "stageTx" /\ g = gen'[C.r]
      <3>1. D.answer = "none" /\ D.res = "none"
        BY <1>3, <1>5, <1>9, <2>3 DEF Knows
      <3> QED BY <1>6, <1>9, <2>1, <2>3, <3>1 DEF Knows, ReportsRight, FoundOnEr
    <2> QED BY <1>7, <2>2, <2>3
  <1> QED BY <1>2, <1>3, <1>7, <1>8, <1>10 DEF Moves

-----------------------------------------------------------------------------
LEMMA AutoErInitInv ==
    ASSUME Init
    PROVE  ChainInv /\ ScriptsInv
  <1>1. ChainInv
    BY ChainInitInv DEF Init
  <1>2. ScriptsTypeOK
    <2>1. \A r \in Receipts :
             [pc |-> "idle", script |-> "none", r |-> r, seen |-> FALSE, answer |-> "none",
              purse |-> FALSE, tx |-> "none", res |-> "none", target |-> 0] \in Driver
      BY MaxGenAssumption DEF Driver, Pcs
    <2>2. drv \in [Drivers -> Driver]
      BY <2>1 DEF Init
    <2>3. [gen |-> 0, exists |-> FALSE] \in [gen : 0..MaxGen, exists : BOOLEAN]
      BY MaxGenAssumption
    <2>4. view \in [Receipts -> [gen : 0..MaxGen, exists : BOOLEAN]]
      BY <2>3 DEF Init
    <2> QED BY <2>2, <2>4 DEF Init, ScriptsTypeOK
  <1>3. ViewIsPast
    <2>1. ASSUME NEW r \in Receipts
          PROVE  view[r].gen = 0 /\ gen[r] = 0 /\ base[r].state = "absent"
      <3>1. view[r].gen = 0
        BY DEF Init
      <3>2. base[r] = NoAccount /\ gen[r] = 0
        BY DEF Init, ChainInit
      <3> QED BY <3>1, <3>2 DEF NoAccount
    <2>2. ASSUME NEW r \in Receipts
          PROVE  view[r].gen <= gen[r] /\ Closed(r, view[r].gen)
      BY <2>1 DEF Closed
    <2> QED BY <2>2 DEF ViewIsPast
  <1>4. ASSUME NEW d \in Drivers PROVE Knows(drv[d])
    <2>1. PICK r \in Receipts :
             drv[d] = [pc |-> "idle", script |-> "none", r |-> r, seen |-> FALSE,
                       answer |-> "none", purse |-> FALSE, tx |-> "none",
                       res |-> "none", target |-> 0]
      BY DEF Init
    <2>2. /\ drv[d].pc = "idle" /\ drv[d].tx = "none" /\ drv[d].res = "none"
          /\ drv[d].answer = "none" /\ drv[d].target = 0 /\ drv[d].r \in Receipts
      BY <2>1
    <2>3. gen[drv[d].r] = 0
      BY <2>2 DEF Init, ChainInit
    <2> QED BY <2>2, <2>3 DEF Knows, Watches, ReportsRight, FoundOnEr
  <1> QED BY <1>1, <1>2, <1>3, <1>4 DEF ScriptsInv

LEMMA ActionMoves ==
    ASSUME ChainInv, ScriptsInv, NEW d \in Drivers,
           \/ \E r \in Receipts, s \in {"token", "resume", "withdraw"} : Start(d, s, r)
           \/ Step(d) \/ Land(d) \/ Crash(d)
    PROVE  Moves(d)
  BY StartMove, PollErSeesMove, TxOkMove, GiveUpMove, PollMove, AwaitMove, PurseMove,
     LandMove DEF Step

LEMMA AutoErNextInv ==
    ASSUME ChainInv, ScriptsInv, [Next]_autoVars
    PROVE  ScriptsInv'
  <1>0. [ChainNext]_chainVars
    BY StepIsChainStep DEF ScriptsInv
  <1>1. ASSUME NEW d \in Drivers, Moves(d)
        PROVE  ScriptsInv'
    <2>1. PICK D \in Driver : /\ Becomes(d, D) /\ Knows(D)' /\ UNCHANGED <<kind, view>>
                              /\ late' \subseteq LateTx
      BY <1>1 DEF Moves
    <2>2. ScriptsTypeOK'
      BY <2>1 DEF Becomes, ScriptsInv, ScriptsTypeOK, LateTx
    <2>3. ViewIsPast' /\ \A r \in Receipts : view'[r].gen >= view[r].gen
      BY <1>0, <2>1, ViewStep DEF ScriptsInv
    <2>4. ASSUME NEW e \in Drivers PROVE Knows(drv[e])'
      <3>1. PICK E \in Driver : E = drv'[e]
        BY <2>2 DEF ScriptsTypeOK
      <3>2. e = d => E = D
        BY <2>1, <3>1 DEF Becomes, ScriptsInv, ScriptsTypeOK
      <3>3. e # d => E = drv[e] /\ Knows(E)
        BY <2>1, <3>1 DEF Becomes, ScriptsInv, ScriptsTypeOK
      <3>4. Knows(E)'
        BY <1>0, <2>1, <2>2, <2>3, <3>2, <3>3, KnowledgeLasts DEF ScriptsInv, ScriptsTypeOK
      <3> QED BY <3>1, <3>4 DEF Knows, Watches, ReportsRight, FoundOnEr, Closed
    <2> QED BY <2>2, <2>3, <2>4 DEF ScriptsInv
  <1>2. ASSUME UNCHANGED <<kind, drv>>, late' \subseteq LateTx,
               UNCHANGED view \/ \E r \in Receipts : Confirm(r)
        PROVE  ScriptsInv'
    <2>1. /\ view' \in [Receipts -> [gen : 0..MaxGen, exists : BOOLEAN]]
          /\ ViewIsPast' /\ \A r \in Receipts : view'[r].gen >= view[r].gen
      BY <1>0, <1>2, ViewStep DEF ScriptsInv
    <2>2. ScriptsTypeOK'
      BY <1>2, <2>1 DEF ScriptsInv, ScriptsTypeOK, LateTx
    <2>3. ASSUME NEW e \in Drivers PROVE Knows(drv[e])'
      <3>1. PICK E \in Driver : E = drv[e] /\ E = drv'[e]
        BY <1>2 DEF ScriptsInv, ScriptsTypeOK
      <3>2. Knows(E)'
        BY <1>0, <2>1, <3>1, KnowledgeLasts DEF ScriptsInv
      <3> QED BY <3>1, <3>2 DEF Knows, Watches, ReportsRight, FoundOnEr, Closed
    <2> QED BY <2>1, <2>2, <2>3 DEF ScriptsInv
  <1>3. CASE \/ UNCHANGED autoVars \/ LandLate \/ DropLate
             \/ \E r \in Receipts : Confirm(r) \/ FrontEnd(r) \/ CloneConfirmed(r) \/ Chain(r)
    BY <1>2, <1>3 DEF autoVars, LandLate, DropLate, Confirm, FrontEnd, CloneConfirmed, Chain,
       ScriptsInv, ScriptsTypeOK, LateTx
  <1> QED BY <1>1, <1>3, ActionMoves DEF Next

\* Each script knows what its state says it knows, in every mix of flows, reruns,
\* crashes and late transactions.
THEOREM AutoErInvariant == Spec => [](ChainInv /\ ScriptsInv)
  <1>1. Init => ChainInv /\ ScriptsInv
    BY AutoErInitInv
  <1>2. ChainInv /\ ScriptsInv /\ [Next]_autoVars => (ChainInv /\ ScriptsInv)'
    BY AutoErNextInv, ChainNextInv, StepIsChainStep DEF ScriptsInv
  <1> QED BY <1>1, <1>2, PTL DEF Spec

\* Token flows, withdrawals, RESUME runs, crashes and late transactions make
\* the chains take only the steps of ReceiptChain, so that all that is proved
\* of it (no stake lost or paid twice, verdicts final) is true of them.
THEOREM AutoErFollowsChain == Spec => ChainSpec
  <1>1. Init => ChainInit
    BY DEF Init
  <1>2. ScriptsInv /\ [Next]_autoVars => [ChainNext]_chainVars
    BY StepIsChainStep DEF ScriptsInv
  <1> QED BY <1>1, <1>2, AutoErInvariant, PTL DEF Spec, ChainSpec

\* So they implement the promise: a verdict is final, and a stake leaves once, to
\* where its own verdict says.
THEOREM AutoErKeepsPromise == Spec => PromiseKept
  BY AutoErFollowsChain, ChainKeepsPromise, PTL

\* Type correctness of the token and withdrawal scripts.
THEOREM AutoErTyping == Spec => []TypeOK
  <1>1. ChainInv /\ ScriptsInv => TypeOK
    BY DEF ChainInv, ScriptsInv, ScriptsTypeOK, TypeOK
  <1> QED BY <1>1, AutoErInvariant, PTL

\* A client that waits for "confirmed" and whose reads do not fail never takes
\* an earlier state of the address for the close of its own staking.
THEOREM SettledTokensAreClosed ==
    ASSUME ~RpcMiss, WaitsFor = "confirmed" PROVE Spec => []TokenSettled
  <1>1. ChainInv /\ ScriptsInv => TokenSettled
    BY DEF ScriptsInv, Knows, ReportsRight, TokenSettled
  <1> QED BY <1>1, AutoErInvariant, PTL

\* The same of awaitClosed: what it saw go is the escrow of this withdrawal.
THEOREM AwaitedEscrowIsClosed ==
    ASSUME ~RpcMiss, WaitsFor = "confirmed" PROVE Spec => []ClosedAnswer
  <1>1. ChainInv /\ ScriptsInv => ClosedAnswer
    BY DEF ScriptsInv, Knows, ReportsRight, ClosedAnswer
  <1> QED BY <1>1, AutoErInvariant, PTL

\* A client that waits for "confirmed" and whose reads do not fail has emptied
\* the throwaway payer of every withdrawal it reports a success of. (At
\* "processed" the balance it reads may be older than the payer's funding.)
THEOREM PayersAreEmptied ==
    ASSUME ~RpcMiss, WaitsFor = "confirmed" PROVE Spec => []PayerEmptied
  <1>1. ChainInv /\ ScriptsInv => PayerEmptied
    BY DEF ScriptsInv, Knows, PayerEmptied
  <1> QED BY <1>1, AutoErInvariant, PTL

\* An `_er` that RESUME=1 sends is about a stake the ER can decide, or that was
\* decided or closed meanwhile: at either commitment, and even if reads fail.
THEOREM ErsAreDue == Spec => []ErIsDue
  <1>1. ChainInv /\ ScriptsInv => ErIsDue
    <2> SUFFICES ASSUME ChainInv, ScriptsInv, NEW d \in Drivers, drv[d].pc = "erTx",
                        ~(drv[d].target < gen[drv[d].r])
                 PROVE  CanEr(drv[d].r) \/ verdicts[drv[d].r][gen[drv[d].r]] # "pending"
      BY DEF ErIsDue
    <2>1. PICK D \in Driver : D = drv[d] /\ Knows(D)
      BY DEF ScriptsInv, ScriptsTypeOK
    <2>2. /\ D.r \in Receipts /\ D.target \in Nat /\ gen[D.r] \in Nat
          /\ D.target <= gen[D.r]
      BY <2>1, MaxGenAssumption DEF Driver, Knows, ChainInv, ChainTypeOK
    <2>3. D.target = gen[D.r]
      BY <2>1, <2>2
    <2>4. er[D.r].live \/ verdicts[D.r][gen[D.r]] # "pending"
      BY <2>1, <2>3 DEF Knows, FoundOnEr
    <2> QED BY <2>1, <2>2, <2>4 DEF CanEr, ChainInv, CopiesAgree
  <1> QED BY <1>1, AutoErInvariant, PTL
=============================================================================
