------------------------- MODULE ReceiptChainProofs -------------------------
(***************************************************************************)
(* The receipt life cycle keeps its books for any set of receipts and any  *)
(* number of re-stagings.  Everything rests on one inductive invariant:    *)
(* the type invariant, Conservation and CopiesAgree, plus FreshVerdicts,   *)
(* which says that nothing was decided yet about a staging that has not    *)
(* happened, or whose stub has not been cloned, and ClosedWasDecided,      *)
(* which says that a staging is only over once it was decided.             *)
(***************************************************************************)
EXTENDS ReceiptChain, TLAPS

\* A verdict is written on the ER copy of the current staging and nowhere else.
FreshVerdicts ==
    \A r \in Receipts :
        /\ \A g \in Gens : g > gen[r] => verdicts[r][g] = "pending"
        /\ base[r].state = "stub" /\ ~er[r].live => verdicts[r][gen[r]] = "pending"

ClosedWasDecided ==
    \A r \in Receipts, g \in Gens :
        g <= gen[r] /\ Closed(r, g) => verdicts[r][g] # "pending"

ChainInv ==
    /\ ChainTypeOK /\ Conservation /\ CopiesAgree
    /\ FreshVerdicts /\ ClosedWasDecided

-----------------------------------------------------------------------------
\* An existing receipt is the stake of a staging that did happen.
LEMMA LiveReceiptWasStaged ==
    ASSUME ChainTypeOK, Conservation, NEW r \in Receipts, base[r].state # "absent"
    PROVE  gen[r] \in Gens
  BY MaxGenAssumption DEF ChainTypeOK, Conservation, Gens

\* Staging: a new generation, undecided, with one stake in escrow.
LEMMA StageStep ==
    ASSUME ChainInv, NEW r \in Receipts, NEW q \in BOOLEAN,
           CanStage(r), StageEffect(r, q)
    PROVE  ChainInv'
  <1>0. gen[r] + 1 \in Gens /\ gen'[r] = gen[r] + 1 /\ ~er[r].live
    BY MaxGenAssumption DEF ChainInv, ChainTypeOK, CopiesAgree, CanStage, StageEffect, Gens
  <1>1. ChainTypeOK'
    BY <1>0, MaxGenAssumption DEF ChainInv, ChainTypeOK, CanStage, StageEffect,
       BaseAccount, Decisions, Gens
  <1>2. Conservation'
    BY <1>0 DEF ChainInv, ChainTypeOK, Conservation, CanStage, StageEffect
  <1>3. CopiesAgree'
    BY <1>0 DEF ChainInv, ChainTypeOK, CopiesAgree, CanStage, StageEffect
  <1>4. FreshVerdicts'
    BY <1>0 DEF ChainInv, ChainTypeOK, FreshVerdicts, CanStage, StageEffect, Gens
  <1>5. ClosedWasDecided'
    BY <1>0, MaxGenAssumption
    DEF ChainInv, ChainTypeOK, ClosedWasDecided, Closed, CanStage, StageEffect, Gens
  <1> QED BY <1>1, <1>2, <1>3, <1>4, <1>5 DEF ChainInv

\* `_er`: the copy and the history get the same verdict.
LEMMA ErStep ==
    ASSUME ChainInv, NEW r \in Receipts, NEW v \in Finals,
           CanEr(r), ErEffect(r, v), queuedEr' \in [Receipts -> SUBSET Gens]
    PROVE  ChainInv'
  <1>0. gen[r] \in Gens /\ base[r].state = "stub"
    BY LiveReceiptWasStaged DEF ChainInv, CopiesAgree, CanEr
  <1>1. ChainTypeOK'
    BY <1>0 DEF ChainInv, ChainTypeOK, ErEffect, ErAccount, Finals, Decisions
  <1>2. Conservation'
    BY DEF ChainInv, Conservation, ErEffect
  <1>3. CopiesAgree'
    BY <1>0 DEF ChainInv, ChainTypeOK, CopiesAgree, ErEffect, ErAccount
  <1>4. FreshVerdicts'
    BY <1>0, MaxGenAssumption
    DEF ChainInv, ChainTypeOK, FreshVerdicts, CanEr, ErEffect, ErAccount, Gens
  <1>5. ClosedWasDecided'
    BY <1>0 DEF ChainInv, ChainTypeOK, ClosedWasDecided, Closed, ErEffect, Finals
  <1> QED BY <1>1, <1>2, <1>3, <1>4, <1>5 DEF ChainInv

\* settle: the stake leaves once, and the account goes with it.
LEMMA SettleStep ==
    ASSUME ChainInv, NEW r \in Receipts,
           CanSettle(r), SettleEffect(r), queuedSettle' \in [Receipts -> SUBSET Gens]
    PROVE  ChainInv'
  <1>0. escrow[r] = 1 /\ ~er[r].live
    BY DEF ChainInv, Conservation, CopiesAgree, CanSettle
  <1>1. ChainTypeOK'
    <2>1. base' \in [Receipts -> BaseAccount]
      BY DEF ChainInv, ChainTypeOK, SettleEffect, BaseAccount, NoAccount, Decisions
    <2>2. escrow' \in [Receipts -> Nat]
      BY <1>0 DEF ChainInv, ChainTypeOK, SettleEffect
    <2>3. paid' \in [Receipts -> Nat] /\ refunded' \in [Receipts -> Nat]
      <3>1. CASE base[r].decision = "success"
        BY <3>1 DEF ChainInv, ChainTypeOK, SettleEffect
      <3>2. CASE base[r].decision # "success"
        BY <3>2 DEF ChainInv, ChainTypeOK, SettleEffect
      <3> QED BY <3>1, <3>2
    <2> QED BY <2>1, <2>2, <2>3 DEF ChainInv, ChainTypeOK, SettleEffect
  <1>2. Conservation'
    <2>1. CASE base[r].decision = "success"
      BY <1>0, <2>1 DEF ChainInv, ChainTypeOK, Conservation, SettleEffect, NoAccount
    <2>2. CASE base[r].decision # "success"
      BY <1>0, <2>2 DEF ChainInv, ChainTypeOK, Conservation, SettleEffect, NoAccount
    <2> QED BY <2>1, <2>2
  <1>3. CopiesAgree'
    BY <1>0 DEF ChainInv, ChainTypeOK, CopiesAgree, SettleEffect, NoAccount
  <1>4. FreshVerdicts'
    BY <1>0 DEF ChainInv, ChainTypeOK, FreshVerdicts, SettleEffect, NoAccount
  <1>5. ClosedWasDecided'
    BY MaxGenAssumption DEF ChainInv, ChainTypeOK, CopiesAgree, ClosedWasDecided, Closed,
       CanSettle, SettleEffect, NoAccount, Gens
  <1> QED BY <1>1, <1>2, <1>3, <1>4, <1>5 DEF ChainInv

\* The first clone is undecided, like its stub and its staging.
LEMMA CloneStep ==
    ASSUME ChainInv, NEW r \in Receipts, Clone(r)
    PROVE  ChainInv'
  <1>1. ChainTypeOK'
    BY DEF ChainInv, ChainTypeOK, Clone, ErAccount, BaseAccount
  <1>2. Conservation'
    BY DEF ChainInv, Conservation, Clone
  <1>3. CopiesAgree'
    BY DEF ChainInv, ChainTypeOK, CopiesAgree, FreshVerdicts, Clone
  <1>4. FreshVerdicts'
    BY DEF ChainInv, ChainTypeOK, FreshVerdicts, Clone
  <1>5. ClosedWasDecided'
    BY DEF ChainInv, ClosedWasDecided, Closed, Clone
  <1> QED BY <1>1, <1>2, <1>3, <1>4, <1>5 DEF ChainInv

\* Undelegating brings the verdict of the current staging to the base chain.
LEMMA UndelegateStep ==
    ASSUME ChainInv, NEW r \in Receipts, Undelegate(r)
    PROVE  ChainInv'
  <1>0. gen[r] \in Gens /\ base[r].state = "stub"
    BY LiveReceiptWasStaged DEF ChainInv, CopiesAgree, Undelegate
  <1>1. ChainTypeOK'
    BY <1>0 DEF ChainInv, ChainTypeOK, Undelegate, ErAccount, BaseAccount, NoCopy, Decisions
  <1>2. Conservation'
    BY <1>0 DEF ChainInv, ChainTypeOK, Conservation, Undelegate
  <1>3. CopiesAgree'
    BY <1>0 DEF ChainInv, ChainTypeOK, CopiesAgree, Undelegate, NoCopy
  <1>4. FreshVerdicts'
    BY <1>0 DEF ChainInv, ChainTypeOK, FreshVerdicts, Undelegate, NoCopy
  <1>5. ClosedWasDecided'
    BY <1>0 DEF ChainInv, ChainTypeOK, ClosedWasDecided, Closed, Undelegate
  <1> QED BY <1>1, <1>2, <1>3, <1>4, <1>5 DEF ChainInv

-----------------------------------------------------------------------------
LEMMA ChainInitInv ==
    ASSUME ChainInit
    PROVE  ChainInv
  BY MaxGenAssumption DEF ChainInit, ChainInv, ChainTypeOK, Conservation, CopiesAgree,
     FreshVerdicts, ClosedWasDecided, BaseAccount, ErAccount, NoAccount, NoCopy,
     Decisions, Gens

\* Removing a queued action that fails touches nothing else.
LEMMA QueueStep ==
    ASSUME ChainInv, NEW r \in Receipts, QueuedErFails(r) \/ QueuedSettleFails(r)
    PROVE  ChainInv'
  <1>1. UNCHANGED <<base, er, escrow, paid, refunded, gen, verdicts>>
    BY DEF QueuedErFails, QueuedSettleFails
  <1>2. /\ queuedEr' \in [Receipts -> SUBSET Gens]
        /\ queuedSettle' \in [Receipts -> SUBSET Gens]
    <2>1. /\ queuedEr \in [Receipts -> SUBSET Gens]
          /\ queuedSettle \in [Receipts -> SUBSET Gens]
      BY DEF ChainInv, ChainTypeOK
    <2>2. CASE QueuedErFails(r)
      BY <2>1, <2>2 DEF QueuedErFails
    <2>3. CASE QueuedSettleFails(r)
      BY <2>1, <2>3 DEF QueuedSettleFails
    <2> QED BY <2>2, <2>3
  <1>3. ChainTypeOK'
    BY <1>1, <1>2 DEF ChainInv, ChainTypeOK
  <1>4. Conservation' /\ CopiesAgree'
    BY <1>1 DEF ChainInv, Conservation, CopiesAgree
  <1>5. FreshVerdicts' /\ ClosedWasDecided'
    BY <1>1 DEF ChainInv, FreshVerdicts, ClosedWasDecided, Closed
  <1> QED BY <1>3, <1>4, <1>5 DEF ChainInv

LEMMA ChainNextInv ==
    ASSUME ChainInv, [ChainNext]_chainVars
    PROVE  ChainInv'
  <1>1. CASE UNCHANGED chainVars
    BY <1>1 DEF chainVars, ChainInv, ChainTypeOK, Conservation, CopiesAgree, FreshVerdicts,
       ClosedWasDecided, Closed
  <1>2. ASSUME NEW r \in Receipts, Validator(r) \/ SendStage(r) \/ SendEr(r) \/ SendSettle(r)
        PROVE  ChainInv'
    <2> USE <1>2
    <2>1. CASE Clone(r)
      BY <2>1, CloneStep
    <2>2. CASE QueuedErRuns(r)
      <3>1. queuedEr' \in [Receipts -> SUBSET Gens]
        BY <2>2 DEF QueuedErRuns, ChainInv, ChainTypeOK
      <3> QED BY <2>2, <3>1, ErStep DEF QueuedErRuns
    <2>3. CASE QueuedErFails(r) \/ QueuedSettleFails(r)
      BY <2>3, QueueStep
    <2>4. CASE Undelegate(r)
      BY <2>4, UndelegateStep
    <2>5. CASE QueuedSettleRuns(r)
      <3>1. queuedSettle' \in [Receipts -> SUBSET Gens]
        BY <2>5 DEF QueuedSettleRuns, ChainInv, ChainTypeOK
      <3> QED BY <2>5, <3>1, SettleStep DEF QueuedSettleRuns
    <2>6. CASE SendStage(r)
      BY <2>6, StageStep DEF SendStage
    <2>7. CASE SendEr(r)
      <3>1. queuedEr' \in [Receipts -> SUBSET Gens]
        BY <2>7 DEF SendEr, ChainInv, ChainTypeOK
      <3> QED BY <2>7, <3>1, ErStep DEF SendEr
    <2>8. CASE SendSettle(r)
      <3>1. queuedSettle' \in [Receipts -> SUBSET Gens]
        BY <2>8 DEF SendSettle, ChainInv, ChainTypeOK
      <3> QED BY <2>8, <3>1, SettleStep DEF SendSettle
    <2> QED
      BY <2>1, <2>2, <2>3, <2>4, <2>5, <2>6, <2>7, <2>8 DEF Validator
  <1> QED BY <1>1, <1>2 DEF ChainNext

(***************************************************************************)
(* A receipt only moves forward: its generation never decreases, a closed  *)
(* staging stays closed, an open one stays open until it is closed, and a  *)
(* verdict stays what it is.                                               *)
(***************************************************************************)
MovesOn(r) ==
    /\ gen'[r] \in 0..MaxGen /\ gen'[r] >= gen[r]
    /\ base[r].state = "absent" => base'[r].state = "absent" \/ gen'[r] > gen[r]
    /\ base[r].state = "open" =>
          base'[r].state \in {"open", "absent"} /\ gen'[r] = gen[r]
    /\ \A g \in Gens : verdicts[r][g] # "pending" => verdicts'[r][g] = verdicts[r][g]

LEMMA ChainMovesOn ==
    ASSUME ChainInv, [ChainNext]_chainVars, NEW r \in Receipts
    PROVE  MovesOn(r)
  <1> USE MaxGenAssumption DEF ChainInv, ChainTypeOK
  <1>1. CASE UNCHANGED chainVars
    BY <1>1 DEF chainVars, MovesOn
  <1>2. ASSUME NEW s \in Receipts, NEW q \in BOOLEAN, CanStage(s), StageEffect(s, q)
        PROVE  MovesOn(r)
    BY <1>2 DEF CanStage, StageEffect, MovesOn
  <1>3. ASSUME NEW s \in Receipts, NEW v \in Finals, CanEr(s), ErEffect(s, v)
        PROVE  MovesOn(r)
    <2>1. verdicts[s][gen[s]] = "pending"
      BY <1>3 DEF CanEr, CopiesAgree
    <2>2. \A g \in Gens : verdicts[r][g] # "pending" => verdicts'[r][g] = verdicts[r][g]
      BY <1>3, <2>1 DEF ErEffect
    <2>3. UNCHANGED <<base, gen>> /\ gen[r] \in 0..MaxGen
      BY <1>3 DEF ErEffect
    <2> QED BY <2>2, <2>3 DEF MovesOn
  <1>4. ASSUME NEW s \in Receipts, SettleEffect(s)
        PROVE  MovesOn(r)
    BY <1>4 DEF SettleEffect, NoAccount, MovesOn
  <1>5. ASSUME NEW s \in Receipts,
               Clone(s) \/ Undelegate(s) \/ QueuedErFails(s) \/ QueuedSettleFails(s)
        PROVE  MovesOn(r)
    <2>1. CASE Undelegate(s)
      <3>1. base[s].state = "stub" /\ gen[r] \in 0..MaxGen
        BY <2>1 DEF Undelegate, CopiesAgree
      <3> QED BY <2>1, <3>1 DEF Undelegate, MovesOn
    <2>2. CASE Clone(s) \/ QueuedErFails(s) \/ QueuedSettleFails(s)
      BY <2>2 DEF Clone, QueuedErFails, QueuedSettleFails, MovesOn
    <2> QED BY <1>5, <2>1, <2>2
  <1> QED
    BY <1>1, <1>2, <1>3, <1>4, <1>5 DEF ChainNext, Validator, SendStage, SendEr,
       SendSettle, QueuedErRuns, QueuedSettleRuns

\* Staging g of r is decided, or its undecided copy is on the ER.
OnErOrDecided(r, g) ==
    verdicts[r][g] # "pending" \/ (g = gen[r] /\ er[r].live)

\* What the ER serves is the live copy, or a clone of the decided receipt; and
\* earlier stagings were decided.
LEMMA ServedIsOnErOrDecided ==
    ASSUME ChainInv, NEW r \in Receipts, base[r].state = "stub" => er[r].live,
           base[r].state # "absent", NEW g \in Gens, g <= gen[r]
    PROVE  OnErOrDecided(r, g)
  <1>1. gen[r] \in Gens /\ gen[r] \in Nat /\ g \in Nat
    BY LiveReceiptWasStaged, MaxGenAssumption DEF ChainInv, Gens
  <1>2. CASE g < gen[r]
    BY <1>2 DEF ChainInv, ClosedWasDecided, Closed, OnErOrDecided
  <1>3. CASE g = gen[r] /\ base[r].state = "open"
    BY <1>3 DEF ChainInv, CopiesAgree, OnErOrDecided
  <1>4. CASE g = gen[r] /\ base[r].state = "stub"
    BY <1>4 DEF OnErOrDecided
  <1>5. base[r].state \in {"absent", "stub", "open"}
    BY DEF ChainInv, ChainTypeOK, BaseAccount
  <1> QED BY <1>1, <1>2, <1>3, <1>4, <1>5

\* It stays there until it is decided: an undecided copy is not undelegated.
LEMMA ErOrDecidedLasts ==
    ASSUME ChainInv, [ChainNext]_chainVars, NEW r \in Receipts, NEW g \in Gens,
           OnErOrDecided(r, g)
    PROVE  OnErOrDecided(r, g)'
  <1>1. CASE verdicts[r][g] # "pending"
    BY <1>1, ChainMovesOn DEF MovesOn, OnErOrDecided
  <1>2. CASE g = gen[r] /\ er[r].live /\ verdicts[r][g] = "pending"
    <2>1. er[r].decision = "pending" /\ base[r].state = "stub"
      BY <1>2 DEF ChainInv, CopiesAgree
    <2>2. CASE UNCHANGED chainVars
      BY <1>2, <2>2 DEF chainVars, OnErOrDecided
    <2>3. ASSUME NEW s \in Receipts, NEW q \in BOOLEAN, CanStage(s), StageEffect(s, q)
          PROVE  OnErOrDecided(r, g)'
      BY <1>2, <2>1, <2>3 DEF CanStage, StageEffect, OnErOrDecided, ChainInv, ChainTypeOK
    <2>4. ASSUME NEW s \in Receipts, NEW v \in Finals, ErEffect(s, v)
          PROVE  OnErOrDecided(r, g)'
      BY <1>2, <2>4 DEF ErEffect, OnErOrDecided, ChainInv, ChainTypeOK, ErAccount
    <2>5. ASSUME NEW s \in Receipts, SettleEffect(s)
          PROVE  OnErOrDecided(r, g)'
      BY <1>2, <2>5 DEF SettleEffect, OnErOrDecided
    <2>6. ASSUME NEW s \in Receipts,
                 Clone(s) \/ Undelegate(s) \/ QueuedErFails(s) \/ QueuedSettleFails(s)
          PROVE  OnErOrDecided(r, g)'
      BY <1>2, <2>1, <2>6 DEF Clone, Undelegate, QueuedErFails, QueuedSettleFails,
         OnErOrDecided, ChainInv, ChainTypeOK
    <2> QED BY <2>2, <2>3, <2>4, <2>5, <2>6 DEF ChainNext, Validator, SendStage, SendEr,
               SendSettle, QueuedErRuns, QueuedSettleRuns
  <1> QED BY <1>1, <1>2 DEF OnErOrDecided

-----------------------------------------------------------------------------
\* The receipt on both chains, for any order of transactions, queued actions, clones
\* and undelegations.
THEOREM ChainInvariant == ChainSpec => []ChainInv
  <1>1. ChainInit => ChainInv
    BY ChainInitInv
  <1>2. ChainInv /\ [ChainNext]_chainVars => ChainInv'
    BY ChainNextInv
  <1> QED BY <1>1, <1>2, PTL DEF ChainSpec

\* Type correctness of the receipt life cycle.
THEOREM ChainTyping == ChainSpec => []ChainTypeOK
  BY ChainInvariant, PTL DEF ChainInv

\* Every stake ever taken is held by its open receipt, paid out or refunded,
\* exactly once, whoever drives the steps and however often they are retried.
THEOREM StakesAreConserved == ChainSpec => []Conservation
  BY ChainInvariant, PTL DEF ChainInv

\* No stale stub or ER copy of an earlier staging is ever visible.
THEOREM NoStaleCopy == ChainSpec => []CopiesAgree
  BY ChainInvariant, PTL DEF ChainInv

-----------------------------------------------------------------------------
\* Only `_er` writes a verdict, and only onto a copy that has none: what was
\* decided about a staging is never decided again.
THEOREM VerdictsAreFinal == ChainSpec => VerdictIsFinal
  <1> DEFINE Final == \A r \in Receipts, g \in Gens :
                         verdicts[r][g] # "pending" => verdicts'[r][g] = verdicts[r][g]
  <1>1. ChainInv /\ [ChainNext]_chainVars => [Final]_chainVars
    <2> SUFFICES ASSUME ChainInv, ChainNext PROVE Final
      OBVIOUS
    <2>1. CASE UNCHANGED verdicts
      BY <2>1
    <2>2. ASSUME NEW r \in Receipts, NEW v \in Finals, CanEr(r), ErEffect(r, v)
          PROVE  Final
      <3>1. verdicts[r][gen[r]] = "pending"
        BY <2>2 DEF CanEr, ChainInv, CopiesAgree
      <3> QED BY <2>2, <3>1 DEF ErEffect, ChainInv, ChainTypeOK
    <2> QED
      BY <2>1, <2>2 DEF ChainNext, Validator, SendStage, SendEr, SendSettle, Clone,
         QueuedErRuns, QueuedErFails, Undelegate, QueuedSettleRuns, QueuedSettleFails,
         StageEffect, SettleEffect
  <1> QED BY <1>1, ChainInvariant, PTL DEF ChainSpec, VerdictIsFinal

\* No staging is over undecided: not when its address is staged again, and not
\* when it is free.
THEOREM NothingClosesUndecided == ChainSpec => []ClosedWasDecided
  <1>1. ChainInv => ClosedWasDecided
    BY DEF ChainInv
  <1> QED BY <1>1, ChainInvariant, PTL

\* A stake leaves only after a verdict on that very staging, to the place the
\* verdict names.
THEOREM SettlesAsDecided == ChainSpec => SettledAsDecided
  <1> DEFINE Leaves == \A r \in Receipts :
          /\ paid'[r] # paid[r] => verdicts[r][gen[r]] = "success"
          /\ refunded'[r] # refunded[r] => verdicts[r][gen[r]] = "failure"
  <1>1. ChainInv /\ [ChainNext]_chainVars => [Leaves]_chainVars
    <2> SUFFICES ASSUME ChainInv, ChainNext PROVE Leaves
      OBVIOUS
    <2>1. CASE UNCHANGED <<paid, refunded>>
      BY <2>1
    <2>2. ASSUME NEW r \in Receipts, CanSettle(r), SettleEffect(r)
          PROVE  Leaves
      <3>1. /\ verdicts[r][gen[r]] = base[r].decision
            /\ base[r].decision \in Finals
        BY <2>2 DEF CanSettle, ChainInv, ChainTypeOK, CopiesAgree, BaseAccount, Finals
      <3>2. CASE base[r].decision = "success"
        BY <2>2, <3>1, <3>2 DEF SettleEffect, ChainInv, ChainTypeOK
      <3>3. CASE base[r].decision = "failure"
        BY <2>2, <3>1, <3>3 DEF SettleEffect, ChainInv, ChainTypeOK
      <3> QED BY <3>1, <3>2, <3>3 DEF Finals, Decisions
    <2> QED
      BY <2>1, <2>2 DEF ChainNext, Validator, SendStage, SendEr, SendSettle, Clone,
         QueuedErRuns, QueuedErFails, Undelegate, QueuedSettleRuns, QueuedSettleFails,
         StageEffect, ErEffect
  <1> QED BY <1>1, ChainInvariant, PTL DEF ChainSpec, SettledAsDecided

-----------------------------------------------------------------------------
(***************************************************************************)
(* The chains implement the promise: staging holds a stake, `_er` decides, *)
(* settling releases, and cloning, undelegating and losing a queued action *)
(* are invisible.                                                          *)
(***************************************************************************)
LEMMA VerdictOfCurrentStaging ==
    ASSUME ChainInv, NEW r \in Receipts
    PROVE  /\ Verdict[r] \in Decisions
           /\ base[r].state = "absent" => Verdict[r] = "pending"
           /\ base[r].state = "open" => Verdict[r] = base[r].decision
  BY DEF ChainInv, ChainTypeOK, CopiesAgree, Verdict, BaseAccount, ErAccount

LEMMA StageHolds ==
    ASSUME ChainInv, NEW r \in Receipts, NEW q \in BOOLEAN,
           CanStage(r), StageEffect(r, q)
    PROVE  Promise!Hold(r)
  <1>0. escrow[r] = 0
    BY DEF ChainInv, Conservation, CanStage
  <1>1. escrow' = [escrow EXCEPT ![r] = 1]
    BY <1>0 DEF StageEffect
  <1>2. Verdict' = Verdict
    BY DEF ChainInv, ChainTypeOK, CopiesAgree, CanStage, StageEffect, Verdict
  <1> QED BY <1>0, <1>1, <1>2 DEF Promise!Hold, StageEffect

LEMMA ErDecides ==
    ASSUME ChainInv, NEW r \in Receipts, NEW v \in Finals, CanEr(r), ErEffect(r, v)
    PROVE  Promise!Decide(r)
  <1>1. escrow[r] = 1
    BY DEF ChainInv, Conservation, CopiesAgree, CanEr
  <1>2. Verdict[r] = "pending"
    BY DEF CanEr, Verdict
  <1>3. Verdict' = [Verdict EXCEPT ![r] = v]
    BY DEF ChainInv, ChainTypeOK, CanEr, ErEffect, Verdict, ErAccount
  <1>4. v \in Promise!Verdicts \ {"pending"}
    BY DEF Promise!Verdicts, Finals, Decisions
  <1> QED BY <1>1, <1>2, <1>3, <1>4 DEF Promise!Decide, ErEffect

LEMMA SettleReleases ==
    ASSUME ChainInv, NEW r \in Receipts, CanSettle(r), SettleEffect(r)
    PROVE  Promise!Release(r)
  <1>0. escrow[r] = 1
    BY DEF ChainInv, Conservation, CanSettle
  <1>1. escrow' = [escrow EXCEPT ![r] = 0]
    BY <1>0 DEF SettleEffect
  <1>2. Verdict[r] = base[r].decision /\ base[r].decision \in Finals
    BY VerdictOfCurrentStaging
    DEF CanSettle, ChainInv, ChainTypeOK, BaseAccount, Finals
  <1>3. Verdict' = [Verdict EXCEPT ![r] = "pending"]
    BY DEF ChainInv, ChainTypeOK, CopiesAgree, CanSettle, SettleEffect, NoAccount, Verdict
  <1>4. CASE base[r].decision = "success"
    BY <1>0, <1>1, <1>2, <1>3, <1>4 DEF Promise!Release, SettleEffect
  <1>5. CASE base[r].decision = "failure"
    BY <1>0, <1>1, <1>2, <1>3, <1>5 DEF Promise!Release, SettleEffect
  <1> QED BY <1>2, <1>4, <1>5 DEF Finals, Decisions

LEMMA QuietSteps ==
    ASSUME ChainInv, NEW r \in Receipts,
           \/ Clone(r)         \/ Undelegate(r)
           \/ QueuedErFails(r) \/ QueuedSettleFails(r)
    PROVE  UNCHANGED <<escrow, Verdict, paid, refunded>>
  <1>1. UNCHANGED <<escrow, paid, refunded>>
    BY DEF Clone, Undelegate, QueuedErFails, QueuedSettleFails
  <1>2. CASE Clone(r)
    BY <1>1, <1>2 DEF Clone, ChainInv, ChainTypeOK, Verdict
  <1>3. CASE Undelegate(r)
    BY <1>1, <1>3 DEF Undelegate, NoCopy, ChainInv, ChainTypeOK, Verdict
  <1>4. CASE QueuedErFails(r) \/ QueuedSettleFails(r)
    BY <1>1, <1>4 DEF QueuedErFails, QueuedSettleFails, Verdict
  <1> QED BY <1>2, <1>3, <1>4

\* Every behaviour of the two chains is one of the abstract promise: a stake
\* is held, decided once, and released once as decided.
THEOREM ChainKeepsPromise == ChainSpec => PromiseKept
  <1>1. ChainInit => Promise!PromiseInit
    BY DEF ChainInit, Promise!PromiseInit, Verdict, NoAccount, NoCopy
  <1>2. ChainInv /\ [ChainNext]_chainVars => [Promise!PromiseNext]_(Promise!promiseVars)
    <2> SUFFICES ASSUME ChainInv, [ChainNext]_chainVars
                 PROVE  Promise!PromiseNext \/ UNCHANGED Promise!promiseVars
      OBVIOUS
    <2>1. CASE UNCHANGED chainVars
      BY <2>1 DEF chainVars, Promise!promiseVars, Verdict
    <2>2. ASSUME NEW r \in Receipts,
                 Validator(r) \/ SendStage(r) \/ SendEr(r) \/ SendSettle(r)
          PROVE  Promise!PromiseNext \/ UNCHANGED Promise!promiseVars
      <3>1. CASE SendStage(r)
        BY <3>1, StageHolds DEF SendStage, Promise!PromiseNext
      <3>2. CASE SendEr(r) \/ QueuedErRuns(r)
        BY <3>2, ErDecides DEF SendEr, QueuedErRuns, Promise!PromiseNext
      <3>3. CASE SendSettle(r) \/ QueuedSettleRuns(r)
        BY <3>3, SettleReleases DEF SendSettle, QueuedSettleRuns, Promise!PromiseNext
      <3>4. CASE Clone(r) \/ Undelegate(r) \/ QueuedErFails(r) \/ QueuedSettleFails(r)
        BY <3>4, QuietSteps DEF Promise!promiseVars
      <3> QED BY <2>2, <3>1, <3>2, <3>3, <3>4 DEF Validator
    <2> QED BY <2>1, <2>2 DEF ChainNext
  <1> QED
    BY <1>1, <1>2, ChainInvariant, PTL DEF ChainSpec, PromiseKept, Promise!PromiseSpec
=============================================================================
