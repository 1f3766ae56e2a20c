-------------------------- MODULE OutcomeWatchProofs --------------------------
(***************************************************************************)
(* What a caller may conclude from the waiting helpers, for any number of  *)
(* calls, receipts and re-stagings.  The verdict reported is real even     *)
(* when reads fail; that the stake has left is only certain when the last  *)
(* read of the call did not.                                               *)
(***************************************************************************)
EXTENDS OutcomeWatch, ReceiptChainProofs

\* v was decided for a staging from the one the call began with up to g.
Decided(C, g, v) ==
    \E h \in Gens : C.target <= h /\ h <= g /\ verdicts[C.r][h] = v

Knows(C) ==
    /\ C.helper # "none" => C.target \in Gens /\ C.target <= gen[C.r]
    /\ C.helper = "none" => ~C.saw /\ C.report = "none"
    /\ C.saw /\ C.helper = "outcome" => C.out # "pending" /\ Decided(C, MaxGen, C.out)
    /\ C.report # "none" => C.at <= gen[C.r]
    /\ C.report = "settled" => Decided(C, C.at, "success")
    /\ C.report = "reverted" => Decided(C, C.at, "failure")
    /\ ~C.failed /\ C.report \in {"settled", "reverted", "closed"}
          => Closed(C.r, C.target)

WatchTypeOK == watch \in [Watchers -> Call]
WatchInv == WatchTypeOK /\ \A w \in Watchers : Knows(watch[w])

\* Knowledge survives every step of the chains: verdicts are final, and a
\* closed staging stays closed.
LEMMA KnowledgeLasts ==
    ASSUME ChainInv, [ChainNext]_chainVars, NEW C \in Call, Knows(C)
    PROVE  Knows(C)'
  <1>1. /\ C.r \in Receipts /\ C.target \in 0..MaxGen /\ C.at \in 0..MaxGen
        /\ gen[C.r] \in 0..MaxGen /\ gen'[C.r] \in 0..MaxGen /\ gen'[C.r] >= gen[C.r]
    BY ChainMovesOn DEF Call, MovesOn, ChainInv, ChainTypeOK
  <1>2. ASSUME NEW g, NEW v \in Finals, Decided(C, g, v)
        PROVE  Decided(C, g, v)'
    <2>1. PICK k \in Gens : C.target <= k /\ k <= g /\ verdicts[C.r][k] = v
      BY <1>2 DEF Decided
    <2>2. verdicts'[C.r][k] = v
      BY <1>1, <2>1, ChainMovesOn DEF MovesOn, Finals
    <2> QED BY <2>1, <2>2 DEF Decided
  <1>3. Closed(C.r, C.target) => Closed(C.r, C.target)' \/ C.helper = "none"
    BY <1>1, ChainMovesOn, MaxGenAssumption DEF MovesOn, Closed, Knows
  <1>4. /\ C.saw /\ C.helper = "outcome" => Decided(C, MaxGen, C.out)'
        /\ C.report = "settled" => Decided(C, C.at, "success")'
        /\ C.report = "reverted" => Decided(C, C.at, "failure")'
    <2>1. C.out # "pending" => C.out \in Finals
      BY DEF Call, Finals
    <2>2. "success" \in Finals /\ "failure" \in Finals
      BY DEF Finals, Decisions
    <2> QED BY <1>2, <2>1, <2>2 DEF Knows
  <1>5. (C.helper # "none" => C.target <= gen'[C.r]) /\ (C.report # "none" => C.at <= gen'[C.r])
    BY <1>1, MaxGenAssumption DEF Knows
  <1> QED BY <1>3, <1>4, <1>5 DEF Knows

-----------------------------------------------------------------------------
Moves(w) == \E C \in Call : watch' = [watch EXCEPT ![w] = C] /\ Knows(C)'

LEMMA BecomesMove ==
    ASSUME NEW w \in Watchers, NEW C \in Call, Becomes(w, C), Knows(C)
    PROVE  Moves(w)
  <1>1. Knows(C)'
    BY DEF Becomes, chainVars, Knows, Closed, Decided
  <1> QED BY <1>1 DEF Becomes, Moves

LEMMA CallFields ==
    ASSUME ChainInv, WatchInv, NEW w \in Watchers
    PROVE  /\ watch[w] \in Call /\ watch[w].r \in Receipts
           /\ gen[watch[w].r] \in 0..MaxGen
           /\ base[watch[w].r] \in BaseAccount
  BY DEF WatchInv, WatchTypeOK, Call, ChainInv, ChainTypeOK

LEMMA BeginMove ==
    ASSUME ChainInv, WatchInv, NEW w \in Watchers, NEW h \in Helpers, NEW r \in Receipts,
           Begin(w, h, r)
    PROVE  Moves(w)
  <1>1. gen[r] \in Gens /\ gen[r] \in 0..MaxGen /\ 0 \in 0..MaxGen
    BY MaxGenAssumption DEF Begin, ChainInv, ChainTypeOK, Gens
  <1>2. PICK C \in Call : C = [helper |-> h, r |-> r, saw |-> FALSE, out |-> "pending",
                               report |-> "none", target |-> gen[r], at |-> 0,
                               failed |-> FALSE]
    BY <1>1 DEF Call, Decisions, Reports
  <1>3. Knows(C)
    BY <1>1, <1>2, MaxGenAssumption DEF Knows, Helpers
  <1> QED BY <1>2, <1>3, BecomesMove DEF Begin

\* A decided receipt shows the verdict of the current staging.
LEMMA FindsMove ==
    ASSUME ChainInv, WatchInv, NEW w \in Watchers, PollFinds(w)
    PROVE  Moves(w)
  <1> DEFINE r == watch[w].r
  <1>0. watch[w] \in Call /\ r \in Receipts /\ Knows(watch[w]) /\ Polling(w)
    BY CallFields DEF PollFinds, WatchInv
  <1>1. CASE watch[w].helper = "closed"
    <2>1. PICK C \in Call : C = [watch[w] EXCEPT !.saw = TRUE]
      BY <1>0 DEF Call
    <2>2. /\ C.helper = "closed" /\ C.r = r /\ C.target = watch[w].target
          /\ C.report = "none"
      BY <1>0, <1>1, <2>1 DEF Call, Polling
    <2>3. Knows(C)
      BY <1>0, <1>1, <2>2 DEF Knows
    <2> QED BY <1>1, <2>1, <2>3, BecomesMove DEF PollFinds
  <1>2. CASE watch[w].helper # "closed" /\ base[r].decision = "pending"
    BY <1>0, <1>2, BecomesMove DEF PollFinds
  <1>3. CASE watch[w].helper # "closed" /\ base[r].decision # "pending"
    <2>0. base[r].decision \in Decisions
      BY CallFields DEF BaseAccount
    <2>1. PICK C \in Call : C = [watch[w] EXCEPT !.saw = TRUE, !.out = base[r].decision]
      BY <1>0, <2>0 DEF Call
    <2>2. /\ C.helper = watch[w].helper /\ C.r = r /\ C.target = watch[w].target
          /\ C.report = "none" /\ C.out = base[r].decision
      BY <1>0, <2>1 DEF Call, Polling
    <2>3. /\ base[r].decision = verdicts[r][gen[r]]
          /\ C.target \in Gens /\ C.target <= gen[r] /\ gen[r] \in 0..MaxGen
      BY <1>0, <1>3, <2>2, CallFields DEF ChainInv, CopiesAgree, Knows, Polling
    <2>4. Decided(C, MaxGen, C.out)
      BY <2>2, <2>3, MaxGenAssumption DEF Decided, Gens
    <2>5. Knows(C)
      BY <1>0, <1>3, <2>2, <2>3, <2>4 DEF Knows, Polling
    <2> QED BY <1>3, <2>1, <2>5, BecomesMove DEF PollFinds
  <1> QED BY <1>1, <1>2, <1>3

LEMMA ReturnMove ==
    ASSUME ChainInv, WatchInv, NEW w \in Watchers, Polling(w),
           NEW report \in Reports \ {"none"}, NEW failed \in BOOLEAN, Return(w, report, failed),
           report = "settled" => Decided(watch[w], gen[watch[w].r], "success"),
           report = "reverted" => Decided(watch[w], gen[watch[w].r], "failure"),
           ~failed /\ report # "timeout" => Closed(watch[w].r, watch[w].target)
    PROVE  Moves(w)
  <1>1. PICK C \in Call : C = [watch[w] EXCEPT !.report = report, !.at = gen[watch[w].r],
                                          !.failed = failed]
    BY CallFields DEF Call
  <1>2. /\ C.helper = watch[w].helper /\ C.r = watch[w].r /\ C.saw = watch[w].saw
        /\ C.out = watch[w].out /\ C.target = watch[w].target
        /\ C.report = report /\ C.at = gen[watch[w].r] /\ C.failed = failed
    BY <1>1, CallFields DEF Call
  <1>3. Knows(C)
    BY <1>2, CallFields, MaxGenAssumption DEF Knows, WatchInv, Polling, Decided
  <1> QED BY <1>1, <1>3, BecomesMove DEF Return

\* What was remembered was decided for the current staging or an earlier one.
LEMMA NullMove ==
    ASSUME ChainInv, WatchInv, NEW w \in Watchers, NEW failed \in BOOLEAN, Null(w, failed),
           ~failed => ~Found(watch[w].r)
    PROVE  Moves(w)
  <1> DEFINE r == watch[w].r
  <1>0. r \in Receipts /\ Knows(watch[w]) /\ Polling(w) /\ watch[w] \in Call
    BY CallFields DEF Null, WatchInv
  <1>1. CASE Return(w, "timeout", failed)
    BY <1>0, <1>1, ReturnMove DEF Reports
  <1>2. CASE watch[w].saw
    <2>1. ~failed => Closed(r, watch[w].target)
      BY <1>2 DEF Found, Closed
    <2>2. CASE watch[w].helper = "closed"
      <3>1. Return(w, "closed", failed)
        BY <1>0, <1>2, <2>2 DEF Null
      <3> QED BY <1>0, <2>1, <3>1, ReturnMove DEF Reports
    <2>3. CASE watch[w].helper = "outcome"
      <3>1. PICK h \in Gens : watch[w].target <= h /\ verdicts[r][h] = watch[w].out
        BY <1>0, <1>2, <2>3 DEF Knows, Decided
      <3>2. h <= gen[r]
        BY <1>0, <1>2, <2>3, <3>1, MaxGenAssumption
        DEF ChainInv, ChainTypeOK, FreshVerdicts, Knows, Gens
      <3>3. Decided(watch[w], gen[r], watch[w].out) /\ watch[w].out \in Finals
        BY <1>0, <1>2, <2>3, <3>1, <3>2 DEF Decided, Knows, Call, Finals
      <3>4. CASE watch[w].out = "success"
        BY <1>0, <1>2, <2>1, <2>3, <3>3, <3>4, ReturnMove DEF Null, Reports
      <3>5. CASE watch[w].out = "failure"
        BY <1>0, <1>2, <2>1, <2>3, <3>3, <3>5, ReturnMove DEF Null, Reports
      <3> QED BY <3>3, <3>4, <3>5 DEF Finals, Decisions
    <2> QED BY <1>0, <2>2, <2>3 DEF Polling, Call, Helpers
  <1> QED BY <1>1, <1>2 DEF Null

LEMMA MissesMove ==
    ASSUME ChainInv, WatchInv, NEW w \in Watchers, PollMisses(w) \/ PollFails(w) \/ Expire(w)
    PROVE  Moves(w)
  <1>1. CASE PollMisses(w)
    BY <1>1, NullMove DEF PollMisses
  <1>2. CASE PollFails(w)
    BY <1>2, NullMove DEF PollFails
  <1>3. CASE Expire(w)
    BY <1>3, ReturnMove DEF Expire, Reports
  <1> QED BY <1>1, <1>2, <1>3

-----------------------------------------------------------------------------
LEMMA WatchInitInv ==
    ASSUME Init
    PROVE  ChainInv /\ WatchInv
  <1>1. ChainInv
    BY ChainInitInv DEF Init
  <1>2. WatchTypeOK
    <2>1. \A r \in Receipts :
             [helper |-> "none", r |-> r, saw |-> FALSE, out |-> "pending",
              report |-> "none", target |-> 0, at |-> 0, failed |-> FALSE] \in Call
      BY MaxGenAssumption DEF Call, Decisions, Reports
    <2> QED BY <2>1 DEF Init, WatchTypeOK
  <1>3. ASSUME NEW w \in Watchers PROVE Knows(watch[w])
    <2>1. PICK r \in Receipts :
             watch[w] = [helper |-> "none", r |-> r, saw |-> FALSE, out |-> "pending",
                         report |-> "none", target |-> 0, at |-> 0, failed |-> FALSE]
      BY DEF Init
    <2> QED BY <2>1 DEF Knows
  <1> QED BY <1>1, <1>2, <1>3 DEF WatchInv

\* The helpers only read.
LEMMA WatchStepIsChainStep ==
    ASSUME [Next]_watchVars
    PROVE  [ChainNext]_chainVars
  BY DEF Next, watchVars, Chain, Begin, PollFinds, PollMisses, PollFails, Null, Expire,
         Return, Becomes

LEMMA WatchNextInv ==
    ASSUME ChainInv, WatchInv, [Next]_watchVars
    PROVE  ChainInv' /\ WatchInv'
  <1>1. [ChainNext]_chainVars
    BY WatchStepIsChainStep
  <1>2. ASSUME NEW w \in Watchers, Moves(w)
        PROVE  WatchInv'
    <2>1. PICK C \in Call : watch' = [watch EXCEPT ![w] = C] /\ Knows(C)'
      BY <1>2 DEF Moves
    <2>2. WatchTypeOK'
      BY <2>1 DEF WatchInv, WatchTypeOK
    <2>3. ASSUME NEW v \in Watchers PROVE Knows(watch[v])'
      <3>1. PICK E \in Call : E = watch'[v]
        BY <2>2 DEF WatchTypeOK
      <3>2. v = w => E = C
        BY <2>1, <3>1 DEF WatchInv, WatchTypeOK
      <3>3. v # w => E = watch[v] /\ Knows(E)
        BY <2>1, <3>1 DEF WatchInv, WatchTypeOK
      <3>4. Knows(E)'
        BY <1>1, <2>1, <3>2, <3>3, KnowledgeLasts
      <3> QED BY <3>1, <3>4 DEF Knows, Closed, Decided
    <2> QED BY <2>2, <2>3 DEF WatchInv
  <1>3. ASSUME UNCHANGED watch
        PROVE  WatchInv'
    <2>1. ASSUME NEW v \in Watchers PROVE Knows(watch[v])'
      <3>1. PICK E \in Call : E = watch[v] /\ E = watch'[v]
        BY <1>3 DEF WatchInv, WatchTypeOK
      <3>2. Knows(E)'
        BY <1>1, <3>1, KnowledgeLasts DEF WatchInv
      <3> QED BY <3>1, <3>2 DEF Knows, Closed, Decided
    <2> QED BY <1>3, <2>1 DEF WatchInv, WatchTypeOK
  <1>4. WatchInv'
    BY <1>2, <1>3, BeginMove, FindsMove, MissesMove DEF Next, Chain, watchVars
  <1>5. ChainInv'
    BY <1>1, ChainNextInv
  <1> QED BY <1>4, <1>5

\* What a waiting helper remembers is of a staging since its call began.
THEOREM WatchInvariant == Spec => [](ChainInv /\ WatchInv)
  <1>1. Init => ChainInv /\ WatchInv
    BY WatchInitInv
  <1>2. ChainInv /\ WatchInv /\ [Next]_watchVars => (ChainInv /\ WatchInv)'
    BY WatchNextInv
  <1> QED BY <1>1, <1>2, PTL DEF Spec

\* Watched chains keep the promise as unwatched ones do: a verdict is final, and a
\* stake leaves once, to where its own verdict says.
THEOREM WatchedChainsKeepPromise == Spec => PromiseKept
  <1>1. Init => ChainInit
    BY DEF Init
  <1>2. Spec => ChainSpec
    BY <1>1, WatchStepIsChainStep, PTL DEF Spec, ChainSpec
  <1> QED BY <1>2, ChainKeepsPromise, PTL

\* "settled" is only said when a staging since the call began succeeded, and
\* "reverted" when one failed, whatever reads fail.
THEOREM ReportsHappened == Spec => []ReportHappened
  <1>1. ChainInv /\ WatchInv => ReportHappened
    <2> SUFFICES ASSUME ChainInv, WatchInv, NEW w \in Watchers,
                        watch[w].report \in {"settled", "reverted"}
                 PROVE  \E g \in watch[w].target .. watch[w].at :
                           verdicts[watch[w].r][g] =
                             (IF watch[w].report = "settled" THEN "success" ELSE "failure")
      BY DEF ReportHappened
    <2>1. /\ watch[w].target \in 0..MaxGen /\ watch[w].at \in 0..MaxGen
      BY CallFields DEF Call
    <2>2. PICK g \in Gens : /\ watch[w].target <= g /\ g <= watch[w].at
                            /\ verdicts[watch[w].r][g] =
                                 (IF watch[w].report = "settled" THEN "success" ELSE "failure")
      BY DEF WatchInv, Knows, Decided
    <2>3. g \in watch[w].target .. watch[w].at
      BY <2>1, <2>2, MaxGenAssumption DEF Gens
    <2> QED BY <2>2, <2>3
  <1> QED BY <1>1, WatchInvariant, PTL

\* The status reported is the verdict itself when the address was not staged
\* again during the call.
THEOREM ReportsAreVerdicts == Spec => []ReportIsVerdict
  <1>1. ChainInv /\ WatchInv => ReportIsVerdict
    <2> SUFFICES ASSUME ChainInv, WatchInv, NEW w \in Watchers,
                        watch[w].report \in {"settled", "reverted"},
                        watch[w].at = watch[w].target
                 PROVE  (watch[w].report = "settled") =
                           (verdicts[watch[w].r][watch[w].target] = "success")
      BY DEF ReportIsVerdict
    <2>1. /\ watch[w].target \in 0..MaxGen /\ watch[w].at \in 0..MaxGen
      BY CallFields DEF Call
    <2>2. PICK g \in Gens : /\ watch[w].target <= g /\ g <= watch[w].at
                            /\ verdicts[watch[w].r][g] =
                                 (IF watch[w].report = "settled" THEN "success" ELSE "failure")
      BY DEF WatchInv, Knows, Decided
    <2>3. g = watch[w].target
      BY <2>1, <2>2, MaxGenAssumption DEF Gens
    <2> QED BY <2>2, <2>3
  <1> QED BY <1>1, WatchInvariant, PTL

\* Unless the last read failed, a terminal report means that the stake has left.
THEOREM TerminalReportsAreTrue == Spec => []TerminalMeansClosed
  <1>1. ChainInv /\ WatchInv => TerminalMeansClosed
    BY DEF WatchInv, Knows, TerminalMeansClosed, Terminal
  <1> QED BY <1>1, WatchInvariant, PTL

\* Type correctness of the waiting helpers.
THEOREM WatchTyping == Spec => []TypeOK
  <1>1. ChainInv /\ WatchInv => TypeOK
    BY DEF ChainInv, WatchInv, WatchTypeOK, TypeOK
  <1> QED BY <1>1, WatchInvariant, PTL
=============================================================================
