----------------------------- MODULE TradeScripts -----------------------------
(***************************************************************************)
(* runTradeLifecycle of the master runner: make the market flat, open,     *)
(* swap collateral in and out, close.  Each step sends one transaction to  *)
(* the ER (ErSend) and reports PASS, FAIL or SKIP; what a step gave up on  *)
(* may still land.  Around it, a front end places and cancels limit        *)
(* orders, which execute, and positions are liquidated.                    *)
(***************************************************************************)
EXTENDS ErSend, Markets, FiniteSets

CONSTANTS Goals,    \* the lifecycles the runner is asked for
          Orders,   \* the limit orders the front end may ask for
          MaxLate   \* bound: transactions given up on that may still land

ASSUME TradeAssumption ==
    /\ Goals \subseteq [target : Symbols, side : Sides, swap : BOOLEAN]
    /\ Orders \subseteq [target : Symbols, lock : Symbols, side : Sides]
    /\ MaxLate \in Nat

VARIABLES life,    \* the lifecycle
          op,      \* the transaction the current step has built, if any
          pos,     \* the owner's basket: the markets with a position
          resting, \* limit orders waiting in the basket
          late     \* transactions nobody waits for

tradeVars == <<erVars, life, op, pos, resting, late>>

Steps == {"flat", "open", "add", "remove", "close"}
Kinds == {"open", "adjust", "close"}
Op == [kind : Kinds, market : Keys]

\* passed: steps reported PASS; landed (history): steps whose transaction took
\* effect.
NoLife == [step |-> "idle", goal |-> {}, market |-> {}, passed |-> {}, landed |-> {}]

TradeInit ==
    /\ Init
    /\ life = NoLife
    /\ op = {} /\ pos = {} /\ resting = {} /\ late = {}

\* The next transaction starts with a clock of its own.
NewCall ==
    /\ now' = 0
    /\ tx' = [sent |-> FALSE, landed |-> "no", at |-> 0]
    /\ poll' = [pc |-> "idle", deadline |-> 0, since |-> 0, wake |-> 0, failed |-> FALSE]
-----------------------------------------------------------------------------
(* The ER.                                                                 *)

\* "a leftover open position blocks a fresh open with InvalidArgument"; every
\* other operation needs one.
Accepts(o) == IF o.kind = "open" THEN o.market \notin pos ELSE o.market \in pos

After(o) ==
    CASE o.kind = "open" -> pos \cup {o.market}
      [] o.kind = "close" -> pos \ {o.market}
      [] OTHER -> pos

LandOk ==
    /\ Land("ok")
    /\ \E o \in op : Accepts(o) /\ pos' = After(o)
    /\ life' = [life EXCEPT !.landed = @ \cup {life.step}]
    /\ UNCHANGED <<op, resting, late>>

\* The program rejects it, for this reason or another (price, margin, the same
\* second as the last change).
LandFails ==
    /\ Land("failed")
    /\ UNCHANGED <<life, op, pos, resting, late>>

LateLands ==
    /\ \E o \in late :
          /\ late' = late \ {o}
          /\ Accepts(o) /\ pos' = After(o)
    /\ UNCHANGED <<erVars, life, op, resting>>

\* It expires, or fails.
LateDies ==
    /\ \E o \in late : late' = late \ {o}
    /\ UNCHANGED <<erVars, life, op, pos, resting>>

\* placeLimitOrder: the market is resolved from the lock symbol as passed.
PlaceLimit ==
    /\ \E r \in Orders : \E m \in FindMarket(r.target, r.lock, r.side) :
          resting = {} /\ resting' = {m}
    /\ UNCHANGED <<erVars, life, op, pos, late>>

ExecuteLimit ==
    /\ \E m \in resting : pos' = pos \cup {m} /\ resting' = resting \ {m}
    /\ UNCHANGED <<erVars, life, op, late>>

CancelLimit ==
    /\ \E m \in resting : resting' = resting \ {m}
    /\ UNCHANGED <<erVars, life, op, pos, late>>

Liquidate ==
    /\ \E m \in pos : pos' = pos \ {m}
    /\ UNCHANGED <<erVars, life, op, resting, late>>

\* An application opens or closes with sendErTransaction, which does not wait.
SendOnly ==
    /\ Cardinality(late) < MaxLate
    /\ \E g \in Goals, kind \in {"open", "close"} :
          \E m \in OpenMarket(g.target, g.target, g.side) :
              late' = late \cup {[kind |-> kind, market |-> m]}
    /\ UNCHANGED <<erVars, life, op, pos, resting>>
-----------------------------------------------------------------------------
(* The runner.                                                             *)

Begin(g) ==
    /\ life.step = "idle"
    /\ \E m \in MarketForSide(g.target, g.side) :
          life' = [step |-> "flat", goal |-> {g}, market |-> {m}, passed |-> {}, landed |-> {}]
    /\ UNCHANGED <<erVars, op, pos, resting, late>>

IsOpen == "open" \in life.passed

\* The steps of this run, in order; what needs a position is skipped without one.
Following(s, swap) ==
    CASE s = "flat" -> "open"
      [] s = "open" -> IF swap THEN "add" ELSE "close"
      [] s = "add" -> "remove"
      [] s = "remove" -> "close"
      [] s = "close" -> "idle"

Advance(passed) ==
    \E g \in life.goal :
        life' = [life EXCEPT !.step = Following(life.step, g.swap), !.passed = @ \cup passed]

\* openPosition overrides the lock symbol; the others address the market.
Target(g, m) ==
    LET lock == SymbolOf[m.collateral] IN
    IF life.step = "open" THEN OpenMarket(g.target, lock, g.side)
                          ELSE FindMarket(g.target, lock, g.side)
KindOf(s) == CASE s = "open" -> "open" [] s \in {"flat", "close"} -> "close" [] OTHER -> "adjust"

\* The step builds its transaction.
Build ==
    /\ life.step # "idle" /\ op = {} /\ poll.pc = "idle"
    /\ life.step = "flat" => life.market \subseteq pos
    /\ life.step \in {"add", "remove", "close"} => IsOpen
    /\ \E g \in life.goal, m \in life.market : \E k \in Target(g, m) :
          op' = {[kind |-> KindOf(life.step), market |-> k]}
    /\ UNCHANGED <<erVars, life, pos, resting, late>>

\* SKIP: nothing to close, or no position; or the price cannot be read (FAIL).
\* A basket that cannot be read looks flat.
Skip ==
    /\ life.step # "idle" /\ op = {} /\ poll.pc = "idle"
    /\ life.step \in {"add", "remove"} => ~IsOpen
    /\ Advance({})
    /\ UNCHANGED <<erVars, op, pos, resting, late>>

Dispatch ==
    /\ op # {}
    /\ Send \/ SendThrows
    /\ UNCHANGED <<life, op, pos, resting, late>>

Transport ==
    /\ \/ Tick /\ poll.pc \in {"read", "sleep"}
       \/ Again \/ GiveUp \/ ReadHit \/ ReadMiss \/ ReadFails \/ Wake
    /\ UNCHANGED <<life, op, pos, resting, late>>

\* What was sent and has not landed may land later, or not.
Abandon ==
    \/ UNCHANGED late
    \/ /\ tx.sent /\ tx.landed = "no" /\ Cardinality(late) < MaxLate
       /\ late' = late \cup op

\* The step ends: PASS if the poll found the transaction without an error.
Answered ==
    /\ poll.pc \in Answers
    /\ Advance(IF poll.pc = "ok" THEN {life.step} ELSE {})
    /\ Abandon
    /\ op' = {} /\ NewCall
    /\ UNCHANGED <<pos, resting>>

\* The process is killed, or stops because a step failed (STOP_ON_FAIL=1).
Abort ==
    /\ life.step # "idle"
    /\ life' = NoLife
    /\ Abandon
    /\ op' = {} /\ NewCall
    /\ UNCHANGED <<pos, resting>>

TradeNext ==
    \/ LandOk \/ LandFails \/ LateLands \/ LateDies
    \/ PlaceLimit \/ ExecuteLimit \/ CancelLimit \/ Liquidate \/ SendOnly
    \/ \E g \in Goals : Begin(g)
    \/ Build \/ Skip \/ Dispatch \/ Transport \/ Answered \/ Abort

TradeSpec == TradeInit /\ [][TradeNext]_tradeVars

\* A run goes on unless it is killed.  A user who still has the position runs
\* the lifecycle again; now and then the basket can be read, the close is sent
\* and the ER accepts it.
OfFlat(A) == life.step = "flat" /\ A
Fairness ==
    /\ WF_tradeVars(Build \/ Skip \/ Dispatch) /\ WF_tradeVars(Transport) /\ WF_tradeVars(Answered)
    /\ \A g \in Goals :
          /\ SF_tradeVars(Begin(g))
          /\ SF_tradeVars(life.goal = {g} /\ OfFlat(Build))
          /\ SF_tradeVars(life.goal = {g} /\ OfFlat(Dispatch /\ Send))
          /\ SF_tradeVars(life.goal = {g} /\ OfFlat(LandOk))

TradeFairSpec == TradeSpec /\ Fairness
-----------------------------------------------------------------------------
TradeTypeOK ==
    /\ TypeOK
    /\ life.step \in Steps \cup {"idle"}
    /\ life.goal \subseteq Goals /\ life.market \subseteq Keys
    /\ life.passed \subseteq Steps /\ life.landed \subseteq Steps
    /\ op \subseteq Op /\ pos \subseteq Keys /\ resting \subseteq Keys /\ late \subseteq Op

\* A step that is reported as PASS took effect: what is reported open was opened
\* by this run, what is reported closed was closed.
PassMeansDone == life.passed \subseteq life.landed

\* Every transaction of a lifecycle addresses the market the runner watches,
\* whichever way the client resolves it.
OneMarket == \A o \in op : life.market = {o.market}

\* "any existing position is closed first, so the section is safely re-runnable":
\* a position in a market the runner trades is closed in the end, whatever
\* earlier runs left open or lost sight of.
Rerunnable ==
    \A g \in Goals : \A m \in OpenMarket(g.target, g.target, g.side) :
        m \in pos ~> m \notin pos
=============================================================================
