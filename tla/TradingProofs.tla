----------------------------- MODULE TradingProofs -----------------------------
(***************************************************************************)
(* What "did not land" is worth, for any timeout, interval and latency of  *)
(* the ER poll; and, for every pool that satisfies the assumptions of      *)
(* Markets, every goal and every timing, the safety properties of the      *)
(* lifecycle.                                                              *)
(***************************************************************************)
EXTENDS TradeScripts, FunctionProofs

\* After a read that began at since and missed, the transaction landed, if
\* at all, no earlier; and the next look comes soon.
PollOK ==
    /\ poll.since <= now
    /\ poll.pc = "idle" => ~tx.sent /\ tx.landed = "no"
    /\ poll.pc \in {"loop", "sleep", "notLanded"} /\ tx.landed # "no" /\ ~poll.failed
          => tx.at >= poll.since
    /\ poll.pc = "read" => now <= poll.since + Latency /\ poll.since < poll.deadline
    /\ poll.pc = "sleep" => /\ poll.wake <= poll.since + Latency + Interval
                            /\ now <= poll.wake
                            /\ poll.since < poll.deadline
    /\ poll.pc = "loop" => \/ now <= poll.since + Latency + Interval /\ poll.since < poll.deadline
                           \/ now = poll.since /\ now <= poll.deadline
    /\ poll.pc = "notLanded" => poll.deadline <= poll.since + Latency + Interval

ErInv == TypeOK /\ PollOK

LEMMA ErInitInv == Init => ErInv
BY DEF Init, ErInv, TypeOK, PollOK, Tx, Poll, Pcs, Answers

LEMMA TxBecomes ==
    ASSUME TypeOK, tx' = [tx EXCEPT !.sent = TRUE]
    PROVE  tx' \in Tx /\ tx'.sent /\ tx'.landed = tx.landed /\ tx'.at = tx.at
  <1>1. PICK T \in Tx : T = tx
    BY DEF TypeOK
  <1> QED BY <1>1 DEF Tx

LEMMA ErNextInv == ErInv /\ [Next]_erVars => ErInv'
  <1> SUFFICES ASSUME ErInv, [Next]_erVars PROVE ErInv'
    OBVIOUS
  <1>1. /\ TypeOK /\ PollOK /\ now \in Nat
        /\ poll.pc \in {"loop", "read", "sleep"} => tx.sent
        /\ poll.since \in Nat /\ poll.deadline \in Nat /\ poll.wake \in Nat /\ tx.at \in Nat
        /\ tx \in Tx /\ poll \in Poll /\ now + Timeout \in Nat /\ now + Interval \in Nat
        /\ poll.pc \in Pcs
    BY TimesAssumption DEF ErInv, TypeOK, Poll, Tx
  <1>0. PICK P \in Poll : P = poll
    BY <1>1
  <1>2. CASE UNCHANGED erVars
    BY <1>1, <1>2 DEF erVars, ErInv, TypeOK, PollOK
  <1>3. ASSUME NEW res \in {"ok", "failed"}, Land(res) PROVE ErInv'
    <2>1. PICK T \in Tx : T = tx
      BY <1>1
    <2>2. tx' = [T EXCEPT !.landed = res, !.at = now] /\ UNCHANGED <<now, poll>> /\ T.sent
          /\ poll.pc # "idle"
      BY <1>1, <1>3, <2>1 DEF Land, PollOK
    <2>3. tx' \in Tx /\ tx'.sent /\ tx'.at = now
      BY <1>1, <2>1, <2>2 DEF Tx
    <2> QED BY <1>1, <2>2, <2>3 DEF ErInv, TypeOK, PollOK
  <1>4. CASE Tick
    <2>1. now' = now + 1 /\ now' \in Nat /\ UNCHANGED <<tx, poll>> /\ poll.pc # "loop"
          /\ (poll.pc = "read" => now < poll.since + Latency)
          /\ (poll.pc = "sleep" => now < poll.wake)
      BY <1>1, <1>4 DEF Tick
    <2>2. TypeOK'
      BY <1>1, <2>1 DEF TypeOK
    <2>3. PollOK'
      BY <1>1, <2>1, TimesAssumption DEF PollOK
    <2> QED BY <2>2, <2>3 DEF ErInv
  <1>5. CASE Send
    <2>1. poll' = [P EXCEPT !.pc = "loop", !.deadline = now + Timeout, !.since = now]
          /\ UNCHANGED now /\ tx' = [tx EXCEPT !.sent = TRUE]
      BY <1>0, <1>5 DEF Send
    <2>2. PICK d \in Nat : d = now + Timeout
      BY <1>1
    <2>3. poll' \in Poll /\ poll'.pc = "loop" /\ poll'.deadline = d /\ poll'.since = now
      BY <1>0, <1>1, <2>1, <2>2 DEF Poll, Pcs
    <2>4. tx' \in Tx /\ tx'.sent /\ tx'.landed = tx.landed /\ tx'.at = tx.at
      BY <1>1, <2>1, TxBecomes
    <2>5. tx.landed # "no" => FALSE
      BY <1>1, <1>5 DEF Send, PollOK
    <2> QED BY <1>1, <2>1, <2>2, <2>3, <2>4, <2>5, TimesAssumption DEF ErInv, TypeOK, PollOK
  <1>6. CASE SendThrows
    <2>1. PICK pc \in {"error"} : poll' = [P EXCEPT !.pc = pc]
      BY <1>0, <1>6 DEF SendThrows
    <2>2. poll' \in Poll /\ poll'.pc = pc /\ poll'.since = poll.since /\ poll'.failed = poll.failed
      BY <1>0, <1>1, <2>1 DEF Poll, Pcs, Answers
    <2>3. tx' \in Tx /\ UNCHANGED now
      BY <1>1, <1>6, TxBecomes DEF SendThrows
    <2>4. poll.since <= now
      BY <1>1, <1>6 DEF SendThrows, PollOK
    <2> QED BY <1>1, <2>2, <2>3, <2>4 DEF ErInv, TypeOK, PollOK
  <1>7. CASE Again
    <2>1. poll' = [P EXCEPT !.pc = "read", !.since = now] /\ UNCHANGED <<now, tx>>
          /\ poll.pc = "loop" /\ now < poll.deadline
      BY <1>0, <1>7 DEF Again
    <2>2. poll' \in Poll /\ poll'.pc = "read" /\ poll'.deadline = poll.deadline /\ poll'.since = now
      BY <1>0, <1>1, <2>1 DEF Poll, Pcs
    <2> QED BY <1>1, <2>1, <2>2, TimesAssumption DEF ErInv, TypeOK, PollOK
  <1>8. CASE GiveUp
    <2>1. poll' = [P EXCEPT !.pc = "notLanded"] /\ UNCHANGED <<now, tx>>
          /\ poll.pc = "loop" /\ now >= poll.deadline
      BY <1>0, <1>8 DEF GiveUp
    <2>2. poll' \in Poll /\ poll'.pc = "notLanded" /\ poll'.deadline = poll.deadline
          /\ poll'.since = poll.since /\ poll'.failed = poll.failed
      BY <1>0, <1>1, <2>1 DEF Poll, Pcs, Answers
    <2>3. poll.deadline <= poll.since + Latency + Interval
      BY <1>1, <2>1, TimesAssumption DEF PollOK
    <2> QED BY <1>1, <2>1, <2>2, <2>3 DEF ErInv, TypeOK, PollOK
  <1>9. CASE ReadHit
    <2>1. PICK pc \in {"ok", "failed"} : pc = tx.landed
      BY <1>1, <1>9 DEF ReadHit, Tx
    <2>2. poll' = [P EXCEPT !.pc = pc] /\ UNCHANGED <<now, tx>> /\ poll.pc = "read"
      BY <1>0, <1>9, <2>1 DEF ReadHit
    <2>3. poll' \in Poll /\ poll'.pc = pc /\ poll'.since = poll.since /\ poll'.failed = poll.failed
      BY <1>0, <1>1, <2>2 DEF Poll, Pcs, Answers
    <2> QED BY <1>1, <2>2, <2>3 DEF ErInv, TypeOK, PollOK
  <1>10. CASE ReadMiss \/ ReadFails
    <2>1. PICK f \in BOOLEAN :
          /\ poll' = [P EXCEPT !.pc = "sleep", !.wake = now + Interval, !.failed = f]
          /\ UNCHANGED <<now, tx>>
          /\ poll.pc = "read" /\ (tx.landed = "no" \/ tx.at >= poll.since \/ f)
      BY <1>0, <1>10 DEF ReadMiss, ReadFails, Sleep
    <2>2. PICK w \in Nat : w = now + Interval
      BY <1>1
    <2>3. /\ poll' \in Poll /\ poll'.pc = "sleep" /\ poll'.deadline = poll.deadline
          /\ poll'.since = poll.since /\ poll'.wake = w /\ poll'.failed = f
      BY <1>0, <1>1, <2>1, <2>2 DEF Poll, Pcs
    <2>4. w <= poll.since + Latency + Interval /\ now <= w
      BY <1>1, <2>1, <2>2, TimesAssumption DEF PollOK
    <2> QED BY <1>1, <2>1, <2>3, <2>4 DEF ErInv, TypeOK, PollOK
  <1>11. CASE Wake
    <2>1. poll' = [P EXCEPT !.pc = "loop"] /\ UNCHANGED <<now, tx>> /\ poll.pc = "sleep"
      BY <1>0, <1>11 DEF Wake
    <2>2. poll' \in Poll /\ poll'.pc = "loop" /\ poll'.deadline = poll.deadline
          /\ poll'.since = poll.since /\ poll'.failed = poll.failed
      BY <1>0, <1>1, <2>1 DEF Poll, Pcs
    <2>3. now <= poll.since + Latency + Interval
      BY <1>1, <2>1, TimesAssumption DEF PollOK
    <2> QED BY <1>1, <2>1, <2>2, <2>3 DEF ErInv, TypeOK, PollOK
  <1> QED BY <1>2, <1>3, <1>4, <1>5, <1>6, <1>7, <1>8, <1>9, <1>10, <1>11 DEF Next

\* The inductive invariant of the poll.
THEOREM ErInvariant == Spec => []ErInv
BY ErInitInv, ErNextInv, PTL DEF Spec

\* The clock, the transaction and the poll keep their types.
THEOREM ErTyping == Spec => []TypeOK
  <1>1. ErInv => TypeOK
    BY DEF ErInv
  <1> QED BY <1>1, ErInvariant, PTL

\* "Did not land" is wrong by at most one interval and one read, unless the
\* last read failed.
THEOREM MissesAreLate == Spec => []MissedOnlyAtTheEnd
  <1>1. ErInv => MissedOnlyAtTheEnd
    BY TimesAssumption DEF ErInv, TypeOK, PollOK, MissedOnlyAtTheEnd, Poll, Tx
  <1> QED BY <1>1, ErInvariant, PTL

\* The call does not outlive its deadline by more than that, even if reads fail.
THEOREM PollEndsInTime == Spec => []EndsInTime
  <1>1. ErInv => EndsInTime
    BY TimesAssumption DEF ErInv, TypeOK, PollOK, EndsInTime, Poll, Tx
  <1> QED BY <1>1, ErInvariant, PTL
-----------------------------------------------------------------------------
Life == [step : Steps \cup {"idle"}, goal : SUBSET Goals, market : SUBSET Keys,
         passed : SUBSET Steps, landed : SUBSET Steps]

TradeTypes ==
    /\ life \in Life
    /\ op \subseteq Op /\ pos \subseteq Keys /\ resting \subseteq Keys /\ late \subseteq Op

\* A lifecycle has one goal and one market.
Running ==
    \E g \in Goals : \E m \in MarketForSide(g.target, g.side) :
        life.goal = {g} /\ life.market = {m}

\* "passed" rests on the poll's answer, and that on the transaction.
Evidence ==
    /\ life.passed \subseteq life.landed
    /\ poll.pc = "ok" => tx.landed = "ok"
    /\ tx.landed = "ok" => life.step \in life.landed

\* A poll is only under way for a transaction, and that for a step.
Nested ==
    /\ op = {} => poll.pc = "idle"
    /\ life.step = "idle" => op = {}
    /\ life.step # "idle" => Running

TradeInv == ErInv /\ TradeTypes /\ Evidence /\ Nested /\ OneMarket

LEMMA TradeInitInv == TradeInit => TradeInv
<1> SUFFICES ASSUME TradeInit PROVE TradeInv
  OBVIOUS
<1>1. ErInv
  BY ErInitInv DEF TradeInit
<1>2. life = [step |-> "idle", goal |-> {}, market |-> {}, passed |-> {}, landed |-> {}]
  BY DEF TradeInit, NoLife
<1>3. life \in Life /\ life.step = "idle" /\ life.passed = {} /\ life.landed = {}
  BY <1>2 DEF Life
<1>4. poll.pc = "idle" /\ tx.landed = "no"
  BY DEF TradeInit, Init
<1> QED BY <1>1, <1>3, <1>4 DEF TradeInit, TradeInv, TradeTypes, Evidence, Nested, OneMarket

\* The markets of a side are markets.
LEMMA SideKeys == \A t \in Symbols, side \in Sides : MarketForSide(t, side) \subseteq Keys
BY MarketTypes DEF MarketForSide, Of, Else, First, With, OnSide, Candidates

\* A step addresses the market of the lifecycle.
LEMMA TargetIsWatched ==
    ASSUME NEW g \in Goals, NEW m \in MarketForSide(g.target, g.side)
    PROVE  Target(g, m) = {m}
<1>1. g.target \in Symbols /\ g.side \in Sides
  <2>1. PICK G \in [target : Symbols, side : Sides, swap : BOOLEAN] : G = g
    BY TradeAssumption
  <2> QED BY <2>1
<1>2. SideAgrees(g.target, g.side)
  BY <1>1, SidePicks
<1> QED BY <1>2 DEF SideAgrees, Target

\* A new transaction begins like the first one.
LEMMA NewCallInv == NewCall => ErInv' /\ poll'.pc = "idle" /\ tx'.landed = "no"
BY DEF NewCall, ErInv, TypeOK, PollOK, Tx, Poll, Pcs, Answers

\* Unless it lands, the poll does not change how a transaction ended, and says
\* "ok" only of one that did so.
LEMMA PollSays ==
    ASSUME TypeOK,
           \/ Send \/ SendThrows
           \/ Tick /\ poll.pc \in {"read", "sleep"}
           \/ Again \/ GiveUp \/ ReadHit \/ ReadMiss \/ ReadFails \/ Wake
    PROVE  /\ tx'.landed = tx.landed
           /\ poll'.pc = "ok" => tx'.landed = "ok"
           /\ Next
<1>0. PICK P \in Poll, T \in Tx : P = poll /\ T = tx
  BY DEF TypeOK
<1>1. CASE Send
  <2>1. tx' = [T EXCEPT !.sent = TRUE]
        /\ poll' = [P EXCEPT !.pc = "loop", !.deadline = now + Timeout, !.since = now]
    BY <1>0, <1>1 DEF Send
  <2>2. tx'.landed = T.landed /\ poll'.pc = "loop"
    BY <2>1 DEF Tx, Poll
  <2> QED BY <1>0, <1>1, <2>2 DEF Next
<1>2. CASE SendThrows
  <2>1. poll' = [P EXCEPT !.pc = "error"] /\ (tx' = T \/ tx' = [T EXCEPT !.sent = TRUE])
    BY <1>0, <1>2 DEF SendThrows
  <2>2. tx'.landed = T.landed /\ poll'.pc = "error"
    BY <2>1 DEF Tx, Poll
  <2> QED BY <1>0, <1>2, <2>2 DEF Next
<1>3. CASE Tick /\ poll.pc \in {"read", "sleep"}
  BY <1>3 DEF Tick, Next
<1>4. CASE Again \/ GiveUp \/ ReadMiss \/ ReadFails \/ Wake
  <2>1. UNCHANGED tx /\ Next
    BY <1>4 DEF Again, GiveUp, ReadMiss, ReadFails, Wake, Next
  <2>2. CASE Again
    BY <1>0, <2>1, <2>2 DEF Again, Poll
  <2>3. CASE GiveUp
    BY <1>0, <2>1, <2>3 DEF GiveUp, Poll
  <2>4. CASE ReadMiss
    BY <1>0, <2>1, <2>4 DEF ReadMiss, Sleep, Poll
  <2>5. CASE ReadFails
    BY <1>0, <2>1, <2>5 DEF ReadFails, Sleep, Poll
  <2>6. CASE Wake
    BY <1>0, <2>1, <2>6 DEF Wake, Poll
  <2> QED BY <1>4, <2>2, <2>3, <2>4, <2>5, <2>6
<1>5. CASE ReadHit
  <2>1. poll' = [P EXCEPT !.pc = T.landed] /\ UNCHANGED tx /\ Next
    BY <1>0, <1>5 DEF ReadHit, Next
  <2>2. poll'.pc = T.landed
    BY <2>1 DEF Poll
  <2> QED BY <1>0, <2>1, <2>2
<1> QED BY <1>1, <1>2, <1>3, <1>4, <1>5

\* What happens around the runner does not touch it.
LEMMA WorldInv ==
    ASSUME TradeInv,
           \/ LateLands \/ LateDies \/ PlaceLimit \/ ExecuteLimit \/ CancelLimit
           \/ Liquidate \/ SendOnly
    PROVE  TradeInv'
<1>1. UNCHANGED <<now, tx, poll, life, op>>
  BY DEF LateLands, LateDies, PlaceLimit, ExecuteLimit, CancelLimit, Liquidate, SendOnly, erVars
<1>2. /\ ErInv /\ TradeTypes /\ Evidence /\ Nested /\ OneMarket
      /\ pos \subseteq Keys /\ resting \subseteq Keys /\ late \subseteq Op
  BY DEF TradeInv, TradeTypes
<1>3. ErInv' /\ Evidence' /\ Nested' /\ OneMarket'
  BY <1>1, <1>2 DEF ErInv, TypeOK, PollOK, Evidence, Nested, Running, OneMarket
<1>4. pos' \subseteq Keys
  <2>1. \A o \in Op : o.market \in Keys
    BY DEF Op
  <2>2. CASE LateLands
    BY <1>2, <2>1, <2>2 DEF LateLands, After
  <2>3. CASE LateDies \/ PlaceLimit \/ CancelLimit \/ SendOnly
    BY <1>2, <2>3 DEF LateDies, PlaceLimit, CancelLimit, SendOnly
  <2>4. CASE ExecuteLimit \/ Liquidate
    BY <1>2, <2>4 DEF ExecuteLimit, Liquidate
  <2> QED BY <2>2, <2>3, <2>4
<1>5. resting' \subseteq Keys
  <2>1. \A t, lock, side : FindMarket(t, lock, side) \subseteq Keys
    BY MarketTypes, PoolAssumption DEF FindMarket, Listed, Of
  <2>2. CASE PlaceLimit
    BY <2>1, <2>2 DEF PlaceLimit
  <2>3. CASE LateLands \/ LateDies \/ ExecuteLimit \/ CancelLimit \/ Liquidate \/ SendOnly
    BY <1>2, <2>3 DEF LateLands, LateDies, ExecuteLimit, CancelLimit, Liquidate, SendOnly
  <2> QED BY <2>2, <2>3
<1>6. late' \subseteq Op
  <2>1. CASE SendOnly
    <3>1. PICK g \in Goals, kind \in {"open", "close"} :
              \E m \in OpenMarket(g.target, g.target, g.side) :
                  late' = late \cup {[kind |-> kind, market |-> m]}
      BY <2>1 DEF SendOnly
    <3>2. OpenMarket(g.target, g.target, g.side) \subseteq Keys
      BY MarketTypes, PoolAssumption DEF OpenMarket, FindMarket, Listed, Of
    <3> QED BY <1>2, <3>1, <3>2 DEF Op, Kinds
  <2>2. CASE LateLands \/ LateDies \/ PlaceLimit \/ ExecuteLimit \/ CancelLimit \/ Liquidate
    BY <1>2, <2>2 DEF LateLands, LateDies, PlaceLimit, ExecuteLimit, CancelLimit, Liquidate
  <2> QED BY <2>1, <2>2
<1>7. TradeTypes'
  BY <1>1, <1>2, <1>4, <1>5, <1>6 DEF TradeTypes
<1> QED BY <1>3, <1>7 DEF TradeInv

\* The ER executes or rejects what the step sent.
LEMMA LandInv == ASSUME TradeInv, LandOk \/ LandFails PROVE TradeInv'
<1>1. /\ ErInv /\ TypeOK /\ TradeTypes /\ Evidence /\ Nested /\ OneMarket
  BY DEF TradeInv, ErInv
<1>2. PICK L \in Life, T \in Tx : L = life /\ T = tx
  BY <1>1 DEF TradeTypes, TypeOK
<1>3. CASE LandOk
  <2>1. /\ Land("ok") /\ UNCHANGED <<op, resting, late>>
        /\ life' = [L EXCEPT !.landed = @ \cup {life.step}]
        /\ \E o \in op : pos' = After(o)
    BY <1>2, <1>3 DEF LandOk
  <2>2. ErInv'
    BY <1>1, <2>1, ErNextInv DEF Next
  <2>3. op # {} /\ life.step # "idle" /\ Running /\ life.step \in Steps
    <3>1. life.step \in Steps \cup {"idle"}
      BY <1>2 DEF Life
    <3> QED BY <1>1, <2>1, <3>1 DEF Nested
  <2>4. /\ life' \in Life /\ life'.step = life.step /\ life'.goal = life.goal
        /\ life'.market = life.market /\ life'.passed = life.passed
        /\ life'.landed = life.landed \cup {life.step}
    BY <1>2, <2>1, <2>3 DEF Life
  <2>5. UNCHANGED poll /\ tx' = [T EXCEPT !.landed = "ok", !.at = now] /\ tx.landed = "no"
    BY <1>2, <2>1 DEF Land
  <2>6. tx'.landed = "ok"
    BY <2>5 DEF Tx
  <2>7. pos' \subseteq Keys
    <3>1. \A o \in Op : o.market \in Keys
      BY DEF Op
    <3> QED BY <1>1, <2>1, <3>1 DEF TradeTypes, After
  <2>8. TradeTypes'
    BY <1>1, <2>1, <2>4, <2>7 DEF TradeTypes
  <2>9. Evidence' /\ Nested' /\ OneMarket'
    BY <1>1, <2>1, <2>3, <2>4, <2>5, <2>6 DEF Evidence, Nested, Running, OneMarket
  <2> QED BY <2>2, <2>8, <2>9 DEF TradeInv
<1>4. CASE LandFails
  <2>1. Land("failed") /\ UNCHANGED <<life, op, pos, resting, late>>
    BY <1>4 DEF LandFails
  <2>2. ErInv'
    BY <1>1, <2>1, ErNextInv DEF Next
  <2>3. UNCHANGED poll /\ tx' = [T EXCEPT !.landed = "failed", !.at = now] /\ tx.landed = "no"
    BY <1>2, <2>1 DEF Land
  <2>4. tx'.landed = "failed"
    BY <2>3 DEF Tx
  <2>5. TradeTypes' /\ Evidence' /\ Nested' /\ OneMarket'
    BY <1>1, <2>1, <2>3, <2>4 DEF TradeTypes, Evidence, Nested, Running, OneMarket
  <2> QED BY <2>2, <2>5 DEF TradeInv
<1> QED BY <1>3, <1>4

\* A lifecycle begins.
LEMMA BeginInv == ASSUME TradeInv, NEW g \in Goals, Begin(g) PROVE TradeInv'
<1>1. /\ ErInv /\ TradeTypes /\ Evidence /\ Nested /\ OneMarket /\ op = {}
      /\ UNCHANGED <<now, tx, poll, op, pos, resting, late>>
  BY DEF TradeInv, Nested, Begin, erVars
<1>2. PICK m \in MarketForSide(g.target, g.side) :
          life' = [step |-> "flat", goal |-> {g}, market |-> {m}, passed |-> {}, landed |-> {}]
  BY DEF Begin
<1>3. g.target \in Symbols /\ g.side \in Sides
  <2>1. PICK G \in [target : Symbols, side : Sides, swap : BOOLEAN] : G = g
    BY TradeAssumption
  <2> QED BY <2>1
<1>4. m \in Keys
  BY <1>3, SideKeys
<1>5. /\ life' \in Life /\ life'.step = "flat" /\ life'.goal = {g} /\ life'.market = {m}
      /\ life'.passed = {} /\ life'.landed = {}
  BY <1>2, <1>4 DEF Life, Steps
<1>6. poll.pc = "idle" /\ tx.landed = "no"
  BY <1>1 DEF Nested, ErInv, TypeOK, PollOK
<1>7. ErInv'
  BY <1>1 DEF ErInv, TypeOK, PollOK
<1>8. TradeTypes' /\ Evidence' /\ Nested' /\ OneMarket'
  BY <1>1, <1>5, <1>6 DEF TradeTypes, Evidence, Nested, Running, OneMarket
<1> QED BY <1>7, <1>8 DEF TradeInv

\* A step builds its transaction.
LEMMA BuildInv == ASSUME TradeInv, Build PROVE TradeInv'
<1>1. /\ ErInv /\ TradeTypes /\ Evidence /\ Nested /\ life.step # "idle" /\ Running
      /\ UNCHANGED <<now, tx, poll, life, pos, resting, late>>
  BY DEF TradeInv, Nested, Build, erVars
<1>2. PICK g \in Goals : \E m \in MarketForSide(g.target, g.side) :
          life.goal = {g} /\ life.market = {m}
  BY <1>1 DEF Running
<1>3. PICK m \in MarketForSide(g.target, g.side) : life.goal = {g} /\ life.market = {m}
  BY <1>2
<1>4. op' = {[kind |-> KindOf(life.step), market |-> m]}
  <2>1. Target(g, m) = {m}
    BY TargetIsWatched
  <2> QED BY <1>3, <2>1 DEF Build
<1>5. KindOf(life.step) \in Kinds /\ m \in Keys
  <2>1. PICK L \in Life : L = life
    BY <1>1 DEF TradeTypes
  <2>2. life.market \subseteq Keys
    BY <2>1 DEF Life
  <2> QED BY <1>3, <2>2 DEF KindOf, Kinds
<1>6. op' \subseteq Op /\ op' # {}
  BY <1>4, <1>5 DEF Op
<1>7. OneMarket'
  BY <1>1, <1>3, <1>4 DEF OneMarket
<1>8. ErInv' /\ TradeTypes' /\ Evidence' /\ Nested'
  BY <1>1, <1>6 DEF ErInv, TypeOK, PollOK, TradeTypes, Evidence, Nested, Running
<1> QED BY <1>7, <1>8 DEF TradeInv

\* What a step changes of the lifecycle when it ends.
LEMMA Advanced ==
    ASSUME TradeInv, NEW S \in SUBSET {life.step}, life.step # "idle", Advance(S)
    PROVE  /\ life' \in Life /\ life'.passed = life.passed \cup S
           /\ UNCHANGED <<life.goal, life.market, life.landed>>
<1>1. PICK L \in Life : L = life
  BY DEF TradeInv, TradeTypes
<1>2. PICK g \in life.goal :
          life' = [L EXCEPT !.step = Following(life.step, g.swap), !.passed = @ \cup S]
  BY <1>1 DEF Advance
<1>3. life.step \in Steps
  BY <1>1 DEF Life
<1>4. Following(life.step, g.swap) \in Steps \cup {"idle"}
  BY <1>3 DEF Following, Steps
<1> QED BY <1>1, <1>2, <1>3, <1>4 DEF Life

\* A step is skipped.
LEMMA SkipInv == ASSUME TradeInv, Skip PROVE TradeInv'
<1>1. /\ ErInv /\ TradeTypes /\ Evidence /\ Nested /\ OneMarket
      /\ life.step # "idle" /\ op = {} /\ poll.pc = "idle" /\ Running
      /\ UNCHANGED <<now, tx, poll, op, pos, resting, late>>
  BY DEF TradeInv, Nested, Skip, erVars
<1>2. /\ life' \in Life /\ life'.passed = life.passed
      /\ UNCHANGED <<life.goal, life.market, life.landed>>
  <2>1. Advance({}) /\ {} \in SUBSET {life.step}
    BY DEF Skip
  <2> QED BY <1>1, <2>1, Advanced
<1>3. tx.landed = "no"
  BY <1>1 DEF ErInv, PollOK
<1>4. ErInv' /\ TradeTypes' /\ Evidence' /\ Nested' /\ OneMarket'
  BY <1>1, <1>2, <1>3 DEF ErInv, TypeOK, PollOK, TradeTypes, Evidence, Nested, Running, OneMarket
<1> QED BY <1>4 DEF TradeInv

\* The transaction is sent and looked for.
LEMMA PollInv == ASSUME TradeInv, Dispatch \/ Transport PROVE TradeInv'
<1>1. /\ ErInv /\ TypeOK /\ TradeTypes /\ Evidence /\ Nested /\ OneMarket
      /\ UNCHANGED <<life, op, pos, resting, late>>
  BY DEF TradeInv, ErInv, Dispatch, Transport
<1>2. \/ Send \/ SendThrows
      \/ Tick /\ poll.pc \in {"read", "sleep"}
      \/ Again \/ GiveUp \/ ReadHit \/ ReadMiss \/ ReadFails \/ Wake
  <2>1. CASE Dispatch
    <3>1. Send \/ SendThrows
      BY <2>1, Zenon DEF Dispatch
    <3> QED BY <3>1, Zenon
  <2>2. CASE Transport
    BY <2>2 DEF Transport
  <2> QED BY <2>1, <2>2
<1>3. tx'.landed = tx.landed /\ (poll'.pc = "ok" => tx'.landed = "ok") /\ Next
  BY <1>1, <1>2, PollSays
<1>4. op # {}
  BY <1>1 DEF Dispatch, Transport, Nested, Tick, Again, GiveUp, ReadHit, ReadMiss, ReadFails, Wake
<1>5. ErInv'
  BY <1>1, <1>3, ErNextInv
<1>6. TradeTypes' /\ Evidence' /\ Nested' /\ OneMarket'
  BY <1>1, <1>3, <1>4 DEF TradeTypes, Evidence, Nested, Running, OneMarket
<1> QED BY <1>5, <1>6 DEF TradeInv

\* What was abandoned was a transaction.
LEMMA Abandoned == ASSUME TradeTypes, Abandon PROVE late' \subseteq Op
BY DEF Abandon, TradeTypes

\* The step ends with the poll's answer.
LEMMA AnsweredInv == ASSUME TradeInv, Answered PROVE TradeInv'
<1>1. /\ TradeTypes /\ Evidence /\ Nested /\ life.step # "idle" /\ Running
      /\ op' = {} /\ UNCHANGED <<pos, resting>> /\ late' \subseteq Op
  BY Abandoned DEF TradeInv, Answered, Nested, Answers
<1>2. ErInv' /\ poll'.pc = "idle" /\ tx'.landed = "no"
  BY NewCallInv DEF Answered
<1>3. PICK S \in SUBSET {life.step} : Advance(S) /\ (S # {} => poll.pc = "ok")
  BY DEF Answered
<1>4. /\ life' \in Life /\ life'.passed = life.passed \cup S
      /\ UNCHANGED <<life.goal, life.market, life.landed>>
  BY <1>1, <1>3, Advanced
<1>5. life'.passed \subseteq life'.landed
  BY <1>1, <1>3, <1>4 DEF Evidence
<1>6. TradeTypes' /\ Evidence' /\ Nested' /\ OneMarket'
  BY <1>1, <1>2, <1>4, <1>5 DEF TradeTypes, Evidence, Nested, Running, OneMarket
<1> QED BY <1>2, <1>6 DEF TradeInv

\* The process stops.
LEMMA AbortInv == ASSUME TradeInv, Abort PROVE TradeInv'
<1>1. TradeTypes /\ op' = {} /\ UNCHANGED <<pos, resting>> /\ late' \subseteq Op
  BY Abandoned DEF TradeInv, Abort
<1>2. ErInv' /\ poll'.pc = "idle" /\ tx'.landed = "no"
  BY NewCallInv DEF Abort
<1>3. life' = [step |-> "idle", goal |-> {}, market |-> {}, passed |-> {}, landed |-> {}]
  BY DEF Abort, NoLife
<1>4. life' \in Life /\ life'.step = "idle" /\ life'.passed = {} /\ life'.landed = {}
  BY <1>3 DEF Life
<1>5. TradeTypes' /\ Evidence' /\ Nested' /\ OneMarket'
  BY <1>1, <1>2, <1>4 DEF TradeTypes, Evidence, Nested, OneMarket
<1> QED BY <1>2, <1>5 DEF TradeInv

LEMMA TradeNextInv == TradeInv /\ [TradeNext]_tradeVars => TradeInv'
<1> SUFFICES ASSUME TradeInv, [TradeNext]_tradeVars PROVE TradeInv'
  OBVIOUS
<1>1. CASE UNCHANGED tradeVars
  BY <1>1 DEF tradeVars, erVars, TradeInv, ErInv, TypeOK, PollOK, TradeTypes, Evidence,
              Nested, Running, OneMarket
<1>2. CASE \/ LateLands \/ LateDies \/ PlaceLimit \/ ExecuteLimit \/ CancelLimit
           \/ Liquidate \/ SendOnly
  BY <1>2, WorldInv
<1>3. CASE LandOk \/ LandFails
  BY <1>3, LandInv
<1>4. ASSUME NEW g \in Goals, Begin(g) PROVE TradeInv'
  BY <1>4, BeginInv
<1>5. CASE Build
  BY <1>5, BuildInv
<1>6. CASE Skip
  BY <1>6, SkipInv
<1>7. CASE Dispatch \/ Transport
  BY <1>7, PollInv
<1>8. CASE Answered
  BY <1>8, AnsweredInv
<1>9. CASE Abort
  BY <1>9, AbortInv
<1> QED BY <1>1, <1>2, <1>3, <1>4, <1>5, <1>6, <1>7, <1>8, <1>9 DEF TradeNext

\* The inductive invariant of the lifecycle.
THEOREM TradeInvariant == TradeSpec => []TradeInv
BY TradeInitInv, TradeNextInv, PTL DEF TradeSpec

\* The runner, the basket and the transactions keep their types.
THEOREM TradeTyping == TradeSpec => []TradeTypeOK
<1>1. TradeInv => TradeTypeOK
  <2> SUFFICES ASSUME TradeInv PROVE TradeTypeOK
    OBVIOUS
  <2>1. TypeOK /\ TradeTypes
    BY DEF TradeInv, ErInv
  <2>2. PICK L \in Life : L = life
    BY <2>1 DEF TradeTypes
  <2>3. /\ life.step \in Steps \cup {"idle"} /\ life.goal \subseteq Goals
        /\ life.market \subseteq Keys /\ life.passed \subseteq Steps /\ life.landed \subseteq Steps
    BY <2>2 DEF Life
  <2> QED BY <2>1, <2>3 DEF TradeTypes, TradeTypeOK
<1> QED BY <1>1, TradeInvariant, PTL

\* A step reported as PASS took effect.
THEOREM PassesAreDone == TradeSpec => []PassMeansDone
<1>1. TradeInv => PassMeansDone
  BY DEF TradeInv, Evidence, PassMeansDone
<1> QED BY <1>1, TradeInvariant, PTL

\* Every transaction of a lifecycle addresses the market the runner watches.
THEOREM OneMarketPerLife == TradeSpec => []OneMarket
<1>1. TradeInv => OneMarket
  BY DEF TradeInv
<1> QED BY <1>1, TradeInvariant, PTL

\* "Did not land" is wrong by at most one interval and one read, unless the last
\* read failed, in every step of every lifecycle.
THEOREM TradeMissesAreLate == TradeSpec => []MissedOnlyAtTheEnd
<1>1. TradeInv => MissedOnlyAtTheEnd
  BY TimesAssumption DEF TradeInv, ErInv, TypeOK, PollOK, MissedOnlyAtTheEnd, Poll, Tx
<1> QED BY <1>1, TradeInvariant, PTL

\* No step polls longer than that past its deadline.
THEOREM TradePollEndsInTime == TradeSpec => []EndsInTime
<1>1. TradeInv => EndsInTime
  BY TimesAssumption DEF TradeInv, ErInv, TypeOK, PollOK, EndsInTime, Poll, Tx
<1> QED BY <1>1, TradeInvariant, PTL
=============================================================================
