---------------------------- MODULE FunctionProofs ----------------------------
(***************************************************************************)
(* Facts about the functions the modules are built from: the market two    *)
(* programs mean, fixed-point arithmetic, and the bytes of a message.      *)
(*                                                                         *)
(* The library's induction theorems take an operator as a parameter.  What *)
(* is needed of them follows here from the existence of minimal elements   *)
(* (WFMin), with sets in the place of operators.                           *)
(***************************************************************************)
EXTENDS Markets, DecimalMath, WireFormat, TLAPS, WellFoundedInduction,
        SequenceTheorems, FiniteSetTheorems

-----------------------------------------------------------------------------
(* Induction and recursion.                                                 *)

\* What holds of every number if it holds of all smaller ones holds of all.
LEMMA CourseOfValues ==
    ASSUME NEW P \in SUBSET Nat,
           \A n \in Nat : (\A m \in Nat : m < n => m \in P) => n \in P
    PROVE  P = Nat
<1> DEFINE R == {ss \in Nat \X Nat : ss[1] < ss[2]}
<1>1. IsWellFoundedOn(R, Nat)
  BY NatLessThanWellFounded DEF OpToRel
<1>2. SUFFICES ASSUME Nat \ P # {} PROVE FALSE
  OBVIOUS
<1>3. PICK n \in Nat \ P : \A m \in Nat \ P : ~(<<m, n>> \in R)
  BY <1>1, <1>2, WFMin
<1>4. \A m \in Nat : m < n => <<m, n>> \in R
  BY <1>3
<1> QED BY <1>3, <1>4

\* Induction, from one number to the next.
LEMMA Induct ==
    ASSUME NEW P \in SUBSET Nat, 0 \in P, \A n \in P : n + 1 \in P
    PROVE  P = Nat
<1>1. ASSUME NEW n \in Nat, \A m \in Nat : m < n => m \in P
      PROVE  n \in P
  <2>1. CASE n = 0
    BY <2>1
  <2>2. CASE n # 0
    <3>1. n - 1 \in Nat /\ n - 1 < n /\ n = (n - 1) + 1
      BY <2>2
    <3>2. n - 1 \in P
      BY <1>1, <3>1
    <3>3. (n - 1) + 1 \in P
      BY <3>2
    <3> QED BY <3>1, <3>3
  <2> QED BY <2>1, <2>2
<1> QED BY <1>1, CourseOfValues

\* On D, g is what a recursion says: b on Base, and elsewhere G of the argument and
\* of the value at the argument d leads to.
Obeys(g, D, Base, b, d, G) ==
    \A x \in D : g[x] = IF x \in Base THEN b[x] ELSE G[<<x, g[d[x]]>>]

\* A recursion that leads to arguments of lower rank has a function that obeys it,
\* so that a recursive definition, which names such a function, is one of them.
LEMMA Recursion ==
    ASSUME NEW T, NEW S, NEW Base \in SUBSET T,
           NEW rank \in [T -> Nat], NEW b \in [T -> S], NEW d \in [T -> T], NEW G \in [T \X S -> S],
           \A x \in T \ Base : rank[d[x]] < rank[x]
    PROVE  \E f \in [T -> S] : Obeys(f, T, Base, b, d, G)
<1> DEFINE Upto(n) == {x \in T : rank[x] < n}
           Approx(n) == {g \in [Upto(n) -> S] : Obeys(g, Upto(n), Base, b, d, G)}
<1>0. ASSUME NEW n \in Nat, NEW x \in T \ Base, x \in Upto(n)
      PROVE  d[x] \in Upto(n)
  <2>1. rank[d[x]] \in Nat /\ rank[x] \in Nat /\ rank[d[x]] < rank[x]
    OBVIOUS
  <2> QED BY <1>0, <2>1
\* Approximations agree where both are defined.
<1>1. ASSUME NEW n \in Nat, NEW m \in Nat, NEW g \in Approx(n), NEW h \in Approx(m),
             NEW x \in Upto(n) \cap Upto(m)
      PROVE  g[x] = h[x]
  <2> DEFINE P == {k \in Nat : \A y \in Upto(n) \cap Upto(m) : rank[y] = k => g[y] = h[y]}
  <2>1. ASSUME NEW k \in Nat, \A j \in Nat : j < k => j \in P
        PROVE  k \in P
    <3> SUFFICES ASSUME NEW y \in Upto(n) \cap Upto(m), rank[y] = k PROVE g[y] = h[y]
      OBVIOUS
    <3>1. g[y] = (IF y \in Base THEN b[y] ELSE G[<<y, g[d[y]]>>])
          /\ h[y] = (IF y \in Base THEN b[y] ELSE G[<<y, h[d[y]]>>])
      BY DEF Obeys
    <3>2. CASE y \notin Base
      <4>1. d[y] \in Upto(n) \cap Upto(m)
        BY <1>0, <3>2
      <4>2. rank[d[y]] \in Nat /\ rank[d[y]] < k
        BY <3>2
      <4>3. rank[d[y]] \in P
        BY <2>1, <4>2
      <4>4. g[d[y]] = h[d[y]]
        BY <4>1, <4>3
      <4> QED BY <3>1, <3>2, <4>4
    <3> QED BY <3>1, <3>2
  <2>2. P = Nat
    <3> HIDE DEF P
    <3>1. P \in SUBSET Nat
      BY DEF P
    <3> QED BY <2>1, <3>1, CourseOfValues
  <2>3. rank[x] \in Nat
    OBVIOUS
  <2> QED BY <2>2, <2>3
\* There is one for every bound on the rank.
<1>2. \A n \in Nat : Approx(n) # {}
  <2> DEFINE P == {n \in Nat : Approx(n) # {}}
  <2>1. 0 \in P
    <3>1. Upto(0) = {}
      OBVIOUS
    <3> DEFINE g == [x \in {} |-> b[x]]
    <3>2. g \in [Upto(0) -> S] /\ Obeys(g, Upto(0), Base, b, d, G)
      BY <3>1 DEF Obeys
    <3> QED BY <3>2
  <2>2. ASSUME NEW n \in P
        PROVE  n + 1 \in P
    <3>1. PICK g \in [Upto(n) -> S] : Obeys(g, Upto(n), Base, b, d, G)
      OBVIOUS
    <3> DEFINE h == [x \in Upto(n + 1) |->
                        IF x \in Base THEN b[x] ELSE G[<<x, g[d[x]]>>]]
    <3>2. ASSUME NEW x \in Upto(n + 1), x \notin Base
          PROVE  d[x] \in Upto(n)
      <4>1. rank[d[x]] \in Nat /\ rank[x] \in Nat /\ rank[d[x]] < rank[x] /\ rank[x] < n + 1
        BY <3>2
      <4> QED BY <4>1
    <3>3. ASSUME NEW x \in Upto(n + 1)
          PROVE  h[x] \in S
      <4>1. CASE x \in Base
        BY <4>1
      <4>2. CASE x \notin Base
        <5>1. g[d[x]] \in S
          BY <3>1, <3>2, <4>2
        <5> QED BY <4>2, <5>1
      <4> QED BY <4>1, <4>2
    <3>4. \A x \in Upto(n) : x \in Upto(n + 1)
      <4>1. \A x \in T : rank[x] \in Nat
        OBVIOUS
      <4> QED BY <4>1
    <3>5. \A x \in Upto(n) : h[x] = g[x]
      BY <3>1, <3>4 DEF Obeys
    <3>6. Obeys(h, Upto(n + 1), Base, b, d, G)
      <4> SUFFICES ASSUME NEW x \in Upto(n + 1)
                   PROVE  h[x] = IF x \in Base THEN b[x] ELSE G[<<x, h[d[x]]>>]
        BY DEF Obeys
      <4>1. h[x] = IF x \in Base THEN b[x] ELSE G[<<x, g[d[x]]>>]
        OBVIOUS
      <4>2. x \notin Base => h[d[x]] = g[d[x]]
        BY <3>2, <3>5
      <4> HIDE DEF h
      <4> QED BY <4>1, <4>2
    <3>7. h \in Approx(n + 1)
      BY <3>3, <3>6
    <3>8. n + 1 \in Nat
      OBVIOUS
    <3> QED BY <3>7, <3>8
  <2>3. P = Nat
    <3> HIDE DEF P
    <3>1. P \in SUBSET Nat
      BY DEF P
    <3> QED BY <2>1, <2>2, <3>1, Induct
  <2> QED BY <2>3
<1> DEFINE app(n) == CHOOSE g \in Approx(n) : TRUE
           f == [x \in T |-> app(rank[x] + 1)[x]]
<1>3. ASSUME NEW n \in Nat PROVE app(n) \in Approx(n)
  BY <1>2
<1>4. ASSUME NEW x \in T
      PROVE  rank[x] + 1 \in Nat /\ x \in Upto(rank[x] + 1)
  OBVIOUS
<1> HIDE DEF app
<1>5. f \in [T -> S]
  <2> SUFFICES ASSUME NEW x \in T PROVE app(rank[x] + 1)[x] \in S
    OBVIOUS
  <2>1. app(rank[x] + 1) \in [Upto(rank[x] + 1) -> S]
    BY <1>3, <1>4
  <2> QED BY <1>4, <2>1
<1>6. ASSUME NEW x \in T
      PROVE  f[x] = IF x \in Base THEN b[x] ELSE G[<<x, f[d[x]]>>]
  <2>1. PICK n \in Nat : n = rank[x] + 1 /\ x \in Upto(n)
    BY <1>4
  <2>2. PICK g \in Approx(n) : g = app(n)
    BY <1>3
  <2>3. f[x] = g[x]
    BY <2>1, <2>2
  <2>4. g[x] = IF x \in Base THEN b[x] ELSE G[<<x, g[d[x]]>>]
    BY <2>1, <2>2 DEF Obeys
  <2>5. ASSUME x \notin Base
        PROVE  f[d[x]] = g[d[x]]
    <3>1. d[x] \in T /\ d[x] \in Upto(n)
      BY <1>0, <2>1, <2>5
    <3>2. PICK m \in Nat : m = rank[d[x]] + 1 /\ d[x] \in Upto(m)
      BY <1>4, <3>1
    <3>3. PICK h \in Approx(m) : h = app(m)
      BY <1>3
    <3> HIDE DEF Upto, Approx
    <3>4. h[d[x]] = g[d[x]]
      BY <1>1, <3>1, <3>2
    <3> QED BY <3>1, <3>2, <3>3, <3>4
  <2> HIDE DEF f
  <2> QED BY <2>3, <2>4, <2>5
<1> HIDE DEF f
<1> QED BY <1>5, <1>6 DEF Obeys

-----------------------------------------------------------------------------
(* Markets.                                                                *)

\* A set of indices that is not empty has a first.
LEMMA HasFirst == ASSUME NEW S \in SUBSET Nat, S # {} PROVE First(S) # {}
<1> DEFINE R == {ss \in Nat \X Nat : ss[1] < ss[2]}
<1>1. IsWellFoundedOn(R, Nat)
  BY NatLessThanWellFounded DEF OpToRel
<1>2. PICK x \in S : \A y \in S : ~(<<y, x>> \in R)
  BY <1>1, WFMin
<1>3. ASSUME NEW y \in S PROVE x <= y
  <2>1. x \in Nat /\ y \in Nat /\ (y < x => <<y, x>> \in R)
    OBVIOUS
  <2>2. ~(<<y, x>> \in R)
    BY <1>2
  <2>3. ~(y < x)
    BY <2>1, <2>2
  <2> HIDE DEF R
  <2> QED BY <2>1, <2>3
<1> QED BY <1>3 DEF First

\* What is listed is a market.
LEMMA MarketTypes == ASSUME NEW i \in DOMAIN MarketList
  PROVE  i \in Nat /\ MarketList[i] \in Keys /\ MarketList[i].target \in Custodies
       /\ MarketList[i].collateral \in Custodies /\ MarketList[i].side \in Sides
       /\ MarketList[i] = [target |-> MarketList[i].target,
                           collateral |-> MarketList[i].collateral, side |-> MarketList[i].side]
<1>1. i \in Nat /\ MarketList[i] \in Keys
  BY PoolAssumption
<1>2. PICK k \in Keys : k = MarketList[i]
  BY <1>1
<1>3. /\ k.target \in Custodies /\ k.collateral \in Custodies /\ k.side \in Sides
      /\ k = [target |-> k.target, collateral |-> k.collateral, side |-> k.side]
  BY DEF Keys
<1> QED BY <1>1, <1>2, <1>3

\* What the client finds for the symbols of a listed market is that market.
LEMMA Found == ASSUME NEW i \in DOMAIN MarketList, NEW t \in Symbols, NEW lock \in Symbols,
       MarketList[i].target = CustodyOf[t], MarketList[i].collateral = CustodyOf[lock]
  PROVE FindMarket(t, lock, MarketList[i].side) = {MarketList[i]}
BY MarketTypes DEF FindMarket, Listed, Of

\* The market the client would use is found whatever the first hit was.
LEMMA Override == ASSUME NEW t \in Overridden, NEW i \in Candidates(t), MarketList[i].side = "long",
   NEW S, S = {j \in Candidates(t) : MarketList[j].side = "long"}
  PROVE First(With(S, CustodyOf[OverrideOf[t]])) # {}
<1>1. PICK j \in DOMAIN MarketList : MarketList[j] = [target |-> CustodyOf[t], collateral |-> CustodyOf[OverrideOf[t]], side |-> "long"]
  BY ListAssumption DEF Candidates, Listed, Of
<1>2. j \in With(S, CustodyOf[OverrideOf[t]])
  BY <1>1 DEF With, Candidates
<1>3. With(S, CustodyOf[OverrideOf[t]]) \in SUBSET Nat
  BY MarketTypes DEF With, Candidates
<1> QED BY <1>2, <1>3, HasFirst

\* A choice among markets of one side agrees with the client.
LEMMA Agreed == ASSUME NEW t \in Symbols, NEW i \in Candidates(t),
    NEW S, S = {j \in Candidates(t) : MarketList[j].side = MarketList[i].side},
    NEW j \in Else(First(With(S, Want(t, i))), {i})
  PROVE /\ MarketList[j].side = MarketList[i].side
        /\ OpenMarket(t, SymbolOf[MarketList[j].collateral], MarketList[j].side) = {MarketList[j]}
        /\ FindMarket(t, SymbolOf[MarketList[j].collateral], MarketList[j].side) = {MarketList[j]}
<1>1. j \in Candidates(t) /\ MarketList[j].side = MarketList[i].side /\ j \in DOMAIN MarketList
   /\ MarketList[j].target = CustodyOf[t]
  BY DEF Else, First, With, Candidates
<1>2. SymbolOf[MarketList[j].collateral] \in Symbols /\ CustodyOf[SymbolOf[MarketList[j].collateral]] = MarketList[j].collateral
  BY <1>1, MarketTypes, PoolAssumption
<1>3. FindMarket(t, SymbolOf[MarketList[j].collateral], MarketList[j].side) = {MarketList[j]}
  BY <1>1, <1>2, Found
<1>4. CASE MarketList[i].side = "long" /\ t \in Overridden
  <2>1. Want(t, i) = CustodyOf[OverrideOf[t]] /\ OverrideOf[t] \in Symbols
    BY <1>4, PoolAssumption DEF Want, Resolve
  <2>2. First(With(S, CustodyOf[OverrideOf[t]])) # {}
    BY <1>4, Override
  <2>3. MarketList[j].collateral = CustodyOf[OverrideOf[t]]
    BY <2>1, <2>2 DEF Else, First, With
  <2>4. Resolve(t, SymbolOf[MarketList[j].collateral], MarketList[j].side) = OverrideOf[t]
    BY <1>1, <1>4 DEF Resolve
  <2>5. OpenMarket(t, SymbolOf[MarketList[j].collateral], MarketList[j].side) = {MarketList[j]}
    BY <1>1, <2>1, <2>3, <2>4, Found DEF OpenMarket
  <2> QED BY <1>1, <1>3, <2>5
<1>5. CASE ~(MarketList[i].side = "long" /\ t \in Overridden)
  <2>1. Resolve(t, SymbolOf[MarketList[j].collateral], MarketList[j].side) = SymbolOf[MarketList[j].collateral]
    BY <1>1, <1>5 DEF Resolve
  <2> QED BY <1>1, <1>3, <2>1 DEF OpenMarket
<1> QED BY <1>4, <1>5

\* What openPosition.ts picks for a symbol and a collateral is the market that
\* openPosition of the client opens.
THEOREM RunnerPicks == \A t, c \in Symbols : PickAgrees(t, c)
<1> SUFFICES ASSUME NEW t \in Symbols, NEW c \in Symbols, NEW m \in PickMarket(t, c)
             PROVE  OpenMarket(t, SymbolOf[m.collateral], m.side) = {m}
  BY DEF PickAgrees
<1>1. PICK i \in Preferred(t, c) : m \in Of(Else(First(With(SameSide(Candidates(t), i), Want(t, i))), {i}))
  BY DEF PickMarket
<1>2. PICK j \in Else(First(With(SameSide(Candidates(t), i), Want(t, i))), {i}) : m = MarketList[j]
  BY <1>1 DEF Of
<1>3. i \in Candidates(t)
  BY DEF Preferred, Else, First, With
<1>4. OpenMarket(t, SymbolOf[MarketList[j].collateral], MarketList[j].side) = {MarketList[j]}
  <2>1. PICK S \in SUBSET Candidates(t) : S = SameSide(Candidates(t), i)
    BY DEF SameSide
  <2>2. S = {h \in Candidates(t) : MarketList[h].side = MarketList[i].side}
    BY <2>1 DEF SameSide
  <2>3. j \in Else(First(With(S, Want(t, i))), {i})
    BY <1>2, <2>1
  <2> QED BY <1>3, <2>2, <2>3, Agreed
<1> QED BY <1>2, <1>4

\* What a runner picks by its side is the market the client opens and closes.
THEOREM SidePicks == \A t \in Symbols, side \in Sides : SideAgrees(t, side)
<1> SUFFICES ASSUME NEW t \in Symbols, NEW side \in Sides, NEW m \in MarketForSide(t, side)
             PROVE  /\ OpenMarket(t, SymbolOf[m.collateral], side) = {m}
                    /\ FindMarket(t, SymbolOf[m.collateral], side) = {m}
  BY DEF SideAgrees
<1>1. PICK i \in First(OnSide(t, side)) : m \in Of(Else(First(With(OnSide(t, side), Want(t, i))), {i}))
  BY DEF MarketForSide
<1>2. PICK j \in Else(First(With(OnSide(t, side), Want(t, i))), {i}) : m = MarketList[j]
  BY <1>1 DEF Of
<1>3. i \in Candidates(t) /\ MarketList[i].side = side
  BY DEF First, OnSide
<1>4. OnSide(t, side) = {k \in Candidates(t) : MarketList[k].side = MarketList[i].side}
  BY <1>3 DEF OnSide
<1>5. PICK S : S = OnSide(t, side)
  OBVIOUS
<1>6. j \in Else(First(With(S, Want(t, i))), {i})
  BY <1>2, <1>5
<1>7. S = {k \in Candidates(t) : MarketList[k].side = MarketList[i].side}
  BY <1>4, <1>5
<1>8. /\ OpenMarket(t, SymbolOf[MarketList[j].collateral], MarketList[j].side) = {MarketList[j]}
      /\ FindMarket(t, SymbolOf[MarketList[j].collateral], MarketList[j].side) = {MarketList[j]}
      /\ MarketList[j].side = MarketList[i].side
  BY <1>3, <1>6, <1>7, Agreed
<1> QED BY <1>2, <1>3, <1>8

\* With the default collateral the client finds nothing better than the first hit.
LEMMA DefaultStays ==
    ASSUME NEW t \in Symbols, NEW i \in Preferred(t, DefaultCollateral)
    PROVE  Of(Else(First(With(SameSide(Candidates(t), i), Want(t, i))), {i})) = Of({i})
<1> DEFINE D == CustodyOf[DefaultCollateral]
           S == With(Candidates(t), D)
<1>1. Candidates(t) # {} /\ i \in Candidates(t)
  BY DEF Preferred, Else, First, With
<1>2. \E k \in DOMAIN MarketList : MarketList[k].target = CustodyOf[t] /\ MarketList[k].collateral = D
  <2>1. MarketList[i] \in Listed /\ MarketList[i].target = CustodyOf[t]
    BY <1>1 DEF Candidates, Listed, Of
  <2> QED BY <2>1, DefaultAssumption DEF Listed, Of
<1>3. S # {} /\ S \in SUBSET Nat
  BY <1>2, MarketTypes DEF With, Candidates
<1>4. First(S) # {}
  BY <1>3, HasFirst
<1>5. i \in First(S)
  BY <1>4 DEF Preferred, Else
<1>6. MarketList[i].collateral = D
  BY <1>5 DEF First, With
<1>7. \A j \in SameSide(Candidates(t), i) : MarketList[j] = MarketList[i]
  BY <1>1, <1>6, DefaultAssumption DEF SameSide, Candidates, Listed, Of
<1>8. PICK T \in SUBSET SameSide(Candidates(t), i) :
          T = First(With(SameSide(Candidates(t), i), Want(t, i)))
  BY DEF First, With
<1>9. Of(Else(T, {i})) = Of({i})
  BY <1>7 DEF Of, Else
<1> QED BY <1>8, <1>9

\* Under the default settings, a pick without a client is the pick with one.
THEOREM DefaultPicks ==
    \A t \in Symbols : PickMarket(t, DefaultCollateral) = PickUnaided(t, DefaultCollateral)
<1> SUFFICES ASSUME NEW t \in Symbols
             PROVE  PickMarket(t, DefaultCollateral) = PickUnaided(t, DefaultCollateral)
  OBVIOUS
<1>1. PickMarket(t, DefaultCollateral) = UNION {Of({i}) : i \in Preferred(t, DefaultCollateral)}
  BY DefaultStays DEF PickMarket
<1>2. PickUnaided(t, DefaultCollateral) = UNION {Of({i}) : i \in Preferred(t, DefaultCollateral)}
  BY DEF PickUnaided, Of
<1> QED BY <1>1, <1>2

-----------------------------------------------------------------------------
(* Powers of ten.                                                          *)

\* A power is what the recursion says.
LEMMA Pow10Def ==
    /\ Pow10 \in [Nat -> Nat]
    /\ \A n \in Nat : Pow10[n] = IF n = 0 THEN 1 ELSE 10 * Pow10[n - 1]
<1>1. PICK b \in [Nat -> Nat], d \in [Nat -> Nat], rank \in [Nat -> Nat] :
          \A n \in Nat : b[n] = 1 /\ rank[n] = n /\ (n # 0 => d[n] = n - 1)
  <2>1. [n \in Nat |-> IF n = 0 THEN 0 ELSE n - 1] \in [Nat -> Nat]
    OBVIOUS
  <2>2. [n \in Nat |-> 1] \in [Nat -> Nat] /\ [n \in Nat |-> n] \in [Nat -> Nat]
    OBVIOUS
  <2> QED BY <2>1, <2>2
<1>2. PICK G \in [Nat \X Nat -> Nat] : \A n, k \in Nat : G[<<n, k>>] = 10 * k
  <2>1. [a \in Nat \X Nat |-> 10 * a[2]] \in [Nat \X Nat -> Nat]
    OBVIOUS
  <2> QED BY <2>1
<1>3. PICK f \in [Nat -> Nat] : Obeys(f, Nat, {0}, b, d, G)
  <2>1. {0} \in SUBSET Nat
    OBVIOUS
  <2>2. \A n \in Nat \ {0} : rank[d[n]] < rank[n]
    BY <1>1
  <2> QED BY <2>1, <2>2, Recursion
<1>4. ASSUME NEW n \in Nat
      PROVE  f[n] = IF n = 0 THEN 1 ELSE 10 * f[n - 1]
  <2>1. f[n] = IF n \in {0} THEN b[n] ELSE G[<<n, f[d[n]]>>]
    BY <1>3 DEF Obeys
  <2>2. n # 0 => f[n - 1] \in Nat /\ d[n] = n - 1
    BY <1>1
  <2> QED BY <1>1, <1>2, <2>1, <2>2
<1>5. f = [n \in Nat |-> IF n = 0 THEN 1 ELSE 10 * f[n - 1]]
  BY <1>4
<1>6. Pow10 = [n \in Nat |-> IF n = 0 THEN 1 ELSE 10 * Pow10[n - 1]]
  BY <1>5 DEF Pow10
<1>7. \A n \in Nat : Pow10[n] = IF n = 0 THEN 1 ELSE 10 * Pow10[n - 1]
  BY <1>6
<1>8. \A n \in Nat : Pow10[n] \in Nat
  <2> DEFINE P == {n \in Nat : Pow10[n] \in Nat}
  <2>1. 0 \in P
    BY <1>7
  <2>2. ASSUME NEW n \in P PROVE n + 1 \in P
    <3>1. n + 1 \in Nat /\ n + 1 # 0 /\ (n + 1) - 1 = n
      OBVIOUS
    <3> QED BY <1>7, <3>1
  <2>3. P = Nat
    <3> HIDE DEF P
    <3>1. P \in SUBSET Nat
      BY DEF P
    <3> QED BY <2>1, <2>2, <3>1, Induct
  <2> QED BY <2>3
<1>9. Pow10 \in [Nat -> Nat]
  BY <1>6, <1>8
<1> QED BY <1>7, <1>9

\* Powers are positive.
LEMMA Pow10Pos == \A n \in Nat : Pow10[n] \in Nat /\ Pow10[n] > 0
<1> DEFINE P == {n \in Nat : Pow10[n] \in Nat /\ Pow10[n] > 0}
<1>1. 0 \in P
  BY Pow10Def
<1>2. ASSUME NEW n \in P PROVE n + 1 \in P
  BY Pow10Def
<1>3. P = Nat
  <2> HIDE DEF P
  <2>1. P \in SUBSET Nat
    BY DEF P
  <2> QED BY <1>1, <1>2, <2>1, Induct
<1> QED BY <1>3

\* The power of a sum is the product of the powers.
LEMMA Pow10Sum == \A m, n \in Nat : Pow10[m + n] = Pow10[m] * Pow10[n]
<1> SUFFICES ASSUME NEW m \in Nat PROVE \A n \in Nat : Pow10[m + n] = Pow10[m] * Pow10[n]
  OBVIOUS
<1> DEFINE P == {n \in Nat : Pow10[m + n] = Pow10[m] * Pow10[n]}
<1>1. 0 \in P
  BY Pow10Def
<1>2. ASSUME NEW n \in P PROVE n + 1 \in P
  <2>1. /\ Pow10[m + (n + 1)] = 10 * Pow10[m + n]
        /\ Pow10[n + 1] = 10 * Pow10[n]
    <3>1. m + (n + 1) \in Nat /\ (m + (n + 1)) - 1 = m + n /\ m + (n + 1) # 0
      OBVIOUS
    <3>2. n + 1 \in Nat /\ (n + 1) - 1 = n /\ n + 1 # 0
      OBVIOUS
    <3> QED BY <3>1, <3>2, Pow10Def
  <2>2. PICK x \in Nat, y \in Nat : x = Pow10[m] /\ y = Pow10[n]
    BY Pow10Pos
  <2>3. 10 * (x * y) = x * (10 * y)
    OBVIOUS
  <2> QED BY <2>1, <2>2, <2>3
<1>3. P = Nat
  <2> HIDE DEF P
  <2>1. P \in SUBSET Nat
    BY DEF P
  <2> QED BY <1>1, <1>2, <2>1, Induct
<1> QED BY <1>3

-----------------------------------------------------------------------------
(* Division.                                                               *)

\* Division rounds down.
LEMMA DivIsFloor ==
    ASSUME NEW a \in Nat, NEW b \in Nat \ {0}
    PROVE  a \div b \in Nat /\ IsFloor(a \div b, <<a, b>>)
BY DEF IsFloor

\* checkedCeilDiv rounds up.
LEMMA CeilDivIsCeil ==
    ASSUME NEW a \in Nat, NEW b \in Nat \ {0}
    PROVE  CeilDiv(a, b) \in Nat /\ IsCeil(CeilDiv(a, b), <<a, b>>)
<1>1. CASE a > 0
  <2>1. PICK k \in Nat : k = (a - 1) \div b
    BY <1>1
  <2>2. k * b <= a - 1 /\ a - 1 < (k + 1) * b
    BY <1>1, <2>1
  <2>3. a <= (k + 1) * b /\ ((k + 1) - 1) * b < a
    BY <2>2
  <2> QED BY <1>1, <2>1, <2>3 DEF CeilDiv, IsCeil
<1>2. CASE a = 0
  <2>1. CeilDiv(a, b) = 0
    BY <1>2 DEF CeilDiv
  <2> QED BY <1>2, <2>1 DEF IsCeil
<1> QED BY <1>1, <1>2

\* checkedDecimalMul and checkedDecimalCeilMul are the exact product, rounded down
\* and up, for all coefficients and exponents.
THEOREM MulIsExact ==
    ASSUME NEW c1 \in Nat, NEW c2 \in Nat, NEW e1 \in Int, NEW e2 \in Int, NEW t \in Int
    PROVE  /\ DecimalMul(c1, e1, c2, e2, t) \in Nat
           /\ IsFloor(DecimalMul(c1, e1, c2, e2, t), Product(c1, e1, c2, e2, t))
           /\ DecimalCeilMul(c1, e1, c2, e2, t) \in Nat
           /\ IsCeil(DecimalCeilMul(c1, e1, c2, e2, t), Product(c1, e1, c2, e2, t))
<1>1. PICK p \in Int : p = e1 + e2 - t
  OBVIOUS
<1>2. PICK a \in Nat : a = c1 * c2
  OBVIOUS
<1>3. CASE p > 0
  <2>1. Pos(p) = p /\ Pos(-p) = 0
    BY <1>3 DEF Pos
  <2>2. PICK k \in Nat : k = Pow10[p]
    BY <1>3, Pow10Pos
  <2>3. Pow10[0] = 1
    BY Pow10Def
  <2>4. Product(c1, e1, c2, e2, t) = <<a * k, 1>>
    BY <1>1, <1>2, <2>1, <2>2, <2>3 DEF Product
  <2>5. /\ DecimalMul(c1, e1, c2, e2, t) = a * k
        /\ DecimalCeilMul(c1, e1, c2, e2, t) = a * k
    BY <1>1, <1>2, <1>3, <2>2 DEF DecimalMul, DecimalCeilMul
  <2>6. PICK r \in Nat : r = a * k
    OBVIOUS
  <2> QED BY <2>4, <2>5, <2>6 DEF IsFloor, IsCeil
<1>4. CASE ~(p > 0)
  <2>1. Pos(p) = 0 /\ Pos(-p) = -p /\ -p \in Nat
    BY <1>4 DEF Pos
  <2>2. PICK k \in Nat \ {0} : k = Pow10[-p]
    BY <2>1, Pow10Pos
  <2>3. Pow10[0] = 1 /\ a * 1 = a
    BY Pow10Def
  <2>4. Product(c1, e1, c2, e2, t) = <<a, k>>
    BY <1>1, <1>2, <2>1, <2>2, <2>3 DEF Product
  <2>5. /\ DecimalMul(c1, e1, c2, e2, t) = a \div k
        /\ DecimalCeilMul(c1, e1, c2, e2, t) = CeilDiv(a, k)
    BY <1>1, <1>2, <1>4, <2>2 DEF DecimalMul, DecimalCeilMul
  <2> QED BY <2>4, <2>5, DivIsFloor, CeilDivIsCeil
<1> QED BY <1>3, <1>4

\* A common factor cancels.
LEMMA FloorCancels ==
    ASSUME NEW a \in Nat, NEW b \in Nat \ {0}, NEW k \in Nat \ {0}, NEW r \in Nat,
           IsFloor(r, <<a * k, b * k>>)
    PROVE  IsFloor(r, <<a, b>>)
<1>1. (r * b) * k <= a * k /\ a * k < ((r + 1) * b) * k
  BY DEF IsFloor
<1>2. r * b \in Nat /\ (r + 1) * b \in Nat
  OBVIOUS
<1>3. \A x, y \in Nat : (x * k <= y * k => x <= y) /\ (x * k < y * k => x < y)
  OBVIOUS
<1> QED BY <1>1, <1>2, <1>3 DEF IsFloor

\* Dividing twice is dividing once.
LEMMA DivTwice ==
    ASSUME NEW a \in Nat, NEW b \in Nat \ {0}, NEW c \in Nat \ {0}
    PROVE  (a \div b) \div c \in Nat /\ IsFloor((a \div b) \div c, <<a, b * c>>)
<1>1. PICK m \in Nat : m = a \div b
  OBVIOUS
<1>2. PICK r \in Nat : r = m \div c
  OBVIOUS
<1>3. m * b <= a /\ a < (m + 1) * b
  BY <1>1
<1>4. r * c <= m /\ m + 1 <= (r + 1) * c
  BY <1>2
<1>5. (r * c) * b <= m * b /\ (m + 1) * b <= ((r + 1) * c) * b
  BY <1>4
<1>6. r * (b * c) = (r * c) * b /\ (r + 1) * (b * c) = ((r + 1) * c) * b
  OBVIOUS
<1> QED BY <1>1, <1>2, <1>3, <1>5, <1>6 DEF IsFloor

\* checkedDecimalDiv is the exact quotient, rounded down, unless its dividend has a
\* positive exponent.
THEOREM DivIsExact ==
    ASSUME NEW c1 \in Nat, NEW c2 \in Nat \ {0}, NEW e1 \in Int, NEW e2 \in Int, NEW t \in Int,
           e1 <= 0
    PROVE  /\ DecimalDiv(c1, e1, c2, e2, t) \in Nat
           /\ IsFloor(DecimalDiv(c1, e1, c2, e2, t), Quotient(c1, e1, c2, e2, t))
<1> DEFINE scale == Pos(e1) + Pos(-e2) + Pos(-t)
           p == e1 - e2 - t - Pos(-e2) - Pos(-t)
           x == e1 - e2 - t
<1>1. scale \in Nat /\ -p \in Nat /\ p \in Int /\ x \in Int /\ scale + p = x
  BY DEF Pos
<1>2. Pos(x) \in Nat /\ Pos(-x) \in Nat /\ Pos(x) - Pos(-x) = x
  BY <1>1 DEF Pos
<1>3. PICK d \in Nat : scale = Pos(x) + d /\ -p = Pos(-x) + d
  <2>1. scale - Pos(x) \in Nat
    BY <1>1 DEF Pos
  <2>2. -p = Pos(-x) + (scale - Pos(x))
    BY <1>1, <1>2
  <2> QED BY <1>1, <1>2, <2>1, <2>2
<1>4. PICK k \in Nat \ {0}, u \in Nat \ {0}, v \in Nat \ {0} :
          k = Pow10[d] /\ u = Pow10[Pos(x)] /\ v = Pow10[Pos(-x)]
  BY <1>2, Pow10Pos
<1>5. Pow10[scale] = u * k /\ Pow10[-p] = v * k
  BY <1>2, <1>3, <1>4, Pow10Sum
<1>6. PICK s \in Nat \ {0}, w \in Nat \ {0} :
          s = Pow10[scale] /\ w = Pow10[-p] /\ s = u * k /\ w = v * k
  BY <1>1, <1>5, Pow10Pos
<1>7. PICK a \in Nat : a = c1 * s
  BY <1>6
<1>8. DecimalDiv(c1, e1, c2, e2, t) = (a \div c2) \div w
  <2>1. CASE p >= 0
    <3>1. p = 0 /\ -p = 0
      BY <1>1, <2>1
    <3>2. Pow10[p] = 1 /\ w = 1
      BY <1>6, <3>1, Pow10Def
    <3>3. PICK m \in Nat : m = a \div c2
      OBVIOUS
    <3>4. m * 1 = m /\ m \div 1 = m
      BY <3>3
    <3>5. DecimalDiv(c1, e1, c2, e2, t) = (a \div c2) * Pow10[p]
      BY <1>6, <1>7, <2>1 DEF DecimalDiv
    <3> QED BY <3>2, <3>3, <3>4, <3>5
  <2>2. CASE ~(p >= 0)
    BY <1>6, <1>7, <2>2 DEF DecimalDiv
  <2> QED BY <2>1, <2>2
<1>9. PICK r \in Nat : r = (a \div c2) \div w /\ IsFloor(r, <<a, c2 * w>>)
  BY DivTwice
<1>10. a = (c1 * u) * k /\ c2 * w = (c2 * v) * k
  BY <1>6, <1>7
<1>11. c1 * u \in Nat /\ c2 * v \in Nat \ {0}
  OBVIOUS
<1>12. IsFloor(r, <<c1 * u, c2 * v>>)
  BY <1>9, <1>10, <1>11, FloorCancels
<1>13. Quotient(c1, e1, c2, e2, t) = <<c1 * u, c2 * v>>
  BY <1>4 DEF Quotient
<1> QED BY <1>8, <1>9, <1>12, <1>13

-----------------------------------------------------------------------------
(* Sequences, in front.                                                    *)

\* A sequence of one element.
LEMMA Singleton ==
    ASSUME NEW E, NEW e \in E
    PROVE  <<e>> \in Seq(E) /\ Len(<<e>>) = 1 /\ <<e>>[1] = e
OBVIOUS

\* Equal sequences with beginnings of equal length have these and the rest equal.
LEMMA Peel ==
    ASSUME NEW E, NEW a \in Seq(E), NEW b \in Seq(E), NEW x \in Seq(E), NEW y \in Seq(E),
           Len(a) = Len(b), a \o x = b \o y
    PROVE  a = b /\ x = y
<1>1. Len(a) \in Nat /\ Len(x) \in Nat /\ Len(y) \in Nat
  BY LenProperties
<1>2. ASSUME NEW i \in 1 .. Len(a)
      PROVE  a[i] = b[i]
  <2>1. i \in 1 .. Len(a) + Len(x) /\ i \in 1 .. Len(b) + Len(y) /\ i <= Len(a) /\ i <= Len(b)
    BY <1>1
  <2>2. (a \o x)[i] = a[i] /\ (b \o y)[i] = b[i]
    BY <2>1, ConcatProperties
  <2> QED BY <2>2
<1>3. a = b
  BY <1>2, SeqEqual
<1>4. Len(a \o x) = Len(a) + Len(x) /\ Len(b \o y) = Len(b) + Len(y)
  BY ConcatProperties
<1>5. Len(x) = Len(y)
  BY <1>1, <1>4
<1>6. ASSUME NEW i \in 1 .. Len(x)
      PROVE  x[i] = y[i]
  <2>1. PICK j \in Nat : j = Len(a) + i
    BY <1>1
  <2>2. /\ j \in 1 .. Len(a) + Len(x) /\ j \in 1 .. Len(b) + Len(y)
        /\ ~(j <= Len(a)) /\ j - Len(a) = i /\ ~(j <= Len(b)) /\ j - Len(b) = i
    BY <1>1, <1>5, <2>1
  <2>3. (a \o x)[j] = x[i] /\ (b \o y)[j] = y[i]
    BY <2>2, ConcatProperties
  <2> QED BY <2>3
<1>7. x = y
  BY <1>5, <1>6, SeqEqual
<1> QED BY <1>3, <1>7

-----------------------------------------------------------------------------
(* Lengths.                                                                *)

\* encodeShortvec ends: what it writes is what the recursion says.
LEMMA DigitsDef ==
    /\ Digits \in [Nat -> Seq(Bytes)]
    /\ \A v \in Nat : Digits[v] = IF v < Radix THEN <<v>>
                                  ELSE <<Radix + (v % Radix)>> \o Digits[v \div Radix]
<1> USE RadixAssumption
<1>1. ASSUME NEW v \in Nat
      PROVE  /\ v \div Radix \in Nat /\ v % Radix \in 0 .. Radix - 1
             /\ v >= Radix => v \div Radix < v
             /\ Radix + (v % Radix) \in Bytes
             /\ v < Radix => v \in Bytes
  <2>1. v % Radix \in 0 .. Radix - 1 /\ v \div Radix \in Nat
    OBVIOUS
  <2>2. ASSUME v >= Radix
        PROVE  v \div Radix < v
    <3>1. PICK k \in Nat : k = v \div Radix /\ k * Radix <= v
      OBVIOUS
    <3>2. k > 0 => k < k * Radix
      OBVIOUS
    <3> QED BY <2>2, <3>1, <3>2
  <2> QED BY <2>1, <2>2 DEF Bytes
<1>2. PICK b \in [Nat -> Seq(Bytes)], d \in [Nat -> Nat], rank \in [Nat -> Nat] :
          \A v \in Nat : /\ v < Radix => b[v] = <<v>>
                         /\ d[v] = v \div Radix /\ rank[v] = v
  <2>1. [v \in Nat |-> IF v < Radix THEN <<v>> ELSE <<>>] \in [Nat -> Seq(Bytes)]
    BY <1>1
  <2>2. [v \in Nat |-> v \div Radix] \in [Nat -> Nat] /\ [v \in Nat |-> v] \in [Nat -> Nat]
    BY <1>1
  <2> QED BY <2>1, <2>2
<1>3. PICK G \in [Nat \X Seq(Bytes) -> Seq(Bytes)] :
          \A v \in Nat, s \in Seq(Bytes) : G[<<v, s>>] = <<Radix + (v % Radix)>> \o s
  <2> DEFINE g == [a \in Nat \X Seq(Bytes) |-> <<Radix + (a[1] % Radix)>> \o a[2]]
  <2>1. ASSUME NEW a \in Nat \X Seq(Bytes)
        PROVE  <<Radix + (a[1] % Radix)>> \o a[2] \in Seq(Bytes)
    <3>1. a[1] \in Nat /\ a[2] \in Seq(Bytes)
      OBVIOUS
    <3>2. <<Radix + (a[1] % Radix)>> \in Seq(Bytes)
      BY <1>1, <3>1
    <3> QED BY <3>1, <3>2, ConcatProperties
  <2>2. g \in [Nat \X Seq(Bytes) -> Seq(Bytes)]
    BY <2>1
  <2>3. \A v \in Nat, s \in Seq(Bytes) : g[<<v, s>>] = <<Radix + (v % Radix)>> \o s
    OBVIOUS
  <2> HIDE DEF g
  <2> QED BY <2>2, <2>3
<1> DEFINE Base == {v \in Nat : v < Radix}
<1>4. PICK f \in [Nat -> Seq(Bytes)] : Obeys(f, Nat, Base, b, d, G)
  <2>1. Base \in SUBSET Nat
    OBVIOUS
  <2>2. ASSUME NEW v \in Nat \ Base
        PROVE  rank[d[v]] < rank[v]
    <3>0. v \in Nat /\ ~(v < Radix) /\ Radix \in Nat
      OBVIOUS
    <3>1. v >= Radix /\ d[v] = v \div Radix /\ d[v] \in Nat
      <4>1. v >= Radix
        BY <3>0
      <4>2. d[v] = v \div Radix
        BY <1>2, <3>0
      <4>3. d[v] \in Nat
        BY <3>0
      <4> QED BY <4>1, <4>2, <4>3
    <3>2. d[v] < v
      BY <1>1, <3>1
    <3> QED BY <1>2, <3>1, <3>2
  <2> HIDE DEF Base
  <2> QED BY <2>1, <2>2, Recursion
<1>5. ASSUME NEW v \in Nat
      PROVE  f[v] = IF v < Radix THEN <<v>> ELSE <<Radix + (v % Radix)>> \o f[v \div Radix]
  <2>1. f[v] = IF v \in Base THEN b[v] ELSE G[<<v, f[d[v]]>>]
    BY <1>4 DEF Obeys
  <2>2. d[v] \in Nat /\ d[v] = v \div Radix /\ f[d[v]] \in Seq(Bytes)
    BY <1>2
  <2> QED BY <1>2, <1>3, <2>1, <2>2
<1>6. f = [v \in Nat |-> IF v < Radix THEN <<v>> ELSE <<Radix + (v % Radix)>> \o f[v \div Radix]]
  BY <1>5
<1>7. Digits = [v \in Nat |-> IF v < Radix THEN <<v>>
                              ELSE <<Radix + (v % Radix)>> \o Digits[v \div Radix]]
  BY <1>6 DEF Digits
<1>8. \A v \in Nat : Digits[v] = IF v < Radix THEN <<v>>
                                 ELSE <<Radix + (v % Radix)>> \o Digits[v \div Radix]
  BY <1>7
<1>9. \A v \in Nat : Digits[v] \in Seq(Bytes)
  <2> DEFINE P == {v \in Nat : Digits[v] \in Seq(Bytes)}
  <2>1. ASSUME NEW v \in Nat, \A u \in Nat : u < v => u \in P
        PROVE  v \in P
    <3>1. CASE v < Radix
      <4>1. v \in Bytes /\ Digits[v] = <<v>>
        BY <1>1, <1>8, <3>1
      <4>2. <<v>> \in Seq(Bytes)
        BY <4>1, Singleton
      <4>3. Digits[v] \in Seq(Bytes)
        BY <4>1, <4>2
      <4> QED BY <4>3
    <3>2. CASE ~(v < Radix)
      <4>1. Digits[v] = <<Radix + (v % Radix)>> \o Digits[v \div Radix]
        BY <1>8, <3>2
      <4>2. <<Radix + (v % Radix)>> \in Seq(Bytes)
        BY <1>1, Singleton
      <4>3. PICK u \in Nat : u = v \div Radix /\ u < v
        <5>1. v >= Radix
          BY <3>2
        <5> QED BY <1>1, <5>1
      <4>4. Digits[u] \in Seq(Bytes)
        BY <2>1, <4>3
      <4>5. <<Radix + (v % Radix)>> \o Digits[u] \in Seq(Bytes)
        BY <4>2, <4>4, ConcatProperties
      <4> QED BY <4>1, <4>3, <4>5
    <3> QED BY <3>1, <3>2
  <2>2. P = Nat
    <3> HIDE DEF P
    <3>1. P \in SUBSET Nat
      BY DEF P
    <3> QED BY <2>1, <3>1, CourseOfValues
  <2> QED BY <2>2
<1> QED BY <1>7, <1>8, <1>9

\* So does the reader.
LEMMA ValueDef ==
    \A s \in Seq(Nat) :
        /\ Value[s] \in Nat
        /\ Value[s] = IF s = <<>> THEN 0 ELSE (s[1] % Radix) + Radix * Value[Tail(s)]
<1> USE RadixAssumption
<1>1. PICK b \in [Seq(Nat) -> Nat], d \in [Seq(Nat) -> Seq(Nat)], rank \in [Seq(Nat) -> Nat] :
          \A s \in Seq(Nat) : /\ b[s] = 0 /\ rank[s] = Len(s)
                              /\ s # <<>> => d[s] = Tail(s)
  <2>1. [s \in Seq(Nat) |-> IF s = <<>> THEN <<>> ELSE Tail(s)] \in [Seq(Nat) -> Seq(Nat)]
    BY HeadTailProperties
  <2>2. [s \in Seq(Nat) |-> 0] \in [Seq(Nat) -> Nat]
    OBVIOUS
  <2>3. [s \in Seq(Nat) |-> Len(s)] \in [Seq(Nat) -> Nat]
    BY LenProperties
  <2> QED BY <2>1, <2>2, <2>3
<1>2. \A s \in Seq(Nat) : s # <<>> => s[1] \in Nat /\ s[1] % Radix \in Nat
  BY ElementOfSeq, EmptySeq
<1>3. PICK G \in [Seq(Nat) \X Nat -> Nat] :
          \A s \in Seq(Nat), k \in Nat : s # <<>> => G[<<s, k>>] = (s[1] % Radix) + Radix * k
  <2> DEFINE g == [a \in Seq(Nat) \X Nat |->
                      IF a[1] = <<>> THEN 0 ELSE (a[1][1] % Radix) + Radix * a[2]]
  <2>1. ASSUME NEW a \in Seq(Nat) \X Nat
        PROVE  (IF a[1] = <<>> THEN 0 ELSE (a[1][1] % Radix) + Radix * a[2]) \in Nat
    BY <1>2
  <2>2. g \in [Seq(Nat) \X Nat -> Nat]
    BY <2>1
  <2>3. \A s \in Seq(Nat), k \in Nat : s # <<>> => g[<<s, k>>] = (s[1] % Radix) + Radix * k
    OBVIOUS
  <2> HIDE DEF g
  <2> QED BY <2>2, <2>3
<1>4. PICK f \in [Seq(Nat) -> Nat] : Obeys(f, Seq(Nat), {<<>>}, b, d, G)
  <2>1. {<<>>} \in SUBSET Seq(Nat)
    OBVIOUS
  <2>2. ASSUME NEW s \in Seq(Nat) \ {<<>>}
        PROVE  rank[d[s]] < rank[s]
    BY <1>1, HeadTailProperties, LenProperties
  <2> QED BY <2>1, <2>2, Recursion
<1>5. ASSUME NEW s \in Seq(Nat)
      PROVE  f[s] = IF s = <<>> THEN 0 ELSE (s[1] % Radix) + Radix * f[Tail(s)]
  <2>1. f[s] = IF s \in {<<>>} THEN b[s] ELSE G[<<s, f[d[s]]>>]
    BY <1>4 DEF Obeys
  <2>2. CASE s = <<>>
    BY <1>1, <2>1, <2>2
  <2>3. CASE s # <<>>
    <3>1. d[s] = Tail(s) /\ f[d[s]] \in Nat
      BY <1>1, <2>3
    <3> QED BY <1>3, <2>1, <2>3, <3>1
  <2> QED BY <2>2, <2>3
<1>6. f = [s \in Seq(Nat) |-> IF s = <<>> THEN 0 ELSE (s[1] % Radix) + Radix * f[Tail(s)]]
  BY <1>5
<1>7. Value = [s \in Seq(Nat) |-> IF s = <<>> THEN 0 ELSE (s[1] % Radix) + Radix * Value[Tail(s)]]
  BY <1>6 DEF Value
<1>8. \A s \in Seq(Nat) : Value[s] = IF s = <<>> THEN 0 ELSE (s[1] % Radix) + Radix * Value[Tail(s)]
  BY <1>7
<1>9. \A s \in Seq(Nat) : Value[s] \in Nat
  <2> DEFINE P == {k \in Nat : \A s \in Seq(Nat) : Len(s) = k => Value[s] \in Nat}
  <2>1. 0 \in P
    BY <1>8, EmptySeq
  <2>2. ASSUME NEW k \in P
        PROVE  k + 1 \in P
    <3> SUFFICES ASSUME NEW s \in Seq(Nat), Len(s) = k + 1 PROVE Value[s] \in Nat
      OBVIOUS
    <3>1. s # <<>> /\ Tail(s) \in Seq(Nat) /\ Len(Tail(s)) = k
      BY HeadTailProperties, EmptySeq
    <3>2. Value[Tail(s)] \in Nat
      BY <3>1
    <3>3. Value[s] = (s[1] % Radix) + Radix * Value[Tail(s)]
      BY <1>8, <3>1
    <3>4. PICK j \in Nat : j = s[1] % Radix
      BY <1>2, <3>1
    <3>5. PICK v \in Nat : v = Value[Tail(s)]
      BY <3>2
    <3>6. PICK w \in Nat : w = Radix * v
      <4>1. Radix \in Nat
        OBVIOUS
      <4> HIDE DEF P
      <4> QED BY <4>1
    <3>7. Value[s] = j + w
      BY <3>3, <3>4, <3>5, <3>6
    <3>8. j + w \in Nat
      OBVIOUS
    <3> QED BY <3>7, <3>8
  <2>3. P = Nat
    <3> HIDE DEF P
    <3>1. P \in SUBSET Nat
      BY DEF P
    <3> QED BY <2>1, <2>2, <3>1, Induct
  <2>4. ASSUME NEW s \in Seq(Nat)
        PROVE  Value[s] \in Nat
    <3>1. Len(s) \in P
      BY <2>3, LenProperties
    <3> QED BY <3>1
  <2> QED BY <2>4
<1> QED BY <1>8, <1>9

\* A sequence with one more element in front.
LEMMA OneMore ==
    ASSUME NEW E, NEW e \in E, NEW s \in Seq(E)
    PROVE  /\ <<e>> \o s \in Seq(E) /\ Len(<<e>> \o s) = Len(s) + 1 /\ Len(s) \in Nat
           /\ (<<e>> \o s)[1] = e /\ <<e>> \o s # <<>>
           /\ \A i \in 1 .. Len(s) : (<<e>> \o s)[i + 1] = s[i]
           /\ Tail(<<e>> \o s) = s
<1>1. <<e>> \in Seq(E) /\ Len(<<e>>) = 1 /\ <<e>>[1] = e
  BY Singleton
<1>2. Len(s) \in Nat
  BY LenProperties
<1>3. PICK t \in Seq(E) : /\ t = <<e>> \o s /\ Len(t) = 1 + Len(s)
                          /\ \A i \in 1 .. 1 + Len(s) : t[i] = IF i <= 1 THEN <<e>>[i] ELSE s[i - 1]
  <2>1. PICK a \in Seq(E) : a = <<e>> /\ Len(a) = 1
    BY <1>1
  <2>2. /\ a \o s \in Seq(E) /\ Len(a \o s) = Len(a) + Len(s)
        /\ \A i \in 1 .. Len(a) + Len(s) : (a \o s)[i] = IF i <= Len(a) THEN a[i] ELSE s[i - Len(a)]
    BY ConcatProperties
  <2> QED BY <2>1, <2>2
<1>4. t[1] = e
  <2>1. 1 \in 1 .. 1 + Len(s) /\ 1 <= 1
    BY <1>2
  <2>2. t[1] = <<e>>[1]
    BY <1>3, <2>1
  <2> QED BY <1>1, <2>2
<1>5. ASSUME NEW i \in 1 .. Len(s)
      PROVE  t[i + 1] = s[i]
  <2>1. i + 1 \in 1 .. 1 + Len(s) /\ ~(i + 1 <= 1) /\ (i + 1) - 1 = i
    BY <1>2
  <2> QED BY <1>3, <2>1
<1>6. t # <<>>
  BY <1>2, <1>3, EmptySeq
<1>7. Tail(t) \in Seq(E) /\ Len(Tail(t)) = Len(s) /\ \A i \in 1 .. Len(s) : Tail(t)[i] = s[i]
  <2>1. /\ Tail(t) \in Seq(E) /\ Len(Tail(t)) = Len(t) - 1
        /\ \A i \in 1 .. Len(Tail(t)) : Tail(t)[i] = t[i + 1]
    BY <1>6, HeadTailProperties
  <2>2. Len(t) - 1 = Len(s)
    BY <1>2, <1>3
  <2> QED BY <1>5, <2>1, <2>2
<1>8. Tail(t) = s
  BY <1>7, SeqEqual
<1> QED BY <1>2, <1>3, <1>4, <1>5, <1>6, <1>8

\* What encodeShortvec writes is read back as the number it was, for all numbers: the
\* reader stops at the last byte, and not before.
THEOREM LengthRead == \A k \in Nat : Reads(Shortvec(k), k)
<1> USE RadixAssumption
<1>1. Bytes \subseteq Nat /\ \A s \in Seq(Bytes) : s \in Seq(Nat)
  <2>1. Bytes \subseteq Nat
    BY DEF Bytes
  <2> QED BY <2>1, SeqMonotonic
<1> DEFINE P == {k \in Nat : Reads(Digits[k], k)}
<1>2. ASSUME NEW k \in Nat, \A j \in Nat : j < k => j \in P
      PROVE  Reads(Digits[k], k)
  <2>1. CASE k < Radix
    <3>1. Digits[k] = <<k>>
      BY <2>1, DigitsDef
    <3>2. <<k>> \in Seq(Nat) /\ Len(<<k>>) = 1 /\ <<k>>[1] = k /\ <<k>> # <<>> /\ Tail(<<k>>) = <<>>
      OBVIOUS
    <3>3. Value[<<>>] = 0
      <4>1. <<>> \in Seq(Nat)
        OBVIOUS
      <4> HIDE DEF P
      <4> QED BY <4>1, ValueDef
    <3>4. Value[<<k>>] = (<<k>>[1] % Radix) + Radix * Value[Tail(<<k>>)]
      BY <3>2, ValueDef
    <3>5. k % Radix = k /\ Radix * 0 = 0
      BY <2>1
    <3>6. Value[<<k>>] = k
      BY <3>2, <3>3, <3>4, <3>5
    <3>7. \A i \in DOMAIN <<k>> : <<k>>[i] < Radix <=> i = Len(<<k>>)
      BY <2>1, <3>2
    <3> QED BY <3>1, <3>2, <3>6, <3>7 DEF Reads
  <2>2. CASE ~(k < Radix)
    <3>1. PICK u \in Nat, r \in 0 .. Radix - 1 :
              u = k \div Radix /\ r = k % Radix /\ k = r + Radix * u
      OBVIOUS
    <3>2. u < k
      <4>1. u = 0 \/ u < Radix * u
        OBVIOUS
      <4> QED BY <2>2, <3>1, <4>1
    <3>3. PICK s \in Seq(Bytes) : s = Digits[u]
      BY DigitsDef
    <3>4. Len(s) > 0 /\ (\A i \in DOMAIN s : s[i] < Radix <=> i = Len(s)) /\ u = Value[s]
      BY <1>2, <3>2, <3>3 DEF Reads
    <3>5. PICK h \in Bytes : h = Radix + r /\ ~(h < Radix)
      <4>1. PICK h \in Nat : h = Radix + r /\ ~(h < Radix) /\ h <= 2 * Radix - 1
        OBVIOUS
      <4> QED BY <4>1 DEF Bytes
    <3>6. PICK t \in Seq(Bytes) :
              /\ t = <<h>> \o s /\ Len(t) = Len(s) + 1 /\ Len(s) \in Nat
              /\ t[1] = h /\ t # <<>> /\ Tail(t) = s
              /\ \A i \in 1 .. Len(s) : t[i + 1] = s[i]
      <4>1. /\ <<h>> \o s \in Seq(Bytes) /\ Len(<<h>> \o s) = Len(s) + 1 /\ Len(s) \in Nat
            /\ (<<h>> \o s)[1] = h /\ <<h>> \o s # <<>> /\ Tail(<<h>> \o s) = s
            /\ \A i \in 1 .. Len(s) : (<<h>> \o s)[i + 1] = s[i]
        BY OneMore
      <4> QED BY <4>1
    <3>7. Digits[k] = t
      BY <2>2, <3>1, <3>3, <3>5, <3>6, DigitsDef
    <3>8. ASSUME NEW i \in 1 .. Len(t)
          PROVE  t[i] < Radix <=> i = Len(t)
      <4>1. CASE i = 1
        <5>1. Len(t) # 1
          BY <3>4, <3>6
        <5> QED BY <3>5, <3>6, <4>1, <5>1
      <4>2. CASE i # 1
        <5>1. PICK j \in 1 .. Len(s) : i = j + 1
          <6>1. i - 1 \in 1 .. Len(s) /\ i = (i - 1) + 1
            BY <3>6, <4>2
          <6> QED BY <6>1
        <5>2. t[i] = s[j]
          BY <3>6, <5>1
        <5>4. i = Len(t) <=> j = Len(s)
          <6>1. PICK l \in Nat : l = Len(s) /\ Len(t) = l + 1
            BY <3>6
          <6> QED BY <5>1, <6>1
        <5>3. j \in DOMAIN s
          BY <5>1, LenProperties
        <5> QED BY <3>4, <5>2, <5>3, <5>4
      <4> QED BY <4>1, <4>2
    <3>9. h % Radix = r
      <4>1. PICK w \in Nat : w = Radix
        OBVIOUS
      <4>2. (w + r) % w = r
        BY <4>1
      <4> QED BY <3>5, <4>1, <4>2
    <3>10. Value[t] = (t[1] % Radix) + Radix * Value[Tail(t)]
      BY <1>1, <3>6, ValueDef
    <3>11. Value[t] = k
      BY <3>1, <3>4, <3>6, <3>9, <3>10
    <3>12. DOMAIN t = 1 .. Len(t) /\ Len(t) > 0
      BY <3>6, LenProperties
    <3> QED BY <3>7, <3>8, <3>11, <3>12 DEF Reads
  <2> QED BY <2>1, <2>2
<1>3. P = Nat
  <2>1. ASSUME NEW k \in Nat, \A j \in Nat : j < k => j \in P
        PROVE  k \in P
    BY <1>2, <2>1
  <2> HIDE DEF P
  <2>2. P \in SUBSET Nat
    BY DEF P
  <2> QED BY <2>1, <2>2, CourseOfValues
<1> QED BY <1>3 DEF Shortvec

-----------------------------------------------------------------------------
(* What a message is made of: bytes and keys.                              *)

Text == Seq(Bytes \cup Pubkeys)

\* The provers see texts and how they are joined as opaque from here on.
Joined(s, t) == s \o t

\* Bytes are texts, and so are keys.
LEMMA TextSeqs ==
    /\ \A s \in Seq(Bytes) : s \in Text
    /\ \A s \in Seq(Pubkeys) : s \in Text
    /\ \A s \in Text : Len(s) \in Nat
    /\ \A s \in Text : s = Joined(s, <<>>)
    /\ <<>> \in Text
<1>1. Bytes \subseteq Bytes \cup Pubkeys /\ Pubkeys \subseteq Bytes \cup Pubkeys
  OBVIOUS
<1>2. \A s \in Seq(Bytes) : s \in Seq(Bytes \cup Pubkeys)
  BY <1>1, SeqMonotonic
<1>3. \A s \in Seq(Pubkeys) : s \in Seq(Bytes \cup Pubkeys)
  BY <1>1, SeqMonotonic
<1>4. \A s \in Text : Len(s) \in Nat
  BY LenProperties DEF Text
<1>5. \A s \in Text : s = Joined(s, <<>>)
  BY ConcatEmptySeq DEF Text, Joined
<1>6. <<>> \in Text
  BY DEF Text
<1> QED BY <1>2, <1>3, <1>4, <1>5, <1>6 DEF Text

\* Texts join to texts,
LEMMA JoinedText ==
    ASSUME NEW s \in Text, NEW t \in Text PROVE Joined(s, t) \in Text
BY ConcatProperties DEF Text, Joined

\* in any grouping.
LEMMA Regroup ==
    ASSUME NEW s \in Text, NEW t \in Text, NEW u \in Text
    PROVE  Joined(Joined(s, t), u) = Joined(s, Joined(t, u))
BY ConcatAssociative DEF Text, Joined

\* Equal texts with beginnings of equal length have these and the rest equal.
LEMMA PeelText ==
    ASSUME NEW a \in Text, NEW b \in Text, NEW x \in Text, NEW y \in Text,
           Len(a) = Len(b), Joined(a, x) = Joined(b, y)
    PROVE  a = b /\ x = y
BY Peel DEF Text, Joined

\* Of two lengths at the beginning of the same bytes, none is longer.
LEMMA NoneLonger ==
    ASSUME NEW a \in Text, NEW b \in Text, NEW x \in Text, NEW y \in Text,
           NEW k, NEW l, Reads(a, k), Reads(b, l), Joined(a, x) = Joined(b, y)
    PROVE  Len(b) <= Len(a)
<1> DEFINE E == Bytes \cup Pubkeys
<1>0. a \in Seq(E) /\ b \in Seq(E) /\ x \in Seq(E) /\ y \in Seq(E) /\ a \o x = b \o y
  BY DEF Text, Joined
<1> HIDE DEF E
<1>1. PICK la \in Nat, lb \in Nat, lx \in Nat, ly \in Nat :
          la = Len(a) /\ lb = Len(b) /\ lx = Len(x) /\ ly = Len(y)
  BY TextSeqs
<1>2. la > 0 /\ DOMAIN a = 1 .. la /\ DOMAIN b = 1 .. lb
  BY <1>0, <1>1, LenProperties DEF Reads
<1>3. SUFFICES ASSUME la < lb PROVE FALSE
  BY <1>1
<1>4. la \in 1 .. la + lx /\ la \in 1 .. lb + ly /\ la <= lb /\ la <= la /\ la # lb
  BY <1>2, <1>3
<1>5. (a \o x)[la] = a[la]
  <2>1. \A i \in 1 .. la + lx : (a \o x)[i] = IF i <= la THEN a[i] ELSE x[i - la]
    BY <1>0, <1>1, ConcatProperties
  <2> QED BY <1>4, <2>1
<1>6. (b \o y)[la] = b[la]
  <2>1. \A i \in 1 .. lb + ly : (b \o y)[i] = IF i <= lb THEN b[i] ELSE y[i - lb]
    BY <1>0, <1>1, ConcatProperties
  <2> QED BY <1>4, <2>1
<1>7. la \in 1 .. la /\ la \in 1 .. lb
  BY <1>2, <1>3
<1>8. a[la] < Radix
  BY <1>1, <1>2, <1>7 DEF Reads
<1>9. ~(b[la] < Radix)
  BY <1>1, <1>2, <1>4, <1>7 DEF Reads
<1> QED BY <1>0, <1>5, <1>6, <1>8, <1>9

\* Lengths are texts.
LEMMA ShortvecText == \A k \in Nat : Shortvec(k) \in Text
BY DigitsDef, TextSeqs DEF Shortvec

\* So a reader sees from the bytes alone where a length ends, and two lengths
\* at the beginning of the same bytes are the same.
LEMMA LengthEnds ==
    ASSUME NEW k \in Nat, NEW l \in Nat, NEW x \in Text, NEW y \in Text,
           Joined(Shortvec(k), x) = Joined(Shortvec(l), y)
    PROVE  k = l /\ x = y
<1>1. PICK a \in Text, b \in Text : a = Shortvec(k) /\ b = Shortvec(l)
  BY ShortvecText
<1>2. Reads(a, k) /\ Reads(b, l) /\ Joined(a, x) = Joined(b, y)
  BY <1>1, LengthRead
<1>3. Len(b) <= Len(a)
  BY <1>2, NoneLonger
<1>4. Len(a) <= Len(b)
  <2>1. Joined(b, y) = Joined(a, x)
    BY <1>2
  <2> QED BY <1>2, <2>1, NoneLonger
<1>5. Len(a) = Len(b)
  <2>1. Len(a) \in Nat /\ Len(b) \in Nat
    BY TextSeqs
  <2> QED BY <1>3, <1>4, <2>1
<1>6. a = b /\ x = y
  BY <1>2, <1>5, PeelText
<1>7. k = l
  BY <1>2, <1>6 DEF Reads
<1> QED BY <1>6, <1>7

\* A sequence after its length.
Field(s) == Joined(Shortvec(Len(s)), s)

\* A text after its length is a text.
LEMMA FieldText ==
    ASSUME NEW s \in Text
    PROVE  Field(s) \in Text
BY ShortvecText, TextSeqs, JoinedText DEF Field

\* Where such a field ends can be seen from the text alone.
LEMMA FieldEnds ==
    ASSUME NEW a \in Text, NEW b \in Text, NEW x \in Text, NEW y \in Text,
           Joined(Field(a), x) = Joined(Field(b), y)
    PROVE  a = b /\ x = y
<1>1. PICK k \in Nat, l \in Nat : k = Len(a) /\ l = Len(b)
  BY TextSeqs
<1>2. PICK s \in Text, t \in Text : s = Joined(a, x) /\ t = Joined(b, y)
  BY JoinedText
<1>3. PICK f \in Text, g \in Text : f = Shortvec(k) /\ g = Shortvec(l)
  BY ShortvecText
<1>4. Joined(Joined(f, a), x) = Joined(f, s) /\ Joined(Joined(g, b), y) = Joined(g, t)
  BY <1>2, Regroup
<1>5. Joined(Shortvec(k), s) = Joined(Shortvec(l), t)
  BY <1>1, <1>3, <1>4 DEF Field
<1>6. k = l /\ s = t
  BY <1>5, LengthEnds
<1> QED BY <1>1, <1>2, <1>6, PeelText

-----------------------------------------------------------------------------
(* Instructions.                                                           *)

Instr == [prog : Bytes, accounts : Seq(Bytes), data : Seq(Bytes)]

\* Buffer.from keeps a number that fits a byte.
LEMMA ByteIsItself == \A x \in Bytes : Byte(x) = x
<1>1. ASSUME NEW x \in Bytes PROVE Byte(x) = x
  <2>1. PICK w \in Nat : w = 2 * Radix /\ x \in Nat /\ x < w
    <3>1. PICK h \in Nat : h = Radix
      BY RadixAssumption
    <3>2. x \in 0 .. (2 * h - 1)
      BY <3>1 DEF Bytes
    <3>3. 2 * h \in Nat /\ x \in Nat /\ x < 2 * h
      BY <3>2
    <3> QED BY <3>1, <3>3
  <2>2. x % w = x
    BY <2>1
  <2> QED BY <2>1, <2>2 DEF Byte
<1> QED BY <1>1

\* What is written for an instruction, in the order it is written in.
LEMMA InstructionIs ==
    ASSUME NEW ix \in Instr
    PROVE  /\ <<ix.prog>> \in Text /\ Len(<<ix.prog>>) = 1
           /\ ix.accounts \in Text /\ ix.data \in Text
           /\ Instruction(ix) = Joined(Joined(Joined(Joined(<<ix.prog>>,
                  Shortvec(Len(ix.accounts))), ix.accounts), Shortvec(Len(ix.data))), ix.data)
<1>1. ix.prog \in Bytes /\ ix.accounts \in Seq(Bytes) /\ ix.data \in Seq(Bytes)
  BY DEF Instr
<1>2. <<ix.prog>> \in Seq(Bytes) /\ Len(<<ix.prog>>) = 1
  BY <1>1, Singleton
<1>3. Byte(ix.prog) = ix.prog
  BY <1>1, ByteIsItself
<1>4. PICK a \in Seq(Bytes) : a = ix.accounts
  BY <1>1
<1>5. [i \in DOMAIN a |-> Byte(a[i])] = a
  <2>1. ASSUME NEW i \in DOMAIN a
        PROVE  a[i] \in Bytes /\ Byte(a[i]) = a[i]
    <3>1. a[i] \in Bytes
      BY ElementOfSeq, LenProperties
    <3> QED BY <3>1, ByteIsItself
  <2>2. a = [i \in DOMAIN a |-> a[i]]
    OBVIOUS
  <2> QED BY <2>1, <2>2
<1>6. Instruction(ix) = Joined(Joined(Joined(Joined(<<ix.prog>>,
          Shortvec(Len(ix.accounts))), ix.accounts), Shortvec(Len(ix.data))), ix.data)
  BY <1>3, <1>4, <1>5 DEF Instruction, Joined
<1> QED BY <1>1, <1>2, <1>6, TextSeqs

\* And with what follows it.
LEMMA InstructionParts ==
    ASSUME NEW ix \in Instr
    PROVE  /\ Instruction(ix) \in Text
           /\ \A x \in Text : Joined(Instruction(ix), x) =
                  Joined(<<ix.prog>>, Joined(Field(ix.accounts), Joined(Field(ix.data), x)))
<1>1. PICK p \in Text, a \in Text, d \in Text : p = <<ix.prog>> /\ a = ix.accounts /\ d = ix.data
  BY InstructionIs
<1>2. PICK la \in Text, ld \in Text : la = Shortvec(Len(a)) /\ ld = Shortvec(Len(d))
  BY ShortvecText, TextSeqs
<1>3. PICK fa \in Text, fd \in Text : fa = Joined(la, a) /\ fd = Joined(ld, d)
  BY JoinedText
<1>4. PICK pf \in Text : pf = Joined(p, fa)
  BY JoinedText
<1>5. Joined(Joined(p, la), a) = pf
  BY <1>3, <1>4, Regroup
<1>6. Joined(Joined(pf, ld), d) = Joined(pf, fd)
  BY <1>3, Regroup
<1>7. PICK w \in Text : w = Joined(pf, fd)
  BY JoinedText
<1>8. Instruction(ix) = w
  BY <1>1, <1>2, <1>5, <1>6, <1>7, InstructionIs
<1>9. ASSUME NEW x \in Text
      PROVE  Joined(w, x) = Joined(p, Joined(fa, Joined(fd, x)))
  <2>1. PICK u \in Text : u = Joined(fd, x)
    BY JoinedText
  <2>2. Joined(w, x) = Joined(pf, u)
    BY <1>7, <2>1, Regroup
  <2>3. Joined(pf, u) = Joined(p, Joined(fa, u))
    BY <1>4, Regroup
  <2> QED BY <2>1, <2>2, <2>3
<1>10. fa = Field(a) /\ fd = Field(d)
  BY <1>2, <1>3 DEF Field
<1> QED BY <1>1, <1>8, <1>9, <1>10

\* No instruction's bytes are the beginning of another's.
LEMMA InstructionEnds ==
    ASSUME NEW ix \in Instr, NEW jx \in Instr, NEW x \in Text, NEW y \in Text,
           Joined(Instruction(ix), x) = Joined(Instruction(jx), y)
    PROVE  ix = jx /\ x = y
<1>1. PICK p \in Text, a \in Text, d \in Text :
          /\ p = <<ix.prog>> /\ a = ix.accounts /\ d = ix.data /\ Len(p) = 1
          /\ Joined(Instruction(ix), x) = Joined(p, Joined(Field(a), Joined(Field(d), x)))
  <2>1. /\ <<ix.prog>> \in Text /\ Len(<<ix.prog>>) = 1
        /\ ix.accounts \in Text /\ ix.data \in Text
    BY InstructionIs
  <2>2. Joined(Instruction(ix), x) =
            Joined(<<ix.prog>>, Joined(Field(ix.accounts), Joined(Field(ix.data), x)))
    BY InstructionParts
  <2> QED BY <2>1, <2>2
<1>2. PICK o \in Text, b \in Text, e \in Text :
          /\ o = <<jx.prog>> /\ b = jx.accounts /\ e = jx.data /\ Len(o) = 1
          /\ Joined(Instruction(jx), y) = Joined(o, Joined(Field(b), Joined(Field(e), y)))
  <2>1. /\ <<jx.prog>> \in Text /\ Len(<<jx.prog>>) = 1
        /\ jx.accounts \in Text /\ jx.data \in Text
    BY InstructionIs
  <2>2. Joined(Instruction(jx), y) =
            Joined(<<jx.prog>>, Joined(Field(jx.accounts), Joined(Field(jx.data), y)))
    BY InstructionParts
  <2> QED BY <2>1, <2>2
<1>3. PICK u \in Text, v \in Text : u = Joined(Field(d), x) /\ v = Joined(Field(e), y)
  BY FieldText, JoinedText
<1>4. PICK s \in Text, t \in Text : s = Joined(Field(a), u) /\ t = Joined(Field(b), v)
  BY FieldText, JoinedText
<1>5. Joined(p, s) = Joined(o, t) /\ Len(p) = Len(o)
  BY <1>1, <1>2, <1>3, <1>4
<1>6. p = o /\ s = t
  BY <1>5, PeelText
<1>7. a = b /\ u = v
  <2>1. Joined(Field(a), u) = Joined(Field(b), v)
    BY <1>4, <1>6
  <2> QED BY <2>1, FieldEnds
<1>8. d = e /\ x = y
  <2>1. Joined(Field(d), x) = Joined(Field(e), y)
    BY <1>3, <1>7
  <2> QED BY <2>1, FieldEnds
<1>9. ix.prog = jx.prog
  <2>1. <<ix.prog>> = <<jx.prog>>
    BY <1>1, <1>2, <1>6
  <2> QED BY <2>1
<1>10. ix.accounts = jx.accounts /\ ix.data = jx.data
  BY <1>1, <1>2, <1>7, <1>8
<1>11. ix = [prog |-> ix.prog, accounts |-> ix.accounts, data |-> ix.data]
       /\ jx = [prog |-> jx.prog, accounts |-> jx.accounts, data |-> jx.data]
  BY DEF Instr
<1> QED BY <1>8, <1>9, <1>10, <1>11

-----------------------------------------------------------------------------
(* Messages.                                                               *)

\* FlattenSeq joins one text after another.
LEMMA Flattened ==
    ASSUME NEW L \in Nat \ {0}, NEW w \in [1 .. L -> Text], Len(w) = L
    PROVE  \E f \in [1 .. L -> Text] :
              /\ f[1] = w[1]
              /\ \A i \in 1 .. L : i # 1 => f[i] = Joined(f[i - 1], w[i])
              /\ FlattenSeq(w) = f[L]
<1> DEFINE T == 1 .. L
<1>1. PICK d \in [T -> T], rank \in [T -> Nat] :
          \A i \in T : rank[i] = i /\ (i # 1 => d[i] = i - 1)
  <2>1. [i \in T |-> IF i = 1 THEN 1 ELSE i - 1] \in [T -> T] /\ [i \in T |-> i] \in [T -> Nat]
    OBVIOUS
  <2> QED BY <2>1
<1>2. PICK G \in [T \X Text -> Text] : \A i \in T, s \in Text : G[<<i, s>>] = Joined(s, w[i])
  <2> DEFINE g == [a \in T \X Text |-> Joined(a[2], w[a[1]])]
  <2>1. ASSUME NEW a \in T \X Text
        PROVE  Joined(a[2], w[a[1]]) \in Text
    <3>1. a[2] \in Text /\ w[a[1]] \in Text
      OBVIOUS
    <3> QED BY <3>1, JoinedText
  <2>2. g \in [T \X Text -> Text]
    BY <2>1
  <2>3. \A i \in T, s \in Text : g[<<i, s>>] = Joined(s, w[i])
    OBVIOUS
  <2> HIDE DEF g
  <2> QED BY <2>2, <2>3
<1>3. PICK f \in [T -> Text] : Obeys(f, T, {1}, w, d, G)
  <2>1. {1} \in SUBSET T
    OBVIOUS
  <2>2. \A i \in T \ {1} : rank[d[i]] < rank[i]
    BY <1>1
  <2>3. w \in [T -> Text]
    OBVIOUS
  <2> HIDE DEF T
  <2> QED BY <2>1, <2>2, <2>3, Recursion
<1>4. ASSUME NEW i \in T
      PROVE  f[i] = IF i = 1 THEN w[i] ELSE Joined(f[i - 1], w[i])
  <2>1. f[i] = IF i \in {1} THEN w[i] ELSE G[<<i, f[d[i]]>>]
    BY <1>3 DEF Obeys
  <2>2. CASE i = 1
    <3>1. f[i] = w[i]
      BY <2>1, <2>2
    <3> QED BY <2>2, <3>1
  <2>3. CASE i # 1
    <3>1. PICK j \in T : j = i - 1 /\ d[i] = j
      BY <1>1, <2>3
    <3>2. f[j] \in Text
      OBVIOUS
    <3>3. G[<<i, f[j]>>] = Joined(f[j], w[i])
      BY <1>2, <3>2
    <3>4. f[i] = Joined(f[j], w[i])
      BY <2>1, <2>3, <3>1, <3>3
    <3> QED BY <2>3, <3>1, <3>4
  <2> QED BY <2>2, <2>3
<1>5. f = [i \in 1 .. Len(w) |-> IF i = 1 THEN w[i] ELSE f[i - 1] \o w[i]]
  <2>1. f = [i \in T |-> IF i = 1 THEN w[i] ELSE Joined(f[i - 1], w[i])]
    BY <1>4
  <2> QED BY <2>1 DEF Joined
<1>6. PICK g : /\ g = [i \in 1 .. Len(w) |-> IF i = 1 THEN w[i] ELSE g[i - 1] \o w[i]]
               /\ FlattenSeq(w) = g[Len(w)]
  BY <1>5 DEF FlattenSeq
<1>7. g = [i \in T |-> IF i = 1 THEN w[i] ELSE Joined(g[i - 1], w[i])]
  BY <1>6 DEF Joined
<1>8. \A i \in T : g[i] = IF i = 1 THEN w[i] ELSE Joined(g[i - 1], w[i])
  BY <1>7
<1>9. \A i \in T : g[i] \in Text
  <2> DEFINE P == {k \in Nat : k \in T => g[k] \in Text}
  <2>1. ASSUME NEW k \in Nat, \A j \in Nat : j < k => j \in P
        PROVE  k \in P
    <3> SUFFICES ASSUME k \in T PROVE g[k] \in Text
      OBVIOUS
    <3>1. CASE k = 1
      BY <1>8, <3>1
    <3>2. CASE k # 1
      <4>1. k - 1 \in T /\ k - 1 \in Nat /\ k - 1 < k
        BY <3>2
      <4>2. g[k - 1] \in Text
        BY <2>1, <4>1
      <4>3. g[k] = Joined(g[k - 1], w[k]) /\ w[k] \in Text
        BY <1>8, <3>2
      <4> QED BY <4>2, <4>3, JoinedText
    <3> QED BY <3>1, <3>2
  <2>2. P = Nat
    <3> HIDE DEF P
    <3>1. P \in SUBSET Nat
      BY DEF P
    <3> QED BY <2>1, <3>1, CourseOfValues
  <2>3. ASSUME NEW i \in T
        PROVE  g[i] \in Text
    <3>1. i \in Nat
      OBVIOUS
    <3>2. i \in P
      <4> HIDE DEF P
      <4> QED BY <2>2, <3>1
    <3> QED BY <3>2
  <2> QED BY <2>3
<1>10. g \in [T -> Text]
  BY <1>7, <1>9
<1>11. 1 \in T /\ Len(w) = L
  OBVIOUS
<1>12. /\ g[1] = w[1] /\ FlattenSeq(w) = g[L]
       /\ \A i \in 1 .. L : i # 1 => g[i] = Joined(g[i - 1], w[i])
  BY <1>6, <1>8, <1>11
<1> QED BY <1>10, <1>12

\* f[i] is the text of the first i of the L instructions s.
Joins(f, s, L) ==
    /\ f[1] = Instruction(s[1])
    /\ \A i \in 1 .. L : i # 1 => f[i] = Joined(f[i - 1], Instruction(s[i]))

\* Texts made of as many instructions are equal only for the same instructions.
LEMMA InstructionsEnd ==
    ASSUME NEW L \in Nat \ {0}, NEW s \in [1 .. L -> Instr], NEW t \in [1 .. L -> Instr],
           NEW f \in [1 .. L -> Text], NEW g \in [1 .. L -> Text],
           Joins(f, s, L), Joins(g, t, L), f[L] = g[L]
    PROVE  s = t
<1>0. /\ f[1] = Instruction(s[1]) /\ g[1] = Instruction(t[1])
      /\ \A i \in 1 .. L : i # 1 => /\ f[i] = Joined(f[i - 1], Instruction(s[i]))
                                    /\ g[i] = Joined(g[i - 1], Instruction(t[i]))
  BY DEF Joins
<1> DEFINE Same(k) == \A i \in 1 .. k : s[i] = t[i]
           P == {k \in Nat : k + 1 <= L =>
                    \A x, y \in Text : Joined(f[k + 1], x) = Joined(g[k + 1], y) =>
                        Same(k + 1) /\ x = y}
<1>1. 0 \in P
  <2> SUFFICES ASSUME NEW x \in Text, NEW y \in Text, Joined(f[1], x) = Joined(g[1], y)
               PROVE  Same(1) /\ x = y
    OBVIOUS
  <2>1. PICK ix \in Instr, jx \in Instr : ix = s[1] /\ jx = t[1]
    OBVIOUS
  <2>2. Joined(Instruction(ix), x) = Joined(Instruction(jx), y)
    BY <1>0, <2>1
  <2>3. ix = jx /\ x = y
    BY <2>2, InstructionEnds
  <2>4. ASSUME NEW i \in 1 .. 1
        PROVE  s[i] = t[i]
    <3>1. i = 1
      OBVIOUS
    <3> QED BY <2>1, <2>3, <3>1
  <2> QED BY <2>3, <2>4
<1>2. ASSUME NEW k \in P PROVE k + 1 \in P
  <2> SUFFICES ASSUME (k + 1) + 1 <= L, NEW x \in Text, NEW y \in Text,
                      Joined(f[(k + 1) + 1], x) = Joined(g[(k + 1) + 1], y)
               PROVE  Same((k + 1) + 1) /\ x = y
    OBVIOUS
  <2>1. PICK m \in 1 .. L : m = (k + 1) + 1 /\ m # 1 /\ m - 1 = k + 1 /\ k + 1 <= L /\ k + 1 \in 1 .. L
    OBVIOUS
  <2>2. PICK ix \in Instr, jx \in Instr : ix = s[m] /\ jx = t[m]
    OBVIOUS
  <2>3. PICK a \in Text, b \in Text : a = f[k + 1] /\ b = g[k + 1]
    BY <2>1
  <2>4. PICK u \in Text, v \in Text : u = Instruction(ix) /\ v = Instruction(jx)
    BY InstructionParts
  <2>5. PICK ux \in Text, vy \in Text : ux = Joined(u, x) /\ vy = Joined(v, y)
    BY JoinedText
  <2>6. f[m] = Joined(a, u) /\ g[m] = Joined(b, v)
    BY <1>0, <2>1, <2>2, <2>3, <2>4
  <2>7. Joined(Joined(a, u), x) = Joined(a, ux) /\ Joined(Joined(b, v), y) = Joined(b, vy)
    BY <2>5, Regroup
  <2>8. Joined(a, ux) = Joined(b, vy)
    BY <2>1, <2>6, <2>7
  <2>9. Same(k + 1) /\ ux = vy
    BY <2>1, <2>3, <2>8
  <2>10. Joined(Instruction(ix), x) = Joined(Instruction(jx), y)
    BY <2>4, <2>5, <2>9
  <2>11. ix = jx /\ x = y
    BY <2>10, InstructionEnds
  <2>12. ASSUME NEW i \in 1 .. (k + 1) + 1
         PROVE  s[i] = t[i]
    <3>1. i \in 1 .. k + 1 \/ i = m
      BY <2>1
    <3> QED BY <2>2, <2>9, <2>11, <3>1
  <2> QED BY <2>11, <2>12
<1>3. P = Nat
  <2> HIDE DEF P
  <2>1. P \in SUBSET Nat
    BY DEF P
  <2> QED BY <1>1, <1>2, <2>1, Induct
<1>4. PICK k \in Nat : k + 1 = L
  <2>1. L - 1 \in Nat /\ (L - 1) + 1 = L
    OBVIOUS
  <2> QED BY <2>1
<1>5. Joined(f[L], <<>>) = Joined(g[L], <<>>) /\ <<>> \in Text
  BY TextSeqs
<1>6. Same(L)
  <2>1. k \in P
    BY <1>3
  <2>2. \A x, y \in Text : Joined(f[L], x) = Joined(g[L], y) => Same(L) /\ x = y
    <3>1. k + 1 <= L
      BY <1>4
    <3>2. \A x, y \in Text : Joined(f[k + 1], x) = Joined(g[k + 1], y) => Same(k + 1) /\ x = y
      BY <2>1, <3>1
    <3> HIDE DEF Same
    <3> QED BY <1>4, <3>2
  <2> HIDE DEF Same, P
  <2> QED BY <1>5, <2>2
<1> QED BY <1>6

\* A function on 1..d is a sequence of length d.
LEMMA OfLength ==
    ASSUME NEW S, NEW d \in Nat, NEW g \in [1 .. d -> S]
    PROVE  g \in Seq(S) /\ Len(g) = d
<1>1. Len(g) = d
  OBVIOUS
<1>2. g \in Seq(S)
  OBVIOUS
<1> QED BY <1>1, <1>2

\* The instructions of a message, as they are written.
Body(m) == FlattenSeq([i \in DOMAIN m.instrs |-> Instruction(m.instrs[i])])

\* A message, part by part.
LEMMA MessageParts ==
    ASSUME NEW m \in Message
    PROVE  /\ m.header \in Text /\ Len(m.header) = 3 /\ m.keys \in Text
           /\ <<m.blockhash>> \in Text /\ Len(<<m.blockhash>>) = 1
           /\ Len(m.instrs) \in Nat /\ Body(m) \in Text
           /\ Serialize(m) = Joined(m.header, Joined(Field(m.keys), Joined(<<m.blockhash>>,
                                 Joined(Shortvec(Len(m.instrs)), Body(m)))))
<1>1. /\ m.header \in [1 .. 3 -> Bytes] /\ m.keys \in Seq(Pubkeys) /\ m.blockhash \in Pubkeys
      /\ m.instrs \in Seq(Instr)
  BY DEF Message, Instr
<1>2. PICK h \in Text : h = m.header /\ Len(h) = 3
  <2>1. PICK g \in [1 .. 3 -> Bytes] : g = m.header
    BY <1>1
  <2>2. g \in Seq(Bytes) /\ Len(g) = 3
    BY OfLength
  <2> QED BY <2>1, <2>2, TextSeqs
<1>3. [i \in 1 .. 3 |-> Byte(m.header[i])] = h
  <2>1. PICK g \in [1 .. 3 -> Bytes] : g = m.header
    BY <1>1
  <2>2. \A i \in 1 .. 3 : Byte(g[i]) = g[i]
    BY ByteIsItself
  <2>3. g = [i \in 1 .. 3 |-> g[i]]
    OBVIOUS
  <2> QED BY <1>2, <2>1, <2>2, <2>3
<1>4. PICK a \in Text : a = m.keys
  BY <1>1, TextSeqs
<1>5. PICK b \in Text : b = <<m.blockhash>> /\ Len(b) = 1
  <2>1. <<m.blockhash>> \in Seq(Pubkeys) /\ Len(<<m.blockhash>>) = 1
    BY <1>1, Singleton
  <2> QED BY <2>1, TextSeqs
<1>6. PICK L \in Nat, s \in Seq(Instr) : s = m.instrs /\ L = Len(s) /\ DOMAIN s = 1 .. L
  BY <1>1, LenProperties
<1>7. PICK w : w = [i \in 1 .. L |-> Instruction(s[i])]
  OBVIOUS
<1>8. w \in [1 .. L -> Text] /\ Len(w) = L
  <2>1. ASSUME NEW i \in 1 .. L
        PROVE  Instruction(s[i]) \in Text
    <3>1. s[i] \in Instr
      BY <1>6, ElementOfSeq
    <3> QED BY <3>1, InstructionParts
  <2>2. w \in [1 .. L -> Text]
    BY <1>7, <2>1
  <2> QED BY <2>2
<1>9. PICK f \in Text : f = FlattenSeq(w)
  <2>1. CASE L = 0
    <3>1. FlattenSeq(w) = w /\ w = <<>>
      BY <1>8, <2>1 DEF FlattenSeq
    <3> QED BY <3>1, TextSeqs
  <2>2. CASE L # 0
    <3>1. L \in Nat \ {0} /\ L \in 1 .. L
      BY <2>2
    <3>2. PICK g \in [1 .. L -> Text] : FlattenSeq(w) = g[L]
      BY <1>8, <3>1, Flattened
    <3> QED BY <3>1, <3>2
  <2> QED BY <2>1, <2>2
<1>10. PICK k \in Text, l \in Text : k = Shortvec(Len(a)) /\ l = Shortvec(L)
  BY ShortvecText, TextSeqs
<1>11. Serialize(m) = Joined(Joined(Joined(Joined(Joined(h, k), a), b), l), f)
  BY <1>3, <1>4, <1>5, <1>6, <1>7, <1>9, <1>10 DEF Serialize, Joined
<1>12. PICK u \in Text, fa \in Text : u = Joined(l, f) /\ fa = Joined(k, a) /\ fa = Field(a)
  <2>1. Joined(l, f) \in Text /\ Joined(k, a) \in Text
    BY JoinedText
  <2>2. Joined(k, a) = Field(a)
    BY <1>10 DEF Field
  <2> QED BY <2>1, <2>2
<1>13. PICK v \in Text, hk \in Text : v = Joined(b, u) /\ hk = Joined(h, fa)
  BY JoinedText
<1>14. Joined(Joined(h, k), a) = hk
  <2>1. Joined(Joined(h, k), a) = Joined(h, Joined(k, a))
    BY Regroup
  <2> QED BY <1>12, <1>13, <2>1
<1>15. PICK hb \in Text : hb = Joined(hk, b)
  BY JoinedText
<1>16. Joined(Joined(hb, l), f) = Joined(hb, u)
  BY <1>12, Regroup
<1>17. Joined(hb, u) = Joined(hk, v)
  BY <1>13, <1>15, Regroup
<1>18. Joined(hk, v) = Joined(h, Joined(fa, v))
  BY <1>13, Regroup
<1>19. Serialize(m) = Joined(h, Joined(Field(a), Joined(b, Joined(Shortvec(L), f))))
  BY <1>10, <1>11, <1>12, <1>13, <1>14, <1>15, <1>16, <1>17, <1>18
<1>20. f = Body(m)
  BY <1>6, <1>7, <1>9 DEF Body
<1>21. Serialize(m) = Joined(m.header, Joined(Field(m.keys), Joined(<<m.blockhash>>,
                          Joined(Shortvec(Len(m.instrs)), Body(m)))))
  BY <1>2, <1>4, <1>5, <1>6, <1>19, <1>20
<1>22. /\ m.header \in Text /\ Len(m.header) = 3 /\ m.keys \in Text
       /\ <<m.blockhash>> \in Text /\ Len(<<m.blockhash>>) = 1
  BY <1>2, <1>4, <1>5
<1>23. Len(m.instrs) \in Nat /\ Body(m) \in Text
  BY <1>6, <1>20
<1> QED BY <1>21, <1>22, <1>23

LEMMA PartsOf ==
    ASSUME NEW m \in Message
    PROVE  \E h \in Text, a \in Text, b \in Text, f \in Text, k \in Nat :
              /\ h = m.header /\ Len(h) = 3 /\ a = m.keys /\ b = <<m.blockhash>> /\ Len(b) = 1
              /\ f = Body(m) /\ k = Len(m.instrs)
              /\ Serialize(m) = Joined(h, Joined(Field(a), Joined(b, Joined(Shortvec(k), f))))
BY MessageParts

\* serializeMessageUnbounded loses nothing: the same bytes are made of the same message
\* only, whatever its size.
THEOREM SerializeIsInjective ==
    ASSUME NEW m \in Message, NEW o \in Message, Serialize(m) = Serialize(o)
    PROVE  m = o
<1>1. PICK h \in Text, a \in Text, b \in Text, f \in Text, k \in Nat :
          /\ h = m.header /\ Len(h) = 3 /\ a = m.keys /\ b = <<m.blockhash>> /\ Len(b) = 1
          /\ f = Body(m) /\ k = Len(m.instrs)
          /\ Serialize(m) = Joined(h, Joined(Field(a), Joined(b, Joined(Shortvec(k), f))))
  BY PartsOf
<1>2. PICK g \in Text, c \in Text, d \in Text, e \in Text, l \in Nat :
          /\ g = o.header /\ Len(g) = 3 /\ c = o.keys /\ d = <<o.blockhash>> /\ Len(d) = 1
          /\ e = Body(o) /\ l = Len(o.instrs)
          /\ Serialize(o) = Joined(g, Joined(Field(c), Joined(d, Joined(Shortvec(l), e))))
  BY PartsOf
<1>3. PICK s1 \in Text, t1 \in Text : s1 = Joined(Shortvec(k), f) /\ t1 = Joined(Shortvec(l), e)
  <2>1. Shortvec(k) \in Text /\ Shortvec(l) \in Text
    BY ShortvecText
  <2>2. Joined(Shortvec(k), f) \in Text /\ Joined(Shortvec(l), e) \in Text
    BY <2>1, JoinedText
  <2> QED BY <2>2
<1>4. PICK s2 \in Text, t2 \in Text : s2 = Joined(b, s1) /\ t2 = Joined(d, t1)
  BY JoinedText
<1>5. PICK s3 \in Text, t3 \in Text : s3 = Joined(Field(a), s2) /\ t3 = Joined(Field(c), t2)
  BY FieldText, JoinedText
<1>6. h = g /\ s3 = t3
  <2>1. Joined(h, s3) = Joined(g, t3) /\ Len(h) = Len(g)
    BY <1>1, <1>2, <1>3, <1>4, <1>5
  <2> QED BY <2>1, PeelText
<1>7. a = c /\ s2 = t2
  <2>1. Joined(Field(a), s2) = Joined(Field(c), t2)
    BY <1>5, <1>6
  <2> QED BY <2>1, FieldEnds
<1>8. b = d /\ s1 = t1
  <2>1. Joined(b, s1) = Joined(d, t1) /\ Len(b) = Len(d)
    BY <1>1, <1>2, <1>4, <1>7
  <2> QED BY <2>1, PeelText
<1>9. k = l /\ f = e
  <2>1. Joined(Shortvec(k), f) = Joined(Shortvec(l), e)
    BY <1>3, <1>8
  <2> QED BY <2>1, LengthEnds
<1>10. m.blockhash = o.blockhash
  <2>1. <<m.blockhash>> = <<o.blockhash>>
    BY <1>1, <1>2, <1>8
  <2> QED BY <2>1
<1>11. PICK s \in [1 .. k -> Instr], t \in [1 .. k -> Instr] :
           s = m.instrs /\ t = o.instrs /\ DOMAIN s = 1 .. k /\ DOMAIN t = 1 .. k
  <2>1. m.instrs \in Seq(Instr) /\ o.instrs \in Seq(Instr)
    BY DEF Message, Instr
  <2> QED BY <1>1, <1>2, <1>9, <2>1, LenProperties
<1>12. s = t
  <2>1. CASE k = 0
    BY <2>1
  <2>2. CASE k # 0
    <3>1. k \in Nat \ {0} /\ k \in 1 .. k /\ 1 \in 1 .. k
      BY <2>2
    <3>2. PICK v : v = [i \in 1 .. k |-> Instruction(s[i])]
      OBVIOUS
    <3>3. PICK w : w = [i \in 1 .. k |-> Instruction(t[i])]
      OBVIOUS
    <3>4. \A i \in 1 .. k : Instruction(s[i]) \in Text /\ Instruction(t[i]) \in Text
      BY InstructionParts
    <3>5. v \in [1 .. k -> Text] /\ w \in [1 .. k -> Text] /\ Len(v) = k /\ Len(w) = k
      BY <3>2, <3>3, <3>4
    <3>6. PICK x \in [1 .. k -> Text] :
              /\ x[1] = v[1] /\ \A i \in 1 .. k : i # 1 => x[i] = Joined(x[i - 1], v[i])
              /\ FlattenSeq(v) = x[k]
      BY <3>1, <3>5, Flattened
    <3>7. PICK y \in [1 .. k -> Text] :
              /\ y[1] = w[1] /\ \A i \in 1 .. k : i # 1 => y[i] = Joined(y[i - 1], w[i])
              /\ FlattenSeq(w) = y[k]
      BY <3>1, <3>5, Flattened
    <3>8. f = FlattenSeq(v) /\ e = FlattenSeq(w)
      BY <1>1, <1>2, <1>11, <3>2, <3>3 DEF Body
    <3>9. x[k] = y[k]
      BY <1>9, <3>6, <3>7, <3>8
    <3>10. Joins(x, s, k)
      BY <3>1, <3>2, <3>6 DEF Joins
    <3>11. Joins(y, t, k)
      BY <3>1, <3>3, <3>7 DEF Joins
    <3> QED BY <3>1, <3>9, <3>10, <3>11, InstructionsEnd
  <2> QED BY <2>1, <2>2
<1>13. /\ m = [header |-> m.header, keys |-> m.keys, blockhash |-> m.blockhash, instrs |-> m.instrs]
       /\ o = [header |-> o.header, keys |-> o.keys, blockhash |-> o.blockhash, instrs |-> o.instrs]
  BY DEF Message
<1>14. m.header = o.header /\ m.keys = o.keys /\ m.instrs = o.instrs
  BY <1>1, <1>2, <1>6, <1>7, <1>11, <1>12
<1> QED BY <1>10, <1>13, <1>14

\* So a set of messages has as many byte strings as messages.
LEMMA AsManyBytes ==
    ASSUME NEW M \in SUBSET Message, IsFiniteSet(M)
    PROVE  Cardinality({Serialize(m) : m \in M}) = Cardinality(M)
<1> DEFINE S == {Serialize(m) : m \in M}
           f == [m \in M |-> Serialize(m)]
<1>1. f \in [M -> S]
  OBVIOUS
<1>2. \A m, o \in M : f[m] = f[o] => m = o
  BY SerializeIsInjective
<1>3. \A s \in S : \E m \in M : f[m] = s
  OBVIOUS
<1>4. f \in Bijection(M, S)
  BY <1>1, <1>2, <1>3 DEF Bijection, Injection, Surjection, IsInjective
<1>5. ExistsBijection(M, S)
  BY <1>4 DEF ExistsBijection
<1>6. Cardinality(S) = Cardinality(M)
  <2> HIDE DEF S
  <2> QED BY <1>5, FS_Bijection
<1> QED BY <1>6
===============================================================================
