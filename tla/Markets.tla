-------------------------------- MODULE Markets --------------------------------
(***************************************************************************)
(* Which market a symbol means: the client resolves it when it opens, or   *)
(* addresses, a position, and the runners resolve it beforehand to name    *)
(* the collateral and to watch the position.  A market's address is        *)
(* derived from its key, so a key stands for it; "no market" is the empty  *)
(* set, on which the code throws.                                          *)
(***************************************************************************)
EXTENDS Naturals, Sequences

CONSTANTS Symbols,     \* what a caller may pass
          Custodies,
          CustodyOf,   \* symbol -> custody; the look-up ignores upper and lower case
          SymbolOf,    \* custody -> symbol
          MarketList,  \* poolConfig.markets, in order
          Deprecated,  \* poolConfig.marketsDeprecated
          Overridden,  \* LONG_COLLATERAL_OVERRIDES: its keys, compared exactly
          OverrideOf,  \*                            and its values
          DefaultCollateral  \* COLLATERAL_SYMBOL if it is not set

Sides == {"long", "short"}
Keys == [target : Custodies, collateral : Custodies, side : Sides]

\* SymbolOf is one of the names of the custody.
ASSUME PoolAssumption ==
    /\ CustodyOf \in [Symbols -> Custodies]
    /\ SymbolOf \in [Custodies -> Symbols]
    /\ \A c \in Custodies : CustodyOf[SymbolOf[c]] = c
    /\ MarketList \in Seq(Keys)
    /\ Deprecated \subseteq Keys
    /\ Overridden \subseteq Symbols
    /\ OverrideOf \in [Overridden -> Symbols]
    /\ DefaultCollateral \in Symbols

Of(S) == {MarketList[i] : i \in S}
Listed == Of(DOMAIN MarketList)

\* A pool that lists long markets of an overridden symbol lists the one that
\* locks the override.
ASSUME ListAssumption ==
    \A t \in Overridden, m \in Listed :
        m.target = CustodyOf[t] /\ m.side = "long" =>
            [target |-> CustodyOf[t], collateral |-> CustodyOf[OverrideOf[t]], side |-> "long"]
                \in Listed

\* What is listed can be traded against the default collateral, and a market that
\* locks it is the only one of its target and side (so in every pool of
\* PoolConfig.json).
ASSUME DefaultAssumption ==
    \A m \in Listed :
        /\ \E k \in Listed : k.target = m.target /\ k.collateral = CustodyOf[DefaultCollateral]
        /\ m.collateral = CustodyOf[DefaultCollateral] =>
               \A k \in Listed : k.target = m.target /\ k.side = m.side => k = m
-----------------------------------------------------------------------------
(* The client.                                                             *)

\* resolveCollateralSymbol
Resolve(t, c, side) == IF side = "long" /\ t \in Overridden THEN OverrideOf[t] ELSE c

\* findMarketConfig: the lock symbol is taken as passed.
FindMarket(t, lock, side) ==
    {m \in Listed \cup Deprecated :
        m = [target |-> CustodyOf[t], collateral |-> CustodyOf[lock], side |-> side]}

\* openPosition
OpenMarket(t, lock, side) == FindMarket(t, Resolve(t, lock, side), side)
-----------------------------------------------------------------------------
(* The runners.                                                            *)

\* list.find(...) ?? list[0] and the like: the first of these indices.
First(S) == {i \in S : \A j \in S : i <= j}
Else(S, T) == IF S # {} THEN S ELSE T

With(S, c) == {i \in S : MarketList[i].collateral = c}
SameSide(S, i) == {j \in S : MarketList[j].side = MarketList[i].side}
Candidates(t) == {i \in DOMAIN MarketList : MarketList[i].target = CustodyOf[t]}

\* The collateral the client would lock for a position like market i.
Want(t, i) == CustodyOf[Resolve(t, t, MarketList[i].side)]

\* pickMarket: the first market that takes COLLATERAL_SYMBOL, or the first; if
\* a client is supplied, the market of the same side the client would use.
Preferred(t, c) == Else(First(With(Candidates(t), CustodyOf[c])), First(Candidates(t)))

\* (mutant) the override market is not looked for
PickMarket_NoClient(t, c) == Of(Preferred(t, c))

PickMarket(t, c) ==
    UNION {Of(Else(First(With(SameSide(Candidates(t), i), Want(t, i))), {i})) :
              i \in Preferred(t, c)}

\* pickMarket without a client, as the runners that address a position call it.
PickUnaided(t, c) == Of(Preferred(t, c))

\* marketForSide, and marketBySide of the master runner
OnSide(t, side) == {i \in Candidates(t) : MarketList[i].side = side}

\* (mutant) the first market of that side
MarketForSide_First(t, side) == Of(First(OnSide(t, side)))

MarketForSide(t, side) ==
    UNION {Of(Else(First(With(OnSide(t, side), Want(t, i))), {i})) :
              i \in First(OnSide(t, side))}
-----------------------------------------------------------------------------
\* "so the picked market matches the one the client will trade against": what
\* openPosition.ts picks is what openPosition opens when it passes on the
\* collateral of the pick.
PickAgrees(t, c) ==
    \A m \in PickMarket(t, c) : OpenMarket(t, SymbolOf[m.collateral], m.side) = {m}

\* "so the script and the client agree on the same market PDA": opening opens
\* the market a runner watches, and closing addresses it.
SideAgrees(t, side) ==
    \A m \in MarketForSide(t, side) :
        /\ OpenMarket(t, SymbolOf[m.collateral], side) = {m}
        /\ FindMarket(t, SymbolOf[m.collateral], side) = {m}
===============================================================================
