---------------------------- MODULE MCAlgorithms ----------------------------
(* Messages of up to six keys with three instructions and one account      *)
(* index, rebased below 3 instead of 38: up to three programs must move,   *)
(* into up to two free slots.  Next to them, the pure functions: numbers   *)
(* with two digits at scales of one or two decimals; lengths with one to   *)
(* four bytes of two bits; messages of up to five keys and two             *)
(* instructions; and the markets of Crypto.1.                              *)
EXTENDS RebaseIndices, Algorithms, Crypto1

CONSTANTS i1, i2, i3, a1

MCInstrs == {i1, i2, i3}
MCRefs == {a1}

MCInit ==
    /\ Init
    /\ \/ NoQuestion
       \/ n = 1 /\ Question
MCNext == Next /\ UNCHANGED q
MCSpec == MCInit /\ [][MCNext]_<<vars, q>>

MCCoefficients == {0, 1, 2, 3, 7, 10, 11, 19}
MCExponents == -2..2
MCNotPositive == -2..0
MCPrices == {0, 1, 3, 10, 47}
MCPriceExponents == {-2, -1}
MCRates == {0, 3, 10, 11}
MCDecimals == {1, 2, 3}
MCBps == {0, 1, 33, 99, 100, 101, 250}
MCLengths == 0..70

MCPubkeys == {0}

MCSeqs(S, k) == UNION {[1..l -> S] : l \in 0..k}
MCInstructions == [prog : {0, 5}, accounts : MCSeqs({0, 1}, 4), data : MCSeqs({0}, 1)]
MCMessages ==
    [header : {<<1, 0, 0>>, <<1, 0, 1>>}, keys : {[i \in 1..l |-> 0] : l \in {1, 4, 5}},
     blockhash : {0}, instrs : MCSeqs(MCInstructions, 1) \cup
        [1..2 -> [prog : {0}, accounts : MCSeqs({0, 1}, 2), data : MCSeqs({0}, 1)]]]
=============================================================================
