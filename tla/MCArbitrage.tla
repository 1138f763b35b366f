----------------------------- MODULE MCArbitrage -----------------------------
(***************************************************************************)
(* Three pools with different prices, a trader and a bot with tokens b.    *)
(* In words of few bits products of the larger amounts and reserves        *)
(* overflow, and those of the smaller ones do not.                         *)
(***************************************************************************)
EXTENDS Arbitrage

CONSTANTS p1, p2, p3

MCPools == <<p1, p2, p3>>

\* The chain once the pools are seeded with r and the trader has approved them.
SeededChain(r, a, b, bot) ==
    [reserve |-> r,
     supply |-> [t \in Token |-> MapThenSumSet(LAMBDA p : r[p][t], Pool)
                                    + IF t = "a" THEN a ELSE b + bot],
     balance |-> [t \in Token |-> [h \in Holder |->
                    IF h \in Pool THEN r[h][t]
                    ELSE IF h = Bot THEN (IF t = "b" THEN bot ELSE 0)
                    ELSE IF t = "a" THEN a ELSE b]],
     allowance |-> [t \in Token |-> [h \in {Trader, Bot} |-> [p \in Pool |->
                    IF h = Trader THEN MaxWord ELSE 0]]]]

MCReserves(x1, y1, x2, y2, x3, y3) ==
    [p \in Pool |-> CASE p = p1 -> [a |-> x1, b |-> y1]
                      [] p = p2 -> [a |-> x2, b |-> y2]
                      [] p = p3 -> [a |-> x3, b |-> y3]]

MCChains ==
    {SeededChain(MCReserves(12, 12, 10, 14, 16, 9), 6, 6, 8),
     SeededChain(MCReserves(10, 24, 24, 10, 1, 1), 9, 4, 3)}

\* Pools far apart in price, for words in which nothing overflows.
MCWideChains ==
    {SeededChain(MCReserves(50, 10, 10, 50, 20, 20), 30, 30, 40),
     SeededChain(MCReserves(70, 9, 12, 60, 1, 3), 30, 30, 40)}
=============================================================================
