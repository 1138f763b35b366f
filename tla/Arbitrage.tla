------------------------------ MODULE Arbitrage ------------------------------
(***************************************************************************)
(* The bot's arbitrage calculator against the contracts it predicts: a     *)
(* pending swap of the trader is evaluated on the reserves of the last     *)
(* block, and the bundle of that swap and the bot's backrun is executed on *)
(* the same chain. The calculator's words wrap where the contracts revert. *)
(***************************************************************************)
EXTENDS SandboxDex, FiniteSetsExt

CONSTANTS
    MaxAmountInB,   \* Params::max_amount_in_b
    MinProfitB,     \* Params::min_profit_b
    MinOutputBps,   \* Params::min_output_bps
    BpsDenominator, \* kBpsDenominator
    SqrtBits,       \* half the width of the word integer_sqrt works on
    Amounts,        \* bound: amounts of the trader's swaps
    Gifts,          \* bound: amounts minted, transferred and approved otherwise
    Chains,         \* the chains to start from
    MaxSteps        \* bound: transactions on the chain

\* Every pool holds at least its reserves.
Backed(ch) == \A p \in Pool, t \in Token : ch.reserve[p][t] <= ch.balance[t][p]

\* What the holders of a token have by its book.
Total(book) == MapThenSumSet(LAMBDA h : book[h], Holder)

\* Balances add up to the supply, which fits a word.
Conserved(ch) == \A t \in Token : Total(ch.balance[t]) = ch.supply[t] /\ Fits(ch.supply[t])

\* No pool may take tokens of the backrun contract.
Unapproved(ch) == \A t \in Token, p \in Pool : ch.allowance[t][Bot][p] = 0

ASSUME ArbitrageConstants ==
    /\ MaxAmountInB \in 0 .. MaxWord
    /\ MinProfitB \in 0 .. MaxWord
    /\ MinOutputBps \in Nat
    /\ BpsDenominator \in Nat \ {0}
    /\ SqrtBits \in Nat \ {0}
    /\ Amounts \subseteq 0 .. MaxWord
    /\ Gifts \subseteq 0 .. MaxWord
    /\ \A ch \in Chains : ch \in Chain /\ Backed(ch) /\ Conserved(ch) /\ Unapproved(ch)
    /\ MaxSteps \in Nat

\* The two equations that define ^, for the powers integer_sqrt uses.
ASSUME Exponents ==
    \A x \in {2, 4} : x ^ 0 = 1 /\ \A k \in 0 .. SqrtBits - 1 : x ^ (k + 1) = x * x ^ k

VARIABLES
    chain,          \* the contracts
    steps           \* transactions so far

vars == <<chain, steps>>

None == -1

\* A decoded swap of the trader on a pool.
Victim == [pool : Pool, tokenIn : Token, amount_in : Amounts, min_amount_out : {0, 2}]

-----------------------------------------------------------------------------
(* Pricing                                                                 *)

\* amount_out: intx words wrap.
AmountOut(amount_in, reserve_in, reserve_out) ==
    LET with_fee == (amount_in * FeeNumerator) % Word
        denominator == (reserve_in * FeeDenominator + with_fee) % Word
    IN  IF 0 \in {amount_in, reserve_in, reserve_out, denominator} THEN None
        ELSE ((with_fee * reserve_out) % Word) \div denominator

ApplyBps(value, bps) == ((value * bps) % Word) \div BpsDenominator

ApplyVictimSwapOneSided(reserve, v) ==
    LET out == AmountOut(v.amount_in, reserve[v.tokenIn], reserve[Other(v.tokenIn)])
    IN  IF out = None \/ out < v.min_amount_out \/ reserve[Other(v.tokenIn)] < out THEN {}
        ELSE {[reserve EXCEPT ![v.tokenIn] = (@ + v.amount_in) % Word]}

\* apply_victim_swap: the pool's reserves after the swap, or the empty set.
ApplyVictimSwap(reserve, v) ==
    LET out == AmountOut(v.amount_in, reserve[v.tokenIn], reserve[Other(v.tokenIn)])
    IN  IF out = None \/ out < v.min_amount_out \/ reserve[Other(v.tokenIn)] < out THEN {}
        ELSE {[[reserve EXCEPT ![v.tokenIn] = (@ + v.amount_in) % Word]
                   EXCEPT ![Other(v.tokenIn)] = @ - out]}

\* quote_route: buy token a with amount_in_b, sell it again.
QuoteRoute(buy, sell, amount_in_b) ==
    LET out_a == AmountOut(amount_in_b, buy.b, buy.a)
        out_b == AmountOut(out_a, sell.a, sell.b)
    IN  IF out_a = None \/ out_b = None THEN {}
        ELSE {[amount_in_b |-> amount_in_b, amount_out_a |-> out_a, amount_out_b |-> out_b]}

-----------------------------------------------------------------------------
(* The amount to trade                                                     *)

\* The square root of value after each of the first pairs of bits, from the
\* highest; the first loop of the code skips pairs that leave rest and result as
\* they are.
SqrtStep(before, bit) ==
    IF before.rest >= before.result + bit
    THEN [rest |-> before.rest - (before.result + bit),
          result |-> (before.result \div 2) + bit]
    ELSE [rest |-> before.rest, result |-> before.result \div 2]

SqrtLoop(value) ==
    LET loop[i \in 0 .. SqrtBits] ==
            IF i = 0 THEN [rest |-> value, result |-> 0]
            ELSE SqrtStep(loop[i - 1], 4 ^ (SqrtBits - i))
    IN  loop

IntegerSqrtShort(value) == SqrtLoop(value)[SqrtBits - 1].result

\* integer_sqrt.
IntegerSqrt(value) == SqrtLoop(value)[SqrtBits].result

\* C, D and E of the code's comment: amountOutB(x) = C*x / (D + E*x). They are
\* computed in words wide enough never to wrap.
Curve(buy, sell) ==
    [c |-> FeeNumerator * FeeNumerator * buy.a * sell.b,
     d |-> FeeDenominator * FeeDenominator * buy.b * sell.a,
     e |-> FeeNumerator * FeeDenominator * sell.a + FeeNumerator * FeeNumerator * buy.a]

\* Mutation: the root is compared with C, and the route is given up.
OptimalAmountInBGivingUp(buy, sell) ==
    LET k == Curve(buy, sell)
        root == IntegerSqrt(k.c * k.d)
        amount == (root - k.d) \div k.e
    IN  IF 0 \in {k.c, k.d, k.e} \/ root <= k.c \/ amount = 0 THEN None
        ELSE IF amount > MaxAmountInB THEN MaxAmountInB ELSE amount

\* optimal_amount_in_b: (sqrt(C*D) - D) / E, at most max_amount_in_b.
OptimalAmountInB(buy, sell) ==
    LET k == Curve(buy, sell)
        root == IntegerSqrt(k.c * k.d)
        amount == (root - k.d) \div k.e
    IN  IF 0 \in {k.c, k.d, k.e} \/ root <= k.d \/ amount = 0 THEN None
        ELSE IF amount > MaxAmountInB THEN MaxAmountInB ELSE amount

-----------------------------------------------------------------------------
(* find_arbitrage                                                          *)

EvaluatePoolAnyQuote(buy_pool, buy, sell_pool, sell) ==
    {[buy_pool |-> buy_pool, sell_pool |-> sell_pool,
      amount_in_b |-> q.amount_in_b,
      min_amount_out_a |-> ApplyBps(q.amount_out_a, MinOutputBps),
      min_amount_out_b |-> ApplyBps(q.amount_out_b, MinOutputBps),
      expected_amount_out_a |-> q.amount_out_a,
      expected_profit_b |-> (q.amount_out_b - q.amount_in_b) % Word]
     : q \in UNION {QuoteRoute(buy, sell, x) : x \in {OptimalAmountInB(buy, sell)} \ {None}}}

\* evaluate_pool, with best_route_quote: the opportunity of one route, or none.
EvaluatePool(buy_pool, buy, sell_pool, sell) ==
    {[buy_pool |-> buy_pool, sell_pool |-> sell_pool,
      amount_in_b |-> q.amount_in_b,
      min_amount_out_a |-> ApplyBps(q.amount_out_a, MinOutputBps),
      min_amount_out_b |-> ApplyBps(q.amount_out_b, MinOutputBps),
      expected_amount_out_a |-> q.amount_out_a,
      expected_profit_b |-> q.amount_out_b - q.amount_in_b]
     : q \in {r \in UNION {QuoteRoute(buy, sell, x)
                            : x \in {OptimalAmountInB(buy, sell)} \ {None}} :
                r.amount_out_b > r.amount_in_b /\ r.amount_out_b - r.amount_in_b >= MinProfitB}}

\* The opportunity with pool i as the other side of v's pool: after a swap of
\* token a into v's pool, a is cheap there, so the bot buys there.
Opportunity(reserves, after, v, i) ==
    IF v.tokenIn = "a"
    THEN EvaluatePool(v.pool, after, Pools[i], reserves[Pools[i]])
    ELSE EvaluatePool(Pools[i], reserves[Pools[i]], v.pool, after)

\* find_arbitrage: the first of the most profitable, or the empty set.
FindArbitrage(reserves, v) ==
    IF MinOutputBps > BpsDenominator \/ MaxAmountInB = 0 \/ v.pool \notin Pool THEN {}
    ELSE LET found(i) == IF Pools[i] = v.pool THEN {}
                         ELSE UNION {Opportunity(reserves, after, v, i)
                                     : after \in ApplyVictimSwap(reserves[v.pool], v)}
             profit(i) == (CHOOSE o \in found(i) : TRUE).expected_profit_b
             some == {i \in 1 .. Len(Pools) : found(i) # {}}
             best == {i \in some : \A j \in some :
                         profit(i) > profit(j) \/ (profit(i) = profit(j) /\ i <= j)}
         IN  UNION {found(i) : i \in best}

-----------------------------------------------------------------------------
(* The chain                                                               *)

Init == chain \in Chains /\ steps = 0

\* A transaction that does not revert is mined.
Mine(call) ==
    /\ steps < MaxSteps
    /\ call.ok
    /\ chain' = call.chain
    /\ steps' = steps + 1

VictimSwap(v) == Swap(chain, v.pool, Trader, v.tokenIn, v.amount_in, v.min_amount_out)

\* The backrun the composer encodes for opportunity o, on top of v's swap.
Backrun(v, o) ==
    ExecuteBackrun(VictimSwap(v).chain, o.buy_pool, o.sell_pool, o.amount_in_b,
                   o.min_amount_out_a, o.min_amount_out_b, MinProfitB)

\* The trader's swap is mined on its own.
MineSwap == \E v \in Victim : Mine(VictimSwap(v))

\* The trader's swap is mined with the bot's backrun behind it. The builder
\* submits the bundle only if neither reverts.
MineBundle ==
    \E v \in Victim : \E o \in FindArbitrage(chain.reserve, v) :
        VictimSwap(v).ok /\ Mine(Backrun(v, o))

MineSeed ==
    \E p \in Pool, x, y \in Amounts : Mine(SeedLiquidity(chain, p, Trader, x, y))

MineWithdraw ==
    \E t \in Token, x \in Amounts : Mine(WithdrawToken(chain, t, Trader, x))

\* Plain calls of the tokens, by which anyone can be given tokens, a pool and
\* the backrun contract included.
MineTransfer ==
    \E t \in Token, h \in Holder \ {Trader}, x \in Gifts : Mine(Transfer(chain, t, Trader, h, x))

MineMint == \E t \in Token, h \in Holder, x \in Gifts : Mine(Mint(chain, t, h, x))

MineApprove ==
    \E t \in Token, p \in Pool, x \in Gifts : Mine(Return(0, Approve(chain, t, Trader, p, x)))

Next ==
    \/ MineSwap \/ MineBundle \/ MineSeed \/ MineWithdraw
    \/ MineTransfer \/ MineMint \/ MineApprove

Spec == Init /\ [][Next]_vars

-----------------------------------------------------------------------------
(* Properties                                                              *)

\* A pool, whose reserves are kept apart from the tokens' books, always holds
\* what it accounts for, so that no swap fails for want of tokens.
Solvent == Backed(chain)

\* Balances add up to the supply, which fits a word: that is why no receiver's
\* balance overflows, and no reserve.
SupplyConserved == Conserved(chain)

\* Trading leaves nothing behind with the backrun contract: no allowance for a
\* pool, and of token a, bought in one pool, all is sold in the other. Whoever
\* trades, the contract's token b never falls.
NothingLeftBehind ==
    [][/\ Unapproved(chain')
       /\ chain'.reserve # chain.reserve =>
             /\ chain'.balance.a[Bot] = chain.balance.a[Bot]
             /\ chain'.balance.b[Bot] >= chain.balance.b[Bot]]_vars

\* The product of a pool's reserves never falls, whatever is traded.
ProductNeverFalls ==
    [][\A p \in Pool : chain'.reserve[p]["a"] * chain'.reserve[p]["b"]
                          >= chain.reserve[p]["a"] * chain.reserve[p]["b"]]_vars

\* What find_arbitrage predicts of a pending swap is what the bundle does, to
\* the last unit, whenever the bundle executes at all: also where the
\* calculator's words have wrapped.
PredictionExact ==
    \A v \in Victim : \A o \in FindArbitrage(chain.reserve, v) :
        VictimSwap(v).ok /\ Backrun(v, o).ok =>
            LET before == VictimSwap(v).chain
                after == Backrun(v, o).chain
            IN  /\ Backrun(v, o).out = o.expected_profit_b
                /\ before.reserve[o.buy_pool].a - after.reserve[o.buy_pool].a
                      = o.expected_amount_out_a

\* A predicted opportunity executes, unless the trader's swap reverts, the bot
\* lacks the tokens, or a product of the route does not fit a word.
PredictionExecutes ==
    \A v \in Victim : \A o \in FindArbitrage(chain.reserve, v) :
        LET after == VictimSwap(v).chain
            buy == after.reserve[o.buy_pool]
            sell == after.reserve[o.sell_pool]
        IN  /\ VictimSwap(v).ok
            /\ chain.balance.b[Bot] >= o.amount_in_b
            /\ HasAmountOut(o.amount_in_b, buy.b, buy.a)
            /\ HasAmountOut(o.expected_amount_out_a, sell.a, sell.b)
            => Backrun(v, o).ok

ProfitB(buy, sell, x) ==
    {q.amount_out_b - q.amount_in_b : q \in QuoteRoute(buy, sell, x)}

\* No product overflows when x of token b goes round from buy to sell.
RouteFits(buy, sell, x) ==
    /\ HasAmountOut(x, buy.b, buy.a)
    /\ HasAmountOut(GetAmountOut(x, buy.b, buy.a), sell.a, sell.b)

\* The amount optimal_amount_in_b takes from the continuous optimum is the best
\* one allowed up to rounding: the two units lost by rounding the amount and the
\* output down, and what one unit of token a, lost in between, sells for. Where
\* it finds no amount, no amount earns more than E/D and one unit.
NearOptimal ==
    \A p, q \in Pool : p # q =>
        LET buy == chain.reserve[p]
            sell == chain.reserve[q]
            k == Curve(buy, sell)
            chosen == OptimalAmountInB(buy, sell)
            unitA == (FeeNumerator * sell.b) \div (FeeDenominator * sell.a)
        IN  \A x \in {y \in 1 .. MaxAmountInB : RouteFits(buy, sell, y)} :
              \A best \in ProfitB(buy, sell, x) :
                 \/ chosen = None /\ best <= 1 + k.e \div k.d
                 \/ chosen # None /\ ~RouteFits(buy, sell, chosen)
                 \/ chosen # None /\ \E y \in ProfitB(buy, sell, chosen) : best <= y + 2 + unitA

\* integer_sqrt returns the largest number whose square is not above its
\* argument, for the argument of every route.
SqrtExact ==
    \A p, q \in Pool :
        LET k == Curve(chain.reserve[p], chain.reserve[q])
            root == IntegerSqrt(k.c * k.d)
        IN  root * root <= k.c * k.d /\ k.c * k.d < (root + 1) * (root + 1)
=============================================================================
