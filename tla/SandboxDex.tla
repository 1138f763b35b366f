----------------------------- MODULE SandboxDex -----------------------------
(***************************************************************************)
(* The sandbox contracts: two ERC20 tokens, constant product pools, and    *)
(* the backrun contract. A chain is a record of reserves, balances and     *)
(* allowances; a contract call is a function from the chain before it to   *)
(* [ok, out, chain], the same chain when it reverts. Arithmetic is         *)
(* Solidity's: an operation whose result does not fit a word reverts.      *)
(***************************************************************************)
EXTENDS Integers, Sequences, FiniteSets

CONSTANTS
    Pools,          \* the configured pools, in order (a sequence)
    Trader,         \* the account whose swaps the bot backruns
    Bot,            \* the backrun contract
    FeeNumerator,
    FeeDenominator,
    Width           \* bits of a word (256 in the EVM)

Pool == {Pools[i] : i \in 1 .. Len(Pools)}
Holder == Pool \cup {Trader, Bot}
Token == {"a", "b"}
Other(token) == IF token = "a" THEN "b" ELSE "a"

ASSUME DexConstants ==
    /\ Pools \in Seq(Pool) /\ Cardinality(Pool) = Len(Pools)
    /\ {Trader, Bot} \cap Pool = {} /\ Trader # Bot
    /\ FeeNumerator \in Nat \ {0}
    /\ FeeDenominator \in Nat /\ FeeDenominator >= FeeNumerator
    /\ Width \in Nat

Word == 2 ^ Width
MaxWord == Word - 1

ASSUME WordPositive == Word \in Nat \ {0}

\* Checked arithmetic: the result fits a word.
Fits(n) == n \in 0 .. MaxWord

\* reserve[p] is the pair of reserves p keeps; supply[t], balance[t][h] and
\* allowance[t][h][p] are token t's.
Chain ==
    [reserve : [Pool -> [Token -> Nat]],
     supply : [Token -> Nat],
     balance : [Token -> [Holder -> Nat]],
     allowance : [Token -> [{Trader, Bot} -> [Pool -> Nat]]]]

Revert(ch) == [ok |-> FALSE, out |-> 0, chain |-> ch]
Return(out, ch) == [ok |-> TRUE, out |-> out, chain |-> ch]

-----------------------------------------------------------------------------
(* SandboxERC20                                                            *)

\* amount moves from one account of a token's books to another.
Moved(book, from, to, amount) ==
    [[book EXCEPT ![from] = @ - amount] EXCEPT ![to] = @ + amount]

\* _transfer. Balances sum to the supply, so the receiver's cannot overflow.
Transfer(ch, token, from, to, amount) ==
    IF ch.balance[token][from] < amount THEN Revert(ch)
    ELSE Return(amount, [ch EXCEPT !.balance[token] = Moved(@, from, to, amount)])

\* transferFrom by pool p; an allowance of type(uint256).max is not used up.
TransferFrom(ch, token, from, p, amount) ==
    LET allowed == ch.allowance[token][from][p]
        spent == IF allowed = MaxWord THEN ch
                 ELSE [ch EXCEPT !.allowance[token][from][p] = allowed - amount]
    IN  IF allowed < amount \/ ~Transfer(ch, token, from, p, amount).ok THEN Revert(ch)
        ELSE Transfer(spent, token, from, p, amount)

MintUnrecorded(ch, token, to, amount) ==
    Return(amount, [ch EXCEPT !.balance[token][to] = @ + amount])

\* mint by the minter: only the supply can overflow.
Mint(ch, token, to, amount) ==
    IF ~Fits(ch.supply[token] + amount) THEN Revert(ch)
    ELSE Return(amount, [ch EXCEPT !.supply[token] = @ + amount,
                                   !.balance[token][to] = @ + amount])

Approve(ch, token, owner, p, amount) == [ch EXCEPT !.allowance[token][owner][p] = amount]

-----------------------------------------------------------------------------
(* SandboxDex                                                              *)

\* getAmountOut returns: no require fails and nothing overflows.
HasAmountOut(amountIn, reserveIn, reserveOut) ==
    /\ amountIn > 0 /\ reserveIn > 0 /\ reserveOut > 0
    /\ Fits(amountIn * FeeNumerator)
    /\ Fits(amountIn * FeeNumerator * reserveOut)
    /\ Fits(reserveIn * FeeDenominator + amountIn * FeeNumerator)

GetAmountOutNoFee(amountIn, reserveIn, reserveOut) ==
    (amountIn * reserveOut) \div (reserveIn + amountIn) + 1

GetAmountOut(amountIn, reserveIn, reserveOut) ==
    (amountIn * FeeNumerator * reserveOut)
        \div (reserveIn * FeeDenominator + amountIn * FeeNumerator)

SwapForgetReserve(ch, p, who, tokenIn, amountIn, minAmountOut) ==
    LET tokenOut == Other(tokenIn)
        r == ch.reserve[p]
        out == GetAmountOut(amountIn, r[tokenIn], r[tokenOut])
        pulled == TransferFrom(ch, tokenIn, who, p, amountIn)
        paid == Transfer(pulled.chain, tokenOut, p, who, out)
    IN  IF /\ HasAmountOut(amountIn, r[tokenIn], r[tokenOut])
           /\ out > 0 /\ out >= minAmountOut /\ pulled.ok /\ paid.ok
        THEN Return(out, [paid.chain EXCEPT !.reserve[p] = [@ EXCEPT ![tokenIn] = @ + amountIn]])
        ELSE Revert(ch)

\* swapExactAForB (tokenIn = "a") and swapExactBForA, with _swapExactIn.
Swap(ch, p, who, tokenIn, amountIn, minAmountOut) ==
    LET tokenOut == Other(tokenIn)
        r == ch.reserve[p]
        out == GetAmountOut(amountIn, r[tokenIn], r[tokenOut])
        pulled == TransferFrom(ch, tokenIn, who, p, amountIn)
        paid == Transfer(pulled.chain, tokenOut, p, who, out)
    IN  IF /\ HasAmountOut(amountIn, r[tokenIn], r[tokenOut])
           /\ out > 0 /\ out >= minAmountOut
           /\ pulled.ok /\ paid.ok
           /\ Fits(r[tokenIn] + amountIn) /\ out <= r[tokenOut]
        THEN Return(out, [paid.chain EXCEPT !.reserve[p] =
                 [[r EXCEPT ![tokenIn] = @ + amountIn] EXCEPT ![tokenOut] = @ - out]])
        ELSE Revert(ch)

SeedLiquidity(ch, p, who, amountA, amountB) ==
    LET first == TransferFrom(ch, "a", who, p, amountA)
        second == TransferFrom(first.chain, "b", who, p, amountB)
        seeded == [t \in Token |-> ch.reserve[p][t] + IF t = "a" THEN amountA ELSE amountB]
    IN  IF /\ amountA > 0 /\ amountB > 0 /\ first.ok /\ second.ok
           /\ \A t \in Token : Fits(seeded[t])
        THEN Return(0, [second.chain EXCEPT !.reserve[p] = seeded])
        ELSE Revert(ch)

-----------------------------------------------------------------------------
(* SandboxBackrun                                                          *)

ExecuteBackrunApprovesMax(ch, buy, sell, amountInB, minAmountOutA, minAmountOutB, minProfitB) ==
    LET bought == Swap(Approve(ch, "b", Bot, buy, MaxWord), buy, Bot, "b", amountInB, minAmountOutA)
        sold == Swap(Approve(bought.chain, "a", Bot, sell, bought.out),
                     sell, Bot, "a", bought.out, minAmountOutB)
        profitB == sold.chain.balance["b"][Bot] - ch.balance["b"][Bot]
    IN  IF bought.ok /\ sold.ok /\ profitB >= 0 THEN Return(profitB, sold.chain) ELSE Revert(ch)

\* executeBackrun: buy token a in one pool, sell it in another; out is the
\* profit in token b, which the checked subtraction keeps from being negative. A
\* call to an address that is no pool reverts, and arguments are words.
ExecuteBackrun(ch, buy, sell, amountInB, minAmountOutA, minAmountOutB, minProfitB) ==
    LET bought == Swap(Approve(ch, "b", Bot, buy, amountInB),
                       buy, Bot, "b", amountInB, minAmountOutA)
        sold == Swap(Approve(bought.chain, "a", Bot, sell, bought.out),
                     sell, Bot, "a", bought.out, minAmountOutB)
        profitB == sold.chain.balance["b"][Bot] - ch.balance["b"][Bot]
    IN  IF /\ {buy, sell} \subseteq Pool /\ Fits(amountInB)
           /\ buy # sell /\ amountInB > 0
           /\ ch.balance["b"][Bot] >= amountInB
           /\ bought.ok /\ sold.ok
           /\ profitB >= 0 /\ profitB >= minProfitB
        THEN Return(profitB, sold.chain)
        ELSE Revert(ch)

\* withdrawToken by the operator.
WithdrawToken(ch, token, to, amount) == Transfer(ch, token, Bot, to, amount)
=============================================================================
