-------------------------- MODULE PredictionProofs --------------------------
(***************************************************************************)
(* What the calculator predicts is what the contracts do, for every width  *)
(* of a word, every fee, any number of pools and every chain: its wrapping *)
(* arithmetic agrees with the contracts' checked arithmetic wherever the   *)
(* latter does not revert, the square root it takes is exact, the amount   *)
(* it chooses is the best up to rounding, what it proposes executes, and   *)
(* the backrun leaves nothing behind.                                      *)
(***************************************************************************)
EXTENDS ArbitrageProofs

\* A result that fits does not wrap.
LEMMA FitsNoWrap == ASSUME NEW n, Fits(n) PROVE n \in Nat /\ n % Word = n
<1>1. n \in 0 .. Word - 1
  BY DEF Fits, MaxWord
<1>2. Word \in Nat /\ Word > 0
  BY WordPositive
<1> HIDE DEF Word
<1> QED BY <1>1, <1>2

\* amount_out is getAmountOut, where the contract does not revert.
LEMMA AmountOutExact ==
    ASSUME NEW x \in Nat, NEW ri \in Nat, NEW ro \in Nat, HasAmountOut(x, ri, ro)
    PROVE  AmountOut(x, ri, ro) = GetAmountOut(x, ri, ro) /\ GetAmountOut(x, ri, ro) \in Nat
<1> DEFINE n == FeeNumerator
           d == FeeDenominator
<1>1. n \in Nat /\ n > 0 /\ d \in Nat /\ d >= n
  BY DexConstants
<1>2. x > 0 /\ ri > 0 /\ ro > 0 /\ Fits(x * n) /\ Fits(x * n * ro) /\ Fits(ri * d + x * n)
  BY DEF HasAmountOut
<1>3. (x * n) % Word = x * n /\ (x * n * ro) % Word = x * n * ro
      /\ (ri * d + x * n) % Word = ri * d + x * n
  BY <1>2, FitsNoWrap
<1>4. ri * d + x * n # 0
  <2>1. ri * d \in Nat /\ x * n \in Nat /\ x * n > 0
    BY <1>1, <1>2
  <2> QED BY <2>1
<1> HIDE DEF n, d
<1>5. AmountOut(x, ri, ro) = (x * n * ro) \div (ri * d + x * n)
  BY <1>2, <1>3, <1>4 DEF AmountOut, n, d
<1>6. GetAmountOut(x, ri, ro) \in Nat
  BY <1>2, AmountOutKeepsProduct
<1> QED BY <1>5, <1>6 DEF GetAmountOut, n, d

\* The trader's swap leaves its pool as apply_victim_swap says.
LEMMA VictimApplied ==
    ASSUME chain \in Chain, NEW v \in Victim, VictimSwap(v).ok,
           NEW after \in ApplyVictimSwap(chain.reserve[v.pool], v)
    PROVE  after = VictimSwap(v).chain.reserve[v.pool]
<1> DEFINE in == v.tokenIn
           tokenOut == Other(in)
           r == chain.reserve[v.pool]
           call == VictimSwap(v)
           r2 == call.chain.reserve[v.pool]
<1>1. v.pool \in Pool /\ in \in Token /\ v.amount_in \in Nat
  BY AmountsNat DEF Victim
<1>2. Traded(chain, call.chain, v.pool, Trader, in, v.amount_in, call.out)
  BY <1>1, SwapEffect DEF VictimSwap
<1>3. tokenOut \in Token /\ in # tokenOut /\ {in, tokenOut} = Token
  BY <1>1 DEF Token, Other
<1>4. r \in [Token -> Nat] /\ r[in] \in Nat /\ r[tokenOut] \in Nat
  BY <1>1, <1>3 DEF Chain
<1> HIDE DEF call, tokenOut
<1>5. /\ HasAmountOut(v.amount_in, r[in], r[tokenOut])
      /\ call.out = GetAmountOut(v.amount_in, r[in], r[tokenOut])
      /\ Fits(r[in] + v.amount_in)
      /\ call.chain \in Chain
      /\ r2[in] = r[in] + v.amount_in
      /\ r2[tokenOut] = r[tokenOut] - call.out
  BY <1>2 DEF Traded, tokenOut
<1>6. AmountOut(v.amount_in, r[in], r[tokenOut]) = call.out
  BY <1>1, <1>4, <1>5, AmountOutExact
<1>7. (r[in] + v.amount_in) % Word = r[in] + v.amount_in
  BY <1>5, FitsNoWrap
<1>8. r2 \in [Token -> Nat]
  BY <1>1, <1>5 DEF Chain
<1> HIDE DEF r, r2
<1>9. after = [[r EXCEPT ![in] = (r[in] + v.amount_in) % Word]
                  EXCEPT ![tokenOut] = @ - call.out]
  BY <1>6 DEF ApplyVictimSwap, tokenOut, r
<1>10. /\ after = [t \in Token |-> after[t]]
       /\ after[in] = r2[in] /\ after[tokenOut] = r2[tokenOut]
  BY <1>3, <1>4, <1>5, <1>7, <1>9
<1>11. \A t \in Token : after[t] = r2[t]
  BY <1>3, <1>10
<1> QED BY <1>8, <1>10, <1>11 DEF r2, call

-----------------------------------------------------------------------------
(* integer_sqrt                                                            *)

\* The loop's state before its first round.
SqrtStart(value) == [rest |-> value, result |-> 0]

\* f is the loop's states up to the n-th.
IsLoop(f, value, n) ==
    f = [i \in 0 .. n |-> IF i = 0 THEN SqrtStart(value)
                          ELSE SqrtStep(f[i - 1], 4 ^ (SqrtBits - i))]

\* The loop can be run for any number of rounds.
LEMMA LoopExists == ASSUME NEW value, NEW n \in Nat PROVE \E f : IsLoop(f, value, n)
<1> SUFFICES ASSUME ~ \E f : IsLoop(f, value, n) PROVE FALSE
  OBVIOUS
<1> DEFINE T == {k \in Nat : ~ \E f : IsLoop(f, value, k)}
<1>1. PICK k \in T : \A y \in T : k <= y
  <2>1. T \subseteq Nat /\ T # {}
    OBVIOUS
  <2> HIDE DEF T
  <2> QED BY <2>1, LeastElement
<1>2. CASE k = 0
  <2> DEFINE f == [i \in 0 .. 0 |-> SqrtStart(value)]
  <2>1. IsLoop(f, value, 0)
    BY DEF IsLoop
  <2> QED BY <1>2, <2>1
<1>3. CASE k # 0
  <2>1. k \in Nat /\ k - 1 \in Nat /\ k - 1 < k
    BY <1>3
  <2>2. PICK f : IsLoop(f, value, k - 1)
    BY <1>1, <2>1
  <2> DEFINE g == [i \in 0 .. k |-> IF i = 0 THEN SqrtStart(value)
                                    ELSE SqrtStep(f[i - 1], 4 ^ (SqrtBits - i))]
  <2>3. \A i \in 0 .. k - 1 : g[i] = f[i]
    BY <2>1, <2>2 DEF IsLoop
  <2>4. \A i \in 0 .. k : i # 0 => i - 1 \in 0 .. k - 1
    BY <2>1
  <2>5. \A i \in 0 .. k : g[i] = IF i = 0 THEN SqrtStart(value)
                                 ELSE SqrtStep(g[i - 1], 4 ^ (SqrtBits - i))
    BY <2>3, <2>4
  <2>6. g = [i \in 0 .. k |-> g[i]]
    OBVIOUS
  <2> HIDE DEF g
  <2>7. IsLoop(g, value, k)
    BY <2>5, <2>6 DEF IsLoop
  <2> QED BY <2>7
<1> QED BY <1>2, <1>3

\* The recursive definition of the loop defines it.
LEMMA LoopDefined == ASSUME NEW value PROVE IsLoop(SqrtLoop(value), value, SqrtBits)
<1>1. SqrtBits \in Nat
  BY ArbitrageConstants
<1>2. \E f : IsLoop(f, value, SqrtBits)
  BY <1>1, LoopExists
<1>3. SqrtLoop(value) = CHOOSE f : IsLoop(f, value, SqrtBits)
  BY Zenon DEF SqrtLoop, IsLoop, SqrtStart
<1> QED BY <1>2, <1>3, Zenon

\* What the two defining equations say of the powers the loop uses.
LEMMA Powers ==
    ASSUME NEW k \in 0 .. SqrtBits
    PROVE  2 ^ k \in Nat \ {0} /\ 4 ^ k = 2 ^ k * 2 ^ k
<1> DEFINE Good(j) == 2 ^ j \in Nat \ {0} /\ 4 ^ j = 2 ^ j * 2 ^ j
           T == {j \in 0 .. SqrtBits : ~ Good(j)}
<1>1. SqrtBits \in Nat
  BY ArbitrageConstants
<1> SUFFICES ASSUME T # {} PROVE FALSE
  BY DEF T
<1>2. PICK j \in T : \A y \in T : j <= y
  <2>1. T \subseteq Nat
    BY <1>1
  <2> HIDE DEF T
  <2> QED BY <2>1, LeastElement
<1>3. CASE j = 0
  <2>1. 2 ^ 0 = 1 /\ 4 ^ 0 = 1
    BY Exponents
  <2>2. Good(0)
    BY <2>1
  <2> QED BY <1>3, <2>2
<1>4. CASE j # 0
  <2>1. j - 1 \in 0 .. SqrtBits - 1 /\ j - 1 + 1 = j /\ ~ (j <= j - 1) /\ j - 1 \in 0 .. SqrtBits
    BY <1>1, <1>4
  <2>2. Good(j - 1)
    BY <1>2, <2>1
  <2>3. 2 ^ j = 2 * 2 ^ (j - 1) /\ 4 ^ j = 4 * 4 ^ (j - 1)
    <3>1. 2 ^ (j - 1 + 1) = 2 * 2 ^ (j - 1)
      BY <2>1, Exponents
    <3>2. 4 ^ (j - 1 + 1) = 4 * 4 ^ (j - 1)
      BY <2>1, Exponents
    <3> QED BY <2>1, <3>1, <3>2
  <2> DEFINE x == 2 ^ (j - 1)
             y == 4 ^ (j - 1)
  <2>4. x \in Nat \ {0} /\ y = x * x
    BY <2>2
  <2>5. 2 ^ j = 2 * x /\ 4 ^ j = 4 * y
    BY <2>3
  <2> HIDE DEF x, y
  <2>6. 2 * x \in Nat \ {0} /\ 4 * y = (2 * x) * (2 * x)
    BY <2>4
  <2>7. Good(j)
    BY <2>5, <2>6
  <2> QED BY <2>7
<1> QED BY <1>3, <1>4

\* Where the loop has come to when the bits of the root from p's up are settled:
\* q is the root with its other bits zero, and result is q times p.
SqrtInv(value, s, p) ==
    \E q \in Nat : /\ s.result = q * p
                   /\ s.rest = value - q * q
                   /\ q * q <= value
                   /\ value < 4 ^ SqrtBits => value < (q + p) * (q + p)

\* A round of the loop settles one more bit of the root.
LEMMA SqrtStepKeeps ==
    ASSUME NEW value \in Nat, NEW s, NEW p \in Nat, SqrtInv(value, s, 2 * p)
    PROVE  SqrtInv(value, SqrtStep(s, p * p), p)
<1>1. PICK q \in Nat : /\ s.result = q * (2 * p)
                       /\ s.rest = value - q * q
                       /\ q * q <= value
                       /\ value < 4 ^ SqrtBits => value < (q + 2 * p) * (q + 2 * p)
  BY DEF SqrtInv
<1> DEFINE qp == q * p
           pp == p * p
           qq == q * q
<1>2. qp \in Nat /\ pp \in Nat /\ qq \in Nat
  OBVIOUS
<1>3. /\ q * (2 * p) = 2 * qp
      /\ (q + p) * (q + p) = qq + 2 * qp + pp
      /\ (q + p) * p = qp + pp
  OBVIOUS
<1>4. s.result = 2 * qp /\ s.rest = value - qq /\ qq <= value
  BY <1>1, <1>3
<1> HIDE DEF qp, pp, qq
<1>5. (2 * qp) \div 2 = qp
  BY <1>2
<1>6. CASE s.rest >= s.result + pp
  <2> DEFINE t == SqrtStep(s, pp)
  <2>1. t.rest = s.rest - (s.result + pp) /\ t.result = (s.result \div 2) + pp
    BY <1>6 DEF SqrtStep
  <2> HIDE DEF t
  <2>2. t.result = (q + p) * p
    BY <1>3, <1>4, <1>5, <2>1
  <2>3. t.rest = value - (q + p) * (q + p) /\ (q + p) * (q + p) <= value
    BY <1>2, <1>3, <1>4, <1>6, <2>1
  <2>4. value < 4 ^ SqrtBits => value < (q + p + p) * (q + p + p)
    <3>1. q + 2 * p = q + p + p
      OBVIOUS
    <3> QED BY <1>1, <3>1
  <2>5. q + p \in Nat
    OBVIOUS
  <2> QED BY <2>2, <2>3, <2>4, <2>5 DEF SqrtInv, t, pp
<1>7. CASE ~ (s.rest >= s.result + pp)
  <2> DEFINE t == SqrtStep(s, pp)
  <2>1. t.rest = s.rest /\ t.result = s.result \div 2
    BY <1>7 DEF SqrtStep
  <2> HIDE DEF t
  <2>2. t.result = q * p
    BY <1>4, <1>5, <2>1 DEF qp
  <2>3. t.rest = value - q * q /\ q * q <= value
    BY <1>4, <2>1 DEF qq
  <2>4. value < (q + p) * (q + p)
    BY <1>2, <1>3, <1>4, <1>7
  <2> QED BY <2>2, <2>3, <2>4 DEF SqrtInv, t, pp
<1> QED BY <1>6, <1>7

\* The loop's state after each round.
LEMMA LoopInvariant ==
    ASSUME NEW value \in Nat, NEW i \in 0 .. SqrtBits
    PROVE  SqrtInv(value, SqrtLoop(value)[i], 2 ^ (SqrtBits - i))
<1> DEFINE f == SqrtLoop(value)
           Good(j) == SqrtInv(value, f[j], 2 ^ (SqrtBits - j))
           T == {j \in 0 .. SqrtBits : ~ Good(j)}
<1>1. SqrtBits \in Nat
  BY ArbitrageConstants
<1>2. f = [j \in 0 .. SqrtBits |-> IF j = 0 THEN SqrtStart(value)
                                   ELSE SqrtStep(f[j - 1], 4 ^ (SqrtBits - j))]
  BY LoopDefined DEF IsLoop
<1> HIDE DEF f
<1> SUFFICES ASSUME T # {} PROVE FALSE
  BY DEF T, f
<1>3. PICK j \in T : \A y \in T : j <= y
  <2>1. T \subseteq Nat
    BY <1>1
  <2> HIDE DEF T
  <2> QED BY <2>1, LeastElement
<1>4. CASE j = 0
  <2>1. f[0] = SqrtStart(value)
    BY <1>1, <1>2
  <2> DEFINE p == 2 ^ SqrtBits
  <2>2. p \in Nat \ {0} /\ 4 ^ SqrtBits = p * p
    BY <1>1, Powers
  <2>3. SqrtBits - 0 = SqrtBits
    BY <1>1
  <2> HIDE DEF p
  <2>4. SqrtInv(value, f[0], p)
    <3>1. f[0].rest = value /\ f[0].result = 0
      BY <2>1 DEF SqrtStart
    <3>2. 0 * p = 0 /\ value - 0 * 0 = value /\ 0 * 0 <= value /\ (0 + p) * (0 + p) = p * p
      BY <2>2
    <3>3. 0 \in Nat
      OBVIOUS
    <3> QED BY <2>2, <3>1, <3>2, <3>3 DEF SqrtInv
  <2>5. Good(0)
    BY <2>3, <2>4 DEF p
  <2> QED BY <1>4, <2>5
<1>5. CASE j # 0
  <2>1. j - 1 \in 0 .. SqrtBits /\ ~ (j <= j - 1) /\ SqrtBits - j \in 0 .. SqrtBits - 1
        /\ SqrtBits - (j - 1) = SqrtBits - j + 1
    BY <1>1, <1>5
  <2>2. Good(j - 1)
    BY <1>3, <2>1
  <2> DEFINE p == 2 ^ (SqrtBits - j)
  <2>3. p \in Nat /\ 4 ^ (SqrtBits - j) = p * p
    BY <1>1, <2>1, Powers
  <2>4. 2 ^ (SqrtBits - j + 1) = 2 * p
    BY <2>1, Exponents
  <2>5. f[j] = SqrtStep(f[j - 1], 4 ^ (SqrtBits - j))
    BY <1>2, <1>5
  <2> HIDE DEF p
  <2>6. SqrtInv(value, f[j - 1], 2 * p)
    BY <2>1, <2>2, <2>4
  <2>7. SqrtInv(value, SqrtStep(f[j - 1], p * p), p)
    BY <2>3, <2>6, SqrtStepKeeps
  <2>8. Good(j)
    BY <2>3, <2>5, <2>7 DEF p
  <2> QED BY <2>8
<1> QED BY <1>4, <1>5

\* integer_sqrt returns a natural number; where its argument is narrow enough,
\* the largest whose square is not above it.
LEMMA IntegerSqrtIsRoot ==
    ASSUME NEW value \in Nat
    PROVE  LET root == IntegerSqrt(value)
           IN  /\ root \in Nat /\ root * root <= value
               /\ value < 4 ^ SqrtBits => value < (root + 1) * (root + 1)
<1>1. SqrtBits \in Nat /\ SqrtBits \in 0 .. SqrtBits /\ SqrtBits - SqrtBits = 0
  BY ArbitrageConstants
<1>2. 2 ^ 0 = 1
  BY Exponents
<1>3. SqrtInv(value, SqrtLoop(value)[SqrtBits], 1)
  BY <1>1, <1>2, LoopInvariant
<1> DEFINE s == SqrtLoop(value)[SqrtBits]
<1> HIDE DEF s
<1>4. PICK q \in Nat : /\ s.result = q * 1
                       /\ q * q <= value
                       /\ value < 4 ^ SqrtBits => value < (q + 1) * (q + 1)
  BY <1>3 DEF SqrtInv, s
<1>5. IntegerSqrt(value) = q
  BY <1>4 DEF IntegerSqrt, s
<1> QED BY <1>4, <1>5

\* Products of smaller numbers are smaller.
LEMMA ProductMonotonic ==
    ASSUME NEW a \in Nat, NEW b \in Nat, NEW c \in Nat, NEW d \in Nat, a <= c, b <= d
    PROVE  a * b \in Nat /\ c * d \in Nat /\ a * b <= c * d
<1>1. PICK i \in Nat : c = a + i
  <2>1. c - a \in Nat /\ c = a + (c - a)
    OBVIOUS
  <2> QED BY <2>1
<1>2. PICK j \in Nat : d = b + j
  <2>1. d - b \in Nat /\ d = b + (d - b)
    OBVIOUS
  <2> QED BY <2>1
<1>3. (a + i) * (b + j) = a * b + a * j + i * b + i * j
  OBVIOUS
<1>4. a * b \in Nat /\ a * j \in Nat /\ i * b \in Nat /\ i * j \in Nat
  OBVIOUS
<1> QED BY <1>1, <1>2, <1>3, <1>4

\* The word integer_sqrt works on holds C times D for all reserves that are words
\* (in the code, 2048 bits for words of 256).
WideEnough ==
    (FeeDenominator * FeeDenominator * (Word * Word)) * (FeeDenominator * FeeDenominator * (Word * Word))
        <= 4 ^ SqrtBits

\* The two factors of integer_sqrt's argument are small enough.
LEMMA CurveBounds ==
    ASSUME NEW r1 \in [Token -> Nat], NEW r2 \in [Token -> Nat],
           \A t \in Token : r1[t] < Word /\ r2[t] < Word, WideEnough
    PROVE  LET k == Curve(r1, r2)
           IN  k.c * k.d \in Nat /\ k.c * k.d < 4 ^ SqrtBits
<1> DEFINE n == FeeNumerator
           d == FeeDenominator
           k == Curve(r1, r2)
           w == Word
           m == d * d * (w * w)
<1>1. n \in Nat /\ d \in Nat /\ n <= d /\ d > 0 /\ w \in Nat /\ w > 0
  BY DexConstants, WordPositive
<1>2. r1["a"] \in Nat /\ r1["b"] \in Nat /\ r2["a"] \in Nat /\ r2["b"] \in Nat
  BY DEF Token
<1>3. r1["a"] <= w - 1 /\ r1["b"] <= w /\ r2["a"] <= w /\ r2["b"] <= w
  <2>1. r1["a"] < w /\ r1["b"] < w /\ r2["a"] < w /\ r2["b"] < w
    BY DEF Token
  <2> HIDE DEF w
  <2> QED BY <1>1, <1>2, <2>1
<1>4. k.c = n * n * r1["a"] * r2["b"] /\ k.d = d * d * r1["b"] * r2["a"]
  BY DEF Curve
<1> HIDE DEF n, d, w
<1>5. n * n <= d * d /\ n * n \in Nat /\ d * d \in Nat
  BY <1>1, ProductMonotonic
<1>6. /\ r1["a"] * r2["b"] <= (w - 1) * w /\ r1["b"] * r2["a"] <= w * w
      /\ r1["a"] * r2["b"] \in Nat /\ r1["b"] * r2["a"] \in Nat /\ w * w \in Nat
      /\ (w - 1) * w \in Nat
  <2>1. w - 1 \in Nat
    BY <1>1
  <2> QED BY <1>1, <1>2, <1>3, <2>1, ProductMonotonic
<1>7. /\ (n * n) * (r1["a"] * r2["b"]) <= (d * d) * ((w - 1) * w)
      /\ (d * d) * (r1["b"] * r2["a"]) <= m
      /\ (n * n) * (r1["a"] * r2["b"]) \in Nat /\ (d * d) * (r1["b"] * r2["a"]) \in Nat
      /\ m \in Nat
  BY <1>5, <1>6, ProductMonotonic
<1>8. (d * d) * ((w - 1) * w) < m /\ (d * d) * ((w - 1) * w) \in Nat
  <2>1. (w - 1) * w = w * w - w
    BY <1>1
  <2>2. (d * d) * (w * w - w) = (d * d) * (w * w) - (d * d) * w
    BY <1>1
  <2>3. (d * d) * w > 0 /\ (d * d) * w \in Nat
    BY <1>1
  <2>4. (d * d) * ((w - 1) * w) \in Nat
    BY <1>5, <1>6
  <2> QED BY <1>7, <2>1, <2>2, <2>3, <2>4
<1>9. k.c = (n * n) * (r1["a"] * r2["b"]) /\ k.d = (d * d) * (r1["b"] * r2["a"])
  BY <1>1, <1>2, <1>4
<1> HIDE DEF k, m
<1>10. k.c \in Nat /\ k.d \in Nat /\ k.c < m /\ k.d <= m /\ m \in Nat
  BY <1>7, <1>8, <1>9
<1>11. k.c * k.d \in Nat /\ k.c * k.d < m * m
  <2>1. k.c <= m - 1 /\ m - 1 \in Nat
    BY <1>10
  <2>2. k.c * k.d \in Nat /\ k.c * k.d <= (m - 1) * m
    BY <1>10, <2>1, ProductMonotonic
  <2>3. (m - 1) * m = m * m - m /\ m > 0 /\ m * m \in Nat
    BY <1>10
  <2> QED BY <1>10, <2>2, <2>3
<1>12. m * m <= 4 ^ SqrtBits
  BY DEF WideEnough, m, d, w
<1>13. m * m \in Nat
  BY <1>10
<1>14. 4 ^ SqrtBits \in Nat
  <2>1. SqrtBits \in 0 .. SqrtBits
    BY ArbitrageConstants
  <2> QED BY <2>1, Powers
<1>15. k.c * k.d < 4 ^ SqrtBits
  BY <1>11, <1>12, <1>13, <1>14
<1> QED BY <1>11, <1>15 DEF k

\* Every reserve is a word.
LEMMA ReservesFit ==
    ASSUME PoolInv, NEW p \in Pool, NEW t \in Token
    PROVE  chain.reserve[p][t] \in Nat /\ chain.reserve[p][t] < Word
<1>1. /\ chain.reserve[p][t] \in Nat /\ p \in Holder
      /\ chain.balance[t] \in [Holder -> Nat] /\ chain.balance[t][p] \in Nat
  BY DEF PoolInv, Chain, Holder
<1>2. chain.reserve[p][t] <= chain.balance[t][p]
  BY DEF PoolInv, Solvent, Backed
<1>3. Total(chain.balance[t]) \in Nat /\ chain.balance[t][p] <= Total(chain.balance[t])
  BY <1>1, TotalBounds
<1>4. Total(chain.balance[t]) <= Word - 1
  BY DEF PoolInv, SupplyConserved, Conserved, Fits, MaxWord
<1>5. Word \in Nat
  BY WordPositive
<1> HIDE DEF Word
<1> QED BY <1>1, <1>2, <1>3, <1>4, <1>5

\* integer_sqrt is exact on every route of every chain the contracts can reach,
\* if the word it works on is wide enough for the product it is given.
THEOREM SqrtsExact == ASSUME WideEnough PROVE Spec => []SqrtExact
<1>1. ASSUME PoolInv PROVE SqrtExact
  <2> SUFFICES ASSUME NEW p \in Pool, NEW q \in Pool
               PROVE  LET k == Curve(chain.reserve[p], chain.reserve[q])
                          root == IntegerSqrt(k.c * k.d)
                      IN  root * root <= k.c * k.d /\ k.c * k.d < (root + 1) * (root + 1)
    BY DEF SqrtExact
  <2> DEFINE r1 == chain.reserve[p]
             r2 == chain.reserve[q]
             k == Curve(r1, r2)
             value == k.c * k.d
  <2>1. r1 \in [Token -> Nat] /\ r2 \in [Token -> Nat]
    BY <1>1 DEF PoolInv, Chain
  <2>2. \A t \in Token : r1[t] < Word /\ r2[t] < Word
    BY <1>1, ReservesFit
  <2> HIDE DEF r1, r2
  <2>3. value \in Nat /\ value < 4 ^ SqrtBits
    BY <2>1, <2>2, CurveBounds
  <2> HIDE DEF value
  <2>4. LET root == IntegerSqrt(value)
        IN  root * root <= value /\ value < (root + 1) * (root + 1)
    BY <2>3, IntegerSqrtIsRoot
  <2> QED BY <2>4 DEF value, r1, r2
<1> QED BY <1>1, PoolInvHolds, PTL

\* optimal_amount_in_b returns a natural number, if any.
LEMMA OptimalIsNat ==
    ASSUME NEW r1 \in [Token -> Nat], NEW r2 \in [Token -> Nat], OptimalAmountInB(r1, r2) # None
    PROVE  OptimalAmountInB(r1, r2) \in Nat
<1> DEFINE k == Curve(r1, r2)
           root == IntegerSqrt(k.c * k.d)
           amount == (root - k.d) \div k.e
<1>1. r1["a"] \in Nat /\ r1["b"] \in Nat /\ r2["a"] \in Nat /\ r2["b"] \in Nat
  BY DEF Token
<1>2. FeeNumerator \in Nat /\ FeeDenominator \in Nat /\ MaxAmountInB \in Nat
  BY DexConstants, ArbitrageConstants
<1>3. k.c \in Nat /\ k.d \in Nat /\ k.e \in Nat
  BY <1>1, <1>2 DEF Curve
<1> HIDE DEF k
<1>4. k.c * k.d \in Nat
  BY <1>3
<1>5. root \in Nat
  BY <1>4, IntegerSqrtIsRoot
<1> HIDE DEF root
<1>6. k.e # 0 /\ ~ (root <= k.d)
  BY DEF OptimalAmountInB, k, root
<1>7. amount \in Nat
  <2>1. root - k.d \in Nat /\ k.e \in Nat /\ k.e > 0
    BY <1>3, <1>5, <1>6
  <2> DEFINE x == root - k.d
             y == k.e
  <2> HIDE DEF x, y
  <2>2. x \div y \in Nat
    BY <2>1 DEF x, y
  <2> QED BY <2>2 DEF x, y
<1> HIDE DEF amount
<1>8. OptimalAmountInB(r1, r2) \in {amount, MaxAmountInB}
  BY DEF OptimalAmountInB, amount, k, root
<1> QED BY <1>2, <1>7, <1>8

-----------------------------------------------------------------------------
(* The amount chosen                                                       *)

\* Products of integers by a natural number keep their order.
LEMMA ScaleOrder ==
    ASSUME NEW u \in Int, NEW v \in Int, NEW m \in Nat, u <= v
    PROVE  u * m <= v * m /\ m * u <= m * v
<1>1. PICK i \in Nat : v = u + i
  <2>1. v - u \in Nat /\ v = u + (v - u)
    OBVIOUS
  <2> QED BY <2>1
<1>2. (u + i) * m = u * m + i * m /\ i * m \in Nat /\ u * m \in Int
  OBVIOUS
<1>3. u * m = m * u /\ v * m = m * v
  OBVIOUS
<1> QED BY <1>1, <1>2, <1>3

\* A route pays at most what the curve says: rounding is down, twice. a of the
\* token between is at most Q/P, and b at most the second pool's price of it.
LEMMA RouteBelowCurve ==
    ASSUME NEW a \in Nat, NEW b \in Nat, NEW M \in Nat, NEW P \in Nat, NEW Q \in Nat,
           NEW n \in Nat, NEW rb \in Nat, a > 0, n > 0,
           a * P <= Q, b * (M + a * n) <= a * n * rb
    PROVE  b * (M * P + n * Q) <= n * rb * Q
<1> DEFINE K == a * n
<1>1. K \in Nat /\ K > 0
  OBVIOUS
<1>2. b * M + b * K <= K * rb /\ b * M \in Nat
  <2>1. b * (M + a * n) = b * M + b * K
    OBVIOUS
  <2> QED BY <2>1
<1>3. b <= rb
  <2> HIDE DEF K
  <2>1. K * b <= K * rb
    <3>1. b * K = K * b /\ b * K \in Nat
      BY <1>1
    <3>2. K * rb \in Nat
      BY <1>1
    <3> DEFINE x == b * M
               y == b * K
               z == K * rb
    <3>3. x + y <= z /\ x \in Nat /\ y \in Nat /\ z \in Nat
      BY <1>2, <3>1, <3>2
    <3> HIDE DEF x, y, z
    <3>4. y <= z
      BY <3>3
    <3> QED BY <3>1, <3>4 DEF y, z
  <2> QED BY <1>1, <2>1, CancelFactor
<1>4. PICK w \in Nat : rb = b + w
  <2>1. rb - b \in Nat /\ rb = b + (rb - b)
    BY <1>3
  <2> QED BY <2>1
<1>5. b * M <= (n * w) * a
  <2>1. K * (b + w) = b * K + (n * w) * a
    OBVIOUS
  <2>2. b * K \in Int /\ (n * w) * a \in Int
    OBVIOUS
  <2> HIDE DEF K
  <2> QED BY <1>2, <1>4, <2>1, <2>2
<1>6. (b * M) * P <= ((n * w) * a) * P
  <2>1. b * M \in Int /\ (n * w) * a \in Int
    OBVIOUS
  <2> QED BY <1>5, <2>1, ScaleOrder
<1>7. (n * w) * (a * P) <= (n * w) * Q
  <2>1. n * w \in Nat /\ a * P \in Int
    OBVIOUS
  <2> QED BY <2>1, ScaleOrder
<1>8. ((n * w) * a) * P = (n * w) * (a * P)
  OBVIOUS
<1>9. b * (M * P + n * Q) = (b * M) * P + (b * n) * Q
  OBVIOUS
<1>10. n * (b + w) * Q = (n * w) * Q + (b * n) * Q
  OBVIOUS
<1>11. /\ (b * M) * P \in Int /\ ((n * w) * a) * P \in Int /\ (n * w) * Q \in Int
       /\ (b * n) * Q \in Int
  OBVIOUS
<1> DEFINE x1 == (b * M) * P
           x2 == ((n * w) * a) * P
           x3 == (n * w) * Q
           x4 == (b * n) * Q
<1>12. x1 <= x2 /\ x2 <= x3 /\ x1 \in Int /\ x2 \in Int /\ x3 \in Int /\ x4 \in Int
  BY <1>6, <1>7, <1>8, <1>11
<1>13. b * (M * P + n * Q) = x1 + x4 /\ n * rb * Q = x3 + x4
  BY <1>4, <1>9, <1>10
<1> HIDE DEF x1, x2, x3, x4
<1> QED BY <1>12, <1>13

\* And it pays less than v + U below the curve's value: v - 1 is what it pays, and
\* a unit of the token between, lost by rounding, is worth less than U.
LEMMA RouteAboveCurve ==
    ASSUME NEW a \in Nat, NEW v \in Nat, NEW U \in Nat, NEW M \in Nat, NEW P \in Nat,
           NEW Q \in Nat, NEW n \in Nat, NEW rb \in Nat, P > 0,
           Q < (a + 1) * P, a * n * rb < v * (M + a * n), n * rb < U * M
    PROVE  n * rb * Q < (v + U) * (M * P + n * Q)
<1> DEFINE UMP == (U * M) * P
           VMP == (v * M) * P
           VNQ == (v * n) * Q
           UNQ == (U * n) * Q
<1>1. (v + U) * (M * P + n * Q) = VMP + UMP + VNQ + UNQ
  OBVIOUS
<1>2. UMP \in Nat /\ VMP \in Nat /\ VNQ \in Nat /\ UNQ \in Nat
  OBVIOUS
<1>3. (n * rb) * P < UMP
  <2>1. n * rb + 1 <= U * M /\ n * rb + 1 \in Int /\ U * M \in Int
    OBVIOUS
  <2>2. (n * rb + 1) * P <= (U * M) * P
    BY <2>1, ScaleOrder
  <2>3. (n * rb + 1) * P = (n * rb) * P + P /\ (n * rb) * P \in Int
    OBVIOUS
  <2> HIDE DEF UMP
  <2> QED BY <1>2, <2>2, <2>3 DEF UMP
<1>4. CASE rb <= v
  <2>1. PICK w \in Nat : v = rb + w
    <3>1. v - rb \in Nat /\ v = rb + (v - rb)
      BY <1>4
    <3> QED BY <3>1
  <2>2. ((rb + w) * n) * Q = n * rb * Q + (w * n) * Q
    OBVIOUS
  <2>3. (w * n) * Q \in Nat /\ n * rb * Q \in Nat /\ (n * rb) * P \in Nat
    OBVIOUS
  <2>4. n * rb * Q <= VNQ
    <3>1. VNQ = n * rb * Q + (w * n) * Q
      BY <2>1, <2>2
    <3> HIDE DEF VNQ
    <3> QED BY <2>3, <3>1
  <2>5. UMP > 0
    <3> HIDE DEF UMP
    <3> QED BY <1>2, <1>3, <2>3
  <2> HIDE DEF UMP, VMP, VNQ, UNQ
  <2> QED BY <1>1, <1>2, <2>3, <2>4, <2>5
<1>5. CASE ~ (rb <= v)
  <2>1. PICK w \in Nat : rb = v + w
    <3>1. rb - v \in Nat /\ rb = v + (rb - v)
      BY <1>5
    <3> QED BY <3>1
  <2>2. (n * w) * a < v * M
    <3>1. a * n * (v + w) = (n * w) * a + v * (a * n) /\ v * (M + a * n) = v * M + v * (a * n)
      OBVIOUS
    <3>2. (n * w) * a \in Int /\ v * (a * n) \in Int /\ v * M \in Int
      OBVIOUS
    <3>3. a * n * (v + w) < v * (M + a * n)
      BY <2>1
    <3> QED BY <3>1, <3>2, <3>3
  <2>3. ((n * w) * a) * P <= VMP
    <3>1. (n * w) * a \in Int /\ v * M \in Int /\ (n * w) * a <= v * M
      BY <2>2
    <3> QED BY <3>1, ScaleOrder
  <2>4. (n * w) * P <= (n * rb) * P
    <3>1. n * (v + w) = n * w + n * v /\ n * w \in Nat /\ n * v \in Nat
      OBVIOUS
    <3>2. n * w <= n * rb /\ n * w \in Int /\ n * rb \in Int
      BY <2>1, <3>1
    <3> QED BY <3>2, ScaleOrder
  <2>5. (n * w) * Q <= (n * w) * ((a + 1) * P)
    <3>1. n * w \in Nat /\ (a + 1) * P \in Int
      OBVIOUS
    <3> QED BY <3>1, ScaleOrder
  <2>6. (n * w) * ((a + 1) * P) = ((n * w) * a) * P + (n * w) * P
    OBVIOUS
  <2>7. n * (v + w) * Q = (n * w) * Q + VNQ
    OBVIOUS
  <2> DEFINE y1 == (n * w) * Q
             y2 == ((n * w) * a) * P
             y3 == (n * w) * P
             y4 == (n * rb) * P
  <2>8. y1 \in Int /\ y2 \in Int /\ y3 \in Int /\ y4 \in Int
    OBVIOUS
  <2>9. y1 <= y2 + y3 /\ y2 <= VMP /\ y3 <= y4 /\ y4 < UMP
    BY <1>3, <2>3, <2>4, <2>5, <2>6
  <2>10. n * rb * Q = y1 + VNQ
    BY <2>1, <2>7
  <2> HIDE DEF UMP, VMP, VNQ, UNQ, y1, y2, y3, y4
  <2> QED BY <1>1, <1>2, <2>8, <2>9, <2>10
<1> QED BY <1>4, <1>5

\* What any amount x earns beyond xh, whose point h on the curve is within E below
\* the square root of C*D, is at most one unit (times the two denominators).
LEMMA LossWithinUnit ==
    ASSUME NEW cd \in Nat, NEW E \in Nat, NEW h \in Nat, NEW y \in Nat, NEW d \in Int,
           E <= h, y = h + E * d, h * h <= cd,
           d > 0 => cd < (h + E) * (h + E)
    PROVE  d * (cd - y * h) <= y * h
<1>1. cd \in Int /\ y * h \in Nat /\ cd - y * h \in Int
  OBVIOUS
<1>2. CASE d <= 0
  <2>1. PICK e \in Nat : d = -e
    <3>1. -d \in Nat /\ d = -(-d)
      BY <1>2
    <3> QED BY <3>1
  <2>2. y * h <= h * h
    <3>1. E * (-e) = -(E * e) /\ E * e \in Nat
      OBVIOUS
    <3>2. y <= h
      BY <2>1, <3>1
    <3> QED BY <3>2, ScaleOrder
  <2>3. cd - y * h \in Nat
    <3>1. h * h \in Nat
      OBVIOUS
    <3> DEFINE z == y * h
               hh == h * h
    <3>2. z <= hh /\ hh <= cd /\ z \in Nat /\ hh \in Nat
      BY <1>1, <2>2, <3>1
    <3> HIDE DEF z, hh
    <3>3. cd - z \in Nat
      BY <3>2
    <3> QED BY <3>3 DEF z
  <2> DEFINE m == cd - y * h
  <2> HIDE DEF m
  <2>4. (-e) * m = -(e * m) /\ e * m \in Nat
    BY <2>3 DEF m
  <2>5. d * m <= 0
    BY <2>1, <2>4
  <2> QED BY <1>1, <2>5 DEF m
<1>3. CASE d > 0
  <2>1. PICK e \in Nat : d = e + 1
    <3>1. d - 1 \in Nat /\ d = (d - 1) + 1
      BY <1>3
    <3> QED BY <3>1
  <2>2. PICK g \in Nat : h = E + g
    <3>1. h - E \in Nat /\ h = E + (h - E)
      OBVIOUS
    <3> QED BY <3>1
  <2> DEFINE top == (h + E) * (h + E)
  <2>3. cd <= top /\ top \in Int
    BY <1>3
  <2>4. d * (cd - y * h) <= d * (top - y * h)
    <3>1. cd - y * h <= top - y * h /\ top - y * h \in Int
      <4> DEFINE z == y * h
      <4>1. z \in Int
        OBVIOUS
      <4> HIDE DEF z, top
      <4>2. cd - z <= top - z /\ top - z \in Int
        BY <2>3, <4>1
      <4> QED BY <4>2 DEF z
    <3>2. d \in Nat
      BY <1>3
    <3> HIDE DEF top
    <3> QED BY <1>1, <3>1, <3>2, ScaleOrder
  <2>5. d * (top - y * h) <= y * h
    \* With h = E + g and d = e + 1 the difference is a sum of products.
    <3> DEFINE yy == (E + g) + E * (e + 1)
               t == ((E + g) + E) * ((E + g) + E)
    <3>1. yy * (E + g) - (e + 1) * (t - yy * (E + g))
            = (E + g) * (E + g) - (e + 1) * (E * E) + (E * e) * (e + 1) * (E + g)
      OBVIOUS
    <3>2. (E + g) * (E + g) - (e + 1) * (E * E) + (E * e) * (e + 1) * (E + g)
            = g * g + 2 * (E * g) + (E * E) * (e * e) + (E * e) * (e + 1) * g
      OBVIOUS
    <3>3. /\ g * g \in Nat /\ E * g \in Nat /\ (E * E) * (e * e) \in Nat
          /\ (E * e) * (e + 1) * g \in Nat
      OBVIOUS
    <3>4. y = yy /\ top = t /\ h = E + g /\ d = e + 1
      BY <2>1, <2>2
    <3> DEFINE s == g * g + 2 * (E * g) + (E * E) * (e * e) + (E * e) * (e + 1) * g
               left == d * (top - y * h)
    <3>5. s \in Nat
      BY <3>3
    <3>6. y * h - left = s
      BY <3>1, <3>2, <3>4
    <3>7. left \in Int /\ y * h \in Int
      BY <2>3
    <3> HIDE DEF s, left, top
    <3> QED BY <3>5, <3>6, <3>7 DEF left
  <2>6. d * (cd - y * h) \in Int /\ d * (top - y * h) \in Int
    OBVIOUS
  <2> HIDE DEF top
  <2> DEFINE l1 == d * (cd - y * h)
             l2 == d * (top - y * h)
  <2> HIDE DEF l1, l2
  <2>7. l1 <= l2 /\ l2 <= y * h /\ l1 \in Int /\ l2 \in Int /\ y * h \in Int
    BY <1>1, <2>4, <2>5, <2>6 DEF l1, l2
  <2> QED BY <2>7 DEF l1
<1> QED BY <1>2, <1>3

\* Amount x pays b, on or below the curve, and amount xh pays bh, less than V below
\* it; if x's point earns at most one unit more than xh's, x earns at most V more.
LEMMA EarnsLittleMore ==
    ASSUME NEW b \in Nat, NEW x \in Nat, NEW V \in Nat, NEW xh \in Nat,
           NEW C \in Nat, NEW D \in Nat, NEW E \in Nat, NEW y \in Nat, NEW h \in Nat,
           y = D + E * x, h = D + E * xh, y > 0,
           b * y <= C * x, C * xh < V * h,
           (x - xh) * (C * D - y * h) <= y * h
    PROVE  b - x <= V - xh
<1> SUFFICES ASSUME b >= V + (x - xh) + 1 PROVE FALSE
  OBVIOUS
<1> DEFINE d == x - xh
           yh == y * h
           vyh == V * yh
           cxh == (C * x) * h
           chy == (C * xh) * y
<1>1. /\ d \in Int /\ yh \in Nat /\ vyh \in Int /\ cxh \in Int /\ chy \in Int
      /\ d * yh \in Int /\ d * (C * D) \in Int
  OBVIOUS
<1>2. vyh + d * yh + yh <= cxh
  <2>1. (b * y) * h <= cxh
    <3>1. b * y \in Int /\ C * x \in Int
      OBVIOUS
    <3> QED BY <3>1, ScaleOrder
  <2>2. (V + d + 1) * yh <= b * yh
    <3>1. V + d + 1 \in Int /\ V + d + 1 <= b
      OBVIOUS
    <3> HIDE DEF d, yh
    <3> QED BY <1>1, <3>1, ScaleOrder
  <2>3. b * yh = (b * y) * h /\ (V + d + 1) * yh = vyh + d * yh + yh
    OBVIOUS
  <2>4. b * yh \in Int
    OBVIOUS
  <2> HIDE DEF vyh, cxh, yh, d
  <2> DEFINE byh == b * yh
             dyh == d * yh
             most == (V + d + 1) * yh
  <2>5. most <= byh /\ byh <= cxh /\ most = vyh + dyh + yh /\ byh \in Int /\ dyh \in Int
    BY <1>1, <2>1, <2>2, <2>3, <2>4
  <2> HIDE DEF byh, dyh, most
  <2>6. vyh + dyh + yh <= cxh
    BY <1>1, <2>5
  <2> QED BY <2>6 DEF dyh
<1>3. chy < vyh
  <2>1. C * xh + 1 <= V * h /\ C * xh + 1 \in Int /\ V * h \in Int
    OBVIOUS
  <2>2. (C * xh + 1) * y <= (V * h) * y
    BY <2>1, ScaleOrder
  <2>3. (C * xh + 1) * y = chy + y /\ (V * h) * y = vyh
    OBVIOUS
  <2> HIDE DEF chy, vyh
  <2> QED BY <1>1, <2>2, <2>3
<1>4. cxh - chy = d * (C * D)
  <2>1. (C * x) * (D + E * xh) - (C * xh) * (D + E * x) = (x - xh) * (C * D)
    OBVIOUS
  <2> QED BY <2>1
<1>5. d * (C * D) - d * yh <= yh
  <2>1. d * (C * D - yh) = d * (C * D) - d * yh
    OBVIOUS
  <2> QED BY <2>1
<1> HIDE DEF d, yh, vyh, cxh, chy
<1> DEFINE dcd == d * (C * D)
           dyh == d * yh
<1>6. /\ vyh + dyh + yh <= cxh /\ chy < vyh /\ cxh - chy = dcd /\ dcd - dyh <= yh
      /\ dcd \in Int /\ dyh \in Int
  BY <1>1, <1>2, <1>3, <1>4, <1>5
<1> HIDE DEF dcd, dyh
<1> QED BY <1>1, <1>6

\* Where the square root of C*D is less than E above D no amount x earns more than
\* F, one unit and E/D rounded down.
LEMMA EarnsNextToNothing ==
    ASSUME NEW b \in Nat, NEW x \in Nat, NEW C \in Nat, NEW D \in Nat, NEW E \in Nat,
           NEW F \in Nat, x > 0, D > 0,
           b * (D + E * x) <= C * x, C * D < (D + E) * (D + E), E <= F * D
    PROVE  b - x <= F
<1> SUFFICES ASSUME b >= x + F + 1 PROVE FALSE
  OBVIOUS
<1>1. PICK z \in Nat : x = z + 1
  <2>1. x - 1 \in Nat /\ x = (x - 1) + 1
    OBVIOUS
  <2> QED BY <2>1
<1>2. PICK g \in Nat : F * D = E + g
  <2>1. F * D \in Nat
    OBVIOUS
  <2>2. F * D - E \in Nat /\ F * D = E + (F * D - E)
    BY <2>1
  <2> QED BY <2>2
<1> DEFINE y == D + E * x
           left == ((x + F + 1) * y) * D
           mid == (C * D) * x
           right == ((D + E) * (D + E)) * x
<1>3. y \in Nat /\ left \in Int /\ mid \in Int /\ right \in Int
  OBVIOUS
<1>4. left <= mid
  <2>1. (x + F + 1) * y <= b * y
    BY <1>3, ScaleOrder
  <2>2. (x + F + 1) * y \in Int /\ b * y \in Int /\ C * x \in Int
    OBVIOUS
  <2> DEFINE u == (x + F + 1) * y
             w == b * y
  <2>3. u <= w /\ w <= C * x /\ u \in Int /\ w \in Int /\ C * x \in Int
    BY <2>1, <2>2
  <2> HIDE DEF u, w, y
  <2>4. u <= C * x
    BY <2>3
  <2>5. u * D <= (C * x) * D
    BY <2>3, <2>4, ScaleOrder
  <2>6. (C * x) * D = mid
    OBVIOUS
  <2> QED BY <2>5, <2>6 DEF u
<1>5. mid < right
  <2>1. C * D + 1 <= (D + E) * (D + E) /\ C * D + 1 \in Int /\ (D + E) * (D + E) \in Int
    OBVIOUS
  <2>2. (C * D + 1) * x <= right
    BY <2>1, ScaleOrder
  <2>3. (C * D + 1) * x = mid + x
    OBVIOUS
  <2> HIDE DEF mid, right
  <2> QED BY <1>3, <2>2, <2>3
<1>6. left - right
        = (E * D) * (x * x) + D * D + (F * D) * D + (F * D) * (E * x) - D * (E * x) - (E * E) * x
  OBVIOUS
<1>7. (F * D) * (E * x) = (E * E) * x + g * (E * x)
  <2>1. (E + g) * (E * x) = (E * E) * x + g * (E * x)
    OBVIOUS
  <2> QED BY <1>2, <2>1
<1>8. (E * D) * (x * x) = (E * D) * (z * x) + D * (E * x)
  <2>1. (E * D) * ((z + 1) * x) = (E * D) * (z * x) + D * (E * x)
    OBVIOUS
  <2> QED BY <1>1, <2>1
<1>9. /\ (E * D) * (z * x) \in Nat /\ D * D \in Nat /\ (F * D) * D \in Nat
      /\ g * (E * x) \in Nat /\ (E * E) * x \in Int /\ D * (E * x) \in Int
  OBVIOUS
<1> DEFINE k1 == (E * D) * (z * x)
           k2 == D * D
           k3 == (F * D) * D
           k4 == g * (E * x)
           k5 == (E * E) * x
           k6 == D * (E * x)
           k7 == (E * D) * (x * x)
           k8 == (F * D) * (E * x)
<1>10. /\ left - right = k7 + k2 + k3 + k8 - k6 - k5 /\ k8 = k5 + k4 /\ k7 = k1 + k6
       /\ k1 \in Nat /\ k2 \in Nat /\ k3 \in Nat /\ k4 \in Nat /\ k5 \in Int /\ k6 \in Int
  BY <1>6, <1>7, <1>8, <1>9
<1> HIDE DEF left, mid, right, k1, k2, k3, k4, k5, k6, k7, k8
<1> QED BY <1>3, <1>4, <1>5, <1>10

\* Division rounds down by less than the divisor.
LEMMA QuotientNext ==
    ASSUME NEW u \in Nat, NEW w \in Nat, w > 0
    PROVE  u \div w \in Nat /\ (u \div w) * w <= u /\ u < (u \div w + 1) * w
OBVIOUS

\* What a unit of token a sells for, rounded down.
UnitA(sell) == (FeeNumerator * sell["b"]) \div (FeeDenominator * sell["a"])

\* Where no product overflows, a route pays out between the curve's value and one
\* unit of b and the price of one of a below it.
LEMMA RouteOnCurve ==
    ASSUME NEW buy \in [Token -> Nat], NEW sell \in [Token -> Nat], NEW x \in Nat,
           RouteFits(buy, sell, x)
    PROVE  LET k == Curve(buy, sell)
               a == GetAmountOut(x, buy["b"], buy["a"])
               b == GetAmountOut(a, sell["a"], sell["b"])
           IN  /\ x > 0 /\ b \in Nat
               /\ k.c \in Nat \ {0} /\ k.d \in Nat \ {0} /\ k.e \in Nat \ {0}
               /\ UnitA(sell) \in Nat
               /\ ProfitB(buy, sell, x) = {b - x}
               /\ b * (k.d + k.e * x) <= k.c * x
               /\ k.c * x < (b + 1 + (UnitA(sell) + 1)) * (k.d + k.e * x)
<1> DEFINE k == Curve(buy, sell)
           n == FeeNumerator
           d == FeeDenominator
           A1 == buy["a"]
           B1 == buy["b"]
           A2 == sell["a"]
           B2 == sell["b"]
           a == GetAmountOut(x, B1, A1)
           b == GetAmountOut(a, A2, B2)
           U == UnitA(sell) + 1
           M == A2 * d
           P == B1 * d + x * n
           Q == x * n * A1
<1>1. n \in Nat /\ n > 0 /\ d \in Nat /\ d > 0
  BY DexConstants
<1>2. A1 \in Nat /\ B1 \in Nat /\ A2 \in Nat /\ B2 \in Nat
  BY DEF Token
<1>3. HasAmountOut(x, B1, A1) /\ HasAmountOut(a, A2, B2)
  BY DEF RouteFits
<1>4. x > 0 /\ A1 > 0 /\ B1 > 0 /\ a > 0 /\ A2 > 0 /\ B2 > 0
  BY <1>3 DEF HasAmountOut
<1>5. AmountOut(x, B1, A1) = a /\ a \in Nat
  BY <1>2, <1>3, AmountOutExact
<1>6. AmountOut(a, A2, B2) = b /\ b \in Nat
  <2> HIDE DEF a
  <2> QED BY <1>2, <1>3, <1>5, AmountOutExact
<1>7. ProfitB(buy, sell, x) = {b - x}
  <2> DEFINE r == [amount_in_b |-> x, amount_out_a |-> a, amount_out_b |-> b]
  <2>1. a # None /\ b # None
    BY <1>5, <1>6 DEF None
  <2> HIDE DEF a, b
  <2>2. AmountOut(x, buy.b, buy.a) = a /\ AmountOut(a, sell.a, sell.b) = b
    BY <1>5, <1>6
  <2>3. QuoteRoute(buy, sell, x) = {r}
    BY <2>1, <2>2 DEF QuoteRoute
  <2>4. r.amount_out_b - r.amount_in_b = b - x
    OBVIOUS
  <2> HIDE DEF r
  <2> QED BY <2>3, <2>4 DEF ProfitB
<1>8. a = Q \div P /\ b = (a * n * B2) \div (M + a * n) /\ U = ((n * B2) \div (d * A2)) + 1
  BY DEF GetAmountOut, UnitA
<1>9. k.c = n * n * A1 * B2 /\ k.d = d * d * B1 * A2 /\ k.e = n * d * A2 + n * n * A1
  BY DEF Curve
<1> HIDE DEF n, d, A1, B1, A2, B2, a, b, U, k
<1>10. P \in Nat /\ P > 0 /\ Q \in Nat /\ M \in Nat /\ M + a * n \in Nat /\ M + a * n > 0
       /\ a * n * B2 \in Nat /\ n * B2 \in Nat /\ d * A2 \in Nat /\ d * A2 > 0
  <2>1. B1 * d > 0 /\ x * n > 0 /\ a * n > 0 /\ d * A2 > 0
    BY <1>1, <1>2, <1>4, <1>5
  <2>2. /\ B1 * d \in Nat /\ x * n \in Nat /\ a * n \in Nat /\ d * A2 \in Nat /\ M \in Nat
        /\ Q \in Nat /\ a * n * B2 \in Nat /\ n * B2 \in Nat
    BY <1>1, <1>2, <1>5
  <2> HIDE DEF M, Q
  <2> QED BY <2>1, <2>2
<1>11. a * P <= Q /\ Q < (a + 1) * P
  <2> HIDE DEF P, Q
  <2> QED BY <1>8, <1>10, QuotientNext
<1>12. b * (M + a * n) <= a * n * B2 /\ a * n * B2 < (b + 1) * (M + a * n)
  <2> DEFINE u == a * n * B2
             w == M + a * n
  <2>1. u \in Nat /\ w \in Nat /\ w > 0 /\ b = u \div w
    BY <1>8, <1>10
  <2> HIDE DEF u, w
  <2>2. b * w <= u /\ u < (b + 1) * w
    BY <2>1, QuotientNext
  <2> QED BY <2>2 DEF u, w
<1>13. U \in Nat /\ UnitA(sell) \in Nat /\ n * B2 < U * M
  <2> DEFINE u == n * B2
             w == d * A2
  <2>1. u \in Nat /\ w \in Nat /\ w > 0 /\ U = (u \div w) + 1 /\ w = M
    BY <1>1, <1>2, <1>8, <1>10
  <2>2. U = UnitA(sell) + 1 /\ UnitA(sell) = u \div w
    BY DEF U, UnitA, u, w, n, d, A2, B2
  <2> HIDE DEF u, w, M
  <2>3. u \div w \in Nat /\ u < ((u \div w) + 1) * w
    BY <2>1, QuotientNext
  <2> QED BY <2>1, <2>2, <2>3 DEF u
<1>14. M * P + n * Q = k.d + k.e * x /\ n * B2 * Q = k.c * x
  BY <1>1, <1>2, <1>9
<1>15. b * (k.d + k.e * x) <= k.c * x
  <2>1. b * (M * P + n * Q) <= n * B2 * Q
    <3> HIDE DEF M, P, Q
    <3> QED BY <1>1, <1>2, <1>4, <1>5, <1>6, <1>10, <1>11, <1>12, RouteBelowCurve
  <2> QED BY <1>14, <2>1
<1>16. k.c * x < (b + 1 + U) * (k.d + k.e * x)
  <2>1. n * B2 * Q < (b + 1 + U) * (M * P + n * Q)
    <3> DEFINE v == b + 1
    <3>1. v \in Nat
      BY <1>6
    <3> HIDE DEF M, P, Q, v
    <3>2. a * n * B2 < v * (M + a * n)
      BY <1>12 DEF v
    <3>3. n * B2 * Q < (v + U) * (M * P + n * Q)
      BY <1>1, <1>2, <1>5, <1>10, <1>11, <1>13, <3>1, <3>2, RouteAboveCurve
    <3> QED BY <3>3 DEF v
  <2> QED BY <1>14, <2>1
<1>17. k.c \in Nat \ {0} /\ k.d \in Nat \ {0} /\ k.e \in Nat \ {0}
  <2>1. /\ n * n \in Nat \ {0} /\ d * d \in Nat \ {0} /\ A1 * B2 \in Nat \ {0}
        /\ B1 * A2 \in Nat \ {0} /\ n * d \in Nat \ {0}
    BY <1>1, <1>2, <1>4
  <2>2. k.c = (n * n) * (A1 * B2) /\ k.d = (d * d) * (B1 * A2)
    BY <1>1, <1>2, <1>9
  <2>3. (n * n) * (A1 * B2) \in Nat \ {0} /\ (d * d) * (B1 * A2) \in Nat \ {0}
    BY <2>1
  <2>4. (n * d) * A2 \in Nat \ {0} /\ (n * n) * A1 \in Nat \ {0}
    BY <1>2, <1>4, <2>1
  <2> QED BY <1>9, <2>2, <2>3, <2>4
<1> QED BY <1>4, <1>6, <1>7, <1>13, <1>15, <1>16, <1>17 DEF k, a, b, U, A1, A2, B1, B2

\* The root is taken of a product, and what is chosen of it: the point on the curve
\* of an amount chosen is within E of the root and not above it, unless the amount
\* is capped; without an amount the root is less than E above D.
LEMMA ChosenPoint ==
    ASSUME NEW buy \in [Token -> Nat], NEW sell \in [Token -> Nat],
           \A t \in Token : buy[t] < Word /\ sell[t] < Word, WideEnough,
           Curve(buy, sell).c \in Nat \ {0}, Curve(buy, sell).d \in Nat \ {0},
           Curve(buy, sell).e \in Nat \ {0}, MaxAmountInB > 0
    PROVE  LET k == Curve(buy, sell)
               x == OptimalAmountInB(buy, sell)
               h == k.d + k.e * x
           IN  /\ x = None => k.c * k.d < (k.d + k.e) * (k.d + k.e)
               /\ x # None =>
                    /\ x \in Nat /\ x > 0 /\ x <= MaxAmountInB
                    /\ h * h <= k.c * k.d
                    /\ x < MaxAmountInB => k.c * k.d < (h + k.e) * (h + k.e)
<1> DEFINE k == Curve(buy, sell)
           C == k.c
           D == k.d
           E == k.e
           cd == C * D
           root == IntegerSqrt(cd)
           amount == (root - D) \div E
           x == OptimalAmountInB(buy, sell)
<1>1. C \in Nat /\ C > 0 /\ D \in Nat /\ D > 0 /\ E \in Nat /\ E > 0
  OBVIOUS
<1>2. MaxAmountInB \in Nat /\ MaxAmountInB > 0
  BY ArbitrageConstants
<1>3. cd \in Nat /\ cd < 4 ^ SqrtBits
  BY CurveBounds
<1>4. root \in Nat /\ root * root <= cd /\ cd < (root + 1) * (root + 1)
  <2> HIDE DEF cd
  <2> QED BY <1>3, IntegerSqrtIsRoot
<1>5. x = IF root <= D \/ amount = 0 THEN None
          ELSE IF amount > MaxAmountInB THEN MaxAmountInB ELSE amount
  <2>1. ~ (0 \in {k.c, k.d, k.e})
    OBVIOUS
  <2> QED BY <2>1 DEF OptimalAmountInB
<1> HIDE DEF k, C, D, E, cd, root, x
<1>6. root > D =>
        amount \in Nat /\ amount * E <= root - D /\ root - D < (amount + 1) * E
  <2> SUFFICES ASSUME root > D
               PROVE  amount \in Nat /\ amount * E <= root - D /\ root - D < (amount + 1) * E
    OBVIOUS
  <2>1. root - D \in Nat
    BY <1>1, <1>4
  <2> DEFINE u == root - D
  <2> HIDE DEF u
  <2>2. u \div E \in Nat /\ (u \div E) * E <= u /\ u < (u \div E + 1) * E
    BY <1>1, <2>1, QuotientNext DEF u
  <2> QED BY <2>2 DEF u
<1> HIDE DEF amount
<1>7. ASSUME x = None PROVE cd < (D + E) * (D + E)
  <2>1. root <= D \/ (root > D /\ amount = 0)
    BY <1>1, <1>2, <1>4, <1>5, <1>6, <1>7 DEF None
  <2>2. root + 1 <= D + E
    <3>1. CASE root <= D
      BY <1>1, <1>4, <3>1
    <3>2. CASE root > D /\ amount = 0
      <4>1. (0 + 1) * E = E
        BY <1>1
      <4> QED BY <1>1, <1>4, <1>6, <3>2, <4>1
    <3> QED BY <2>1, <3>1, <3>2
  <2>3. (root + 1) * (root + 1) <= (D + E) * (D + E)
    BY <1>1, <1>4, <2>2, ProductMonotonic
  <2>4. (root + 1) * (root + 1) \in Int /\ (D + E) * (D + E) \in Int
    BY <1>1, <1>4
  <2> DEFINE r == (root + 1) * (root + 1)
             s == (D + E) * (D + E)
  <2>5. cd < r /\ r <= s /\ r \in Int /\ s \in Int
    BY <1>4, <2>3, <2>4
  <2> HIDE DEF r, s
  <2>6. cd < s
    BY <1>3, <2>5
  <2> QED BY <2>6 DEF s
<1>8. ASSUME x # None
      PROVE  /\ root > D /\ amount \in Nat /\ amount > 0
             /\ x \in Nat /\ x > 0 /\ x <= amount /\ x <= MaxAmountInB
             /\ x < MaxAmountInB => x = amount
  <2>1. root > D /\ amount # 0
        /\ x = IF amount > MaxAmountInB THEN MaxAmountInB ELSE amount
    BY <1>1, <1>4, <1>5, <1>8
  <2> QED BY <1>2, <1>6, <2>1
<1> DEFINE h == D + E * x
<1>9. ASSUME x # None PROVE h * h <= cd
  <2>1. h \in Nat /\ h <= root
    <3>1. x * E <= amount * E
      BY <1>1, <1>8, <1>9, ScaleOrder
    <3>2. E * x = x * E /\ E * x \in Nat /\ amount * E \in Nat
      BY <1>1, <1>8, <1>9
    <3> QED BY <1>1, <1>4, <1>6, <1>8, <1>9, <3>1, <3>2
  <2> HIDE DEF h
  <2>2. h * h <= root * root /\ h * h \in Nat /\ root * root \in Nat
    BY <1>4, <2>1, ProductMonotonic
  <2> QED BY <1>3, <1>4, <2>2
<1>10. ASSUME x # None, x < MaxAmountInB PROVE cd < (h + E) * (h + E)
  <2>1. h \in Nat /\ root + 1 <= h + E
    <3>1. x = amount
      BY <1>8, <1>10
    <3>2. (x + 1) * E = E * x + E /\ E * x \in Nat
      BY <1>1, <1>8, <1>10
    <3>3. root - D < (x + 1) * E
      BY <1>6, <1>8, <1>10, <3>1
    <3> QED BY <1>1, <1>4, <3>2, <3>3
  <2> HIDE DEF h
  <2>2. /\ (root + 1) * (root + 1) <= (h + E) * (h + E)
        /\ (root + 1) * (root + 1) \in Nat /\ (h + E) * (h + E) \in Nat
    <3>1. root + 1 \in Nat /\ h + E \in Nat
      BY <1>1, <1>4, <2>1
    <3> QED BY <2>1, <3>1, ProductMonotonic
  <2> DEFINE r == (root + 1) * (root + 1)
             s == (h + E) * (h + E)
  <2>3. cd < r /\ r <= s /\ r \in Nat /\ s \in Nat
    BY <1>4, <2>2
  <2> HIDE DEF r, s
  <2>4. cd < s
    BY <1>3, <2>3
  <2> QED BY <2>4 DEF s
<1> QED BY <1>7, <1>8, <1>9, <1>10 DEF cd, C, D, E, k, x

\* On a chain whose reserves are words, no amount earns more than the bound.
LEMMA NearOptimalRoute ==
    ASSUME NEW buy \in [Token -> Nat], NEW sell \in [Token -> Nat],
           \A t \in Token : buy[t] < Word /\ sell[t] < Word, WideEnough,
           NEW x \in 1 .. MaxAmountInB, RouteFits(buy, sell, x),
           NEW best \in ProfitB(buy, sell, x)
    PROVE  LET k == Curve(buy, sell)
               chosen == OptimalAmountInB(buy, sell)
           IN  \/ chosen = None /\ best <= 1 + k.e \div k.d
               \/ chosen # None /\ ~RouteFits(buy, sell, chosen)
               \/ chosen # None /\ \E y \in ProfitB(buy, sell, chosen) : best <= y + 2 + UnitA(sell)
<1> DEFINE k == Curve(buy, sell)
           C == k.c
           D == k.d
           E == k.e
           chosen == OptimalAmountInB(buy, sell)
           b == GetAmountOut(GetAmountOut(x, buy["b"], buy["a"]), sell["a"], sell["b"])
           bh == GetAmountOut(GetAmountOut(chosen, buy["b"], buy["a"]), sell["a"], sell["b"])
           u == UnitA(sell)
<1>1. MaxAmountInB \in Nat /\ x \in Nat /\ x > 0 /\ x <= MaxAmountInB /\ MaxAmountInB > 0
  BY ArbitrageConstants
<1>2. /\ b \in Nat /\ best = b - x /\ b * (D + E * x) <= C * x /\ u \in Nat
      /\ C \in Nat \ {0} /\ D \in Nat \ {0} /\ E \in Nat \ {0}
  BY <1>1, RouteOnCurve
<1>3. /\ chosen = None => C * D < (D + E) * (D + E)
      /\ chosen # None =>
           /\ chosen \in Nat /\ chosen > 0 /\ chosen <= MaxAmountInB
           /\ (D + E * chosen) * (D + E * chosen) <= C * D
           /\ chosen < MaxAmountInB => C * D < (D + E * chosen + E) * (D + E * chosen + E)
  <2>1. /\ Curve(buy, sell).c \in Nat \ {0} /\ Curve(buy, sell).d \in Nat \ {0}
        /\ Curve(buy, sell).e \in Nat \ {0}
    BY <1>2
  <2> QED BY <1>1, <2>1, ChosenPoint
<1>4. ASSUME chosen # None, RouteFits(buy, sell, chosen)
      PROVE  bh \in Nat /\ ProfitB(buy, sell, chosen) = {bh - chosen}
             /\ C * chosen < (bh + 1 + (u + 1)) * (D + E * chosen)
  <2>1. chosen \in Nat
    BY <1>3, <1>4
  <2> HIDE DEF chosen
  <2> QED BY <1>4, <2>1, RouteOnCurve DEF chosen
<1> HIDE DEF C, D, E, chosen, b, bh, u
<1>5. CASE chosen = None
  <2> DEFINE F == (E \div D) + 1
  <2>1. F \in Nat /\ E <= F * D /\ F = 1 + E \div D
    <3>1. E \div D \in Nat /\ E < (E \div D + 1) * D
      BY <1>2, QuotientNext
    <3> DEFINE w == E \div D
    <3> HIDE DEF w
    <3>2. (w + 1) * D \in Nat /\ w \in Nat /\ E < (w + 1) * D
      BY <1>2, <3>1 DEF w
    <3> QED BY <1>2, <3>2 DEF w
  <2> HIDE DEF F
  <2>2. C * D < (D + E) * (D + E)
    BY <1>3, <1>5
  <2>3. b - x <= F
    <3>1. /\ b \in Nat /\ x \in Nat /\ C \in Nat /\ D \in Nat /\ E \in Nat /\ F \in Nat
          /\ x > 0 /\ D > 0
      BY <1>1, <1>2, <2>1
    <3>2. b * (D + E * x) <= C * x /\ E <= F * D
      BY <1>2, <2>1
    <3> QED BY <2>2, <3>1, <3>2, EarnsNextToNothing, Zenon
  <2>4. best <= 1 + E \div D
    BY <1>2, <2>1, <2>3
  <2> QED BY <1>5, <2>4 DEF chosen, E, D
<1>6. CASE chosen # None /\ RouteFits(buy, sell, chosen)
  <2> DEFINE y == D + E * x
             h == D + E * chosen
             V == bh + 1 + (u + 1)
             cd == C * D
             d == x - chosen
  <2>1. /\ chosen \in Nat /\ chosen > 0 /\ chosen <= MaxAmountInB /\ h * h <= cd
        /\ chosen < MaxAmountInB => cd < (h + E) * (h + E)
    BY <1>3, <1>6
  <2>2. bh \in Nat /\ C * chosen < V * h
    BY <1>4, <1>6
  <2>3. /\ y \in Nat /\ y > 0 /\ h \in Nat /\ V \in Nat /\ cd \in Nat /\ d \in Int
        /\ C \in Nat /\ D \in Nat /\ E \in Nat
    <3>1. E * x \in Nat /\ E * chosen \in Nat /\ C * D \in Nat
      BY <1>1, <1>2, <2>1
    <3> QED BY <1>1, <1>2, <2>1, <2>2, <3>1
  <2>4. E <= h
    <3>1. E * 1 <= E * chosen /\ E * 1 = E /\ E * chosen \in Nat
      BY <1>2, <2>1, ScaleOrder
    <3> QED BY <1>2, <3>1
  <2>5. y = h + E * d
    BY <1>1, <1>2, <2>1
  <2>6. d > 0 => cd < (h + E) * (h + E)
    <3>1. d > 0 => chosen < MaxAmountInB
      BY <1>1, <2>1
    <3> QED BY <2>1, <3>1
  <2>7. d * (cd - y * h) <= y * h
    <3> HIDE DEF y, h, cd, d
    <3> QED BY <2>1, <2>3, <2>4, <2>5, <2>6, LossWithinUnit
  <2>8. b - x <= V - chosen
    <3>1. (x - chosen) * (C * D - y * h) <= y * h
      BY <2>7
    <3>2. y = D + E * x /\ h = D + E * chosen
      OBVIOUS
    <3>3. b * y <= C * x
      BY <1>2
    <3> HIDE DEF y, h, V
    <3> QED BY <1>1, <1>2, <2>1, <2>2, <2>3, <3>1, <3>2, <3>3, EarnsLittleMore
  <2>9. best <= (bh - chosen) + 2 + u
    BY <1>1, <1>2, <2>1, <2>2, <2>8
  <2>10. ProfitB(buy, sell, chosen) = {bh - chosen}
    BY <1>4, <1>6
  <2> QED BY <1>6, <2>9, <2>10 DEF chosen, u
<1>7. CASE chosen # None /\ ~RouteFits(buy, sell, chosen)
  BY <1>7 DEF chosen
<1> QED BY <1>5, <1>6, <1>7

\* On every chain the contracts can reach, the amount optimal_amount_in_b chooses
\* earns as much as any other up to the units lost by rounding, if the word
\* integer_sqrt works on is wide enough.
THEOREM ChoiceNearOptimal == ASSUME WideEnough PROVE Spec => []NearOptimal
<1>1. ASSUME PoolInv PROVE NearOptimal
  <2> SUFFICES ASSUME NEW p \in Pool, NEW q \in Pool, p # q
               PROVE  LET buy == chain.reserve[p]
                          sell == chain.reserve[q]
                          k == Curve(buy, sell)
                          chosen == OptimalAmountInB(buy, sell)
                          unitA == (FeeNumerator * sell.b) \div (FeeDenominator * sell.a)
                      IN  \A x \in {y \in 1 .. MaxAmountInB : RouteFits(buy, sell, y)} :
                            \A best \in ProfitB(buy, sell, x) :
                               \/ chosen = None /\ best <= 1 + k.e \div k.d
                               \/ chosen # None /\ ~RouteFits(buy, sell, chosen)
                               \/ chosen # None /\ \E y \in ProfitB(buy, sell, chosen) : best <= y + 2 + unitA
    BY Zenon DEF NearOptimal
  <2> DEFINE buy == chain.reserve[p]
             sell == chain.reserve[q]
  <2>1. buy \in [Token -> Nat] /\ sell \in [Token -> Nat]
    BY <1>1 DEF PoolInv, Chain
  <2>2. \A t \in Token : buy[t] < Word /\ sell[t] < Word
    BY <1>1, ReservesFit
  <2> HIDE DEF buy, sell
  <2>3. ASSUME NEW x \in 1 .. MaxAmountInB, RouteFits(buy, sell, x),
               NEW best \in ProfitB(buy, sell, x)
        PROVE  LET k == Curve(buy, sell)
                   chosen == OptimalAmountInB(buy, sell)
               IN  \/ chosen = None /\ best <= 1 + k.e \div k.d
                   \/ chosen # None /\ ~RouteFits(buy, sell, chosen)
                   \/ chosen # None /\ \E y \in ProfitB(buy, sell, chosen) : best <= y + 2 + UnitA(sell)
    BY <2>1, <2>2, <2>3, NearOptimalRoute
  <2>4. UnitA(sell) = (FeeNumerator * sell.b) \div (FeeDenominator * sell.a)
    BY DEF UnitA
  <2> QED BY <2>3, <2>4 DEF buy, sell
<1> QED BY <1>1, PoolInvHolds, PTL

-----------------------------------------------------------------------------
(* The opportunity                                                         *)

\* o is what evaluate_pool makes of the two pools as they are on ch.
Predicted(ch, o) ==
    LET buy == ch.reserve[o.buy_pool]
        sell == ch.reserve[o.sell_pool]
        out_a == AmountOut(o.amount_in_b, buy["b"], buy["a"])
        out_b == AmountOut(out_a, sell["a"], sell["b"])
    IN  /\ o.buy_pool \in Pool /\ o.sell_pool \in Pool /\ o.buy_pool # o.sell_pool
        /\ o.amount_in_b \in Nat
        /\ o.expected_amount_out_a = out_a
        /\ o.expected_profit_b = out_b - o.amount_in_b
        /\ out_b > o.amount_in_b /\ out_b - o.amount_in_b >= MinProfitB
        /\ o.min_amount_out_a = ApplyBps(out_a, MinOutputBps)
        /\ o.min_amount_out_b = ApplyBps(out_b, MinOutputBps)

\* evaluate_pool on the reserves of ch.
LEMMA EvaluatePoolPredicts ==
    ASSUME NEW ch \in Chain, NEW p \in Pool, NEW q \in Pool, p # q,
           NEW o \in EvaluatePool(p, ch.reserve[p], q, ch.reserve[q])
    PROVE  Predicted(ch, o)
<1>1. PICK r \in UNION {QuoteRoute(ch.reserve[p], ch.reserve[q], x)
                         : x \in {OptimalAmountInB(ch.reserve[p], ch.reserve[q])} \ {None}} :
         /\ r.amount_out_b > r.amount_in_b /\ r.amount_out_b - r.amount_in_b >= MinProfitB
         /\ o = [buy_pool |-> p, sell_pool |-> q,
                 amount_in_b |-> r.amount_in_b,
                 min_amount_out_a |-> ApplyBps(r.amount_out_a, MinOutputBps),
                 min_amount_out_b |-> ApplyBps(r.amount_out_b, MinOutputBps),
                 expected_amount_out_a |-> r.amount_out_a,
                 expected_profit_b |-> r.amount_out_b - r.amount_in_b]
  BY Zenon DEF EvaluatePool
<1>2. PICK x \in {OptimalAmountInB(ch.reserve[p], ch.reserve[q])} \ {None} :
         r \in QuoteRoute(ch.reserve[p], ch.reserve[q], x)
  OBVIOUS
<1>3. /\ r.amount_in_b = x
      /\ r.amount_out_a = AmountOut(x, ch.reserve[p]["b"], ch.reserve[p]["a"])
      /\ r.amount_out_b = AmountOut(r.amount_out_a, ch.reserve[q]["a"], ch.reserve[q]["b"])
  BY <1>2 DEF QuoteRoute
<1>4. x \in Nat
  <2>1. ch.reserve[p] \in [Token -> Nat] /\ ch.reserve[q] \in [Token -> Nat]
    BY DEF Chain
  <2> QED BY <2>1, OptimalIsNat
<1> QED BY <1>1, <1>3, <1>4 DEF Predicted

\* What find_arbitrage returns for a swap that executes is a prediction for the
\* chain behind that swap.
LEMMA FindArbitragePredicts ==
    ASSUME chain \in Chain, NEW v \in Victim, VictimSwap(v).ok,
           NEW o \in FindArbitrage(chain.reserve, v)
    PROVE  Predicted(VictimSwap(v).chain, o)
<1> DEFINE before == VictimSwap(v).chain
<1>1. v.pool \in Pool /\ v.tokenIn \in Token /\ v.amount_in \in Nat
  BY AmountsNat DEF Victim
<1>2. PICK i \in 1 .. Len(Pools) : \E after \in ApplyVictimSwap(chain.reserve[v.pool], v) :
         Pools[i] # v.pool /\ o \in Opportunity(chain.reserve, after, v, i)
  BY DEF FindArbitrage
<1>3. PICK after \in ApplyVictimSwap(chain.reserve[v.pool], v) :
         Pools[i] # v.pool /\ o \in Opportunity(chain.reserve, after, v, i)
  BY <1>2
<1>4. Pools[i] \in Pool
  BY DEF Pool
<1>5. after = before.reserve[v.pool]
  BY VictimApplied
<1>6. chain.reserve[Pools[i]] = before.reserve[Pools[i]]
  <2>1. Traded(chain, before, v.pool, Trader, v.tokenIn, v.amount_in, VictimSwap(v).out)
    BY <1>1, SwapEffect DEF VictimSwap
  <2> QED BY <1>3, <1>4, <2>1 DEF Traded
<1>7. before \in Chain
  BY VictimSwapFair DEF Fair
<1> HIDE DEF before
<1>8. \/ o \in EvaluatePool(v.pool, before.reserve[v.pool], Pools[i], before.reserve[Pools[i]])
      \/ o \in EvaluatePool(Pools[i], before.reserve[Pools[i]], v.pool, before.reserve[v.pool])
  BY <1>3, <1>5, <1>6 DEF Opportunity
<1> QED BY <1>1, <1>3, <1>4, <1>7, <1>8, EvaluatePoolPredicts DEF before

-----------------------------------------------------------------------------
(* The backrun                                                             *)

\* What executeBackrun does when it does not revert: the second pool is as it was
\* before the first swap, and the profit is the difference of the two amounts.
LEMMA BackrunEffect ==
    ASSUME NEW ch \in Chain, NEW buy, NEW sell, NEW x, NEW minA, NEW minB, NEW minProfit,
           ExecuteBackrun(ch, buy, sell, x, minA, minB, minProfit).ok
    PROVE  LET call == ExecuteBackrun(ch, buy, sell, x, minA, minB, minProfit)
               out_a == GetAmountOut(x, ch.reserve[buy]["b"], ch.reserve[buy]["a"])
               out_b == GetAmountOut(out_a, ch.reserve[sell]["a"], ch.reserve[sell]["b"])
           IN  /\ x \in Nat /\ out_a \in Nat /\ out_b \in Nat
               /\ HasAmountOut(x, ch.reserve[buy]["b"], ch.reserve[buy]["a"])
               /\ HasAmountOut(out_a, ch.reserve[sell]["a"], ch.reserve[sell]["b"])
               /\ call.out = out_b - x
               /\ ch.reserve[buy]["a"] - call.chain.reserve[buy]["a"] = out_a
<1> DEFINE call == ExecuteBackrun(ch, buy, sell, x, minA, minB, minProfit)
           c1 == Approve(ch, "b", Bot, buy, x)
           bought == Swap(c1, buy, Bot, "b", x, minA)
           c2 == Approve(bought.chain, "a", Bot, sell, bought.out)
           sold == Swap(c2, sell, Bot, "a", bought.out, minB)
<1>1. /\ buy \in Pool /\ sell \in Pool /\ buy # sell /\ Fits(x) /\ bought.ok /\ sold.ok
      /\ call.chain = sold.chain
      /\ call.out = sold.chain.balance["b"][Bot] - ch.balance["b"][Bot]
  BY DEF ExecuteBackrun, Revert, Return
<1> HIDE DEF call
<1>2. /\ x \in Nat /\ "a" \in Token /\ "b" \in Token /\ Bot \in {Trader, Bot}
      /\ Other("a") = "b" /\ Other("b") = "a"
  BY <1>1 DEF Fits, Token, Other
<1>3. c1 \in Chain /\ c1.reserve = ch.reserve /\ c1.balance = ch.balance
  BY <1>1, <1>2, ApproveEffect
<1> HIDE DEF c1
<1>4. Traded(c1, bought.chain, buy, Bot, "b", x, bought.out)
  BY <1>1, <1>2, <1>3, SwapEffect
<1> HIDE DEF bought
<1>5. bought.chain \in Chain /\ bought.out \in Nat
  BY <1>4 DEF Traded
<1>6. c2 \in Chain /\ c2.reserve = bought.chain.reserve /\ c2.balance = bought.chain.balance
  <2>1. sell \in Pool
    BY <1>1
  <2>2. "a" \in Token /\ Bot \in {Trader, Bot}
    BY <1>2
  <2> DEFINE ch2 == bought.chain
             out2 == bought.out
  <2>3. ch2 \in Chain /\ out2 \in Nat
    BY <1>5
  <2> HIDE DEF ch2, out2
  <2>4. LET after == Approve(ch2, "a", Bot, sell, out2)
        IN  after \in Chain /\ after.reserve = ch2.reserve /\ after.balance = ch2.balance
    BY <2>1, <2>2, <2>3, ApproveEffect
  <2> QED BY <2>4 DEF ch2, out2
<1> HIDE DEF c2
<1>7. Traded(c2, sold.chain, sell, Bot, "a", bought.out, sold.out)
  BY <1>1, <1>2, <1>5, <1>6, SwapEffect
<1> HIDE DEF sold
<1>8. c2.reserve[sell] = ch.reserve[sell] /\ sold.chain.reserve[buy] = bought.chain.reserve[buy]
  <2>1. sell \in Pool \ {buy} /\ buy \in Pool \ {sell}
    BY <1>1
  <2>2. \A q \in Pool \ {buy} : bought.chain.reserve[q] = c1.reserve[q]
    BY <1>4 DEF Traded
  <2>3. \A q \in Pool \ {sell} : sold.chain.reserve[q] = c2.reserve[q]
    BY <1>7 DEF Traded
  <2>4. bought.chain.reserve[sell] = c1.reserve[sell]
    BY <2>1, <2>2
  <2>5. sold.chain.reserve[buy] = c2.reserve[buy]
    BY <2>1, <2>3
  <2> QED BY <1>3, <1>6, <2>4, <2>5
<1>9. /\ HasAmountOut(x, ch.reserve[buy]["b"], ch.reserve[buy]["a"])
      /\ bought.out = GetAmountOut(x, ch.reserve[buy]["b"], ch.reserve[buy]["a"])
      /\ bought.chain.reserve[buy]["a"] = ch.reserve[buy]["a"] - bought.out
      /\ bought.chain.balance["b"][Bot] = ch.balance["b"][Bot] - x
  BY <1>2, <1>3, <1>4 DEF Traded
<1>10. /\ HasAmountOut(bought.out, ch.reserve[sell]["a"], ch.reserve[sell]["b"])
       /\ sold.out = GetAmountOut(bought.out, ch.reserve[sell]["a"], ch.reserve[sell]["b"])
       /\ sold.out \in Nat
       /\ sold.chain.balance["b"][Bot] = bought.chain.balance["b"][Bot] + sold.out
  BY <1>2, <1>6, <1>7, <1>8 DEF Traded
<1>11. ch.balance["b"][Bot] \in Nat /\ ch.reserve[buy]["a"] \in Nat
  BY <1>1, <1>2 DEF Chain, Holder
<1>12. call.out = sold.out - x
  BY <1>1, <1>2, <1>9, <1>10, <1>11
<1>13. ch.reserve[buy]["a"] - call.chain.reserve[buy]["a"] = bought.out
  BY <1>1, <1>5, <1>8, <1>9, <1>11
<1> QED BY <1>2, <1>5, <1>9, <1>10, <1>12, <1>13 DEF call

\* On any chain of the right type, what is predicted is what happens.
LEMMA ExactOnEveryChain == chain \in Chain => PredictionExact
<1> SUFFICES ASSUME chain \in Chain, NEW v \in Victim, NEW o \in FindArbitrage(chain.reserve, v),
                    VictimSwap(v).ok, Backrun(v, o).ok
             PROVE  /\ Backrun(v, o).out = o.expected_profit_b
                    /\ VictimSwap(v).chain.reserve[o.buy_pool].a
                         - Backrun(v, o).chain.reserve[o.buy_pool].a = o.expected_amount_out_a
  BY DEF PredictionExact
<1> DEFINE before == VictimSwap(v).chain
           buy == before.reserve[o.buy_pool]
           sell == before.reserve[o.sell_pool]
           out_a == GetAmountOut(o.amount_in_b, buy["b"], buy["a"])
           out_b == GetAmountOut(out_a, sell["a"], sell["b"])
<1>1. before \in Chain
  BY VictimSwapFair DEF Fair
<1>2. Predicted(before, o)
  BY FindArbitragePredicts
<1> HIDE DEF before
<1>3. ExecuteBackrun(before, o.buy_pool, o.sell_pool, o.amount_in_b,
                     o.min_amount_out_a, o.min_amount_out_b, MinProfitB) = Backrun(v, o)
  BY DEF Backrun, before
<1>4. /\ o.amount_in_b \in Nat /\ out_a \in Nat /\ out_b \in Nat
      /\ HasAmountOut(o.amount_in_b, buy["b"], buy["a"])
      /\ HasAmountOut(out_a, sell["a"], sell["b"])
      /\ Backrun(v, o).out = out_b - o.amount_in_b
      /\ buy["a"] - Backrun(v, o).chain.reserve[o.buy_pool]["a"] = out_a
  BY <1>1, <1>3, BackrunEffect
<1>5. \A t \in Token : buy[t] \in Nat /\ sell[t] \in Nat
  BY <1>1, <1>2 DEF Predicted, Chain
<1>6. buy["a"] \in Nat /\ buy["b"] \in Nat /\ sell["a"] \in Nat /\ sell["b"] \in Nat
  BY <1>5 DEF Token
<1> HIDE DEF buy, sell
<1>7. AmountOut(o.amount_in_b, buy["b"], buy["a"]) = out_a
  BY <1>4, <1>6, AmountOutExact
<1> HIDE DEF out_a
<1>8. AmountOut(out_a, sell["a"], sell["b"]) = out_b
  BY <1>4, <1>6, AmountOutExact
<1>9. o.expected_amount_out_a = out_a /\ o.expected_profit_b = out_b - o.amount_in_b
  BY <1>2, <1>7, <1>8 DEF Predicted, buy, sell
<1> QED BY <1>4, <1>9 DEF before, buy

\* find_arbitrage predicts a bundle's amounts and profit to the last unit, on
\* every chain the contracts can reach, whatever the width of a word and the fee.
THEOREM PredictionsExact == Spec => []PredictionExact
BY PoolInvHolds, ExactOnEveryChain, PTL DEF PoolInv

-----------------------------------------------------------------------------
(* When a swap and a backrun execute                                       *)

\* From ch to after, the allowance of a pool over owner's tokens is set, and no
\* other changes.
Granted(ch, after, token, owner, p, amount) ==
    \A t \in Token, h \in {Trader, Bot}, q \in Pool :
        after.allowance[t][h][q] =
            IF t = token /\ h = owner /\ q = p THEN amount ELSE ch.allowance[t][h][q]

\* What an approval does to the allowances.
LEMMA ApprovedOnly ==
    ASSUME NEW ch \in Chain, NEW token \in Token, NEW owner \in {Trader, Bot}, NEW p \in Pool,
           NEW amount \in Nat
    PROVE  Granted(ch, Approve(ch, token, owner, p, amount), token, owner, p, amount)
<1> SUFFICES ASSUME NEW t \in Token, NEW h \in {Trader, Bot}, NEW q \in Pool
             PROVE  Approve(ch, token, owner, p, amount).allowance[t][h][q] =
                        IF t = token /\ h = owner /\ q = p THEN amount ELSE ch.allowance[t][h][q]
  BY DEF Granted
<1> QED BY DEF Approve, Chain

\* Division of natural numbers rounds down.
LEMMA Quotient ==
    ASSUME NEW u \in Nat, NEW w \in Nat, w > 0
    PROVE  /\ u \div w \in Nat /\ (u \div w) * w <= u
           /\ u % w \in Nat /\ u % w <= u
<1>1. u \div w \in Nat /\ (u \div w) * w <= u
  OBVIOUS
<1>2. u % w \in Nat /\ u % w <= u
  OBVIOUS
<1> QED BY <1>1, <1>2

\* What getAmountOut's own checks leave of the others: the amount in is a word,
\* the reserve it enters does not overflow, and no pool pays more than it has.
LEMMA AmountOutFits ==
    ASSUME NEW x \in Nat, NEW ri \in Nat, NEW ro \in Nat, HasAmountOut(x, ri, ro)
    PROVE  Fits(ri + x) /\ Fits(x) /\ x < MaxWord /\ GetAmountOut(x, ri, ro) <= ro
<1> DEFINE n == FeeNumerator
           d == FeeDenominator
           den == ri * d + x * n
           out == GetAmountOut(x, ri, ro)
<1>1. n \in Nat /\ n > 0 /\ d \in Nat /\ d > 0
  BY DexConstants
<1>2. x > 0 /\ ri > 0 /\ den \in 0 .. MaxWord
  BY DEF HasAmountOut, Fits
<1>3. MaxWord \in Int
  BY WordPositive DEF MaxWord
<1> HIDE DEF n, d
<1>4. ri * d >= ri /\ x * n >= x /\ ri * d \in Nat /\ x * n \in Nat
  <2>1. ri * 1 <= ri * d
    BY <1>1, ProductMonotonic
  <2>2. x * 1 <= x * n
    BY <1>1, ProductMonotonic
  <2> QED BY <1>1, <2>1, <2>2
<1>5. ri + x <= den /\ den \in Nat /\ den > 0
  BY <1>2, <1>4
<1>6. Fits(ri + x) /\ Fits(x) /\ x < MaxWord
  <2> HIDE DEF den
  <2> QED BY <1>2, <1>3, <1>5 DEF Fits
<1>7. out <= ro
  <2> DEFINE num == x * n * ro
  <2>1. num \in Nat /\ num <= den * ro
    <3>1. x * n <= den
      BY <1>2, <1>4
    <3>2. (x * n) * ro <= den * ro /\ (x * n) * ro \in Nat
      BY <1>4, <1>5, <3>1, ProductMonotonic
    <3> QED BY <3>2
  <2>2. out = num \div den
    BY DEF GetAmountOut, n, d
  <2> HIDE DEF num, den, out
  <2>3. out \in Nat /\ out * den <= num
    BY <1>5, <2>1, <2>2, Quotient
  <2>4. den * out <= den * ro
    <3>1. den * out \in Nat /\ den * ro \in Nat /\ den * out = out * den
      BY <1>5, <2>3
    <3> QED BY <2>1, <2>3, <3>1
  <2> QED BY <1>5, <2>3, <2>4, CancelFactor
<1> QED BY <1>6, <1>7

\* A swap whose amount is approved, held and worth something executes.
LEMMA SwapExecutes ==
    ASSUME NEW ch \in Chain, Backed(ch), NEW p \in Pool, NEW who \in {Trader, Bot},
           NEW tokenIn \in Token, NEW x \in Nat, NEW min,
           HasAmountOut(x, ch.reserve[p][tokenIn], ch.reserve[p][Other(tokenIn)]),
           GetAmountOut(x, ch.reserve[p][tokenIn], ch.reserve[p][Other(tokenIn)]) > 0,
           GetAmountOut(x, ch.reserve[p][tokenIn], ch.reserve[p][Other(tokenIn)]) >= min,
           ch.allowance[tokenIn][who][p] >= x, ch.balance[tokenIn][who] >= x
    PROVE  Swap(ch, p, who, tokenIn, x, min).ok
<1> DEFINE tokenOut == Other(tokenIn)
           r == ch.reserve[p]
           out == GetAmountOut(x, r[tokenIn], r[tokenOut])
           pulled == TransferFrom(ch, tokenIn, who, p, x)
           paid == Transfer(pulled.chain, tokenOut, p, who, out)
<1>1. tokenOut \in Token /\ tokenIn # tokenOut
  BY DEF Token, Other
<1>2. r[tokenIn] \in Nat /\ r[tokenOut] \in Nat
  BY <1>1 DEF Chain
<1>3. who \in Holder /\ p \in Holder /\ who # p
  BY DexConstants DEF Holder
<1>4. /\ ch.balance[tokenIn][who] \in Nat /\ ch.allowance[tokenIn][who][p] \in Nat
      /\ ch.balance[tokenOut][p] \in Nat
  BY <1>1, <1>3 DEF Chain
<1>5. Fits(r[tokenIn] + x) /\ out <= r[tokenOut] /\ out \in Nat
  BY <1>2, AmountOutFits, AmountOutExact
<1>6. pulled.ok
  <2> DEFINE allowed == ch.allowance[tokenIn][who][p]
             spent == IF allowed = MaxWord THEN ch
                      ELSE [ch EXCEPT !.allowance[tokenIn][who][p] = allowed - x]
  <2>1. spent.balance = ch.balance
    BY DEF Chain
  <2>2. Transfer(ch, tokenIn, who, p, x).ok
    BY <1>4 DEF Transfer, Return
  <2> HIDE DEF spent
  <2>3. Transfer(spent, tokenIn, who, p, x).ok
    BY <1>4, <2>1 DEF Transfer, Return
  <2> QED BY <1>4, <2>2, <2>3 DEF TransferFrom, spent
<1>7. paid.ok
  <2>1. Paid(ch, pulled.chain, tokenIn, who, p, x)
    BY <1>3, <1>6, TransferFromEffect
  <2>2. pulled.chain.balance[tokenOut][p] = ch.balance[tokenOut][p]
    BY <1>1, <1>3, <2>1 DEF Paid
  <2>3. r[tokenOut] <= ch.balance[tokenOut][p]
    BY <1>1 DEF Backed
  <2> HIDE DEF pulled, out, r
  <2>4. ~ (pulled.chain.balance[tokenOut][p] < out)
    BY <1>2, <1>4, <1>5, <2>2, <2>3
  <2> QED BY <2>4 DEF Transfer, Return
<1> QED BY <1>5, <1>6, <1>7 DEF Swap, Return

\* A backrun whose two swaps are worth their minimum executes.
LEMMA BackrunExecutes ==
    ASSUME NEW ch \in Chain, Backed(ch), NEW buy \in Pool, NEW sell \in Pool, buy # sell,
           NEW x \in Nat, NEW outA, NEW outB, NEW minA, NEW minB, NEW minProfit \in Nat,
           outA = GetAmountOut(x, ch.reserve[buy]["b"], ch.reserve[buy]["a"]),
           outB = GetAmountOut(outA, ch.reserve[sell]["a"], ch.reserve[sell]["b"]),
           HasAmountOut(x, ch.reserve[buy]["b"], ch.reserve[buy]["a"]),
           HasAmountOut(outA, ch.reserve[sell]["a"], ch.reserve[sell]["b"]),
           outA >= minA, outB >= minB, outB > x, outB - x >= minProfit,
           ch.balance["b"][Bot] >= x
    PROVE  ExecuteBackrun(ch, buy, sell, x, minA, minB, minProfit).ok
<1> DEFINE c1 == Approve(ch, "b", Bot, buy, x)
           bought == Swap(c1, buy, Bot, "b", x, minA)
           c2 == Approve(bought.chain, "a", Bot, sell, bought.out)
           sold == Swap(c2, sell, Bot, "a", bought.out, minB)
<1>1. /\ "a" \in Token /\ "b" \in Token /\ Bot \in {Trader, Bot} /\ Bot \in Holder
      /\ Other("a") = "b" /\ Other("b") = "a"
  BY DEF Token, Other, Holder
<1>2. /\ ch.reserve[buy]["a"] \in Nat /\ ch.reserve[buy]["b"] \in Nat
      /\ ch.reserve[sell]["a"] \in Nat /\ ch.reserve[sell]["b"] \in Nat
      /\ ch.balance["a"][Bot] \in Nat /\ ch.balance["b"][Bot] \in Nat
  BY <1>1 DEF Chain
<1>3. outA \in Nat /\ outA > 0 /\ Fits(x) /\ x > 0
  <2>1. outA \in Nat
    BY <1>2, AmountOutExact
  <2> QED BY <1>2, <2>1, AmountOutFits DEF HasAmountOut
<1>4. outB \in Nat /\ outB > 0
  <2>1. outB \in Nat
    BY <1>2, <1>3, AmountOutExact
  <2> QED BY <2>1
<1>5. c1 \in Chain /\ c1.reserve = ch.reserve /\ c1.balance = ch.balance /\ Backed(c1)
  <2>1. c1 \in Chain /\ c1.reserve = ch.reserve /\ c1.balance = ch.balance
    BY <1>1, ApproveEffect
  <2> HIDE DEF c1
  <2> QED BY <2>1 DEF Backed
<1>6. c1.allowance["b"][Bot][buy] = x
  <2>1. Granted(ch, c1, "b", Bot, buy, x)
    BY <1>1, ApprovedOnly
  <2> HIDE DEF c1
  <2> QED BY <1>1, <2>1 DEF Granted
<1> HIDE DEF c1
<1>7. bought.ok
  <2>1. /\ HasAmountOut(x, c1.reserve[buy]["b"], c1.reserve[buy][Other("b")])
        /\ GetAmountOut(x, c1.reserve[buy]["b"], c1.reserve[buy][Other("b")]) = outA
        /\ c1.balance["b"][Bot] >= x /\ c1.allowance["b"][Bot][buy] >= x
    BY <1>1, <1>5, <1>6
  <2> QED BY <1>1, <1>3, <1>5, <2>1, SwapExecutes
<1>8. Traded(c1, bought.chain, buy, Bot, "b", x, bought.out) /\ Fair(c1, bought.chain)
  BY <1>1, <1>5, <1>7, SwapEffect, SwapFair
<1> HIDE DEF bought
<1>9. /\ bought.chain \in Chain /\ bought.out = outA /\ Backed(bought.chain)
      /\ bought.chain.reserve[sell] = ch.reserve[sell]
      /\ bought.chain.balance["a"][Bot] = ch.balance["a"][Bot] + outA
      /\ bought.chain.balance["b"][Bot] = ch.balance["b"][Bot] - x
  BY <1>1, <1>5, <1>8 DEF Traded, Fair
<1>10. /\ c2 \in Chain /\ c2.reserve = bought.chain.reserve /\ c2.balance = bought.chain.balance
       /\ c2.allowance["a"][Bot][sell] = outA
  <2> DEFINE ch2 == bought.chain
             after == Approve(ch2, "a", Bot, sell, outA)
  <2>1. ch2 \in Chain /\ c2 = after
    BY <1>9
  <2> HIDE DEF ch2, c2
  <2>2. /\ after \in Chain /\ after.reserve = ch2.reserve /\ after.balance = ch2.balance
        /\ after.allowance["a"][Bot][sell] = outA
    <3>1. ch2 \in Chain /\ outA \in Nat /\ "a" \in Token /\ Bot \in {Trader, Bot}
      BY <1>1, <1>3, <2>1
    <3>2. after \in Chain /\ after.reserve = ch2.reserve /\ after.balance = ch2.balance
      BY <3>1, ApproveEffect
    <3>3. after.allowance["a"][Bot][sell] = outA
      <4>1. Granted(ch2, after, "a", Bot, sell, outA)
        BY <3>1, ApprovedOnly
      <4> HIDE DEF after
      <4> QED BY <3>1, <4>1 DEF Granted
    <3> QED BY <3>2, <3>3
  <2> HIDE DEF after
  <2> QED BY <2>1, <2>2 DEF ch2
<1> HIDE DEF c2
<1>11. Backed(c2)
  BY <1>9, <1>10 DEF Backed
<1>12. sold.ok
  <2>1. /\ HasAmountOut(outA, c2.reserve[sell]["a"], c2.reserve[sell][Other("a")])
        /\ GetAmountOut(outA, c2.reserve[sell]["a"], c2.reserve[sell][Other("a")]) = outB
        /\ c2.balance["a"][Bot] >= outA /\ c2.allowance["a"][Bot][sell] >= outA
    BY <1>1, <1>2, <1>3, <1>9, <1>10
  <2>2. Swap(c2, sell, Bot, "a", outA, minB).ok
    BY <1>1, <1>3, <1>4, <1>10, <1>11, <2>1, SwapExecutes
  <2> QED BY <1>9, <2>2
<1>13. Traded(c2, sold.chain, sell, Bot, "a", outA, sold.out)
  <2> DEFINE s == Swap(c2, sell, Bot, "a", outA, minB)
  <2>1. sold = s /\ s.ok
    BY <1>9, <1>12
  <2>2. Traded(c2, s.chain, sell, Bot, "a", outA, s.out)
    BY <1>1, <1>3, <1>10, <2>1, SwapEffect
  <2> QED BY <2>1, <2>2
<1> HIDE DEF sold
<1>14. sold.chain.balance["b"][Bot] = ch.balance["b"][Bot] - x + outB
  <2>1. sold.out = outB /\ sold.chain.balance["b"][Bot] = c2.balance["b"][Bot] + sold.out
    BY <1>1, <1>9, <1>10, <1>13 DEF Traded
  <2> QED BY <1>9, <1>10, <2>1
<1> DEFINE profit == sold.chain.balance["b"][Bot] - ch.balance["b"][Bot]
<1>15. profit = outB - x
  BY <1>2, <1>4, <1>14
<1> HIDE DEF profit
<1>16. profit >= 0 /\ profit >= minProfit
  BY <1>4, <1>15
<1> QED BY <1>3, <1>7, <1>12, <1>16 DEF ExecuteBackrun, Return, profit, sold, c2, bought, c1

\* The minimum the calculator asks for is not above what it expects.
LEMMA ApplyBpsBelow ==
    ASSUME NEW value \in Nat, MinOutputBps <= BpsDenominator
    PROVE  ApplyBps(value, MinOutputBps) <= value
<1> DEFINE bps == MinOutputBps
           b == BpsDenominator
           w == Word
           u == value * bps
<1>1. bps \in Nat /\ b \in Nat /\ b > 0 /\ bps <= b /\ w \in Nat /\ w > 0
  BY ArbitrageConstants, WordPositive
<1> HIDE DEF bps, b, w
<1>2. u \in Nat /\ u <= value * b /\ value * b \in Nat
  BY <1>1, ProductMonotonic
<1> HIDE DEF u
<1>3. u % w \in Nat /\ u % w <= u
  BY <1>1, <1>2, Quotient
<1> DEFINE m == u % w
           q == m \div b
<1>4. m \in Nat /\ m <= value * b
  BY <1>2, <1>3
<1> HIDE DEF m
<1>5. q \in Nat /\ b * q <= m
  <2>1. q \in Nat /\ q * b <= m
    BY <1>1, <1>4, Quotient
  <2> HIDE DEF q
  <2>2. b * q = q * b
    BY <1>1, <2>1
  <2> QED BY <2>1, <2>2
<1> HIDE DEF q
<1>6. b * q <= b * value
  <2>1. b * value = value * b /\ b * q \in Nat
    BY <1>1, <1>5
  <2> QED BY <1>2, <1>4, <1>5, <2>1
<1>7. q <= value
  BY <1>1, <1>5, <1>6, CancelFactor
<1> QED BY <1>7 DEF ApplyBps, q, m, u, b, bps, w

\* find_arbitrage returns nothing where the minimum output is more than all.
LEMMA FindArbitrageChecksBps ==
    ASSUME NEW reserves, NEW v, NEW o \in FindArbitrage(reserves, v)
    PROVE  MinOutputBps <= BpsDenominator
<1>1. ~ (MinOutputBps > BpsDenominator)
  BY DEF FindArbitrage
<1> QED BY <1>1, ArbitrageConstants

\* On a chain with solvent pools, what is predicted executes.
LEMMA ExecutesOnSolventChain == PoolInv => PredictionExecutes
<1> SUFFICES ASSUME PoolInv, NEW v \in Victim, NEW o \in FindArbitrage(chain.reserve, v),
                    VictimSwap(v).ok, chain.balance.b[Bot] >= o.amount_in_b,
                    LET after == VictimSwap(v).chain
                        buy == after.reserve[o.buy_pool]
                        sell == after.reserve[o.sell_pool]
                    IN  /\ HasAmountOut(o.amount_in_b, buy.b, buy.a)
                        /\ HasAmountOut(o.expected_amount_out_a, sell.a, sell.b)
             PROVE  Backrun(v, o).ok
  BY DEF PredictionExecutes
<1> DEFINE after == VictimSwap(v).chain
           buy == after.reserve[o.buy_pool]
           sell == after.reserve[o.sell_pool]
           x == o.amount_in_b
           outA == GetAmountOut(x, buy["b"], buy["a"])
           outB == GetAmountOut(outA, sell["a"], sell["b"])
<1>1. chain \in Chain /\ Backed(chain)
  BY DEF PoolInv, Solvent
<1>2. after \in Chain /\ Backed(after)
  BY <1>1, VictimSwapFair DEF Fair
<1>3. Predicted(after, o)
  BY <1>1, FindArbitragePredicts
<1>4. after.balance["b"][Bot] = chain.balance["b"][Bot]
  <2>1. v.pool \in Pool /\ v.tokenIn \in Token /\ v.amount_in \in Nat
    BY AmountsNat DEF Victim
  <2>2. Traded(chain, after, v.pool, Trader, v.tokenIn, v.amount_in, VictimSwap(v).out)
    BY <1>1, <2>1, SwapEffect DEF VictimSwap
  <2>3. "b" \in Token /\ Bot \in Holder \ {Trader, v.pool}
    BY <2>1, DexConstants DEF Token, Holder
  <2> QED BY <2>2, <2>3 DEF Traded
<1>5. MinOutputBps <= BpsDenominator /\ MinProfitB \in Nat
  BY FindArbitrageChecksBps, ArbitrageConstants
<1> HIDE DEF after
<1>6. \A t \in Token : buy[t] \in Nat /\ sell[t] \in Nat
  BY <1>2, <1>3 DEF Predicted, Chain
<1>7. buy["a"] \in Nat /\ buy["b"] \in Nat /\ sell["a"] \in Nat /\ sell["b"] \in Nat
  BY <1>6 DEF Token
<1>8. /\ o.buy_pool \in Pool /\ o.sell_pool \in Pool /\ o.buy_pool # o.sell_pool /\ x \in Nat
      /\ HasAmountOut(x, buy["b"], buy["a"])
      /\ HasAmountOut(o.expected_amount_out_a, sell["a"], sell["b"])
  BY <1>3 DEF Predicted, after
<1> HIDE DEF buy, sell
<1>9. outA \in Nat /\ AmountOut(x, buy["b"], buy["a"]) = outA
  BY <1>7, <1>8, AmountOutExact
<1> HIDE DEF outA
<1>10. o.expected_amount_out_a = outA
  BY <1>3, <1>9 DEF Predicted, buy, sell
<1>11. outB \in Nat /\ AmountOut(outA, sell["a"], sell["b"]) = outB
  BY <1>7, <1>8, <1>9, <1>10, AmountOutExact
<1> HIDE DEF outB
<1>12. /\ outB > x /\ outB - x >= MinProfitB
       /\ o.min_amount_out_a = ApplyBps(outA, MinOutputBps)
       /\ o.min_amount_out_b = ApplyBps(outB, MinOutputBps)
  BY <1>3, <1>9, <1>11 DEF Predicted, buy, sell
<1> HIDE DEF x
<1>13. outA >= o.min_amount_out_a /\ outB >= o.min_amount_out_b
  <2>1. ApplyBps(outA, MinOutputBps) <= outA /\ ApplyBps(outB, MinOutputBps) <= outB
    BY <1>5, <1>9, <1>11, ApplyBpsBelow
  <2> QED BY <1>12, <2>1
<1>14. ExecuteBackrun(after, o.buy_pool, o.sell_pool, x,
                      o.min_amount_out_a, o.min_amount_out_b, MinProfitB).ok
  <2>1. /\ outA = GetAmountOut(x, after.reserve[o.buy_pool]["b"], after.reserve[o.buy_pool]["a"])
        /\ outB = GetAmountOut(outA, after.reserve[o.sell_pool]["a"], after.reserve[o.sell_pool]["b"])
        /\ HasAmountOut(x, after.reserve[o.buy_pool]["b"], after.reserve[o.buy_pool]["a"])
        /\ HasAmountOut(outA, after.reserve[o.sell_pool]["a"], after.reserve[o.sell_pool]["b"])
    BY <1>8, <1>10 DEF outA, outB, buy, sell
  <2>2. after.balance["b"][Bot] >= x
    BY <1>4 DEF x
  <2> QED BY <1>2, <1>5, <1>8, <1>12, <1>13, <2>1, <2>2, BackrunExecutes
<1> QED BY <1>14 DEF Backrun, after, x

\* Whatever find_arbitrage proposes executes behind the trader's swap, on every
\* chain the contracts can reach, unless that swap reverts, the bot lacks the
\* tokens, or a product of the route does not fit a word.
THEOREM PredictionsExecute == Spec => []PredictionExecutes
BY PoolInvHolds, ExecutesOnSolventChain, PTL

-----------------------------------------------------------------------------
(* What trading leaves with the backrun contract                           *)

\* From ch to after, the allowance of a pool over who's tokens is used up, the
\* largest word aside, and no other allowance changes.
Spent(ch, after, token, who, p, amount) ==
    \A t \in Token, h \in {Trader, Bot}, q \in Pool :
        after.allowance[t][h][q] =
            IF t = token /\ h = who /\ q = p /\ ch.allowance[t][h][q] # MaxWord
            THEN ch.allowance[t][h][q] - amount
            ELSE ch.allowance[t][h][q]

\* A transfer touches no allowance.
LEMMA TransferAllowance ==
    ASSUME NEW ch \in Chain, NEW token, NEW from, NEW to, NEW amount
    PROVE  Transfer(ch, token, from, to, amount).chain.allowance = ch.allowance
BY DEF Transfer, Revert, Return, Chain

\* A pool's transferFrom uses up the allowance.
LEMMA TransferFromSpends ==
    ASSUME NEW ch \in Chain, NEW token \in Token, NEW from \in {Trader, Bot}, NEW p \in Pool,
           NEW amount \in Nat, TransferFrom(ch, token, from, p, amount).ok
    PROVE  Spent(ch, TransferFrom(ch, token, from, p, amount).chain, token, from, p, amount)
<1> DEFINE allowed == ch.allowance[token][from][p]
           spent == IF allowed = MaxWord THEN ch
                    ELSE [ch EXCEPT !.allowance[token][from][p] = allowed - amount]
           after == TransferFrom(ch, token, from, p, amount).chain
<1>1. allowed \in Nat
  BY DEF Chain
<1>2. allowed >= amount /\ after = Transfer(spent, token, from, p, amount).chain
  BY <1>1 DEF TransferFrom, Revert
<1> HIDE DEF after
<1>3. CASE allowed = MaxWord
  <2>1. after.allowance = ch.allowance
    BY <1>2, <1>3, TransferAllowance
  <2> QED BY <1>3, <2>1 DEF Spent, after
<1>4. CASE allowed # MaxWord
  <2> DEFINE n == allowed - amount
             left == Approve(ch, token, from, p, n)
  <2>1. spent = left /\ n \in Nat
    BY <1>1, <1>2, <1>4 DEF Approve
  <2> HIDE DEF n, spent
  <2>2. left \in Chain
    BY <2>1, ApproveEffect
  <2>3. Granted(ch, left, token, from, p, n)
    BY <2>1, ApprovedOnly
  <2> HIDE DEF left
  <2>4. after.allowance = left.allowance
    BY <1>2, <2>1, <2>2, TransferAllowance
  <2> QED BY <1>4, <2>3, <2>4 DEF Spent, Granted, after, n
<1> QED BY <1>3, <1>4

\* So does a swap.
LEMMA SwapSpends ==
    ASSUME NEW ch \in Chain, NEW p \in Pool, NEW who \in {Trader, Bot}, NEW tokenIn \in Token,
           NEW amountIn \in Nat, NEW min, Swap(ch, p, who, tokenIn, amountIn, min).ok
    PROVE  Spent(ch, Swap(ch, p, who, tokenIn, amountIn, min).chain, tokenIn, who, p, amountIn)
<1> DEFINE call == Swap(ch, p, who, tokenIn, amountIn, min)
           tokenOut == Other(tokenIn)
           r == ch.reserve[p]
           out == GetAmountOut(amountIn, r[tokenIn], r[tokenOut])
           pulled == TransferFrom(ch, tokenIn, who, p, amountIn)
           paid == Transfer(pulled.chain, tokenOut, p, who, out)
           traded == [[r EXCEPT ![tokenIn] = @ + amountIn] EXCEPT ![tokenOut] = @ - out]
<1>1. /\ pulled.ok /\ paid.ok
      /\ call.chain = [paid.chain EXCEPT !.reserve[p] = traded]
  BY DEF Swap, Revert, Return
<1> HIDE DEF call, out, traded
<1>2. who # p /\ who \in Holder /\ p \in Holder
  BY DexConstants DEF Holder
<1>3. Spent(ch, pulled.chain, tokenIn, who, p, amountIn)
  BY <1>1, TransferFromSpends
<1>4. pulled.chain \in Chain
  <2>1. Paid(ch, pulled.chain, tokenIn, who, p, amountIn)
    BY <1>1, <1>2, TransferFromEffect
  <2> QED BY <2>1 DEF Paid
<1> HIDE DEF pulled
<1>5. paid.chain.allowance = pulled.chain.allowance
  BY <1>4, TransferAllowance
<1>6. paid.chain = [reserve |-> paid.chain.reserve, supply |-> paid.chain.supply,
                    balance |-> paid.chain.balance, allowance |-> paid.chain.allowance]
  BY <1>4 DEF paid, Transfer, Revert, Return, Chain
<1> HIDE DEF paid
<1>7. call.chain.allowance = paid.chain.allowance
  BY <1>1, <1>6
<1> QED BY <1>3, <1>5, <1>7 DEF Spent, call

\* What the trader spends is no allowance of the backrun contract.
LEMMA TraderSpends ==
    ASSUME NEW ch, NEW after, NEW token, NEW p, NEW amount,
           Spent(ch, after, token, Trader, p, amount), Unapproved(ch)
    PROVE  Unapproved(after)
<1>1. Trader # Bot
  BY DexConstants
<1> QED BY <1>1 DEF Spent, Unapproved

\* An approval that a swap of the same amount uses up leaves no allowance: the
\* amount is never the largest word, whose allowance would stay.
LEMMA ApprovedThenSpent ==
    ASSUME NEW ch \in Chain, NEW c1, NEW after, NEW token \in Token, NEW p \in Pool,
           NEW amount \in Nat, amount < MaxWord, Unapproved(ch),
           c1 = Approve(ch, token, Bot, p, amount), Spent(c1, after, token, Bot, p, amount)
    PROVE  Unapproved(after)
<1> SUFFICES ASSUME NEW t \in Token, NEW q \in Pool PROVE after.allowance[t][Bot][q] = 0
  BY DEF Unapproved
<1>1. Bot \in {Trader, Bot}
  OBVIOUS
<1>2. c1.allowance[t][Bot][q] = IF t = token /\ q = p THEN amount ELSE ch.allowance[t][Bot][q]
  <2>1. Granted(ch, c1, token, Bot, p, amount)
    BY <1>1, ApprovedOnly
  <2> QED BY <1>1, <2>1 DEF Granted
<1>3. ch.allowance[t][Bot][q] = 0
  BY DEF Unapproved
<1>4. after.allowance[t][Bot][q] =
         IF t = token /\ q = p /\ c1.allowance[t][Bot][q] # MaxWord
         THEN c1.allowance[t][Bot][q] - amount ELSE c1.allowance[t][Bot][q]
  BY <1>1 DEF Spent
<1>5. MaxWord \in Int
  BY WordPositive DEF MaxWord
<1> HIDE DEF MaxWord
<1>6. CASE t = token /\ q = p
  <2>1. c1.allowance[t][Bot][q] = amount /\ amount # MaxWord
    BY <1>2, <1>5, <1>6
  <2>2. amount - amount = 0
    OBVIOUS
  <2> QED BY <1>4, <1>6, <2>1, <2>2
<1>7. CASE ~ (t = token /\ q = p)
  BY <1>2, <1>3, <1>4, <1>7
<1> QED BY <1>6, <1>7

\* From ch to after, the backrun contract has approved nobody, has the same of
\* token a and no less of token b.
LeavesNothing(ch, after) ==
    /\ Unapproved(ch) => Unapproved(after)
    /\ after.balance["a"][Bot] = ch.balance["a"][Bot]
    /\ after.balance["b"][Bot] >= ch.balance["b"][Bot]

\* A backrun leaves nothing behind.
LEMMA BackrunLeavesNothing ==
    ASSUME NEW ch \in Chain, NEW buy, NEW sell, NEW x, NEW minA, NEW minB, NEW minProfit,
           ExecuteBackrun(ch, buy, sell, x, minA, minB, minProfit).ok
    PROVE  LeavesNothing(ch, ExecuteBackrun(ch, buy, sell, x, minA, minB, minProfit).chain)
<1> DEFINE call == ExecuteBackrun(ch, buy, sell, x, minA, minB, minProfit)
           c1 == Approve(ch, "b", Bot, buy, x)
           bought == Swap(c1, buy, Bot, "b", x, minA)
           c2 == Approve(bought.chain, "a", Bot, sell, bought.out)
           sold == Swap(c2, sell, Bot, "a", bought.out, minB)
<1>1. /\ buy \in Pool /\ sell \in Pool /\ Fits(x) /\ bought.ok /\ sold.ok
      /\ call.chain = sold.chain
      /\ sold.chain.balance["b"][Bot] - ch.balance["b"][Bot] >= 0
  BY DEF ExecuteBackrun, Revert, Return
<1> HIDE DEF call
<1>2. /\ x \in Nat /\ "a" \in Token /\ "b" \in Token /\ Bot \in {Trader, Bot} /\ Bot \in Holder
      /\ Other("a") = "b" /\ Other("b") = "a"
  BY <1>1 DEF Fits, Token, Other, Holder
<1>3. c1 \in Chain /\ c1.balance = ch.balance
  BY <1>1, <1>2, ApproveEffect
<1>4. c1 = Approve(ch, "b", Bot, buy, x)
  OBVIOUS
<1> HIDE DEF c1
<1>5. /\ Traded(c1, bought.chain, buy, Bot, "b", x, bought.out)
      /\ Spent(c1, bought.chain, "b", Bot, buy, x)
  BY <1>1, <1>2, <1>3, SwapEffect, SwapSpends
<1> HIDE DEF bought
<1> DEFINE ch2 == bought.chain
           y == bought.out
<1>6. /\ ch2 \in Chain /\ y \in Nat
      /\ HasAmountOut(x, c1.reserve[buy]["b"], c1.reserve[buy]["a"])
      /\ ch2.balance["a"][Bot] = c1.balance["a"][Bot] + y
  BY <1>2, <1>5 DEF Traded
<1>7. c2 = Approve(ch2, "a", Bot, sell, y)
  OBVIOUS
<1> HIDE DEF c2
<1>8. Traded(c2, sold.chain, sell, Bot, "a", y, sold.out) /\ Spent(c2, sold.chain, "a", Bot, sell, y)
      /\ c2 \in Chain /\ c2.balance = ch2.balance
  <2> HIDE DEF ch2, y
  <2>1. c2 \in Chain /\ c2.balance = ch2.balance
    <3> DEFINE after == Approve(ch2, "a", Bot, sell, y)
    <3>1. sell \in Pool /\ "a" \in Token /\ Bot \in {Trader, Bot} /\ ch2 \in Chain /\ y \in Nat
      BY <1>1, <1>2, <1>6
    <3>2. after \in Chain /\ after.balance = ch2.balance
      BY <3>1, ApproveEffect
    <3> QED BY <1>7, <3>2
  <2>2. Swap(c2, sell, Bot, "a", y, minB).ok /\ sold = Swap(c2, sell, Bot, "a", y, minB)
    BY <1>1 DEF y
  <2> HIDE DEF sold
  <2>3. /\ Traded(c2, sold.chain, sell, Bot, "a", y, sold.out)
        /\ Spent(c2, sold.chain, "a", Bot, sell, y)
    BY <1>1, <1>2, <1>6, <2>1, <2>2, SwapEffect, SwapSpends
  <2> QED BY <2>1, <2>3
<1> HIDE DEF sold, ch2, y
<1>9. /\ HasAmountOut(y, c2.reserve[sell]["a"], c2.reserve[sell]["b"])
      /\ sold.chain.balance["a"][Bot] = c2.balance["a"][Bot] - y
      /\ sold.chain \in Chain
  BY <1>2, <1>8 DEF Traded
<1>10. x < MaxWord /\ y < MaxWord
  <2>1. /\ c1.reserve[buy]["a"] \in Nat /\ c1.reserve[buy]["b"] \in Nat
        /\ c2.reserve[sell]["a"] \in Nat /\ c2.reserve[sell]["b"] \in Nat
    BY <1>1, <1>2, <1>3, <1>8 DEF Chain
  <2> QED BY <1>2, <1>6, <1>9, <2>1, AmountOutFits
<1>11. Unapproved(ch) => Unapproved(sold.chain)
  <2>1. ASSUME Unapproved(ch) PROVE Unapproved(ch2)
    BY <1>1, <1>2, <1>4, <1>5, <1>10, <2>1, ApprovedThenSpent DEF ch2
  <2>2. ASSUME Unapproved(ch2) PROVE Unapproved(sold.chain)
    BY <1>1, <1>2, <1>6, <1>7, <1>8, <1>10, <2>2, ApprovedThenSpent
  <2> QED BY <2>1, <2>2
<1>12. sold.chain.balance["a"][Bot] = ch.balance["a"][Bot]
  <2>1. ch.balance["a"][Bot] \in Nat
    BY <1>2 DEF Chain
  <2> QED BY <1>3, <1>6, <1>8, <1>9, <2>1
<1>13. sold.chain.balance["b"][Bot] >= ch.balance["b"][Bot]
  <2>1. ch.balance["b"][Bot] \in Nat /\ sold.chain.balance["b"][Bot] \in Nat
    BY <1>2, <1>9 DEF Chain
  <2> QED BY <1>1, <2>1
<1> QED BY <1>1, <1>11, <1>12, <1>13 DEF LeavesNothing, call

\* A swap of the trader leaves the backrun contract alone.
LEMMA VictimSwapLeavesNothing ==
    ASSUME chain \in Chain, NEW v \in Victim, VictimSwap(v).ok
    PROVE  LeavesNothing(chain, VictimSwap(v).chain)
<1> DEFINE after == VictimSwap(v).chain
<1>1. v.pool \in Pool /\ v.tokenIn \in Token /\ v.amount_in \in Nat
  BY AmountsNat DEF Victim
<1>2. /\ Traded(chain, after, v.pool, Trader, v.tokenIn, v.amount_in, VictimSwap(v).out)
      /\ Spent(chain, after, v.tokenIn, Trader, v.pool, v.amount_in)
  BY <1>1, SwapEffect, SwapSpends DEF VictimSwap
<1> HIDE DEF after
<1>3. Bot \in Holder \ {Trader, v.pool} /\ "a" \in Token /\ "b" \in Token
  BY <1>1, DexConstants DEF Holder, Token
<1>4. chain.balance["a"][Bot] \in Nat /\ chain.balance["b"][Bot] \in Nat
  BY <1>3 DEF Chain
<1>5. /\ after.balance["a"][Bot] = chain.balance["a"][Bot]
      /\ after.balance["b"][Bot] = chain.balance["b"][Bot]
  BY <1>2, <1>3 DEF Traded
<1>6. Unapproved(chain) => Unapproved(after)
  BY <1>2, TraderSpends
<1> QED BY <1>4, <1>5, <1>6 DEF LeavesNothing, after

\* So does seeding.
LEMMA SeedLeavesNothing ==
    ASSUME NEW ch \in Chain, NEW p \in Pool, NEW x \in Nat, NEW y \in Nat,
           SeedLiquidity(ch, p, Trader, x, y).ok
    PROVE  LeavesNothing(ch, SeedLiquidity(ch, p, Trader, x, y).chain)
<1> DEFINE first == TransferFrom(ch, "a", Trader, p, x)
           second == TransferFrom(first.chain, "b", Trader, p, y)
           seeded == [t \in Token |-> ch.reserve[p][t] + IF t = "a" THEN x ELSE y]
           after == SeedLiquidity(ch, p, Trader, x, y).chain
<1>1. /\ first.ok /\ second.ok
      /\ after = [second.chain EXCEPT !.reserve[p] = seeded]
  BY DEF SeedLiquidity, Revert, Return
<1>2. /\ "a" \in Token /\ "b" \in Token /\ Trader # p /\ Trader \in {Trader, Bot}
      /\ Bot \in Holder /\ Bot \notin {Trader, p}
  BY DexConstants DEF Token, Holder
<1> HIDE DEF seeded, after
<1>3. Paid(ch, first.chain, "a", Trader, p, x) /\ Spent(ch, first.chain, "a", Trader, p, x)
  BY <1>1, <1>2, TransferFromEffect, TransferFromSpends
<1> HIDE DEF first
<1>4. first.chain \in Chain
  BY <1>3 DEF Paid
<1>5. Paid(first.chain, second.chain, "b", Trader, p, y)
      /\ Spent(first.chain, second.chain, "b", Trader, p, y)
  BY <1>1, <1>2, <1>4, TransferFromEffect, TransferFromSpends
<1> HIDE DEF second
<1>6. after.balance = second.chain.balance /\ after.allowance = second.chain.allowance
  BY <1>1, <1>5 DEF Paid, Chain
<1>7. ch.balance["a"][Bot] \in Nat /\ ch.balance["b"][Bot] \in Nat
  BY <1>2 DEF Chain
<1>8. /\ after.balance["a"][Bot] = ch.balance["a"][Bot]
      /\ after.balance["b"][Bot] = ch.balance["b"][Bot]
  BY <1>2, <1>3, <1>5, <1>6 DEF Paid
<1>9. Unapproved(ch) => Unapproved(after)
  <2>1. Unapproved(ch) => Unapproved(second.chain)
    BY <1>3, <1>5, TraderSpends
  <2> QED BY <1>6, <2>1 DEF Unapproved
<1> QED BY <1>7, <1>8, <1>9 DEF LeavesNothing, after

\* A plain call of a token leaves reserves and the contract's allowances alone.
Plain(ch, after) == after.reserve = ch.reserve /\ (Unapproved(ch) => Unapproved(after))

\* A transfer is such a call.
LEMMA TransferPlain ==
    ASSUME NEW ch \in Chain, NEW token, NEW from, NEW to, NEW amount
    PROVE  Plain(ch, Transfer(ch, token, from, to, amount).chain)
<1> DEFINE after == Transfer(ch, token, from, to, amount).chain
<1>1. after.allowance = ch.allowance
  BY TransferAllowance
<1>2. after.reserve = ch.reserve
  BY DEF Transfer, Revert, Return, Chain
<1> HIDE DEF after
<1> QED BY <1>1, <1>2 DEF Plain, Unapproved, after

\* So is minting.
LEMMA MintPlain ==
    ASSUME NEW ch \in Chain, NEW token, NEW to, NEW amount
    PROVE  Plain(ch, Mint(ch, token, to, amount).chain)
<1> DEFINE after == Mint(ch, token, to, amount).chain
<1>1. after.allowance = ch.allowance /\ after.reserve = ch.reserve
  BY DEF Mint, Revert, Return, Chain
<1> HIDE DEF after
<1> QED BY <1>1 DEF Plain, Unapproved, after

\* Every transaction leaves nothing behind, or is plain.
LEMMA StepLeavesNothing ==
    ASSUME chain \in Chain, Next
    PROVE  LeavesNothing(chain, chain') \/ Plain(chain, chain')
<1>1. CASE MineSwap
  <2>1. PICK v \in Victim : VictimSwap(v).ok /\ chain' = VictimSwap(v).chain
    BY <1>1 DEF MineSwap, Mine
  <2> QED BY <2>1, VictimSwapLeavesNothing
<1>2. CASE MineBundle
  <2>1. PICK v \in Victim : \E o \in FindArbitrage(chain.reserve, v) :
           VictimSwap(v).ok /\ Mine(Backrun(v, o))
    BY <1>2 DEF MineBundle
  <2>2. PICK o : VictimSwap(v).ok /\ Mine(Backrun(v, o))
    BY <2>1
  <2> DEFINE before == VictimSwap(v).chain
  <2>3. before \in Chain /\ LeavesNothing(chain, before)
    BY <2>2, VictimSwapFair, VictimSwapLeavesNothing DEF Fair
  <2>4. Backrun(v, o).ok /\ chain' = Backrun(v, o).chain
    BY <2>2 DEF Mine
  <2>5. chain' \in Chain
    BY StepFair DEF Fair
  <2> HIDE DEF before
  <2>6. LeavesNothing(before, chain')
    BY <2>3, <2>4, BackrunLeavesNothing DEF Backrun, before
  <2>7. /\ chain.balance["b"][Bot] \in Nat /\ before.balance["b"][Bot] \in Nat
        /\ chain'.balance["b"][Bot] \in Nat
    BY <2>3, <2>5 DEF Chain, Token, Holder
  <2> QED BY <2>3, <2>6, <2>7 DEF LeavesNothing
<1>3. CASE MineSeed
  <2>1. PICK p \in Pool, x \in Amounts, y \in Amounts : Mine(SeedLiquidity(chain, p, Trader, x, y))
    BY <1>3 DEF MineSeed
  <2>2. x \in Nat /\ y \in Nat
    BY AmountsNat
  <2> QED BY <2>1, <2>2, SeedLeavesNothing DEF Mine
<1>4. CASE MineWithdraw
  BY <1>4, TransferPlain DEF MineWithdraw, WithdrawToken, Mine
<1>5. CASE MineTransfer
  BY <1>5, TransferPlain DEF MineTransfer, Mine
<1>6. CASE MineMint
  BY <1>6, MintPlain DEF MineMint, Mine
<1>7. CASE MineApprove
  <2>1. PICK t \in Token, p \in Pool, x \in Gifts : Mine(Return(0, Approve(chain, t, Trader, p, x)))
    BY <1>7 DEF MineApprove
  <2> DEFINE after == Approve(chain, t, Trader, p, x)
  <2>2. x \in Nat /\ chain' = after /\ Trader \in {Trader, Bot} /\ Trader # Bot
    BY <2>1, AmountsNat, DexConstants DEF Mine, Return
  <2>3. after.reserve = chain.reserve
    BY <2>2, ApproveEffect
  <2>4. \A u \in Token, q \in Pool : after.allowance[u][Bot][q] = chain.allowance[u][Bot][q]
    <3>1. Granted(chain, after, t, Trader, p, x)
      BY <2>2, ApprovedOnly
    <3> QED BY <2>2, <3>1 DEF Granted
  <2> HIDE DEF after
  <2> QED BY <2>2, <2>3, <2>4 DEF Plain, Unapproved
<1> QED BY <1>1, <1>2, <1>3, <1>4, <1>5, <1>6, <1>7 DEF Next

\* Trading leaves nothing behind with SandboxBackrun: no allowance survives a
\* transaction, what it buys of token a it sells, and its token b never falls by
\* a trade.
THEOREM BackrunLeavesNothingBehind == Spec => NothingLeftBehind
<1> DEFINE Inv == PoolInv /\ Unapproved(chain)
<1>1. Spec => []Inv
  <2>1. Init => Unapproved(chain)
    BY ArbitrageConstants DEF Init
  <2>2. PoolInv /\ Unapproved(chain) /\ [Next]_vars => Unapproved(chain)'
    <3>1. ASSUME PoolInv, Unapproved(chain), Next PROVE Unapproved(chain')
      BY <3>1, StepLeavesNothing DEF PoolInv, LeavesNothing, Plain
    <3>2. ASSUME Unapproved(chain), UNCHANGED vars PROVE Unapproved(chain')
      BY <3>2 DEF vars, Unapproved
    <3>3. Unapproved(chain)' <=> Unapproved(chain')
      BY DEF Unapproved
    <3> QED BY <3>1, <3>2, <3>3
  <2> QED BY <2>1, <2>2, PoolInvHolds, PTL DEF Spec
<1>2. Inv /\ [Next]_vars =>
        [/\ Unapproved(chain')
         /\ chain'.reserve # chain.reserve =>
               /\ chain'.balance.a[Bot] = chain.balance.a[Bot]
               /\ chain'.balance.b[Bot] >= chain.balance.b[Bot]]_vars
  <2>1. ASSUME Inv, Next
        PROVE  /\ Unapproved(chain')
               /\ chain'.reserve # chain.reserve =>
                     /\ chain'.balance.a[Bot] = chain.balance.a[Bot]
                     /\ chain'.balance.b[Bot] >= chain.balance.b[Bot]
    <3>1. LeavesNothing(chain, chain') \/ Plain(chain, chain')
      BY <2>1, StepLeavesNothing DEF PoolInv
    <3> QED BY <2>1, <3>1 DEF LeavesNothing, Plain
  <2> QED BY <2>1
<1> QED BY <1>1, <1>2, PTL DEF Spec, NothingLeftBehind
=============================================================================
