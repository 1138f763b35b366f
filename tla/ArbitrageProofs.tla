--------------------------- MODULE ArbitrageProofs ---------------------------
(***************************************************************************)
(* Pools stay solvent, balances add up to the supply and no trade lowers   *)
(* the product of a pool's reserves, for every number of pools, every fee  *)
(* that is not negative, every width of a word and every transaction, the  *)
(* bot's bundles included. A call is Fair when it keeps all three; the     *)
(* contracts' calls are Fair one by one.                                   *)
(***************************************************************************)
EXTENDS Arbitrage, TLAPS, FiniteSetTheorems, WellFoundedInduction

\* The product of pool p's reserves.
Product(ch, p) == ch.reserve[p]["a"] * ch.reserve[p]["b"]

\* From ch to after, nothing is issued and what the holders have adds up to the
\* same.
SameTotals(ch, after) ==
    after.supply = ch.supply /\ \A t \in Token : Total(after.balance[t]) = Total(ch.balance[t])

\* From ch to after, pools stay backed, balances still add up to the supply, and
\* no product falls.
Fair(ch, after) ==
    /\ after \in Chain
    /\ Backed(ch) => Backed(after)
    /\ Conserved(ch) => Conserved(after)
    /\ \A p \in Pool : Product(after, p) >= Product(ch, p)

\* From ch to after, amount of a token goes from one holder to another, and
\* neither a reserve, nor a total, nor another balance changes.
Paid(ch, after, token, from, to, amount) ==
    /\ after \in Chain
    /\ after.reserve = ch.reserve
    /\ SameTotals(ch, after)
    /\ after.balance[token][from] = ch.balance[token][from] - amount
    /\ after.balance[token][to] = ch.balance[token][to] + amount
    /\ \A t \in Token, h \in Holder :
           t # token \/ h \notin {from, to} => after.balance[t][h] = ch.balance[t][h]

\* From ch to after, who gives pool p amountIn of a token for out of the other.
Traded(ch, after, p, who, tokenIn, amountIn, out) ==
    LET tokenOut == Other(tokenIn)
        r == ch.reserve[p]
    IN  /\ after \in Chain /\ SameTotals(ch, after)
        /\ HasAmountOut(amountIn, r[tokenIn], r[tokenOut])
        /\ out = GetAmountOut(amountIn, r[tokenIn], r[tokenOut])
        /\ out \in Nat /\ out <= r[tokenOut] /\ Fits(r[tokenIn] + amountIn)
        /\ after.reserve[p][tokenIn] = r[tokenIn] + amountIn
        /\ after.reserve[p][tokenOut] = r[tokenOut] - out
        /\ \A q \in Pool \ {p} : after.reserve[q] = ch.reserve[q]
        /\ after.balance[tokenIn][p] = ch.balance[tokenIn][p] + amountIn
        /\ after.balance[tokenOut][p] = ch.balance[tokenOut][p] - out
        /\ after.balance[tokenIn][who] = ch.balance[tokenIn][who] - amountIn
        /\ after.balance[tokenOut][who] = ch.balance[tokenOut][who] + out
        /\ \A t \in Token, h \in Holder \ {who, p} : after.balance[t][h] = ch.balance[t][h]

-----------------------------------------------------------------------------
(* Induction                                                               *)

\* The order of the natural numbers as a relation.
Below == OpToRel(<, Nat)

\* What Below relates.
LEMMA BelowIsLess == \A x \in Nat : \A y \in Nat : <<x, y>> \in Below <=> x < y
BY DEF Below, OpToRel

\* Every set of natural numbers has a least element: induction, for a set of
\* counterexamples.
LEMMA LeastElement ==
    ASSUME NEW T, T \subseteq Nat, T # {}
    PROVE  \E x \in T : \A y \in T : x <= y
<1>1. IsWellFoundedOn(Below, Nat)
  BY NatLessThanWellFounded, Zenon DEF Below
<1>2. PICK x \in T : \A y \in T : ~ (<<y, x>> \in Below)
  BY <1>1, WFMin
<1>3. \A y \in T : x <= y
  <2> TAKE y \in T
  <2>1. x \in Nat /\ y \in Nat
    OBVIOUS
  <2>2. ~ (<<y, x>> \in Below)
    BY <1>2
  <2>3. ~ (y < x)
    BY <2>1, <2>2, BelowIsLess
  <2> QED BY <2>1, <2>3
<1> QED BY <1>3

-----------------------------------------------------------------------------
(* Sums of balances                                                        *)

\* The holder a sum takes first.
Picked(s) == CHOOSE x \in s : TRUE

\* f adds up a book over the sets of holders in D.
IsSum(f, book, D) ==
    f = [s \in D |-> IF s = {} THEN 0 ELSE book[Picked(s)] + f[s \ {Picked(s)}]]

\* The subsets of S of at most n elements.
Small(S, n) == {s \in SUBSET S : Cardinality(s) <= n}

\* Without one of its elements, a set is smaller by one.
LEMMA SmallSets ==
    ASSUME NEW S, IsFiniteSet(S), NEW n \in Nat, NEW s \in Small(S, n), s # {}
    PROVE  /\ Picked(s) \in s /\ n > 0
           /\ s \ {Picked(s)} \in Small(S, n - 1)
           /\ s \ {Picked(s)} \in Small(S, n)
<1>1. Picked(s) \in s
  BY Zenon DEF Picked
<1>2. IsFiniteSet(s) /\ s \in SUBSET S /\ Cardinality(s) <= n
  BY FS_Subset DEF Small
<1>3. Cardinality(s) \in Nat
  BY <1>2, FS_CardinalityType
<1>4. Cardinality(s \ {Picked(s)}) = Cardinality(s) - 1 /\ IsFiniteSet(s \ {Picked(s)})
  BY <1>1, <1>2, FS_RemoveElement
<1>5. Cardinality(s \ {Picked(s)}) \in Nat
  BY <1>4, FS_CardinalityType
<1> QED BY <1>1, <1>2, <1>3, <1>4, <1>5 DEF Small

\* Sums over the sets of at most n elements exist.
LEMMA SumExists ==
    ASSUME NEW S, IsFiniteSet(S), NEW book, NEW n \in Nat
    PROVE  \E f : IsSum(f, book, Small(S, n))
<1> SUFFICES ASSUME ~ \E f : IsSum(f, book, Small(S, n)) PROVE FALSE
  OBVIOUS
<1> DEFINE T == {k \in Nat : ~ \E f : IsSum(f, book, Small(S, k))}
<1>1. PICK k \in T : \A y \in T : k <= y
  <2>1. T \subseteq Nat /\ T # {}
    OBVIOUS
  <2> HIDE DEF T
  <2> QED BY <2>1, LeastElement
<1>2. CASE k = 0
  <2> DEFINE f == [s \in Small(S, 0) |-> 0]
  <2>1. \A s \in Small(S, 0) : s = {}
    <3> TAKE s \in Small(S, 0)
    <3>1. s # {} => 0 > 0
      BY SmallSets
    <3> QED BY <3>1
  <2>2. IsSum(f, book, Small(S, 0))
    BY <2>1 DEF IsSum
  <2> QED BY <1>2, <2>2
<1>3. CASE k # 0
  <2>1. k \in Nat /\ k - 1 \in Nat /\ k - 1 < k
    BY <1>3
  <2>2. PICK f : IsSum(f, book, Small(S, k - 1))
    BY <1>1, <2>1
  <2> DEFINE D == Small(S, k)
             g == [s \in D |-> IF s = {} THEN 0 ELSE book[Picked(s)] + f[s \ {Picked(s)}]]
  <2>3. \A s \in Small(S, k - 1) : s \in D
    <3> TAKE s \in Small(S, k - 1)
    <3>1. s \in SUBSET S /\ Cardinality(s) <= k - 1
      BY DEF Small
    <3>2. Cardinality(s) \in Nat
      BY <3>1, FS_Subset, FS_CardinalityType
    <3> QED BY <2>1, <3>1, <3>2 DEF Small
  <2>4. \A s \in D : s # {} => s \ {Picked(s)} \in Small(S, k - 1) /\ s \ {Picked(s)} \in D
    BY <2>1, SmallSets
  <2> HIDE DEF D
  <2>5. \A s \in Small(S, k - 1) : g[s] = f[s]
    BY <2>2, <2>3, Zenon DEF IsSum
  <2>6. \A s \in D : g[s] = IF s = {} THEN 0 ELSE book[Picked(s)] + g[s \ {Picked(s)}]
    BY <2>4, <2>5
  <2>7. g = [s \in D |-> g[s]]
    OBVIOUS
  <2> HIDE DEF g
  <2>8. IsSum(g, book, D)
    BY <2>6, <2>7 DEF IsSum
  <2> QED BY <2>8 DEF D
<1> QED BY <1>2, <1>3

\* The holders are finitely many.
LEMMA HoldersFinite == IsFiniteSet(Holder)
<1>1. Pools \in [1 .. Len(Pools) -> Pool] /\ Len(Pools) \in Nat
  BY DexConstants
<1>2. IsFiniteSet(1 .. Len(Pools))
  BY <1>1, FS_Interval
<1>3. Pools \in Surjection(1 .. Len(Pools), Pool)
  BY <1>1 DEF Surjection, Pool
<1>4. IsFiniteSet(Pool)
  BY <1>2, <1>3, FS_Surjection
<1>5. IsFiniteSet(Pool \cup {Trader})
  BY <1>4, FS_AddElement
<1>6. IsFiniteSet((Pool \cup {Trader}) \cup {Bot})
  BY <1>5, FS_AddElement
<1>7. Holder = (Pool \cup {Trader}) \cup {Bot}
  BY DEF Holder
<1> QED BY <1>6, <1>7

\* The sums a total is made of.
Sums(book) == CHOOSE f : IsSum(f, book, SUBSET Holder)

\* The fold that defines a total adds up the book over every set of holders.
LEMMA TotalIsSum ==
    ASSUME NEW book
    PROVE  IsSum(Sums(book), book, SUBSET Holder) /\ Total(book) = Sums(book)[Holder]
<1>1. Total(book) = Sums(book)[Holder]
  BY Zenon DEF Total, Sums, IsSum, Picked, MapThenSumSet, MapThenFoldSet
<1> DEFINE n == Cardinality(Holder)
<1>2. n \in Nat
  BY HoldersFinite, FS_CardinalityType
<1>3. Small(Holder, n) = SUBSET Holder
  <2>1. \A s \in SUBSET Holder : Cardinality(s) <= n
    BY HoldersFinite, FS_Subset
  <2> QED BY <2>1 DEF Small
<1> HIDE DEF n
<1>4. \E f : IsSum(f, book, SUBSET Holder)
  <2>1. \E f : IsSum(f, book, Small(Holder, n))
    BY <1>2, HoldersFinite, SumExists
  <2> QED BY <1>3, <2>1
<1>5. IsSum(Sums(book), book, SUBSET Holder)
  BY <1>4, Zenon DEF Sums
<1> QED BY <1>1, <1>5

\* Two books that differ by d at one holder, and nowhere else.
Differ(one, two, h, d) == two[h] = one[h] + d /\ \A x \in Holder \ {h} : two[x] = one[x]

\* A sum is a natural number no smaller than any of its terms.
LEMMA SumBounds ==
    ASSUME NEW book \in [Holder -> Nat], NEW s \in SUBSET Holder
    PROVE  LET f == Sums(book)
           IN  f[s] \in Nat /\ \A h \in s : book[h] <= f[s]
<1> DEFINE f == Sums(book)
           Good(x) == f[x] \in Nat /\ \A h \in x : book[h] <= f[x]
           T == {Cardinality(x) : x \in {y \in SUBSET Holder : ~ Good(y)}}
<1>1. \A x \in SUBSET Holder : IsFiniteSet(x) /\ Cardinality(x) \in Nat
  BY HoldersFinite, FS_Subset, FS_CardinalityType
<1>2. IsSum(f, book, SUBSET Holder)
  BY TotalIsSum
<1> HIDE DEF f
<1> SUFFICES ASSUME ~ Good(s) PROVE FALSE
  BY DEF f
<1>3. PICK k \in T : \A y \in T : k <= y
  <2>1. T \subseteq Nat /\ T # {}
    BY <1>1
  <2> HIDE DEF T
  <2> QED BY <2>1, LeastElement
<1>4. PICK x \in SUBSET Holder : ~ Good(x) /\ k = Cardinality(x)
  OBVIOUS
<1> HIDE DEF Good
<1>5. CASE x = {}
  <2>1. f[x] = 0
    BY <1>2, <1>5 DEF IsSum
  <2> QED BY <1>4, <1>5, <2>1 DEF Good
<1>6. CASE x # {}
  <2> DEFINE h == Picked(x)
             rest == x \ {h}
  <2>1. h \in x /\ rest \in SUBSET Holder
    BY <1>6, Zenon DEF Picked
  <2>2. Cardinality(rest) = Cardinality(x) - 1 /\ Cardinality(x) \in Nat
    BY <1>1, <2>1, FS_RemoveElement
  <2>3. f[x] = book[h] + f[rest]
    BY <1>2, <1>6 DEF IsSum
  <2> HIDE DEF h
  <2>4. Good(rest)
    <3>1. ~ (k <= Cardinality(rest))
      BY <1>1, <1>4, <2>2
    <3>2. Cardinality(rest) \notin T
      BY <1>3, <3>1
    <3> QED BY <2>1, <3>2
  <2>5. book[h] \in Nat
    BY <2>1
  <2>6. f[x] \in Nat /\ book[h] <= f[x] /\ f[rest] <= f[x]
    BY <2>3, <2>4, <2>5 DEF Good
  <2>7. \A y \in rest : book[y] \in Nat /\ book[y] <= f[x]
    BY <2>1, <2>4, <2>6 DEF Good
  <2>8. \A y \in x : y = h \/ y \in rest
    OBVIOUS
  <2>9. Good(x)
    BY <2>6, <2>7, <2>8 DEF Good
  <2> QED BY <1>4, <2>9
<1> QED BY <1>5, <1>6

\* A sum follows a change of one of its terms.
LEMMA SumFollows ==
    ASSUME NEW one \in [Holder -> Nat], NEW two \in [Holder -> Nat], NEW h \in Holder,
           NEW d \in Int, Differ(one, two, h, d), NEW s \in SUBSET Holder
    PROVE  Sums(two)[s] = Sums(one)[s] + IF h \in s THEN d ELSE 0
<1> DEFINE f == Sums(one)
           g == Sums(two)
           Good(x) == g[x] = f[x] + IF h \in x THEN d ELSE 0
           T == {Cardinality(x) : x \in {y \in SUBSET Holder : ~ Good(y)}}
<1>1. \A x \in SUBSET Holder : IsFiniteSet(x) /\ Cardinality(x) \in Nat
  BY HoldersFinite, FS_Subset, FS_CardinalityType
<1>2. IsSum(f, one, SUBSET Holder) /\ IsSum(g, two, SUBSET Holder)
  BY TotalIsSum
<1>3. \A x \in SUBSET Holder : f[x] \in Nat /\ g[x] \in Nat
  BY SumBounds
<1> HIDE DEF f, g
<1> SUFFICES ASSUME ~ Good(s) PROVE FALSE
  BY DEF f, g
<1>4. PICK k \in T : \A y \in T : k <= y
  <2>1. T \subseteq Nat /\ T # {}
    BY <1>1
  <2> HIDE DEF T
  <2> QED BY <2>1, LeastElement
<1>5. PICK x \in SUBSET Holder : ~ Good(x) /\ k = Cardinality(x)
  OBVIOUS
<1> HIDE DEF Good
<1>6. CASE x = {}
  <2>1. f[x] = 0 /\ g[x] = 0
    BY <1>2, <1>6 DEF IsSum
  <2>2. h \notin x
    BY <1>6
  <2> QED BY <1>5, <2>1, <2>2 DEF Good
<1>7. CASE x # {}
  <2> DEFINE p == Picked(x)
             rest == x \ {p}
  <2>1. p \in x /\ rest \in SUBSET Holder /\ p \in Holder
    BY <1>7, Zenon DEF Picked
  <2>2. Cardinality(rest) = Cardinality(x) - 1 /\ Cardinality(x) \in Nat
    BY <1>1, <2>1, FS_RemoveElement
  <2>3. f[x] = one[p] + f[rest] /\ g[x] = two[p] + g[rest]
    BY <1>2, <1>7 DEF IsSum
  <2> HIDE DEF p
  <2>4. Good(rest)
    <3>1. ~ (k <= Cardinality(rest))
      BY <1>1, <1>5, <2>2
    <3>2. Cardinality(rest) \notin T
      BY <1>4, <3>1
    <3> QED BY <2>1, <3>2
  <2>5. one[p] \in Nat /\ two[p] \in Nat /\ f[rest] \in Nat /\ g[rest] \in Nat
    BY <1>3, <2>1
  <2>6. CASE p = h
    <3>1. h \in x /\ h \notin rest /\ two[p] = one[p] + d
      BY <2>1, <2>6 DEF Differ
    <3>2. g[rest] = f[rest]
      BY <2>4, <2>5, <3>1 DEF Good
    <3>3. g[x] = f[x] + d
      BY <2>3, <2>5, <3>1, <3>2
    <3> QED BY <1>5, <3>1, <3>3 DEF Good
  <2>7. CASE p # h
    <3>1. two[p] = one[p] /\ (h \in x <=> h \in rest)
      BY <2>1, <2>7 DEF Differ
    <3> DEFINE e == IF h \in x THEN d ELSE 0
    <3>2. e \in Int /\ e = IF h \in rest THEN d ELSE 0
      BY <3>1
    <3> HIDE DEF e
    <3>3. g[rest] = f[rest] + e
      BY <2>4, <3>2 DEF Good
    <3>4. g[x] = f[x] + e
      BY <2>3, <2>5, <3>1, <3>2, <3>3
    <3> QED BY <1>5, <3>4 DEF Good, e
  <2> QED BY <2>6, <2>7
<1> QED BY <1>6, <1>7

\* A balance is never above the total.
LEMMA TotalBounds ==
    ASSUME NEW book \in [Holder -> Nat]
    PROVE  Total(book) \in Nat /\ \A h \in Holder : book[h] <= Total(book)
<1>1. Holder \in SUBSET Holder
  OBVIOUS
<1> QED BY <1>1, SumBounds, TotalIsSum

\* The total follows a change of one balance.
LEMMA TotalFollows ==
    ASSUME NEW one \in [Holder -> Nat], NEW two \in [Holder -> Nat], NEW h \in Holder,
           NEW d \in Int, Differ(one, two, h, d)
    PROVE  Total(two) = Total(one) + d
<1>1. Holder \in SUBSET Holder
  OBVIOUS
<1>2. Sums(two)[Holder] = Sums(one)[Holder] + IF h \in Holder THEN d ELSE 0
  BY <1>1, SumFollows
<1>3. Total(one) = Sums(one)[Holder] /\ Total(two) = Sums(two)[Holder]
  BY TotalIsSum
<1> QED BY <1>2, <1>3

\* What leaves one account and enters another leaves the total as it is.
LEMMA MovedTotal ==
    ASSUME NEW book \in [Holder -> Nat], NEW from \in Holder, NEW to \in Holder,
           NEW amount \in Nat, amount <= book[from], from # to
    PROVE  Total(Moved(book, from, to, amount)) = Total(book)
<1> DEFINE mid == [book EXCEPT ![from] = @ - amount]
           two == Moved(book, from, to, amount)
<1>1. mid \in [Holder -> Nat] /\ Differ(book, mid, from, 0 - amount)
  BY DEF Differ
<1>2. two \in [Holder -> Nat] /\ Differ(mid, two, to, amount)
  BY DEF Differ, Moved
<1> HIDE DEF mid, two
<1>3. Total(mid) = Total(book) + (0 - amount) /\ Total(two) = Total(mid) + amount
  BY <1>1, <1>2, TotalFollows
<1>4. Total(book) \in Nat
  BY TotalBounds
<1> QED BY <1>3, <1>4 DEF two

-----------------------------------------------------------------------------
(* Tokens                                                                  *)

\* Approving touches nothing but the allowance.
LEMMA ApproveEffect ==
    ASSUME NEW ch \in Chain, NEW token \in Token, NEW owner \in {Trader, Bot}, NEW p \in Pool,
           NEW amount \in Nat
    PROVE  LET after == Approve(ch, token, owner, p, amount)
           IN  /\ after \in Chain /\ after.reserve = ch.reserve
               /\ after.balance = ch.balance /\ after.supply = ch.supply
<1> DEFINE mine == [ch.allowance[token][owner] EXCEPT ![p] = amount]
           ofToken == [ch.allowance[token] EXCEPT ![owner] = mine]
           all == [ch.allowance EXCEPT ![token] = ofToken]
<1>1. ch.allowance \in [Token -> [{Trader, Bot} -> [Pool -> Nat]]]
  BY DEF Chain
<1>2. mine \in [Pool -> Nat]
  BY <1>1
<1>3. ofToken \in [{Trader, Bot} -> [Pool -> Nat]]
  BY <1>1, <1>2
<1>4. all \in [Token -> [{Trader, Bot} -> [Pool -> Nat]]]
  BY <1>1, <1>3
<1>5. Approve(ch, token, owner, p, amount) = [ch EXCEPT !.allowance = all]
  BY DEF Approve
<1> HIDE DEF all
<1> QED BY <1>4, <1>5 DEF Chain

\* What Moved does to the two accounts, and that it touches no other.
LEMMA MovedBook ==
    ASSUME NEW book \in [Holder -> Nat], NEW from \in Holder, NEW to \in Holder,
           NEW amount \in Nat, amount <= book[from], from # to
    PROVE  /\ Moved(book, from, to, amount) \in [Holder -> Nat]
           /\ Moved(book, from, to, amount)[from] = book[from] - amount
           /\ Moved(book, from, to, amount)[to] = book[to] + amount
           /\ \A h \in Holder \ {from, to} : Moved(book, from, to, amount)[h] = book[h]
BY DEF Moved

\* A transfer moves the amount and touches nothing but the two balances.
LEMMA TransferEffect ==
    ASSUME NEW ch \in Chain, NEW token \in Token, NEW from \in Holder, NEW to \in Holder,
           NEW amount \in Nat, from # to, Transfer(ch, token, from, to, amount).ok
    PROVE  Paid(ch, Transfer(ch, token, from, to, amount).chain, token, from, to, amount)
<1> DEFINE book == Moved(ch.balance[token], from, to, amount)
           after == [ch EXCEPT !.balance[token] = book]
<1>1. Transfer(ch, token, from, to, amount).chain = after /\ ch.balance[token][from] >= amount
  <2>1. ch.balance[token][from] \in Nat
    BY DEF Chain
  <2> QED BY <2>1 DEF Transfer, Revert, Return
<1>2. ch.balance[token] \in [Holder -> Nat]
  BY DEF Chain
<1>3. /\ book \in [Holder -> Nat]
      /\ book[from] = ch.balance[token][from] - amount
      /\ book[to] = ch.balance[token][to] + amount
      /\ \A h \in Holder \ {from, to} : book[h] = ch.balance[token][h]
  BY <1>1, <1>2, MovedBook
<1>4. Total(book) = Total(ch.balance[token])
  BY <1>1, <1>2, MovedTotal
<1> HIDE DEF book
<1>5. after \in Chain /\ after.reserve = ch.reserve /\ after.balance[token] = book
      /\ \A t \in Token : t # token => after.balance[t] = ch.balance[t]
  BY <1>3 DEF Chain
<1>6. SameTotals(ch, after)
  <2>1. after.supply = ch.supply
    BY DEF Chain
  <2> HIDE DEF after
  <2> QED BY <1>4, <1>5, <2>1 DEF SameTotals
<1> QED BY <1>1, <1>3, <1>5, <1>6 DEF Paid

\* A pool's transferFrom has the same effect on the balances.
LEMMA TransferFromEffect ==
    ASSUME NEW ch \in Chain, NEW token \in Token, NEW from \in {Trader, Bot}, NEW p \in Pool,
           NEW amount \in Nat, from # p, TransferFrom(ch, token, from, p, amount).ok
    PROVE  Paid(ch, TransferFrom(ch, token, from, p, amount).chain, token, from, p, amount)
<1> DEFINE allowed == ch.allowance[token][from][p]
           spent == IF allowed = MaxWord THEN ch
                    ELSE [ch EXCEPT !.allowance[token][from][p] = allowed - amount]
<1>1. allowed \in Nat
  BY DEF Chain
<1>2. /\ allowed >= amount
      /\ Transfer(ch, token, from, p, amount).ok
      /\ TransferFrom(ch, token, from, p, amount) = Transfer(spent, token, from, p, amount)
  BY <1>1 DEF TransferFrom, Revert
<1>3. /\ spent \in Chain /\ spent.reserve = ch.reserve
      /\ spent.balance = ch.balance /\ spent.supply = ch.supply
  <2>1. CASE allowed = MaxWord
    BY <2>1
  <2>2. CASE allowed # MaxWord
    <3>1. allowed - amount \in Nat /\ spent = Approve(ch, token, from, p, allowed - amount)
      BY <1>1, <1>2, <2>2 DEF Approve
    <3> QED BY <3>1, ApproveEffect
  <2> QED BY <2>1, <2>2
<1> HIDE DEF spent
<1>4. Transfer(spent, token, from, p, amount).ok
  BY <1>2, <1>3 DEF Transfer, Revert, Return
<1>5. from \in Holder /\ p \in Holder
  BY DEF Holder
<1>6. Paid(spent, Transfer(spent, token, from, p, amount).chain, token, from, p, amount)
  BY <1>3, <1>4, <1>5, TransferEffect
<1> QED BY <1>2, <1>3, <1>6 DEF Paid, SameTotals
-----------------------------------------------------------------------------
(* Pools                                                                   *)

\* Cancelling a positive factor.
LEMMA CancelFactor ==
    ASSUME NEW n \in Nat, n > 0, NEW u \in Nat, NEW v \in Nat, n * u <= n * v
    PROVE  u <= v
<1> SUFFICES ASSUME u >= v + 1 PROVE FALSE
  OBVIOUS
<1>1. n * u >= n * (v + 1)
  OBVIOUS
<1>2. n * (v + 1) = n * v + n
  OBVIOUS
<1> QED BY <1>1, <1>2

\* getAmountOut never gives more than the product of the reserves allows.
LEMMA AmountOutKeepsProduct ==
    ASSUME NEW x \in Nat, NEW ra \in Nat, NEW rb \in Nat, x > 0, ra > 0
    PROVE  LET out == GetAmountOut(x, ra, rb)
           IN  out \in Nat /\ (out <= rb => (ra + x) * (rb - out) >= ra * rb)
<1> DEFINE n == FeeNumerator
           d == FeeDenominator
           num == x * n * rb
           den == ra * d + x * n
           out == num \div den
<1>1. n \in Nat /\ n > 0 /\ d \in Nat /\ d >= n
  BY DexConstants
<1> HIDE DEF n, d
<1>2. num \in Nat /\ den \in Nat
  BY <1>1
<1>3. den >= n * (ra + x) /\ n * (ra + x) > 0
  <2>1. ra * d >= ra * n
    BY <1>1
  <2>2. n * (ra + x) = ra * n + x * n
    BY <1>1
  <2>3. n * (ra + x) > 0
    BY <1>1
  <2> QED BY <1>1, <2>1, <2>2, <2>3
<1>4. out \in Nat /\ out * den <= num
  <2> HIDE DEF num, den
  <2>1. den > 0
    BY <1>1, <1>2, <1>3
  <2> QED BY <1>2, <2>1
<1>5. out * (ra + x) <= x * rb
  <2> HIDE DEF out
  <2>1. out * (n * (ra + x)) <= out * den
    <3> HIDE DEF den
    <3>1. n * (ra + x) \in Nat
      BY <1>1
    <3> QED BY <1>2, <1>3, <1>4, <3>1
  <2>2. n * (out * (ra + x)) <= n * (x * rb)
    <3>1. n * (out * (ra + x)) = out * (n * (ra + x)) /\ n * (x * rb) = num
      BY <1>1, <1>4
    <3>2. out * den \in Nat /\ out * (n * (ra + x)) \in Nat
      BY <1>1, <1>2, <1>4
    <3> QED BY <1>2, <1>4, <2>1, <3>1, <3>2
  <2>3. out * (ra + x) \in Nat /\ x * rb \in Nat
    BY <1>4
  <2> QED BY <1>1, <2>2, <2>3, CancelFactor
<1>6. GetAmountOut(x, ra, rb) = out
  BY DEF GetAmountOut, n, d
<1> HIDE DEF out
<1>7. out <= rb => (ra + x) * (rb - out) >= ra * rb
  <2>1. (ra + x) * (rb - out) = ra * rb + x * rb - out * (ra + x)
    BY <1>4
  <2> QED BY <1>4, <1>5, <2>1
<1> QED BY <1>4, <1>6, <1>7

\* Nothing is issued by calls one after the other.
LEMMA SameTotalsCompose ==
    ASSUME NEW c1, NEW c2, NEW c3, SameTotals(c1, c2), SameTotals(c2, c3)
    PROVE  SameTotals(c1, c3)
BY DEF SameTotals

\* Where the totals stay, they still add up to the supply.
LEMMA SameTotalsConserved ==
    ASSUME NEW ch, NEW after, SameTotals(ch, after), Conserved(ch)
    PROVE  Conserved(after)
BY DEF SameTotals, Conserved

\* Calls one after the other.
LEMMA FairComposes ==
    ASSUME NEW c1 \in Chain, NEW c2 \in Chain, NEW c3 \in Chain, Fair(c1, c2), Fair(c2, c3)
    PROVE  Fair(c1, c3)
<1> SUFFICES ASSUME NEW p \in Pool PROVE Product(c3, p) >= Product(c1, p)
  BY DEF Fair
<1>1. Product(c1, p) \in Nat /\ Product(c2, p) \in Nat /\ Product(c3, p) \in Nat
  BY DEF Product, Chain, Token
<1> QED BY <1>1 DEF Fair

\* Reserves as before, and no pool holds less.
LEMMA SameReservesFair ==
    ASSUME NEW ch \in Chain, NEW after \in Chain, after.reserve = ch.reserve,
           \A t \in Token, p \in Pool : after.balance[t][p] >= ch.balance[t][p],
           Conserved(ch) => Conserved(after)
    PROVE  Fair(ch, after)
<1>1. \A p \in Pool : Product(ch, p) \in Nat
  BY DEF Product, Chain, Token
<1>2. \A p \in Pool, t \in Token :
         /\ ch.reserve[p][t] \in Nat /\ p \in Holder
         /\ ch.balance[t][p] \in Nat /\ after.balance[t][p] \in Nat
  BY DEF Chain, Holder
<1>3. Backed(ch) => Backed(after)
  BY <1>2 DEF Backed
<1>4. \A p \in Pool : Product(after, p) = Product(ch, p)
  BY DEF Product
<1> QED BY <1>1, <1>3, <1>4 DEF Fair

\* Reserves and holdings of one pool change by the same amounts, and its product
\* does not fall.
LEMMA OnePoolFair ==
    ASSUME NEW ch \in Chain, NEW after \in Chain, NEW p \in Pool,
           \A q \in Pool \ {p} : after.reserve[q] = ch.reserve[q],
           \A t \in Token : after.reserve[p][t] - ch.reserve[p][t]
                               = after.balance[t][p] - ch.balance[t][p],
           \A t \in Token, q \in Pool \ {p} : after.balance[t][q] = ch.balance[t][q],
           Product(after, p) >= Product(ch, p), SameTotals(ch, after)
    PROVE  Fair(ch, after)
<1>1. \A q \in Pool : Product(ch, q) \in Nat
  BY DEF Product, Chain, Token
<1>2. \A q \in Pool, t \in Token :
         /\ ch.reserve[q][t] \in Nat /\ after.reserve[q][t] \in Nat
         /\ ch.balance[t][q] \in Nat /\ after.balance[t][q] \in Nat
  BY DEF Chain, Holder
<1>3. Backed(ch) => Backed(after)
  BY <1>2 DEF Backed
<1>4. \A q \in Pool \ {p} : Product(after, q) = Product(ch, q)
  BY DEF Product
<1>5. Conserved(ch) => Conserved(after)
  BY SameTotalsConserved
<1> QED BY <1>1, <1>3, <1>4, <1>5 DEF Fair

\* A swap that does not revert does this, and nothing else to any pool or to
\* who's balances.
LEMMA SwapEffect ==
    ASSUME NEW ch \in Chain, NEW p \in Pool, NEW who \in {Trader, Bot}, NEW tokenIn \in Token,
           NEW amountIn \in Nat, NEW min, Swap(ch, p, who, tokenIn, amountIn, min).ok
    PROVE  LET call == Swap(ch, p, who, tokenIn, amountIn, min)
           IN  Traded(ch, call.chain, p, who, tokenIn, amountIn, call.out) /\ call.out >= min
<1> DEFINE call == Swap(ch, p, who, tokenIn, amountIn, min)
           tokenOut == Other(tokenIn)
           r == ch.reserve[p]
           out == GetAmountOut(amountIn, r[tokenIn], r[tokenOut])
           pulled == TransferFrom(ch, tokenIn, who, p, amountIn)
           paid == Transfer(pulled.chain, tokenOut, p, who, out)
           traded == [[r EXCEPT ![tokenIn] = @ + amountIn] EXCEPT ![tokenOut] = @ - out]
           after == call.chain
<1>1. /\ HasAmountOut(amountIn, r[tokenIn], r[tokenOut])
      /\ pulled.ok /\ paid.ok /\ out <= r[tokenOut] /\ Fits(r[tokenIn] + amountIn)
      /\ call.out = out /\ out >= min
      /\ after = [paid.chain EXCEPT !.reserve[p] = traded]
  BY DEF Swap, Revert, Return
<1> HIDE DEF call
<1>2. tokenOut \in Token /\ tokenIn # tokenOut /\ {tokenIn, tokenOut} = Token
  BY DEF Token, Other
<1>3. r[tokenIn] \in Nat /\ r[tokenOut] \in Nat /\ r \in [Token -> Nat]
  BY <1>2 DEF Chain
<1>4. amountIn > 0 /\ r[tokenIn] > 0
  BY <1>1 DEF HasAmountOut
<1>5. out \in Nat /\ r[tokenOut] - out \in Nat
  <2>1. out \in Nat
    BY <1>3, <1>4, AmountOutKeepsProduct
  <2>2. out <= r[tokenOut]
    BY <1>1
  <2> HIDE DEF out
  <2> QED BY <1>3, <2>1, <2>2
<1>6. who # p /\ who \in Holder /\ p \in Holder
  BY DexConstants DEF Holder
<1> HIDE DEF out, pulled, tokenOut
<1>7. Paid(ch, pulled.chain, tokenIn, who, p, amountIn)
  <2>1. TransferFrom(ch, tokenIn, who, p, amountIn).ok
    BY <1>1 DEF pulled
  <2> QED BY <1>6, <2>1, TransferFromEffect DEF pulled
<1>8. Paid(pulled.chain, paid.chain, tokenOut, p, who, out)
  <2>1. pulled.chain \in Chain
    BY <1>7 DEF Paid
  <2> QED BY <1>1, <1>2, <1>5, <1>6, <2>1, TransferEffect
<1> HIDE DEF paid, r
<1>9. /\ traded \in [Token -> Nat]
      /\ traded[tokenIn] = r[tokenIn] + amountIn
      /\ traded[tokenOut] = r[tokenOut] - out
  BY <1>2, <1>3, <1>5
<1> HIDE DEF traded, after
<1>10. /\ after \in Chain /\ after.balance = paid.chain.balance /\ after.reserve[p] = traded
       /\ \A q \in Pool \ {p} : after.reserve[q] = ch.reserve[q]
  BY <1>1, <1>7, <1>8, <1>9 DEF Chain, Paid
<1>11. /\ after.balance[tokenIn][p] = ch.balance[tokenIn][p] + amountIn
       /\ after.balance[tokenIn][who] = ch.balance[tokenIn][who] - amountIn
  BY <1>2, <1>6, <1>7, <1>8, <1>10 DEF Paid
<1>12. /\ after.balance[tokenOut][p] = ch.balance[tokenOut][p] - out
       /\ after.balance[tokenOut][who] = ch.balance[tokenOut][who] + out
  BY <1>2, <1>6, <1>7, <1>8, <1>10 DEF Paid
<1>13. \A t \in Token, h \in Holder \ {who, p} : after.balance[t][h] = ch.balance[t][h]
  BY <1>2, <1>7, <1>8, <1>10 DEF Paid
<1>14. SameTotals(ch, after)
  <2>1. SameTotals(ch, pulled.chain) /\ SameTotals(pulled.chain, paid.chain)
    BY <1>7, <1>8 DEF Paid
  <2>2. SameTotals(ch, paid.chain)
    BY <2>1, SameTotalsCompose
  <2>3. after.supply = paid.chain.supply
    BY <1>1, <1>8 DEF Paid, Chain
  <2> QED BY <1>10, <2>2, <2>3 DEF SameTotals
<1>15. Traded(ch, after, p, who, tokenIn, amountIn, out)
  BY <1>1, <1>5, <1>9, <1>10, <1>11, <1>12, <1>13, <1>14 DEF Traded, r, out, tokenOut
<1> QED BY <1>1, <1>15 DEF after, call

\* A swap is fair, in either direction and with any minimum.
LEMMA SwapFair ==
    ASSUME NEW ch \in Chain, NEW p \in Pool, NEW who \in {Trader, Bot}, NEW tokenIn \in Token,
           NEW amountIn \in Nat, NEW min, Swap(ch, p, who, tokenIn, amountIn, min).ok
    PROVE  LET call == Swap(ch, p, who, tokenIn, amountIn, min)
           IN  call.out \in Nat /\ Fair(ch, call.chain)
<1> DEFINE after == Swap(ch, p, who, tokenIn, amountIn, min).chain
           out == Swap(ch, p, who, tokenIn, amountIn, min).out
           tokenOut == Other(tokenIn)
           r == ch.reserve[p]
<1>1. Traded(ch, after, p, who, tokenIn, amountIn, out)
  BY SwapEffect
<1> HIDE DEF after, out
<1>2. tokenOut \in Token /\ tokenIn # tokenOut /\ {tokenIn, tokenOut} = Token
  BY DEF Token, Other
<1>3. r[tokenIn] \in Nat /\ r[tokenOut] \in Nat /\ r \in [Token -> Nat]
  BY <1>2 DEF Chain
<1> HIDE DEF tokenOut
<1>4. /\ after \in Chain /\ out \in Nat /\ out <= r[tokenOut]
      /\ out = GetAmountOut(amountIn, r[tokenIn], r[tokenOut])
      /\ amountIn > 0 /\ r[tokenIn] > 0
      /\ after.reserve[p][tokenIn] = r[tokenIn] + amountIn
      /\ after.reserve[p][tokenOut] = r[tokenOut] - out
  BY <1>1 DEF Traded, tokenOut, HasAmountOut
<1>5. \A t \in Token : after.reserve[p][t] - ch.reserve[p][t]
                          = after.balance[t][p] - ch.balance[t][p]
  <2>1. \A t \in Token : ch.balance[t][p] \in Nat
    BY DEF Chain, Holder
  <2>2. /\ after.balance[tokenIn][p] = ch.balance[tokenIn][p] + amountIn
        /\ after.balance[tokenOut][p] = ch.balance[tokenOut][p] - out
    BY <1>1 DEF Traded, tokenOut
  <2> QED BY <1>2, <1>3, <1>4, <2>1, <2>2
<1>6. \A t \in Token, q \in Pool \ {p} : after.balance[t][q] = ch.balance[t][q]
  <2>1. \A q \in Pool \ {p} : q \in Holder \ {who, p}
    BY DexConstants DEF Holder
  <2> QED BY <1>1, <2>1 DEF Traded
<1>7. Product(after, p) >= Product(ch, p)
  <2>1. (r[tokenIn] + amountIn) * (r[tokenOut] - out) >= r[tokenIn] * r[tokenOut]
    BY <1>3, <1>4, AmountOutKeepsProduct
  <2> DEFINE r2 == after.reserve[p]
  <2>2. r2["a"] \in Nat /\ r2["b"] \in Nat /\ r["a"] \in Nat /\ r["b"] \in Nat
    BY <1>3, <1>4 DEF Chain, Token
  <2>3. Product(ch, p) = r["a"] * r["b"] /\ Product(after, p) = r2["a"] * r2["b"]
    BY DEF Product
  <2>4. r2[tokenIn] * r2[tokenOut] >= r[tokenIn] * r[tokenOut]
    BY <1>4, <2>1
  <2> HIDE DEF r2, r
  <2>5. CASE tokenIn = "a" /\ tokenOut = "b"
    BY <2>3, <2>4, <2>5
  <2>6. CASE tokenIn = "b" /\ tokenOut = "a"
    BY <2>2, <2>3, <2>4, <2>6
  <2> QED BY <1>2, <2>5, <2>6 DEF Token
<1>8. \A q \in Pool \ {p} : after.reserve[q] = ch.reserve[q]
  BY <1>1 DEF Traded
<1>9. SameTotals(ch, after)
  BY <1>1 DEF Traded
<1>10. Fair(ch, after)
  BY <1>4, <1>5, <1>6, <1>7, <1>8, <1>9, OnePoolFair
<1> QED BY <1>4, <1>10 DEF after, out

\* Seeding is fair.
LEMMA SeedLiquidityFair ==
    ASSUME NEW ch \in Chain, NEW p \in Pool, NEW x \in Nat, NEW y \in Nat,
           SeedLiquidity(ch, p, Trader, x, y).ok
    PROVE  Fair(ch, SeedLiquidity(ch, p, Trader, x, y).chain)
<1> DEFINE first == TransferFrom(ch, "a", Trader, p, x)
           second == TransferFrom(first.chain, "b", Trader, p, y)
           seeded == [t \in Token |-> ch.reserve[p][t] + IF t = "a" THEN x ELSE y]
           after == SeedLiquidity(ch, p, Trader, x, y).chain
<1>1. /\ first.ok /\ second.ok
      /\ after = [second.chain EXCEPT !.reserve[p] = seeded]
  BY DEF SeedLiquidity, Revert, Return
<1>2. "a" \in Token /\ "b" \in Token /\ Token = {"a", "b"} /\ Trader # p /\ p \in Holder
  BY DexConstants DEF Token, Holder
<1> HIDE DEF first
<1>3. Paid(ch, first.chain, "a", Trader, p, x)
  BY <1>1, <1>2, TransferFromEffect DEF first
<1>4. Paid(first.chain, second.chain, "b", Trader, p, y)
  <2>1. first.chain \in Chain
    BY <1>3 DEF Paid
  <2> QED BY <1>1, <1>2, <2>1, TransferFromEffect
<1> HIDE DEF second
<1>5. \A t \in Token : ch.reserve[p][t] \in Nat /\ ch.balance[t][p] \in Nat
  BY DEF Chain, Holder
<1>6. /\ seeded \in [Token -> Nat]
      /\ seeded["a"] = ch.reserve[p]["a"] + x /\ seeded["b"] = ch.reserve[p]["b"] + y
  BY <1>2, <1>5
<1> HIDE DEF seeded, after
<1>7. /\ after \in Chain /\ after.balance = second.chain.balance /\ after.reserve[p] = seeded
      /\ \A q \in Pool \ {p} : after.reserve[q] = ch.reserve[q]
  BY <1>1, <1>3, <1>4, <1>6 DEF Chain, Paid
<1>8. \A t \in Token : after.reserve[p][t] - ch.reserve[p][t]
                          = after.balance[t][p] - ch.balance[t][p]
  <2>1. /\ after.balance["a"][p] = ch.balance["a"][p] + x
        /\ after.balance["b"][p] = ch.balance["b"][p] + y
    BY <1>2, <1>3, <1>4, <1>7 DEF Paid
  <2> QED BY <1>2, <1>5, <1>6, <1>7, <2>1
<1>9. \A t \in Token, q \in Pool \ {p} : after.balance[t][q] = ch.balance[t][q]
  <2>1. \A q \in Pool \ {p} : q \in Holder /\ q \notin {Trader, p}
    BY DexConstants DEF Holder
  <2> QED BY <1>3, <1>4, <1>7, <2>1 DEF Paid
<1>10. Product(after, p) >= Product(ch, p)
  <2> DEFINE ra == ch.reserve[p]["a"]
             rb == ch.reserve[p]["b"]
  <2>1. ra \in Nat /\ rb \in Nat
    BY <1>2, <1>5
  <2>2. Product(after, p) = (ra + x) * (rb + y) /\ Product(ch, p) = ra * rb
    BY <1>6, <1>7 DEF Product
  <2> HIDE DEF ra, rb
  <2>3. (ra + x) * (rb + y) = ra * rb + ra * y + x * rb + x * y
    BY <2>1
  <2>4. ra * rb \in Nat /\ ra * y \in Nat /\ x * rb \in Nat /\ x * y \in Nat
    BY <2>1
  <2> QED BY <2>2, <2>3, <2>4
<1>11. SameTotals(ch, after)
  <2>1. SameTotals(ch, first.chain) /\ SameTotals(first.chain, second.chain)
    BY <1>3, <1>4 DEF Paid
  <2>2. SameTotals(ch, second.chain)
    BY <2>1, SameTotalsCompose
  <2>3. after.supply = second.chain.supply
    BY <1>1, <1>4 DEF Paid, Chain
  <2> QED BY <1>7, <2>2, <2>3 DEF SameTotals
<1> QED BY <1>7, <1>8, <1>9, <1>10, <1>11, OnePoolFair DEF after

\* A transfer by the trader or the backrun contract is fair.
LEMMA TransferFair ==
    ASSUME NEW ch \in Chain, NEW token \in Token, NEW from \in {Trader, Bot},
           NEW to \in Holder, NEW amount \in Nat, from # to, Transfer(ch, token, from, to, amount).ok
    PROVE  Fair(ch, Transfer(ch, token, from, to, amount).chain)
<1> DEFINE after == Transfer(ch, token, from, to, amount).chain
<1>1. from \in Holder /\ \A p \in Pool : p \in Holder /\ p # from
  BY DexConstants DEF Holder
<1>2. Paid(ch, after, token, from, to, amount)
  BY <1>1, TransferEffect
<1> HIDE DEF after
<1>3. \A t \in Token, p \in Pool : ch.balance[t][p] \in Nat
  BY <1>1 DEF Chain
<1>4. \A t \in Token, p \in Pool : after.balance[t][p] >= ch.balance[t][p]
  <2> SUFFICES ASSUME NEW t \in Token, NEW p \in Pool
               PROVE  after.balance[t][p] >= ch.balance[t][p]
    OBVIOUS
  <2>1. CASE t = token /\ p = to
    BY <1>2, <1>3, <2>1 DEF Paid
  <2>2. CASE t # token \/ p # to
    BY <1>1, <1>2, <1>3, <2>2 DEF Paid
  <2> QED BY <2>1, <2>2
<1>5. Conserved(ch) => Conserved(after)
  BY <1>2, SameTotalsConserved DEF Paid
<1> QED BY <1>2, <1>4, <1>5, SameReservesFair DEF Paid, after

\* Minting is fair.
LEMMA MintFair ==
    ASSUME NEW ch \in Chain, NEW token \in Token, NEW to \in Holder, NEW amount \in Nat,
           Mint(ch, token, to, amount).ok
    PROVE  Fair(ch, Mint(ch, token, to, amount).chain)
<1> DEFINE book == [ch.balance[token] EXCEPT ![to] = ch.balance[token][to] + amount]
           minted == [ch.balance EXCEPT ![token] = book]
           issued == [ch.supply EXCEPT ![token] = ch.supply[token] + amount]
           after == Mint(ch, token, to, amount).chain
<1>1. after = [ch EXCEPT !.supply = issued, !.balance = minted] /\ Fits(ch.supply[token] + amount)
  <2>1. Fits(ch.supply[token] + amount)
    BY DEF Mint, Revert
  <2>2. after = [ch EXCEPT !.supply[token] = @ + amount, !.balance[token][to] = @ + amount]
    BY DEF Mint, Revert, Return
  <2> QED BY <2>1, <2>2
<1>2. ch.balance \in [Token -> [Holder -> Nat]] /\ ch.supply \in [Token -> Nat]
  BY DEF Chain
<1>3. /\ minted \in [Token -> [Holder -> Nat]] /\ issued \in [Token -> Nat]
      /\ \A t \in Token, h \in Holder : minted[t][h] >= ch.balance[t][h]
  <2>1. book \in [Holder -> Nat] /\ \A h \in Holder : book[h] >= ch.balance[token][h]
    BY <1>2
  <2> HIDE DEF book
  <2>2. issued \in [Token -> Nat]
    BY <1>2
  <2>3. minted \in [Token -> [Holder -> Nat]]
    BY <1>2, <2>1
  <2>4. \A t \in Token, h \in Holder : minted[t][h] >= ch.balance[t][h]
    BY <1>2, <2>1
  <2> QED BY <2>2, <2>3, <2>4
<1>4. /\ minted[token] = book /\ issued[token] = ch.supply[token] + amount
      /\ \A t \in Token \ {token} : minted[t] = ch.balance[t] /\ issued[t] = ch.supply[t]
  BY <1>2
<1> HIDE DEF minted, issued, after
<1>5. after \in Chain /\ after.reserve = ch.reserve /\ after.balance = minted /\ after.supply = issued
  BY <1>1, <1>3 DEF Chain
<1>6. Total(book) = Total(ch.balance[token]) + amount
  <2>1. ch.balance[token] \in [Holder -> Nat] /\ book \in [Holder -> Nat]
    BY <1>2
  <2>2. Differ(ch.balance[token], book, to, amount)
    BY <2>1 DEF Differ
  <2> QED BY <2>1, <2>2, TotalFollows
<1> HIDE DEF book
<1>7. Conserved(ch) => Conserved(after)
  BY <1>1, <1>4, <1>5, <1>6 DEF Conserved
<1> QED BY <1>3, <1>5, <1>7, SameReservesFair DEF after, Holder

\* Approving is fair.
LEMMA ApproveFair ==
    ASSUME NEW ch \in Chain, NEW token \in Token, NEW owner \in {Trader, Bot}, NEW p \in Pool,
           NEW amount \in Nat
    PROVE  Fair(ch, Approve(ch, token, owner, p, amount))
<1> DEFINE after == Approve(ch, token, owner, p, amount)
<1>1. /\ after \in Chain /\ after.reserve = ch.reserve
      /\ after.balance = ch.balance /\ after.supply = ch.supply
  BY ApproveEffect
<1>2. \A t \in Token, q \in Pool : ch.balance[t][q] \in Nat
  BY DEF Chain, Holder
<1> HIDE DEF after
<1>3. Conserved(ch) => Conserved(after)
  BY <1>1 DEF Conserved
<1> QED BY <1>1, <1>2, <1>3, SameReservesFair DEF after

\* executeBackrun, two approvals and two swaps, is fair.
LEMMA ExecuteBackrunFair ==
    ASSUME NEW ch \in Chain, NEW buy, NEW sell, NEW amountInB, NEW minA, NEW minB, NEW minProfit,
           ExecuteBackrun(ch, buy, sell, amountInB, minA, minB, minProfit).ok
    PROVE  Fair(ch, ExecuteBackrun(ch, buy, sell, amountInB, minA, minB, minProfit).chain)
<1> DEFINE c1 == Approve(ch, "b", Bot, buy, amountInB)
           bought == Swap(c1, buy, Bot, "b", amountInB, minA)
           c2 == Approve(bought.chain, "a", Bot, sell, bought.out)
           sold == Swap(c2, sell, Bot, "a", bought.out, minB)
<1>1. /\ buy \in Pool /\ sell \in Pool /\ Fits(amountInB) /\ bought.ok /\ sold.ok
      /\ ExecuteBackrun(ch, buy, sell, amountInB, minA, minB, minProfit).chain = sold.chain
  BY DEF ExecuteBackrun, Revert, Return
<1>2. amountInB \in Nat /\ "a" \in Token /\ "b" \in Token /\ Bot \in {Trader, Bot}
  BY <1>1 DEF Fits, Token
<1>3. c1 \in Chain /\ Fair(ch, c1)
  BY <1>1, <1>2, ApproveFair DEF Fair
<1> HIDE DEF c1
<1>4. bought.out \in Nat /\ bought.chain \in Chain /\ Fair(c1, bought.chain)
  BY <1>1, <1>2, <1>3, SwapFair DEF Fair
<1> HIDE DEF bought
<1>5. c2 \in Chain /\ Fair(bought.chain, c2)
  BY <1>1, <1>2, <1>4, ApproveFair DEF Fair
<1> HIDE DEF c2
<1>6. sold.chain \in Chain /\ Fair(c2, sold.chain)
  BY <1>1, <1>2, <1>4, <1>5, SwapFair DEF Fair
<1> HIDE DEF sold
<1>7. Fair(ch, bought.chain)
  BY <1>3, <1>4, FairComposes
<1>8. Fair(ch, c2)
  BY <1>4, <1>5, <1>7, FairComposes
<1>9. Fair(ch, sold.chain)
  BY <1>5, <1>6, <1>8, FairComposes
<1> QED BY <1>1, <1>9

-----------------------------------------------------------------------------
(* The chain                                                               *)

\* The invariant: the contracts' state is typed, pools hold their reserves, and
\* balances add up.
PoolInv == chain \in Chain /\ Solvent /\ SupplyConserved

\* Amounts in transactions are natural numbers.
LEMMA AmountsNat ==
    (\A x \in Amounts : x \in Nat) /\ (\A x \in Gifts : x \in Nat)
BY ArbitrageConstants

\* The trader's swap is fair.
LEMMA VictimSwapFair ==
    ASSUME chain \in Chain, NEW v \in Victim, VictimSwap(v).ok
    PROVE  Fair(chain, VictimSwap(v).chain)
<1>1. v.pool \in Pool /\ v.tokenIn \in Token /\ v.amount_in \in Nat
  BY AmountsNat DEF Victim
<1> QED BY <1>1, SwapFair DEF VictimSwap

\* Every transaction is fair.
LEMMA StepFair ==
    ASSUME chain \in Chain, Next
    PROVE  Fair(chain, chain')
<1>1. CASE MineSwap
  <2>1. PICK v \in Victim : VictimSwap(v).ok /\ chain' = VictimSwap(v).chain
    BY <1>1 DEF MineSwap, Mine
  <2> QED BY <2>1, VictimSwapFair
<1>2. CASE MineBundle
  <2>1. PICK v \in Victim : \E o \in FindArbitrage(chain.reserve, v) :
           VictimSwap(v).ok /\ Mine(Backrun(v, o))
    BY <1>2 DEF MineBundle
  <2>2. PICK o : VictimSwap(v).ok /\ Mine(Backrun(v, o))
    BY <2>1
  <2> DEFINE before == VictimSwap(v).chain
  <2>3. before \in Chain /\ Fair(chain, before)
    BY <2>2, VictimSwapFair DEF Fair
  <2>4. Backrun(v, o).ok /\ chain' = Backrun(v, o).chain
    BY <2>2 DEF Mine
  <2> HIDE DEF before
  <2>5. Fair(before, chain')
    BY <2>3, <2>4, ExecuteBackrunFair DEF Backrun, before
  <2> QED BY <2>3, <2>5, FairComposes DEF Fair
<1>3. CASE MineSeed
  <2>1. PICK p \in Pool, x \in Amounts, y \in Amounts : Mine(SeedLiquidity(chain, p, Trader, x, y))
    BY <1>3 DEF MineSeed
  <2>2. x \in Nat /\ y \in Nat
    BY AmountsNat
  <2> QED BY <2>1, <2>2, SeedLiquidityFair DEF Mine
<1>4. CASE MineWithdraw
  <2>1. PICK t \in Token, x \in Amounts : Mine(Transfer(chain, t, Bot, Trader, x))
    BY <1>4 DEF MineWithdraw, WithdrawToken
  <2>2. x \in Nat /\ Bot # Trader /\ Trader \in Holder
    BY AmountsNat, DexConstants DEF Holder
  <2> QED BY <2>1, <2>2, TransferFair DEF Mine
<1>5. CASE MineTransfer
  <2>1. PICK t \in Token, h \in Holder \ {Trader}, x \in Gifts : Mine(Transfer(chain, t, Trader, h, x))
    BY <1>5 DEF MineTransfer
  <2>2. x \in Nat
    BY AmountsNat
  <2> QED BY <2>1, <2>2, TransferFair DEF Mine
<1>6. CASE MineMint
  <2>1. PICK t \in Token, h \in Holder, x \in Gifts : Mine(Mint(chain, t, h, x))
    BY <1>6 DEF MineMint
  <2>2. x \in Nat
    BY AmountsNat
  <2> QED BY <2>1, <2>2, MintFair DEF Mine
<1>7. CASE MineApprove
  <2>1. PICK t \in Token, p \in Pool, x \in Gifts : Mine(Return(0, Approve(chain, t, Trader, p, x)))
    BY <1>7 DEF MineApprove
  <2>2. x \in Nat /\ chain' = Approve(chain, t, Trader, p, x)
    BY <2>1, AmountsNat DEF Mine, Return
  <2> QED BY <2>2, ApproveFair
<1> QED BY <1>1, <1>2, <1>3, <1>4, <1>5, <1>6, <1>7 DEF Next

\* The invariant holds: it holds of the chains to start from, and a fair step
\* keeps it.
THEOREM PoolInvHolds == Spec => []PoolInv
<1>1. Init => PoolInv
  BY ArbitrageConstants DEF Init, PoolInv, Solvent, SupplyConserved
<1>2. PoolInv /\ [Next]_vars => PoolInv'
  <2>1. ASSUME PoolInv, Next PROVE PoolInv'
    BY <2>1, StepFair DEF PoolInv, Solvent, SupplyConserved, Fair
  <2>2. ASSUME PoolInv, UNCHANGED vars PROVE PoolInv'
    BY <2>2 DEF PoolInv, Solvent, SupplyConserved, vars
  <2> QED BY <2>1, <2>2
<1> QED BY <1>1, <1>2, PTL DEF Spec

\* Every pool holds what SandboxDex's reserves say, whoever swaps, seeds, mints
\* or transfers, in any order.
THEOREM PoolsSolvent == Spec => []Solvent
BY PoolInvHolds, PTL DEF PoolInv

\* Balances of SandboxERC20 add up to its supply, which fits a word, so that no
\* balance and no reserve overflows, though _transfer and the pools move amounts
\* without looking at the supply.
THEOREM SuppliesConserved == Spec => []SupplyConserved
BY PoolInvHolds, PTL DEF PoolInv

\* No transaction lowers the product of a pool's reserves: getAmountOut rounds
\* for the pool, whatever the fee.
THEOREM ProductsNeverFall == Spec => ProductNeverFalls
<1>1. PoolInv /\ [Next]_vars =>
        [\A p \in Pool : chain'.reserve[p]["a"] * chain'.reserve[p]["b"]
                            >= chain.reserve[p]["a"] * chain.reserve[p]["b"]]_vars
  BY StepFair DEF PoolInv, Fair, Product
<1> QED BY <1>1, PoolInvHolds, PTL DEF Spec, ProductNeverFalls
=============================================================================
