--------------------------- MODULE BundleFlowProofs ---------------------------
(***************************************************************************)
(* A backrun reaches the chain only as it was simulated, the nonce stays   *)
(* in step and the public mempool tells the truth, for any victims, any    *)
(* number of attempts, faults and blocks; and what a request left in the   *)
(* node's pool is the only thing that comes between.                       *)
(*                                                                         *)
(* The argument: requests are served one after the other, so an abandoned  *)
(* submission is over before any later simulation is taken; the clients'   *)
(* chain (Perm) changes only when a submission or another client's bundle  *)
(* is mined; the node's pool holds what the handler has sent and swaps     *)
(* that were stranded there; a bundle whose block is still the head is     *)
(* therefore run on the very chain its last simulation ran on, with the    *)
(* same transactions if nothing was stranded; and the node takes one       *)
(* transaction of the bot per nonce, so a bundle that was mined and whose  *)
(* answer was lost is never mined again.                                   *)
(***************************************************************************)
EXTENDS BundleFlow, SequenceTheorems, FiniteSetTheorems, TLAPS

\* The values of the state.
Op == {"simulate", "submit"}
Stage == {"admit", "head", "snapshot", "send", "mine", "receipts", "revert"}
Outcome == {"included", "failed"}
Status == {"pending", "included", "reverted", "missing", "absent"}

Request == [op : Op, bundle : Bundle, live : BOOLEAN]
Handler ==
    [stage : Stage, op : Op, bundle : Bundle, live : BOOLEAN, base : Int,
     sent : 0 .. 2, result : {"none", "error"} \cup Outcome]
Bot == [stage : Op, bundle : Bundle, attempt : Nat]
Tx == [from : Accounts \cup {"bot"}, victim : Victims, nonce : Nat, block : Int]
Result == [tx : Tx, ok : BOOLEAN]

\* The type of the state.
FlowType ==
    /\ chain \in Seq(SUBSET Result)
    /\ node_pool \in SUBSET Tx
    /\ stranded \in SUBSET Victims
    /\ records \in [Victims -> Status]
    /\ inbox \in Seq(Request)
    /\ handler \in {Idle} \cup Handler
    /\ bot \in {[stage |-> "wait"]} \cup Bot
    /\ answer \in {"none", "error", "conflict"} \cup Outcome
    /\ next_nonce \in Nat
    /\ faults \in Nat
    /\ troubles \subseteq {"answer", "rpc", "builder", "node"}

\* The handler is at work.
Busy == handler # Idle

\* The bot waits for one request at most, the last one; every request carries
\* the bot's present nonce; and a result is only looked at when nothing is left
\* behind it.
Protocol ==
    /\ \A i \in 1 .. Len(inbox) :
          /\ inbox[i].bundle.nonce = next_nonce
          /\ inbox[i].live => /\ i = Len(inbox) /\ answer = "none"
                              /\ bot.stage = inbox[i].op /\ bot.bundle = inbox[i].bundle
    /\ Busy => /\ handler.bundle.nonce = next_nonce
               /\ handler.live => /\ inbox = <<>> /\ answer = "none"
                                  /\ bot.stage = handler.op /\ bot.bundle = handler.bundle
    /\ bot.stage # "wait" => bot.bundle.nonce = next_nonce
    /\ bot.stage = "wait" => answer = "none"
    /\ answer \in Outcome \cup {"conflict"} => inbox = <<>> /\ ~Busy

\* Submissions are served before simulations.
Order ==
    /\ bot.stage = "submit" => /\ \A i \in 1 .. Len(inbox) : inbox[i].op = "submit"
                               /\ Busy => handler.op = "submit"
    /\ Busy /\ handler.op = "simulate" => \A i \in 1 .. Len(inbox) : inbox[i].op = "simulate"
    /\ \A i, j \in 1 .. Len(inbox) : i <= j /\ inbox[j].op = "submit" => inbox[i].op = "submit"

\* Before a handler has done anything on the node.
Early == {"admit", "head", "snapshot"}

\* Where handler h stands to chain c at each of its stages.
PhaseOf(c, h) ==
    h # Idle =>
        /\ h.op = "submit" => h.base = -1 /\ h.stage \notin {"snapshot", "revert"}
        /\ h.stage \in Early => h.base = -1 /\ h.sent = 0
        /\ h.stage = "snapshot" => h.bundle.block = Len(c)
        /\ h.stage \notin Early /\ h.op = "simulate" => h.base = h.bundle.block
        /\ h.stage = "send" => h.sent \in 0 .. 1
        /\ h.stage \in {"mine", "receipts"} => h.sent = 2
        /\ h.stage \in {"send", "mine"} => Len(c) = h.bundle.block
        /\ h.stage = "receipts" => Len(c) = h.bundle.block + 1
        /\ h.stage = "revert" => Len(c) \in {h.base, h.base + 1} /\ h.result # "none"
        /\ h.stage \notin {"revert"} => h.result = "none"

Phase == PhaseOf(chain, handler)

\* The chain a client sees: without the block of a simulation.
PermOf(c, h) == SubSeq(c, 1, IF h.stage # "idle" /\ h.base >= 0 THEN h.base ELSE Len(c))
Perm == PermOf(chain, handler)

\* Transactions on a chain and in the pool.
Has(c, t) == \E p \in Places(c) : TxAt(p) = t
BotPlaces(c) == {p \in Places(c) : TxAt(p).from = "bot"}
BotCount(c) == Cardinality(BotPlaces(c))
BotsIn(pool) == {t \in pool : t.from = "bot"}

\* A bundle of the bot is mined: its answer has not been looked at, or its
\* receipts have not been read.
Submitting == bot.stage = "submit" /\ answer \in Outcome
Counting == Busy /\ handler.op = "submit" /\ handler.stage = "receipts"

\* The composer's nonce against the chain, the clients' chain and the pool, which
\* holds one transaction of the bot at most.
Nonces ==
    /\ IsFiniteSet(BotPlaces(chain))
    /\ BotCount(chain) \in {next_nonce, next_nonce + 1}
    /\ BotCount(Perm) \in {next_nonce, next_nonce + 1}
    /\ \A t \in BotsIn(node_pool) : t.nonce = next_nonce /\ BotCount(chain) = next_nonce
    /\ \A s, t \in BotsIn(node_pool) : s = t
    /\ Busy /\ handler.stage = "mine" => BotsIn(node_pool) # {}
    /\ Counting \/ Submitting => BotCount(chain) = next_nonce + 1

\* Without trouble the nonce is exact when no bundle is being accounted for.
Settled == troubles = {} /\ ~Counting /\ ~Submitting => BotCount(Perm) = next_nonce

\* Once the answer to a mined bundle is lost nothing of the bot's is mined.
Frozen ==
    troubles = {"answer"} =>
        /\ BotCount(Perm) = next_nonce + 1
        /\ Busy => handler.stage \notin {"mine", "receipts"} /\ handler.result \notin Outcome
        /\ answer \notin Outcome

\* What the handler has sent and not yet mined.
InHand ==
    IF Busy /\ handler.stage \in {"send", "mine"}
    THEN {Items(handler.bundle)[i] : i \in 1 .. handler.sent} ELSE {}

\* The node's pool has what was sent and, as long as no call of the node failed
\* and nothing restarted, only swaps left behind besides.
PoolHolds ==
    /\ InHand \subseteq node_pool
    /\ troubles \subseteq {"answer"} => node_pool \subseteq InHand \cup {VictimTx(v) : v \in stranded}

\* Nothing went wrong and nothing was left in the node's pool.
Clean == troubles = {} /\ stranded = {}

\* The transactions of a bundle, and its block when it ran as it should.
BundleTxs(b) == {VictimTx(b.victim), BackrunTx(b)}
GoodBlock(b) == {[tx |-> VictimTx(b.victim), ok |-> TRUE], [tx |-> BackrunTx(b), ok |-> TRUE]}

\* The bundle's last run on the chain c it was priced for ended well.
Priced(c, b) ==
    b.block = Len(c) =>
        executed.on = c /\ executed.pool = BundleTxs(b) /\ executed.block = GoodBlock(b)

\* Without trouble nobody has priced a bundle on a block that is not there.
Blocks ==
    troubles = {} =>
        /\ bot.stage # "wait" => bot.bundle.block <= Len(Perm)
        /\ \A i \in 1 .. Len(inbox) : inbox[i].bundle.block <= Len(Perm)
        /\ Busy => handler.bundle.block <= Len(Perm)

\* Whatever is or will be submitted, and whatever was answered as included, has
\* been simulated on the clients' chain unless the chain has grown since.
Pricing ==
    Clean =>
        /\ \A i \in 1 .. Len(inbox) : inbox[i].op = "submit" => Priced(Perm, inbox[i].bundle)
        /\ Busy /\ handler.op = "submit" => Priced(Perm, handler.bundle)
        /\ bot.stage = "submit" \/ answer = "included" => Priced(Perm, bot.bundle)
        /\ Busy /\ handler.result = "included" => Priced(Perm, handler.bundle)

\* The block e has the two transactions of bundle b, once each.
RunOf(b, e) ==
    \E x, y \in BOOLEAN : e = {[tx |-> VictimTx(b.victim), ok |-> x], [tx |-> BackrunTx(b), ok |-> y]}

\* A simulation's block is the last that was run, on the chain under it.
Simulated ==
    Clean /\ Busy /\ handler.op = "simulate" /\ handler.stage = "receipts" =>
        /\ executed.on = Perm /\ executed.pool = BundleTxs(handler.bundle)
        /\ chain = Append(Perm, executed.block) /\ RunOf(handler.bundle, executed.block)

\* A simulation runs a victim that is not on the chain: its record was pending.
Fresh ==
    Clean /\ Busy /\ handler.op = "simulate" /\ handler.stage # "admit" =>
        ~Has(Perm, VictimTx(handler.bundle.victim))

\* What MinedAsSimulated says of one place of a chain, and of all of them, when
\* the swaps of s were stranded.
GoodPlace(c, s, p) ==
    LET t == TxAt(p)
    IN  t.from = "bot" =>
          /\ t.block = p[1] - 1
          /\ \A r \in c[p[1]] : r.tx = t \/ \E v \in s \cup {t.victim} : r.tx = VictimTx(v)
          /\ s = {} => c[p[1]] = {[tx |-> VictimTx(t.victim), ok |-> TRUE], [tx |-> t, ok |-> TRUE]}

GoodChain(c, s) == \A p \in Places(c) : GoodPlace(c, s, p)
MinedGood == troubles \subseteq {"answer"} => GoodChain(Perm, stranded)

\* The status the record of victim v should have on chain c.
StatusOn(c, v) == IF Has(c, VictimTx(v)) THEN TxStatus(c, VictimTx(v)) ELSE "pending"

\* The records of the swaps that were not stranded are those of the clients'
\* chain, but for the one about to be marked.
RecordsTrue ==
    troubles \subseteq {"answer"} =>
        /\ \A v \in Victims \ stranded :
              (Counting => v # handler.bundle.victim) => records[v] = StatusOn(Perm, v)
        /\ Counting /\ handler.bundle.victim \notin stranded =>
              Has(chain, VictimTx(handler.bundle.victim))

\* The inductive invariant. A node that restarts loses the chain and with it
\* everything that is said here.
Core ==
    /\ FlowType /\ Protocol /\ Order /\ Phase
    /\ Nonces /\ Settled /\ Frozen
    /\ PoolHolds /\ Blocks /\ Pricing /\ Simulated /\ Fresh
    /\ MinedGood /\ RecordsTrue

FlowInv == "node" \notin troubles => Core

-----------------------------------------------------------------------------
(* Blocks and places                                                       *)

\* A place is a block and a transaction in it.
LEMMA PlacesOf ==
  ASSUME NEW c, NEW p
  PROVE  p \in Places(c) <=> \E i \in 1 .. Len(c) : \E r \in c[i] : p = <<i, r>>
BY DEF Places

\* The bot's transactions in a block.
BlockBots(b) == {r \in b : r.tx.from = "bot"}

\* A new block leaves the places of the old ones and adds its own.
LEMMA PlacesAppend ==
  ASSUME NEW c \in Seq(SUBSET Result), NEW b \in SUBSET Result
  PROVE  /\ \A p : p \in Places(Append(c, b)) <=>
                     p \in Places(c) \/ \E r \in b : p = <<Len(c) + 1, r>>
         /\ \A p \in Places(c) : Append(c, b)[p[1]] = c[p[1]] /\ p[1] \in 1 .. Len(c)
         /\ Append(c, b)[Len(c) + 1] = b
<1> DEFINE d == Append(c, b)
<1>1. /\ Len(d) = Len(c) + 1 /\ Len(c) \in Nat /\ d[Len(c) + 1] = b
      /\ \A i \in 1 .. Len(c) : d[i] = c[i]
  BY AppendProperties, LenProperties
<1> HIDE DEF d
<1>2. ASSUME NEW p PROVE p \in Places(d) <=> p \in Places(c) \/ \E r \in b : p = <<Len(c) + 1, r>>
  <2>1. ASSUME p \in Places(d) PROVE p \in Places(c) \/ \E r \in b : p = <<Len(c) + 1, r>>
    <3>0. PICK i \in 1 .. Len(d) : \E r \in d[i] : p = <<i, r>>
      BY <2>1, PlacesOf
    <3>1. PICK r \in d[i] : p = <<i, r>>
      BY <3>0
    <3>2. CASE i = Len(c) + 1
      BY <1>1, <3>1, <3>2
    <3>3. CASE i \in 1 .. Len(c)
      BY <1>1, <3>1, <3>3, PlacesOf
    <3> QED
      BY <1>1, <3>2, <3>3
  <2>2. ASSUME p \in Places(c) PROVE p \in Places(d)
    <3>0. PICK i \in 1 .. Len(c) : \E r \in c[i] : p = <<i, r>>
      BY <2>2, PlacesOf
    <3>2. i \in 1 .. Len(d) /\ d[i] = c[i]
      BY <1>1
    <3> QED
      BY <3>0, <3>2, PlacesOf
  <2>3. ASSUME NEW r \in b, p = <<Len(c) + 1, r>> PROVE p \in Places(d)
    <3>1. Len(c) + 1 \in 1 .. Len(d) /\ r \in d[Len(c) + 1]
      BY <1>1
    <3> QED
      BY <2>3, <3>1, PlacesOf
  <2> QED
    BY <2>1, <2>2, <2>3
<1>3. ASSUME NEW p \in Places(c) PROVE d[p[1]] = c[p[1]] /\ p[1] \in 1 .. Len(c)
  <2>1. PICK i \in 1 .. Len(c) : \E r \in c[i] : p = <<i, r>>
    BY PlacesOf
  <2> QED
    BY <1>1, <2>1
<1> QED
  BY <1>1, <1>2, <1>3 DEF d

\* A block with no transaction of the bot, or with one, and the bot's nonce.
LEMMA BotCountAppend ==
  ASSUME NEW c \in Seq(SUBSET Result), NEW b \in SUBSET Result, IsFiniteSet(BotPlaces(c))
  PROVE  /\ BlockBots(b) = {} => BotPlaces(Append(c, b)) = BotPlaces(c)
         /\ \A k : BlockBots(b) = {k} =>
              IsFiniteSet(BotPlaces(Append(c, b))) /\ BotCount(Append(c, b)) = BotCount(c) + 1
<1> DEFINE d == Append(c, b)
           n == Len(c) + 1
<1>1. /\ \A p : p \in Places(d) <=> p \in Places(c) \/ \E r \in b : p = <<n, r>>
      /\ \A p \in Places(c) : p[1] # n
  <2>1. Len(c) \in Nat
    BY LenProperties
  <2>2. \A p : p \in Places(d) <=> p \in Places(c) \/ \E r \in b : p = <<n, r>>
    BY PlacesAppend, Zenon
  <2>3. \A p \in Places(c) : p[1] \in 1 .. Len(c)
    BY PlacesAppend, Zenon
  <2> QED
    BY <2>1, <2>2, <2>3
<1> HIDE DEF d, n
<1>2. \A p : p \in BotPlaces(d) <=> p \in BotPlaces(c) \/ \E r \in BlockBots(b) : p = <<n, r>>
  <2>1. \A r : TxAt(<<n, r>>) = r.tx
    BY DEF TxAt
  <2> QED
    BY <1>1, <2>1 DEF BotPlaces, BlockBots
<1>3. ASSUME BlockBots(b) = {} PROVE BotPlaces(d) = BotPlaces(c)
  BY <1>2, <1>3
<1>4. ASSUME NEW k, BlockBots(b) = {k} PROVE IsFiniteSet(BotPlaces(d)) /\ BotCount(d) = BotCount(c) + 1
  <2>1. BotPlaces(d) = BotPlaces(c) \cup {<<n, k>>}
    BY <1>2, <1>4
  <2>2. <<n, k>> \notin BotPlaces(c)
    BY <1>1 DEF BotPlaces
  <2> DEFINE x == <<n, k>>
  <2>3. BotPlaces(d) = BotPlaces(c) \cup {x} /\ x \notin BotPlaces(c)
    BY <2>1, <2>2
  <2> HIDE DEF x
  <2> QED
    BY <2>3, FS_AddElement DEF BotCount
<1> QED
  BY <1>3, <1>4 DEF d

\* A prefix of the chain.
LEMMA PrefixPlaces ==
  ASSUME NEW c \in Seq(SUBSET Result), NEW n \in 0 .. Len(c)
  PROVE  /\ SubSeq(c, 1, n) \in Seq(SUBSET Result) /\ Len(SubSeq(c, 1, n)) = n
         /\ \A i \in 1 .. n : SubSeq(c, 1, n)[i] = c[i]
         /\ n = Len(c) => SubSeq(c, 1, n) = c
<1>1. Len(c) \in Nat /\ n \in Int /\ 1 \in Int /\ \A i \in 1 .. n : c[i] \in SUBSET Result
  BY LenProperties, ElementOfSeq
<1>2. /\ SubSeq(c, 1, n) \in Seq(SUBSET Result)
      /\ Len(SubSeq(c, 1, n)) = IF 1 <= n THEN n - 1 + 1 ELSE 0
      /\ \A i \in 1 .. n - 1 + 1 : SubSeq(c, 1, n)[i] = c[1 + i - 1]
  BY <1>1, SubSeqProperties
<1>3. Len(SubSeq(c, 1, n)) = n
  BY <1>1, <1>2
<1>4. \A i \in 1 .. n : SubSeq(c, 1, n)[i] = c[i]
  BY <1>1, <1>2
<1>5. n = Len(c) => SubSeq(c, 1, n) = c
  BY SubSeqFull
<1> QED
  BY <1>2, <1>3, <1>4, <1>5

\* A prefix of the chain has no more transactions of the bot.
LEMMA PrefixBots ==
  ASSUME NEW c \in Seq(SUBSET Result), NEW n \in 0 .. Len(c), IsFiniteSet(BotPlaces(c))
  PROVE  /\ IsFiniteSet(BotPlaces(SubSeq(c, 1, n)))
         /\ BotCount(SubSeq(c, 1, n)) \in Nat /\ BotCount(c) \in Nat
         /\ BotCount(SubSeq(c, 1, n)) <= BotCount(c)
<1> DEFINE d == SubSeq(c, 1, n)
<1>1. Len(d) = n /\ \A i \in 1 .. n : d[i] = c[i]
  BY PrefixPlaces
<1>2. Len(c) \in Nat
  BY LenProperties
<1> HIDE DEF d
<1>3. ASSUME NEW p \in Places(d) PROVE p \in Places(c)
  <2>0. PICK i \in 1 .. Len(d) : \E r \in d[i] : p = <<i, r>>
    BY PlacesOf
  <2>1. i \in 1 .. Len(c) /\ d[i] = c[i]
    BY <1>1, <1>2
  <2> QED
    BY <2>0, <2>1, PlacesOf
<1>4. BotPlaces(d) \subseteq BotPlaces(c)
  BY <1>3 DEF BotPlaces
<1>5. IsFiniteSet(BotPlaces(d)) /\ BotCount(d) <= BotCount(c)
  BY <1>4, FS_Subset DEF BotCount
<1>6. BotCount(d) \in Nat /\ BotCount(c) \in Nat
  BY <1>5, FS_CardinalityType DEF BotCount
<1> QED
  BY <1>5, <1>6 DEF d

-----------------------------------------------------------------------------
(* The chain under a simulation                                            *)

\* The handler's chain has a block more than the clients' only after a
\* simulation has mined.
LEMMA PermFacts ==
  ASSUME NEW c \in Seq(SUBSET Result), NEW h \in {Idle} \cup Handler, PhaseOf(c, h)
  PROVE  /\ PermOf(c, h) \in Seq(SUBSET Result) /\ Len(PermOf(c, h)) \in Nat
         /\ Len(PermOf(c, h)) <= Len(c)
         /\ Len(PermOf(c, h)) = IF h.stage # "idle" /\ h.base >= 0 THEN h.base ELSE Len(c)
         /\ \E n \in 0 .. Len(c) : PermOf(c, h) = SubSeq(c, 1, n)
         /\ IF h # Idle /\ h.op = "simulate" /\ h.stage \in {"receipts", "revert"}
            THEN /\ Len(PermOf(c, h)) = h.bundle.block
                 /\ PermOf(c, h) = SubSeq(c, 1, h.base)
            ELSE PermOf(c, h) = c
<1> DEFINE n == IF h.stage # "idle" /\ h.base >= 0 THEN h.base ELSE Len(c)
<1>1. Len(c) \in Nat
  BY LenProperties
<1>2. /\ n \in 0 .. Len(c)
      /\ IF h # Idle /\ h.op = "simulate" /\ h.stage \in {"receipts", "revert"}
         THEN n = h.base /\ h.base = h.bundle.block ELSE n = Len(c)
  <2>1. CASE h = Idle
    <3>1. h.stage = "idle"
      BY <2>1 DEF Idle
    <3> QED
      BY <1>1, <2>1, <3>1
  <2>2. CASE h # Idle /\ (h.op = "submit" \/ h.stage \in Early)
    <3>1. h.base = -1 /\ ~(h.op = "simulate" /\ h.stage \in {"receipts", "revert"})
      BY <2>2 DEF PhaseOf, Early
    <3> QED
      BY <1>1, <3>1
  <2>3. CASE h # Idle /\ h.op # "submit" /\ h.stage \notin Early
    <3>1. h \in Handler /\ h.op = "simulate" /\ h.stage \in {"send", "mine", "receipts", "revert"}
      BY <2>3 DEF Handler, Op, Stage, Early
    <3>2. h.base = h.bundle.block /\ h.base \in Nat
      BY <2>3, <3>1 DEF PhaseOf, Handler, Bundle
    <3>3. Len(c) \in {h.base, h.base + 1} /\ (h.stage \in {"send", "mine"} => Len(c) = h.base)
      BY <2>3, <3>1, <3>2 DEF PhaseOf
    <3>4. h.stage # "idle"
      BY <3>1
    <3> QED
      BY <1>1, <2>3, <3>1, <3>2, <3>3, <3>4
  <2> QED
    BY <2>1, <2>2, <2>3
<1>3. PermOf(c, h) = SubSeq(c, 1, n)
  BY DEF PermOf
<1> HIDE DEF n
<1>4. /\ SubSeq(c, 1, n) \in Seq(SUBSET Result) /\ Len(SubSeq(c, 1, n)) = n
      /\ n = Len(c) => SubSeq(c, 1, n) = c
  BY <1>2, PrefixPlaces
<1>5. n = IF h.stage # "idle" /\ h.base >= 0 THEN h.base ELSE Len(c)
  BY DEF n
<1>6. PermOf(c, h) \in Seq(SUBSET Result) /\ Len(PermOf(c, h)) = n /\ n \in Nat /\ n <= Len(c)
  BY <1>1, <1>2, <1>3, <1>4
<1> QED
  BY <1>1, <1>2, <1>3, <1>4, <1>5, <1>6

\* The chains of a state that satisfies the invariant.
LEMMA PermNow ==
  ASSUME FlowType, Phase, Nonces
  PROVE  /\ chain \in Seq(SUBSET Result) /\ Len(chain) \in Nat
         /\ Perm \in Seq(SUBSET Result) /\ Len(Perm) \in Nat /\ Len(Perm) <= Len(chain)
         /\ BotCount(Perm) \in Nat /\ BotCount(chain) \in Nat /\ BotCount(Perm) <= BotCount(chain)
         /\ IsFiniteSet(BotPlaces(Perm))
         /\ IF Busy /\ handler.op = "simulate" /\ handler.stage \in {"receipts", "revert"}
            THEN Len(Perm) = handler.bundle.block /\ Perm = SubSeq(chain, 1, handler.base)
            ELSE Perm = chain
<1>1. chain \in Seq(SUBSET Result) /\ handler \in {Idle} \cup Handler
  BY DEF FlowType
<1>2. /\ Perm \in Seq(SUBSET Result) /\ Len(Perm) \in Nat /\ Len(Perm) <= Len(chain)
      /\ \E n \in 0 .. Len(chain) : Perm = SubSeq(chain, 1, n)
      /\ IF Busy /\ handler.op = "simulate" /\ handler.stage \in {"receipts", "revert"}
         THEN Len(Perm) = handler.bundle.block /\ Perm = SubSeq(chain, 1, handler.base)
         ELSE Perm = chain
  BY <1>1, PermFacts DEF Perm, Phase, Busy
<1>3. /\ BotCount(Perm) \in Nat /\ BotCount(chain) \in Nat /\ BotCount(Perm) <= BotCount(chain)
      /\ IsFiniteSet(BotPlaces(Perm))
  BY <1>1, <1>2, PrefixBots DEF Nonces
<1>4. Len(chain) \in Nat
  BY <1>1, LenProperties
<1> QED
  BY <1>1, <1>2, <1>3, <1>4

\* A step that leaves the chain to handler h' and keeps it out of a simulation's
\* last stages leaves the clients' chain.
LEMMA PermSame ==
  ASSUME FlowType, Phase, Nonces, chain' = chain, handler' \in {Idle} \cup Handler, Phase',
         \/ handler' # Idle /\ handler # Idle /\ handler'.base = handler.base
         \/ /\ ~(Busy /\ handler.op = "simulate" /\ handler.stage \in {"receipts", "revert"})
            /\ ~(Busy /\ handler.op = "simulate" /\ handler.stage \in {"receipts", "revert"})'
  PROVE  Perm' = Perm
<1>1. CASE handler' # Idle /\ handler # Idle /\ handler'.base = handler.base
  <2>1. handler.stage # "idle" /\ handler'.stage # "idle"
    BY <1>1 DEF FlowType, Handler, Stage
  <2> QED
    BY <1>1, <2>1 DEF Perm, PermOf
<1>2. CASE /\ ~(Busy /\ handler.op = "simulate" /\ handler.stage \in {"receipts", "revert"})
           /\ ~(Busy /\ handler.op = "simulate" /\ handler.stage \in {"receipts", "revert"})'
  <2>1. Perm = chain
    BY <1>2, PermNow
  <2>2. chain' \in Seq(SUBSET Result) /\ PhaseOf(chain', handler')
    BY DEF FlowType, Phase
  <2>3. PermOf(chain', handler') = chain'
    BY <1>2, <2>2, PermFacts DEF Busy
  <2> QED
    BY <2>1, <2>3 DEF Perm
<1> QED
  BY <1>1, <1>2

-----------------------------------------------------------------------------
(* What steps of the handler keep                                          *)

\* Nothing on the node changes: the counts stay.
LEMMA NoncesKept ==
  ASSUME FlowType, Phase, Nonces, UNCHANGED <<chain, node_pool, next_nonce>>, Perm' = Perm,
         (Busy /\ handler.stage = "mine")' => Busy /\ handler.stage = "mine",
         (Counting \/ Submitting)' => Counting \/ Submitting
  PROVE  Nonces'
BY DEF Nonces

\* The clients' chain and the nonce stay, and a count that is due stays due.
LEMMA SettledKept ==
  ASSUME Settled, Perm' = Perm, next_nonce' = next_nonce, troubles' = {} => troubles = {},
         troubles' = {} /\ (Counting \/ Submitting) => (Counting \/ Submitting)'
  PROVE  Settled'
BY DEF Settled

\* What was clean after a step was clean before it.
LEMMA CleanBefore ==
  ASSUME stranded \subseteq stranded', troubles' = {} => troubles = {}
  PROVE  Clean' => Clean
BY DEF Clean

\* A chain stays good when more swaps are stranded.
LEMMA GoodKept ==
  ASSUME NEW c, NEW s, NEW s2, s \subseteq s2, GoodChain(c, s) PROVE GoodChain(c, s2)
<1> SUFFICES ASSUME NEW p \in Places(c) PROVE GoodPlace(c, s2, p)
  BY DEF GoodChain
<1>1. GoodPlace(c, s, p)
  BY DEF GoodChain
<1> DEFINE t == TxAt(p)
           blk == c[p[1]]
<1>2. s2 = {} => s = {}
  OBVIOUS
<1>3. \A v : v \in s \cup {t.victim} => v \in s2 \cup {t.victim}
  OBVIOUS
<1> HIDE DEF t, blk
<1> QED
  BY <1>1, <1>2, <1>3, Zenon DEF GoodPlace, t, blk

\* The handler goes on to another stage than the receipts.
LEMMA HandlerGoesOn ==
  ASSUME Core, Busy, ~Counting,
         handler' \in Handler, handler'.op = handler.op, handler'.bundle = handler.bundle,
         handler'.live = handler.live, handler'.stage # "receipts",
         UNCHANGED <<chain, executed, records, inbox, botVars, faults, troubles>>,
         stranded \subseteq stranded',
         FlowType', Phase', Nonces', Frozen', PoolHolds', Fresh', Perm' = Perm,
         Clean /\ handler'.result = "included" => Priced(Perm, handler.bundle)
  PROVE  Core'
<1> USE DEF Core
<1>1. Busy'
  BY DEF Busy, Handler, Idle, Stage
<1>2. Protocol'
  BY <1>1 DEF Protocol, botVars
<1>3. Order'
  BY <1>1 DEF Order, botVars
<1>4. ~Counting' /\ (Submitting' <=> Submitting)
  BY DEF Counting, Submitting, botVars
<1>5. Settled'
  BY <1>4, SettledKept DEF botVars
<1>6. Blocks'
  BY <1>1 DEF Blocks, botVars
<1>7. Pricing'
  BY <1>1, CleanBefore DEF Pricing, Priced, botVars
<1>8. Simulated'
  BY <1>1 DEF Simulated
<1>9. MinedGood'
  BY GoodKept DEF MinedGood
<1>10. RecordsTrue'
  BY <1>4 DEF RecordsTrue
<1> QED
  BY <1>2, <1>3, <1>5, <1>6, <1>7, <1>8, <1>9, <1>10

\* The handler moves on to a stage before evm_mine or to its finally clause,
\* with nothing done on the node.
LEMMA HandlerMoves ==
  ASSUME Core, Busy, ~Counting,
         handler' \in Handler, handler'.op = handler.op, handler'.bundle = handler.bundle,
         handler'.live = handler.live, handler'.stage \notin {"mine", "receipts"},
         UNCHANGED <<chain, executed, node_pool, records, inbox, botVars, faults, troubles>>,
         stranded \subseteq stranded', stranded' \in SUBSET Victims,
         Phase', Perm' = Perm, PoolHolds', Fresh',
         Clean /\ handler'.result = "included" => Priced(Perm, handler.bundle),
         troubles = {"answer"} => handler'.result \notin Outcome
  PROVE  Core'
<1> USE DEF Core
<1>1. FlowType'
  BY DEF FlowType, botVars
<1>2. ~Counting' /\ (Submitting' <=> Submitting)
  BY DEF Counting, Submitting, botVars
<1>3. Nonces'
  BY <1>2, NoncesKept DEF botVars
<1>4. Frozen'
  BY DEF Frozen, botVars
<1> QED
  BY <1>1, <1>3, <1>4, HandlerGoesOn

\* The handler ends: the chain is the one its clients see.
LEMMA HandlerAnswers ==
  ASSUME Core, Busy, NEW r \in {"error", "conflict"} \cup Outcome, Answer(r),
         UNCHANGED <<executed, node_pool, faults>>, chain' = Perm,
         stranded \subseteq stranded', stranded' \in SUBSET Victims,
         records' \in [Victims -> Status],
         r \in Outcome => Counting \/ handler.op = "simulate",
         Counting => r \in Outcome,
         Clean /\ r = "included" /\ handler.op = "simulate" => Priced(Perm, handler.bundle),
         troubles = {"answer"} => r \notin Outcome,
         PoolHolds', RecordsTrue'
  PROVE  Core'
<1> USE DEF Core
<1>1. handler' = Idle /\ ~Busy' /\ ~Counting' /\ UNCHANGED <<inbox, bot, next_nonce>>
  BY DEF Answer, Busy, Counting
<1>2. answer \notin Outcome \cup {"conflict"} /\ ~Submitting
  BY DEF Protocol, Submitting
<1>3. \/ handler.live /\ answer' = r /\ troubles' = troubles
      \/ ~handler.live /\ answer' = answer /\ troubles' \in {troubles, troubles \cup {"answer"}}
  BY DEF Answer
<1>4. handler.live => /\ inbox = <<>> /\ answer = "none"
                      /\ bot.stage = handler.op /\ bot.bundle = handler.bundle
  BY DEF Protocol
<1>5. /\ Perm \in Seq(SUBSET Result) /\ IsFiniteSet(BotPlaces(Perm))
      /\ BotCount(Perm) \in Nat /\ BotCount(chain) \in Nat /\ BotCount(Perm) <= BotCount(chain)
      /\ handler.op # "simulate" => Perm = chain
  BY PermNow
<1>6. Phase'
  BY <1>1 DEF Phase, PhaseOf, Busy
<1>7. Perm' = Perm
  <2>1. PermOf(chain', handler') = chain'
    BY <1>1, <1>5, <1>6, PermFacts DEF Phase
  <2> QED
    BY <2>1 DEF Perm
<1>8. FlowType'
  <2>1. answer' \in {"none", "error", "conflict"} \cup Outcome
    BY <1>3 DEF FlowType
  <2>2. troubles' \subseteq {"answer", "rpc", "builder", "node"}
    BY <1>3 DEF FlowType
  <2> QED
    BY <1>1, <1>5, <2>1, <2>2 DEF FlowType
<1>9. Protocol'
  <2>1. bot.stage = "wait" => answer' = "none"
    <3>1. handler \in Handler
      BY DEF FlowType, Busy
    <3>2. handler.op # "wait"
      BY <3>1 DEF Handler, Op
    <3> QED
      BY <1>3, <1>4, <3>2 DEF Protocol
  <2>2. answer' \in Outcome \cup {"conflict"} => inbox' = <<>> /\ ~Busy'
    BY <1>1, <1>2, <1>3, <1>4
  <2>3. ASSUME NEW i \in 1 .. Len(inbox)
        PROVE  /\ inbox[i].bundle.nonce = next_nonce
               /\ inbox[i].live => /\ i = Len(inbox) /\ answer' = "none"
                                   /\ bot.stage = inbox[i].op /\ bot.bundle = inbox[i].bundle
    <3>1. ~handler.live
      BY <1>4
    <3> QED
      BY <1>3, <3>1 DEF Protocol
  <2>4. bot.stage # "wait" => bot.bundle.nonce = next_nonce
    BY DEF Protocol
  <2> QED
    BY <1>1, <2>1, <2>2, <2>3, <2>4 DEF Protocol
<1>10. Order'
  BY <1>1 DEF Order
<1>11. Submitting' => Counting /\ BotCount(Perm) = next_nonce + 1
  <2> SUFFICES ASSUME Submitting' PROVE Counting /\ BotCount(Perm) = next_nonce + 1
    OBVIOUS
  <2>1. handler.live /\ r \in Outcome /\ handler.op = "submit"
    BY <1>1, <1>2, <1>3, <1>4 DEF Submitting
  <2>2. Counting
    BY <2>1
  <2> QED
    BY <1>5, <2>1, <2>2 DEF Nonces
<1>12. Nonces'
  <2>1. \A t \in BotsIn(node_pool) : t.nonce = next_nonce /\ BotCount(Perm) = next_nonce
    BY <1>5 DEF Nonces, FlowType
  <2> QED
    BY <1>1, <1>5, <1>7, <1>11, <2>1 DEF Nonces
<1>13. Counting => Submitting' \/ troubles' # {}
  <2>1. CASE handler.live
    BY <1>1, <1>3, <1>4, <2>1 DEF Counting, Submitting
  <2>2. CASE ~handler.live
    BY <2>2 DEF Counting, Answer, Outcome
  <2> QED
    BY <2>1, <2>2
<1>14. Settled'
  BY <1>1, <1>2, <1>3, <1>7, <1>13, SettledKept
<1>15. Frozen'
  <2> SUFFICES ASSUME troubles' = {"answer"}
               PROVE  BotCount(Perm) = next_nonce + 1 /\ answer' \notin Outcome
    BY <1>1, <1>7 DEF Frozen
  <2>1. CASE troubles = {"answer"}
    BY <1>3, <2>1 DEF Frozen
  <2>2. CASE troubles # {"answer"}
    <3>1. ~handler.live /\ answer' = answer
      BY <1>3, <2>2
    <3>2. handler.op = "submit" /\ r \in Outcome
      BY <2>2, <3>1 DEF Answer
    <3>3. Counting /\ BotCount(chain) = next_nonce + 1
      BY <3>2 DEF Nonces
    <3> QED
      BY <1>2, <1>5, <3>1, <3>2, <3>3
  <2> QED
    BY <2>1, <2>2
<1>16. troubles' = {} => troubles = {}
  BY <1>3
<1>17. Blocks'
  BY <1>1, <1>7, <1>16 DEF Blocks
<1>18. Pricing'
  <2>0. Clean' => Clean
    BY <1>16, CleanBefore
  <2> SUFFICES ASSUME Clean
               PROVE  /\ \A i \in 1 .. Len(inbox) : inbox[i].op = "submit" => Priced(Perm, inbox[i].bundle)
                      /\ bot.stage = "submit" \/ answer' = "included" => Priced(Perm, bot.bundle)
    BY <1>1, <1>7, <2>0 DEF Pricing, Priced
  <2>1. ASSUME answer' = "included" PROVE Priced(Perm, bot.bundle)
    <3>1. handler.live /\ r = "included" /\ bot.stage = handler.op /\ bot.bundle = handler.bundle
      BY <1>2, <1>3, <1>4, <2>1 DEF Outcome
    <3>2. CASE handler.op = "simulate"
      BY <3>1, <3>2
    <3>3. CASE handler.op = "submit"
      BY <3>1, <3>3 DEF Pricing
    <3>4. handler.op \in Op
      BY DEF FlowType, Busy, Handler
    <3> QED
      BY <3>2, <3>3, <3>4 DEF Op
  <2> QED
    BY <2>1 DEF Pricing
<1>19. Simulated'
  BY <1>1 DEF Simulated
<1>21. Fresh'
  BY <1>1 DEF Fresh
<1>20. MinedGood'
  <2>1. troubles' \subseteq {"answer"} => troubles \subseteq {"answer"}
    BY <1>3
  <2> QED
    BY <1>7, <2>1, GoodKept DEF MinedGood
<1> QED
  BY <1>6, <1>8, <1>9, <1>10, <1>12, <1>14, <1>15, <1>17, <1>18, <1>19, <1>20, <1>21

-----------------------------------------------------------------------------
(* The handler, step by step                                               *)

\* The statuses a receipt can give.
LEMMA StatusType ==
  ASSUME NEW c, NEW t PROVE TxStatus(c, t) \in {"missing", "included", "reverted"}
BY DEF TxStatus

\* Before anything is sent, and after evm_mine, the handler has nothing in hand.
LEMMA NothingInHand ==
  ASSUME FlowType, Phase,
         Busy => handler.stage \notin {"send", "mine"} \/ (handler.stage = "send" /\ handler.sent = 0)
  PROVE  InHand = {}
<1>1. ASSUME Busy, handler.sent = 0 PROVE {Items(handler.bundle)[i] : i \in 1 .. handler.sent} = {}
  BY <1>1
<1> QED
  BY <1>1 DEF InHand

\* The pool stays, and so does what the handler has in it.
LEMMA PoolStays ==
  ASSUME PoolHolds, InHand' = InHand, node_pool' = node_pool, stranded \subseteq stranded',
         troubles' \subseteq {"answer"} => troubles \subseteq {"answer"}
  PROVE  PoolHolds'
<1>1. {VictimTx(v) : v \in stranded} \subseteq {VictimTx(v) : v \in stranded'}
  OBVIOUS
<1>2. InHand' \subseteq node_pool'
  BY DEF PoolHolds
<1>3. ASSUME troubles' \subseteq {"answer"}
      PROVE  node_pool' \subseteq InHand' \cup {VictimTx(v) : v \in stranded'}
  <2>1. node_pool \subseteq InHand \cup {VictimTx(v) : v \in stranded}
    BY <1>3 DEF PoolHolds
  <2> QED
    BY <1>1, <2>1
<1> QED
  BY <1>2, <1>3 DEF PoolHolds

\* With no snapshot an exception is an answer.
LEMMA EarlyError ==
  ASSUME Core, Busy,
         handler.stage \in Early \/ (handler.stage = "send" /\ handler.op = "submit"),
         NEW r \in {"error", "conflict"}, Answer(r),
         UNCHANGED <<chain, executed, node_pool, records, faults>>,
         stranded \subseteq stranded', stranded' \in SUBSET Victims, PoolHolds'
  PROVE  Core'
<1> USE DEF Core
<1>1. r \notin Outcome /\ r \in {"error", "conflict"} \cup Outcome
  BY DEF Outcome
<1>2. ~Counting
  BY DEF Counting, Early
<1>3. Perm = chain /\ chain \in Seq(SUBSET Result)
  BY PermNow DEF Early
<1>4. handler' = Idle /\ ~Busy' /\ ~Counting'
  BY DEF Answer, Busy, Counting
<1>5. troubles' \subseteq {"answer"} => troubles \subseteq {"answer"}
  BY DEF Answer
<1>7. Perm' = Perm
  <2>1. PhaseOf(chain', handler')
    BY <1>4 DEF PhaseOf
  <2>2. PermOf(chain', handler') = chain'
    BY <1>3, <1>4, <2>1, PermFacts
  <2> QED
    BY <1>3, <2>2 DEF Perm
<1>8. RecordsTrue'
  BY <1>2, <1>4, <1>5, <1>7 DEF RecordsTrue
<1>9. records' \in [Victims -> Status]
  BY DEF FlowType
<1> QED
  BY <1>1, <1>2, <1>3, <1>8, <1>9, HandlerAnswers

\* The same where nothing was sent.
LEMMA EarlyAnswer ==
  ASSUME Core, Busy, handler.stage \in Early, NEW r \in {"error", "conflict"}, Answer(r),
         UNCHANGED <<nodeVars, records, faults>>
  PROVE  Core'
<1> USE DEF Core
<1>1. handler' = Idle /\ ~Busy' /\ UNCHANGED <<chain, executed, node_pool, stranded, records, faults>>
  BY DEF Answer, Busy, nodeVars
<1>2. InHand = {}
  BY NothingInHand DEF Early
<1>3. InHand' = {}
  BY <1>1 DEF InHand
<1>4. troubles' \subseteq {"answer"} => troubles \subseteq {"answer"}
  BY DEF Answer
<1>5. PoolHolds'
  BY <1>1, <1>2, <1>3, <1>4, PoolStays
<1>6. stranded' \in SUBSET Victims
  BY <1>1 DEF FlowType
<1> QED
  BY <1>1, <1>5, <1>6, EarlyError

\* A pending record is that of a swap that is not on the clients' chain.
LEMMA PendingIsFresh ==
  ASSUME Core, Clean, ~Counting, NEW v \in Victims, records[v] = "pending"
  PROVE  ~Has(Perm, VictimTx(v))
<1>1. records[v] = StatusOn(Perm, v)
  BY DEF Core, RecordsTrue, Clean
<1>2. TxStatus(Perm, VictimTx(v)) # "pending"
  BY StatusType
<1> QED
  BY <1>1, <1>2 DEF StatusOn

\* Bundle.fromJson looks at the record and does nothing else.
LEMMA AdmitStep ==
  ASSUME Core, Admit PROVE Core'
<1> USE DEF Core
<1>1. handler.stage = "admit" /\ UNCHANGED <<nodeVars, records, faults>>
  BY DEF Admit
<1>2. Busy /\ handler \in Handler
  BY <1>1 DEF Busy, FlowType, Idle
<1>3. \/ Goto("head") /\ records[handler.bundle.victim] = "pending"
      \/ \E r \in {"error", "conflict"} : Answer(r)
  BY DEF Admit
<1>4. CASE Goto("head") /\ records[handler.bundle.victim] = "pending"
  <2>1. handler' = [handler EXCEPT !.stage = "head"] /\ UNCHANGED <<inbox, botVars, troubles>>
    BY <1>4 DEF Goto
  <2>2. /\ handler' \in Handler /\ handler'.stage = "head" /\ handler'.op = handler.op
        /\ handler'.bundle = handler.bundle /\ handler'.live = handler.live
        /\ handler'.base = handler.base /\ handler'.sent = handler.sent
        /\ handler'.result = handler.result
    BY <1>2, <2>1 DEF Handler, Stage
  <2>3. Phase'
    BY <1>1, <1>2, <2>2 DEF Phase, PhaseOf, Early, Busy, nodeVars
  <2>4. Perm' = Perm
    BY <1>1, <1>2, <2>2, <2>3, PermSame DEF Busy, nodeVars, Handler, Idle, Stage
  <2>5. PoolHolds'
    <3>1. InHand = {} /\ InHand' = {}
      BY <1>1, <2>2 DEF InHand
    <3> QED
      BY <1>1, <2>1, <3>1, PoolStays DEF nodeVars
  <2>6. ~Counting /\ handler'.result = "none"
    BY <1>1, <1>2, <2>2 DEF Counting, Phase, PhaseOf, Busy, Early
  <2>7. Fresh'
    <3>1. handler.bundle.victim \in Victims
      BY <1>2 DEF Handler, Bundle
    <3>2. Clean => ~Has(Perm, VictimTx(handler.bundle.victim))
      BY <1>4, <2>6, <3>1, PendingIsFresh
    <3>3. Clean' => Clean
      BY <1>1, <2>1 DEF Clean, nodeVars
    <3> QED
      BY <2>2, <2>4, <3>2, <3>3 DEF Fresh
  <2>8. stranded' \in SUBSET Victims /\ stranded \subseteq stranded'
    BY <1>1 DEF FlowType, nodeVars
  <2> QED
    BY <1>1, <1>2, <2>1, <2>2, <2>3, <2>4, <2>5, <2>6, <2>7, <2>8, HandlerMoves DEF nodeVars, Outcome
<1>5. CASE \E r \in {"error", "conflict"} : Answer(r)
  BY <1>1, <1>2, <1>5, EarlyAnswer DEF Early
<1> QED
  BY <1>3, <1>4, <1>5

\* The bundle's block is compared with the head.
LEMMA CheckHeadStep ==
  ASSUME Core, CheckHead PROVE Core'
<1> USE DEF Core
<1>1. handler.stage = "head" /\ UNCHANGED <<nodeVars, records, faults>>
  BY DEF CheckHead
<1>2. Busy /\ handler \in Handler
  BY <1>1 DEF Busy, FlowType, Idle
<1>3. handler.base = -1 /\ handler.sent = 0 /\ handler.result = "none"
  BY <1>1, <1>2 DEF Phase, PhaseOf, Early, Busy
<1>4. handler.bundle.block \in Nat /\ Len(chain) \in Nat
  BY <1>2, PermNow DEF Handler, Bundle
<1>5. \/ handler.op = "simulate" /\ handler.bundle.block = Len(chain) /\ Goto("snapshot")
      \/ handler.op # "simulate" /\ handler.bundle.block = Len(chain) /\ Goto("send")
      \/ Raise
  BY <1>4 DEF CheckHead, SimulateAdmits, MineAdmits
<1>6. ASSUME NEW stage \in {"snapshot", "send"}, Goto(stage), handler.bundle.block = Len(chain),
             stage = "send" => handler.op # "simulate", stage = "snapshot" => handler.op = "simulate"
      PROVE  Core'
  <2>1. handler' = [handler EXCEPT !.stage = stage] /\ UNCHANGED <<inbox, botVars, troubles>>
    BY <1>6 DEF Goto
  <2>2. /\ handler' \in Handler /\ handler'.stage = stage /\ handler'.op = handler.op
        /\ handler'.bundle = handler.bundle /\ handler'.live = handler.live
        /\ handler'.base = handler.base /\ handler'.sent = handler.sent
        /\ handler'.result = handler.result
    BY <1>2, <1>6, <2>1 DEF Handler, Stage
  <2>3. Phase'
    BY <1>1, <1>2, <1>3, <1>6, <2>2 DEF Phase, PhaseOf, Early, Busy, nodeVars
  <2>4. Perm' = Perm
    BY <1>1, <1>2, <2>2, <2>3, PermSame DEF Busy, nodeVars, Handler, Idle, Stage
  <2>5. PoolHolds'
    <3>1. InHand = {}
      BY <1>1 DEF InHand
    <3>2. InHand' = {}
      BY <1>3, <2>2 DEF InHand
    <3> QED
      BY <1>1, <2>1, <3>1, <3>2, PoolStays DEF nodeVars
  <2>6. ~Counting /\ handler'.result = "none"
    BY <1>1, <1>3, <2>2 DEF Counting
  <2>7. stranded' \in SUBSET Victims /\ stranded \subseteq stranded'
    BY <1>1 DEF FlowType, nodeVars
  <2>8. Fresh'
    <3>1. Clean' => Clean
      BY <1>1, <2>1 DEF Clean, nodeVars
    <3> QED
      BY <1>1, <1>2, <2>2, <2>4, <3>1 DEF Fresh
  <2> QED
    BY <1>1, <1>2, <1>6, <2>1, <2>2, <2>3, <2>4, <2>5, <2>6, <2>7, <2>8, HandlerMoves
       DEF nodeVars, Outcome
<1>7. CASE Raise
  <2>1. Answer("error")
    BY <1>3, <1>7 DEF Raise
  <2> QED
    BY <1>1, <1>2, <2>1, EarlyAnswer DEF Early
<1> QED
  BY <1>5, <1>6, <1>7

\* evm_snapshot: from here on the clients see the chain below.
LEMMA TakeSnapshotStep ==
  ASSUME Core, TakeSnapshot PROVE Core'
<1> USE DEF Core
<1>1. /\ handler.stage = "snapshot"
      /\ handler' = [handler EXCEPT !.stage = "send", !.base = Len(chain)]
      /\ UNCHANGED <<nodeVars, records, inbox, botVars, faults, troubles>>
  BY DEF TakeSnapshot
<1>2. Busy /\ handler \in Handler
  BY <1>1 DEF Busy, FlowType, Idle
<1>3. handler.sent = 0 /\ handler.result = "none" /\ handler.op = "simulate" /\ Len(chain) = handler.bundle.block
  BY <1>1, <1>2 DEF Phase, PhaseOf, Early, Busy, Handler, Op
<1>4. Len(chain) \in Nat
  BY PermNow
<1>5. /\ handler' \in Handler /\ handler'.stage = "send" /\ handler'.op = handler.op
      /\ handler'.bundle = handler.bundle /\ handler'.live = handler.live
      /\ handler'.base = Len(chain) /\ handler'.sent = handler.sent
      /\ handler'.result = handler.result
  <2> DEFINE n == Len(chain)
  <2>1. n \in Int /\ handler' = [handler EXCEPT !.stage = "send", !.base = n]
    BY <1>1, <1>4
  <2> HIDE DEF n
  <2>2. /\ handler' \in Handler /\ handler'.stage = "send" /\ handler'.op = handler.op
        /\ handler'.bundle = handler.bundle /\ handler'.live = handler.live
        /\ handler'.base = n /\ handler'.sent = handler.sent
        /\ handler'.result = handler.result
    BY <1>2, <2>1 DEF Handler, Stage
  <2> QED
    BY <2>2 DEF n
<1>6. Phase'
  BY <1>1, <1>2, <1>3, <1>4, <1>5 DEF Phase, PhaseOf, Early, Busy, nodeVars
<1>7. Perm' = Perm
  BY <1>1, <1>2, <1>5, <1>6, PermSame DEF Busy, nodeVars
<1>8. PoolHolds'
  <2>1. InHand = {}
    BY <1>1 DEF InHand
  <2>2. InHand' = {}
    BY <1>3, <1>5 DEF InHand
  <2> QED
    BY <1>1, <2>1, <2>2, PoolStays DEF nodeVars
<1>9. ~Counting /\ handler'.result = "none"
  BY <1>1, <1>3, <1>5 DEF Counting
<1>10. stranded' \in SUBSET Victims /\ stranded \subseteq stranded'
  BY <1>1 DEF FlowType, nodeVars
<1>11. Fresh'
  <2>1. Clean' => Clean
    BY <1>1 DEF Clean, nodeVars
  <2> QED
    BY <1>1, <1>2, <1>5, <1>7, <2>1 DEF Fresh
<1> QED
  BY <1>1, <1>2, <1>5, <1>6, <1>7, <1>8, <1>9, <1>10, <1>11, HandlerMoves DEF nodeVars, Outcome

\* The transactions of victims and bundles.
LEMMA VictimTxType ==
  ASSUME NEW v \in Victims
  PROVE  /\ VictimTx(v) \in Tx /\ VictimTx(v).from # "bot" /\ VictimTx(v).victim = v
<1>1. v[1] \in Accounts /\ v[2] \in Nat /\ v[1] # "bot"
  BY BundleConstants
<1> QED
  BY <1>1 DEF Tx, VictimTx

LEMMA ItemsOf ==
  ASSUME NEW b \in Bundle
  PROVE  /\ Items(b)[1] = VictimTx(b.victim) /\ Items(b)[2] = BackrunTx(b)
         /\ VictimTx(b.victim) \in Tx /\ BackrunTx(b) \in Tx
         /\ VictimTx(b.victim).from # "bot" /\ b.victim \in Victims
         /\ BackrunTx(b).from = "bot" /\ BackrunTx(b).nonce = b.nonce
         /\ BackrunTx(b).block = b.block /\ BackrunTx(b).victim = b.victim
<1>1. b.victim \in Victims /\ b.nonce \in Nat /\ b.block \in Int
  BY BundleConstants DEF Bundle
<1>2. VictimTx(b.victim) \in Tx /\ VictimTx(b.victim).from # "bot"
  BY <1>1, VictimTxType
<1>3. /\ BackrunTx(b) \in Tx /\ BackrunTx(b).from = "bot" /\ BackrunTx(b).nonce = b.nonce
      /\ BackrunTx(b).block = b.block /\ BackrunTx(b).victim = b.victim
  BY <1>1 DEF Tx, BackrunTx
<1>4. Items(b)[1] = VictimTx(b.victim) /\ Items(b)[2] = BackrunTx(b)
  BY DEF Items
<1> QED
  BY <1>1, <1>2, <1>3, <1>4

\* What is in hand while sending and before mining.
LEMMA HandOf ==
  ASSUME NEW b \in Bundle
  PROVE  /\ {Items(b)[i] : i \in 1 .. 0} = {}
         /\ {Items(b)[i] : i \in 1 .. 1} = {VictimTx(b.victim)}
         /\ {Items(b)[i] : i \in 1 .. 2} = BundleTxs(b)
<1>1. 1 .. 0 = {} /\ 1 .. 1 = {1} /\ 1 .. 2 = {1, 2}
  OBVIOUS
<1>2. Items(b)[1] = VictimTx(b.victim) /\ Items(b)[2] = BackrunTx(b)
  BY ItemsOf
<1> QED
  BY <1>1, <1>2 DEF BundleTxs

\* While it sends the handler's chain is the clients'; its next transaction.
LEMMA SendingFacts ==
  ASSUME Core, handler.stage = "send"
  PROVE  /\ Busy /\ handler \in Handler /\ handler.bundle \in Bundle /\ handler.bundle.nonce = next_nonce
         /\ handler.sent \in {0, 1} /\ handler.result = "none" /\ ~Counting /\ ~Submitting
         /\ Perm = chain /\ Len(chain) = handler.bundle.block
         /\ NextItem = IF handler.sent = 0 THEN VictimTx(handler.bundle.victim)
                       ELSE BackrunTx(handler.bundle)
         /\ NextItem \in Tx
<1> USE DEF Core
<1>1. Busy /\ handler \in Handler /\ handler.bundle \in Bundle
  BY DEF Busy, FlowType, Idle, Handler
<1>2. handler.bundle.nonce = next_nonce /\ ~Submitting
  BY <1>1 DEF Protocol, Submitting
<1>3. /\ handler.sent \in {0, 1} /\ handler.result = "none" /\ ~Counting
      /\ Len(chain) = handler.bundle.block
  BY <1>1 DEF Phase, PhaseOf, Busy, Counting
<1>4. Perm = chain
  BY PermNow
<1>5. NextItem = IF handler.sent = 0 THEN VictimTx(handler.bundle.victim)
                 ELSE BackrunTx(handler.bundle)
  BY <1>1, <1>3, ItemsOf DEF NextItem
<1>6. NextItem \in Tx
  BY <1>1, <1>5, ItemsOf
<1> QED
  BY <1>1, <1>2, <1>3, <1>4, <1>5, <1>6

\* The pool after the node has accepted the handler's next transaction.
LEMMA NoncesSent ==
  ASSUME Core, handler.stage = "send", NodeAccepts(NextItem),
         node_pool' = node_pool \cup {NextItem}, UNCHANGED <<chain, next_nonce>>, Perm' = Perm,
         (Busy /\ handler.stage = "mine")' => handler.sent = 1, ~(Counting \/ Submitting)'
  PROVE  Nonces' /\ node_pool' \in SUBSET Tx /\ (handler.sent = 1 => BotCount(chain) = next_nonce)
<1> USE DEF Core
<1>1. /\ handler.bundle \in Bundle /\ handler.bundle.nonce = next_nonce
      /\ handler.sent \in {0, 1}
      /\ NextItem = IF handler.sent = 0 THEN VictimTx(handler.bundle.victim)
                    ELSE BackrunTx(handler.bundle)
      /\ NextItem \in Tx
  BY SendingFacts
<1>2. node_pool \in SUBSET Tx /\ next_nonce \in Nat
  BY DEF FlowType
<1>3. /\ node_pool' \in SUBSET Tx
      /\ NextItem.from # "bot" => BotsIn(node_pool') = BotsIn(node_pool)
      /\ NextItem.from = "bot" => BotsIn(node_pool') = BotsIn(node_pool) \cup {NextItem}
  BY <1>1, <1>2 DEF BotsIn
<1>4. BotCount(chain) \in Nat /\ BotCount(chain) \in {next_nonce, next_nonce + 1}
  BY PermNow DEF Nonces
<1>5. CASE handler.sent = 0
  <2>1. NextItem.from # "bot"
    BY <1>1, <1>5, ItemsOf
  <2>2. BotsIn(node_pool') = BotsIn(node_pool) /\ ~(Busy /\ handler.stage = "mine")'
    BY <1>3, <1>5, <2>1
  <2>3. \A t \in BotsIn(node_pool') : t.nonce = next_nonce /\ BotCount(chain) = next_nonce
    BY <1>3, <2>2 DEF Nonces
  <2>4. \A s, t \in BotsIn(node_pool') : s = t
    BY <2>2 DEF Nonces
  <2>5. /\ IsFiniteSet(BotPlaces(chain'))
        /\ BotCount(chain') \in {next_nonce', next_nonce' + 1}
        /\ BotCount(Perm') \in {next_nonce', next_nonce' + 1}
    BY DEF Nonces
  <2>6. Nonces'
    BY <2>2, <2>3, <2>4, <2>5 DEF Nonces
  <2> QED
    BY <1>3, <1>5, <2>6
<1>6. CASE handler.sent = 1
  <2>1. NextItem.from = "bot" /\ NextItem.nonce = next_nonce
    BY <1>1, <1>6, ItemsOf
  <2>2. next_nonce >= TxCount("bot") /\ ~TakenIn(node_pool, "bot", next_nonce)
    BY <2>1 DEF NodeAccepts
  <2>3. BotCount(chain) = next_nonce
    BY <1>2, <1>4, <2>2 DEF TxCount, BotCount, BotPlaces
  <2>4. BotsIn(node_pool) = {}
    BY <2>2 DEF Nonces, BotsIn, TakenIn
  <2>5. BotsIn(node_pool') = {NextItem}
    BY <1>3, <2>1, <2>4
  <2> QED
    BY <1>3, <2>1, <2>3, <2>5 DEF Nonces
<1> QED
  BY <1>1, <1>5, <1>6

\* A handler that gives up while sending leaves only stranded swaps in the pool.
LEMMA LeftBehind ==
  ASSUME Core, handler.stage = "send", stranded' = stranded \cup Waiting(node_pool),
         troubles \subseteq {"answer"}
  PROVE  node_pool \subseteq {VictimTx(v) : v \in stranded'}
<1> USE DEF Core
<1>1. Busy /\ handler.bundle \in Bundle /\ handler.sent \in {0, 1}
  BY SendingFacts
<1>2. node_pool \subseteq InHand \cup {VictimTx(v) : v \in stranded}
  BY DEF PoolHolds
<1>3. InHand \subseteq {VictimTx(handler.bundle.victim)} /\ handler.bundle.victim \in Victims
  BY <1>1, HandOf, ItemsOf DEF InHand
<1> SUFFICES ASSUME NEW t \in node_pool PROVE t \in {VictimTx(v) : v \in stranded'}
  OBVIOUS
<1>4. CASE t \in {VictimTx(v) : v \in stranded}
  BY <1>4
<1>5. CASE t = VictimTx(handler.bundle.victim)
  BY <1>3, <1>5 DEF Waiting
<1> QED
  BY <1>2, <1>3, <1>4, <1>5

\* The node takes the item into its pool, or the handler raises.
LEMMA SendTransactionStep ==
  ASSUME Core, SendTransaction PROVE Core'
<1> USE DEF Core
<1>1. handler.stage = "send" /\ UNCHANGED <<chain, executed, records, faults>>
  BY DEF SendTransaction
<1>2. /\ Busy /\ handler \in Handler /\ handler.bundle \in Bundle
      /\ handler.bundle.nonce = next_nonce
      /\ handler.sent \in {0, 1} /\ handler.result = "none" /\ ~Counting /\ ~Submitting
      /\ Perm = chain /\ Len(chain) = handler.bundle.block
      /\ NextItem = IF handler.sent = 0 THEN VictimTx(handler.bundle.victim)
                    ELSE BackrunTx(handler.bundle)
      /\ NextItem \in Tx
  BY <1>1, SendingFacts
<1>3. CASE NodeAccepts(NextItem)
  <2>1. /\ node_pool' = node_pool \cup {NextItem}
        /\ handler' = [handler EXCEPT !.sent = @ + 1,
                                      !.stage = IF handler.sent = 1 THEN "mine" ELSE "send"]
        /\ UNCHANGED <<stranded, inbox, botVars, troubles>>
    BY <1>3 DEF SendTransaction
  <2>2. /\ handler' \in Handler /\ handler'.op = handler.op
        /\ handler'.bundle = handler.bundle /\ handler'.live = handler.live
        /\ handler'.base = handler.base /\ handler'.sent = handler.sent + 1
        /\ handler'.result = handler.result
        /\ handler'.stage = IF handler.sent = 1 THEN "mine" ELSE "send"
    <3> DEFINE n == handler.sent + 1
               g == IF handler.sent = 1 THEN "mine" ELSE "send"
    <3>1. n \in 0 .. 2 /\ g \in Stage
      BY <1>2 DEF Stage
    <3>2. handler' = [handler EXCEPT !.sent = n, !.stage = g]
      BY <1>2, <2>1 DEF Handler
    <3> HIDE DEF n, g
    <3>3. /\ handler' \in Handler /\ handler'.op = handler.op
          /\ handler'.bundle = handler.bundle /\ handler'.live = handler.live
          /\ handler'.base = handler.base /\ handler'.sent = n
          /\ handler'.result = handler.result /\ handler'.stage = g
      BY <1>2, <3>1, <3>2 DEF Handler
    <3> QED
      BY <3>3 DEF n, g
  <2>3. Busy'
    BY <2>2 DEF Busy, Handler, Idle, Stage
  <2>4. Phase'
    <3>1. /\ handler.op = "submit" => handler.base = -1
          /\ handler.op = "simulate" => handler.base = handler.bundle.block
      BY <1>1, <1>2 DEF Phase, PhaseOf, Busy, Early
    <3>2. handler'.stage \in {"mine", "send"} /\ (handler'.stage = "send" => handler'.sent = 1)
          /\ (handler'.stage = "mine" => handler'.sent = 2)
      BY <1>2, <2>2
    <3> QED
      BY <1>1, <1>2, <2>2, <3>1, <3>2 DEF Phase, PhaseOf, Early
  <2>5. Perm' = Perm
    BY <1>1, <1>2, <2>2, <2>3, <2>4, PermSame DEF Busy
  <2>6. ~Counting' /\ ~Submitting'
    BY <1>2, <2>1, <2>2 DEF Counting, Submitting, botVars
  <2>7. Nonces' /\ node_pool' \in SUBSET Tx /\ (handler.sent = 1 => BotCount(chain) = next_nonce)
    BY <1>1, <1>2, <1>3, <2>1, <2>2, <2>5, <2>6, NoncesSent DEF botVars
  <2>8. FlowType'
    BY <1>1, <2>1, <2>2, <2>7 DEF FlowType, botVars
  <2>9. Frozen'
    <3> SUFFICES ASSUME troubles = {"answer"} PROVE handler'.stage \notin {"mine", "receipts"}
      BY <1>2, <2>1, <2>2, <2>5 DEF Frozen, botVars, Outcome
    <3>1. BotCount(chain) = next_nonce + 1 /\ next_nonce \in Nat
      BY <1>2 DEF Frozen, FlowType
    <3>2. handler.sent # 1
      BY <2>7, <3>1
    <3> QED
      BY <2>2, <3>2
  <2>10. PoolHolds'
    <3>1. InHand' = InHand \cup {NextItem}
      <4>1. InHand = {Items(handler.bundle)[i] : i \in 1 .. handler.sent}
        BY <1>1, <1>2 DEF InHand
      <4>2. InHand' = {Items(handler.bundle)[i] : i \in 1 .. handler.sent + 1}
        BY <1>2, <2>2, <2>3 DEF InHand
      <4>3. CASE handler.sent = 0
        BY <1>2, <4>1, <4>2, <4>3, HandOf
      <4>4. CASE handler.sent = 1
        BY <1>2, <4>1, <4>2, <4>4, HandOf DEF BundleTxs
      <4> QED
        BY <1>2, <4>3, <4>4
    <3> QED
      BY <2>1, <3>1 DEF PoolHolds
  <2>11. Fresh'
    <3>1. Clean' => Clean
      BY <2>1 DEF Clean
    <3> QED
      BY <1>1, <1>2, <2>2, <2>5, <3>1 DEF Fresh
  <2>12. handler'.stage # "receipts" /\ handler'.result # "included"
    BY <1>2, <2>2
  <2> QED
    BY <1>1, <1>2, <2>1, <2>2, <2>4, <2>5, <2>7, <2>8, <2>9, <2>10, <2>11, <2>12, HandlerGoesOn
<1>4. CASE ~NodeAccepts(NextItem)
  <2>1. Raise /\ UNCHANGED node_pool /\ stranded' = stranded \cup Waiting(node_pool)
    BY <1>4, <1>1 DEF SendTransaction
  <2>2. troubles \subseteq {"answer"} => node_pool \subseteq {VictimTx(v) : v \in stranded'}
    BY <1>1, <2>1, LeftBehind
  <2>5. stranded \subseteq stranded' /\ stranded' \in SUBSET Victims
    BY <2>1 DEF FlowType, Waiting
  <2>6. ASSUME InHand' = {}, troubles' \subseteq {"answer"} => troubles \subseteq {"answer"}
        PROVE  PoolHolds'
    BY <2>1, <2>2, <2>6 DEF PoolHolds
  <2>3. CASE handler.base >= 0
    <3>1. /\ handler' = [handler EXCEPT !.stage = "revert", !.result = "error"]
          /\ UNCHANGED <<inbox, botVars, troubles>>
      BY <2>1, <2>3 DEF Raise
    <3>2. /\ handler' \in Handler /\ handler'.op = handler.op
          /\ handler'.bundle = handler.bundle /\ handler'.live = handler.live
          /\ handler'.base = handler.base /\ handler'.sent = handler.sent
          /\ handler'.result = "error" /\ handler'.stage = "revert"
      BY <1>2, <3>1 DEF Handler, Stage
    <3>3. handler.op = "simulate" /\ handler.base = handler.bundle.block
      BY <1>1, <1>2, <2>3 DEF Phase, PhaseOf, Busy, Handler, Op, Early
    <3>4. Phase'
      BY <1>1, <1>2, <3>2, <3>3 DEF Phase, PhaseOf, Early
    <3>5. Perm' = Perm
      <4>1. handler' # Idle
        BY <3>2 DEF Idle
      <4> QED
        BY <1>1, <1>2, <3>2, <3>4, <4>1, PermSame DEF Busy
    <3>6. PoolHolds'
      <4>1. InHand' = {}
        BY <3>2 DEF InHand
      <4> QED
        BY <2>6, <3>1, <4>1
    <3>7. Fresh'
      <4>1. Clean' => Clean
        BY <2>5, <3>1, CleanBefore
      <4> QED
        BY <1>1, <1>2, <3>2, <3>5, <4>1 DEF Fresh
    <3> QED
      BY <1>1, <1>2, <2>1, <2>5, <3>1, <3>2, <3>4, <3>5, <3>6, <3>7, HandlerMoves DEF Outcome
  <2>4. CASE ~(handler.base >= 0)
    <3>1. Answer("error")
      BY <2>1, <2>4 DEF Raise
    <3>2. handler.op = "submit"
      <4>1. handler.op = "simulate" => handler.base \in Nat
        BY <1>1, <1>2 DEF Phase, PhaseOf, Busy, Early, Bundle
      <4> QED
        BY <1>2, <2>4, <4>1 DEF Handler, Op
    <3>3. PoolHolds'
      <4>1. InHand' = {}
        BY <3>1 DEF InHand, Answer, Busy
      <4>2. troubles' \subseteq {"answer"} => troubles \subseteq {"answer"}
        BY <3>1 DEF Answer
      <4> QED
        BY <2>6, <4>1, <4>2
    <3> QED
      BY <1>1, <1>2, <2>1, <2>5, <3>1, <3>2, <3>3, EarlyError
  <2> QED
    BY <2>3, <2>4
<1> QED
  BY <1>3, <1>4

-----------------------------------------------------------------------------
(* Mining                                                                  *)

\* evm_mine has run what is ready of pool q as block b.
Mined(b, q) ==
    /\ b \in SUBSET Result
    /\ \A r \in b : r.tx \in Runs(q)
    /\ \A t \in Runs(q) : \E r \in b : r.tx = t
    /\ \A r, s \in b : r.tx = s.tx => r = s
    /\ executed.on = chain /\ executed.pool = q => b = executed.block
    /\ chain' = Append(chain, b)
    /\ executed' = [on |-> chain, pool |-> q, block |-> b]
    /\ node_pool' = Stays(q)
    /\ stranded' = stranded \cup Waiting(Stays(q))

LEMMA MineEffect ==
  ASSUME NEW q \in SUBSET Tx, Mine(q)
  PROVE  \E b : Mined(b, q)
<1>1. PICK ok \in [Runs(q) -> BOOLEAN] :
          LET block == {[tx |-> t, ok |-> ok[t]] : t \in Runs(q)}
          IN  /\ executed.on = chain /\ executed.pool = q => block = executed.block
              /\ chain' = Append(chain, block)
              /\ executed' = [on |-> chain, pool |-> q, block |-> block]
              /\ node_pool' = Stays(q)
              /\ stranded' = stranded \cup Waiting(Stays(q))
  BY DEF Mine
<1> DEFINE b == {[tx |-> t, ok |-> ok[t]] : t \in Runs(q)}
<1>2. Runs(q) \subseteq Tx
  BY DEF Runs
<1>3. b \in SUBSET Result
  BY <1>2 DEF Result
<1>4. /\ \A r \in b : r.tx \in Runs(q)
      /\ \A t \in Runs(q) : \E r \in b : r.tx = t
      /\ \A r, s \in b : r.tx = s.tx => r = s
  <2>1. ASSUME NEW r \in b PROVE r.tx \in Runs(q) /\ r = [tx |-> r.tx, ok |-> ok[r.tx]]
    <3>1. PICK t \in Runs(q) : r = [tx |-> t, ok |-> ok[t]]
      OBVIOUS
    <3> QED
      BY <3>1
  <2>2. ASSUME NEW t \in Runs(q) PROVE \E r \in b : r.tx = t
    <3> DEFINE r == [tx |-> t, ok |-> ok[t]]
    <3>1. r \in b /\ r.tx = t
      OBVIOUS
    <3> QED
      BY <3>1
  <2> HIDE DEF b
  <2>3. ASSUME NEW r \in b, NEW s \in b, r.tx = s.tx PROVE r = s
    BY <2>1, <2>3, Zenon
  <2> QED
    BY <2>1, <2>2, <2>3
<1>5. /\ executed.on = chain /\ executed.pool = q => b = executed.block
      /\ chain' = Append(chain, b)
      /\ executed' = [on |-> chain, pool |-> q, block |-> b]
      /\ node_pool' = Stays(q)
      /\ stranded' = stranded \cup Waiting(Stays(q))
  BY <1>1
<1> HIDE DEF b
<1>6. Mined(b, q)
  BY <1>3, <1>4, <1>5 DEF Mined
<1> QED
  BY <1>6

\* A transaction of the bot that is next in turn is run, and so nothing of the
\* bot's stays.
LEMMA BotsRun ==
  ASSUME FlowType, Nonces, NEW q \in SUBSET Tx, \A t \in BotsIn(q) : t.nonce = TxCount("bot")
  PROVE  BotsIn(q) \subseteq Runs(q) /\ BotsIn(Stays(q)) = {}
<1>1. TxCount("bot") \in Nat
  BY FS_CardinalityType DEF Nonces, TxCount, BotPlaces
<1>2. ASSUME NEW t \in BotsIn(q) PROVE Ready(q, t)
  <2>1. t.from = "bot" /\ t.nonce = TxCount("bot")
    BY DEF BotsIn
  <2>2. TxCount("bot") .. t.nonce - 1 = {}
    BY <1>1, <2>1
  <2> QED
    BY <2>1, <2>2 DEF Ready
<1> QED
  BY <1>2 DEF BotsIn, Runs, Stays

\* A chain and its prefix.
LEMMA AppendPrefix ==
  ASSUME NEW c \in Seq(SUBSET Result), NEW b \in SUBSET Result
  PROVE  /\ Append(c, b) \in Seq(SUBSET Result) /\ Len(Append(c, b)) = Len(c) + 1
         /\ SubSeq(Append(c, b), 1, Len(c)) = c
<1> DEFINE d == Append(c, b)
           n == Len(c)
<1>1. d \in Seq(SUBSET Result) /\ Len(d) = n + 1 /\ \A i \in 1 .. n : d[i] = c[i]
  BY AppendProperties
<1>2. n \in Nat /\ n = Len(c)
  BY LenProperties
<1> HIDE DEF d, n
<1>3. n \in 0 .. Len(d)
  BY <1>1, <1>2
<1>4. /\ SubSeq(d, 1, n) \in Seq(SUBSET Result) /\ Len(SubSeq(d, 1, n)) = n
      /\ \A i \in 1 .. n : SubSeq(d, 1, n)[i] = d[i]
  BY <1>1, <1>3, PrefixPlaces
<1>5. SubSeq(d, 1, n) = c
  BY <1>1, <1>2, <1>4, SeqEqual
<1> QED
  BY <1>1, <1>5 DEF d, n

\* The bot's nonce after a block.
LEMMA MinedCount ==
  ASSUME FlowType, Nonces, NEW q \in SUBSET Tx, NEW b, Mined(b, q),
         \A t \in BotsIn(q) : t.nonce = TxCount("bot"),
         \A s, t \in BotsIn(q) : s = t
  PROVE  /\ chain' \in Seq(SUBSET Result) /\ Len(chain') = Len(chain) + 1
         /\ IsFiniteSet(BotPlaces(chain'))
         /\ BotCount(chain') = IF BotsIn(q) = {} THEN BotCount(chain) ELSE BotCount(chain) + 1
<1>1. /\ chain \in Seq(SUBSET Result) /\ b \in SUBSET Result /\ chain' = Append(chain, b)
      /\ IsFiniteSet(BotPlaces(chain))
  BY DEF FlowType, Mined, Nonces
<1>2. \A r \in BlockBots(b) : r.tx \in BotsIn(q) /\ r \in b
  BY DEF Mined, BlockBots, BotsIn, Runs
<1>3. CASE BotsIn(q) = {}
  <2>1. BotPlaces(chain') = BotPlaces(chain)
    BY <1>1, <1>2, <1>3, BotCountAppend
  <2> QED
    BY <1>1, <1>3, <2>1, AppendPrefix DEF BotCount
<1>4. CASE BotsIn(q) # {}
  <2>1. PICK t : t \in BotsIn(q)
    BY <1>4
  <2>2. PICK k \in b : k.tx = t
    BY <2>1, BotsRun DEF Mined
  <2>3. BlockBots(b) = {k}
    <3>1. k \in BlockBots(b)
      BY <2>1, <2>2 DEF BlockBots, BotsIn
    <3>2. ASSUME NEW r \in BlockBots(b) PROVE r = k
      BY <1>2, <2>1, <2>2, <3>2 DEF Mined
    <3> QED
      BY <3>1, <3>2
  <2> QED
    BY <1>1, <1>4, <2>3, BotCountAppend, AppendPrefix
<1> QED
  BY <1>3, <1>4

\* What has to wait in a pool of swaps, and of backruns that are next in turn,
\* are stranded swaps.
LEMMA StaysStranded ==
  ASSUME FlowType, Nonces, NEW q \in SUBSET Tx, \A t \in BotsIn(q) : t.nonce = TxCount("bot"),
         \A t \in q : t.from = "bot" \/ \E v \in Victims : t = VictimTx(v)
  PROVE  Stays(q) \subseteq {VictimTx(v) : v \in Waiting(Stays(q))}
<1> SUFFICES ASSUME NEW t \in Stays(q) PROVE t \in {VictimTx(v) : v \in Waiting(Stays(q))}
  OBVIOUS
<1>1. t \in q /\ t \notin BotsIn(Stays(q))
  BY BotsRun DEF Stays
<1>2. t.from # "bot"
  BY <1>1 DEF BotsIn
<1>3. PICK v \in Victims : t = VictimTx(v)
  BY <1>1, <1>2
<1>4. v \in Waiting(Stays(q))
  BY <1>3 DEF Waiting
<1> QED
  BY <1>3, <1>4

\* What a transaction that is not in the block sees of it.
LEMMA StatusAppend ==
  ASSUME NEW c \in Seq(SUBSET Result), NEW b \in SUBSET Result, NEW t, \A r \in b : r.tx # t
  PROVE  /\ Has(Append(c, b), t) <=> Has(c, t)
         /\ TxStatus(Append(c, b), t) = TxStatus(c, t)
<1> DEFINE d == Append(c, b)
           n == Len(c) + 1
<1>1. \A p : p \in Places(d) <=> p \in Places(c) \/ \E r \in b : p = <<n, r>>
  BY PlacesAppend, Zenon
<1> HIDE DEF d, n
<1>2. \A r \in b : TxAt(<<n, r>>) # t
  BY DEF TxAt
<1>3. {p \in Places(d) : TxAt(p) = t} = {p \in Places(c) : TxAt(p) = t}
  BY <1>1, <1>2
<1>4. Has(d, t) <=> Has(c, t)
  BY <1>3 DEF Has
<1>5. TxStatus(d, t) = TxStatus(c, t)
  BY <1>3, Zenon DEF TxStatus
<1> QED
  BY <1>4, <1>5 DEF d

\* A transaction of the block is on the chain.
LEMMA HasAppend ==
  ASSUME NEW c \in Seq(SUBSET Result), NEW b \in SUBSET Result, NEW r \in b
  PROVE  Has(Append(c, b), r.tx)
<1> DEFINE d == Append(c, b)
           p == <<Len(c) + 1, r>>
<1>1. p \in Places(d)
  BY PlacesAppend, Zenon
<1>2. TxAt(p) = r.tx
  BY DEF TxAt
<1> HIDE DEF d, p
<1>3. Has(d, r.tx)
  BY <1>1, <1>2 DEF Has
<1> QED
  BY <1>3 DEF d

\* The block of a bundle priced for chain c, with swaps of s in it or not.
GoodAfter(c, b, s) ==
    \E bundle \in Bundle :
        /\ bundle.block = Len(c)
        /\ \A r \in b : r.tx = BackrunTx(bundle) \/ \E v \in s \cup {bundle.victim} : r.tx = VictimTx(v)
        /\ s = {} => b = GoodBlock(bundle)

\* The bot's good blocks, and blocks without the bot, keep the chain good.
LEMMA GoodAppend ==
  ASSUME NEW c \in Seq(SUBSET Result), NEW b \in SUBSET Result,
         NEW s \in SUBSET Victims, GoodChain(c, s), BlockBots(b) = {} \/ GoodAfter(c, b, s)
  PROVE  GoodChain(Append(c, b), s)
<1> DEFINE d == Append(c, b)
           n == Len(c) + 1
<1>1. /\ \A p : p \in Places(d) <=> p \in Places(c) \/ \E r \in b : p = <<n, r>>
      /\ \A p \in Places(c) : d[p[1]] = c[p[1]]
      /\ d[n] = b
  BY PlacesAppend, Zenon
<1>2. Len(c) \in Nat /\ n - 1 = Len(c)
  BY LenProperties
<1> HIDE DEF d, n
<1>3. ASSUME NEW p \in Places(c) PROVE GoodPlace(d, s, p)
  <2>1. d[p[1]] = c[p[1]] /\ GoodPlace(c, s, p)
    BY <1>1 DEF GoodChain
  <2> QED
    BY <2>1, Zenon DEF GoodPlace
<1>4. ASSUME NEW r \in b PROVE GoodPlace(d, s, <<n, r>>)
  <2>1. TxAt(<<n, r>>) = r.tx /\ <<n, r>>[1] = n
    BY DEF TxAt
  <2>2. CASE BlockBots(b) = {}
    BY <2>1, <2>2 DEF BlockBots, GoodPlace
  <2>3. CASE GoodAfter(c, b, s)
    <3> SUFFICES ASSUME r.tx.from = "bot" PROVE GoodPlace(d, s, <<n, r>>)
      BY <2>1 DEF GoodPlace
    <3>1. PICK bundle \in Bundle :
             /\ bundle.block = Len(c)
             /\ \A u \in b : u.tx = BackrunTx(bundle) \/ \E v \in s \cup {bundle.victim} : u.tx = VictimTx(v)
             /\ s = {} => b = GoodBlock(bundle)
      BY <2>3 DEF GoodAfter
    <3>2. BackrunTx(bundle).block = Len(c) /\ BackrunTx(bundle).victim = bundle.victim /\ bundle.victim \in Victims
      BY <3>1, ItemsOf
    <3>3. r.tx = BackrunTx(bundle)
      <4>1. \A v \in s \cup {bundle.victim} : VictimTx(v).from # "bot"
        BY <3>2, VictimTxType
      <4> QED
        BY <3>1, <4>1
    <3> DEFINE t == BackrunTx(bundle)
    <3>4. t.block = n - 1 /\ t.victim = bundle.victim
      BY <1>2, <3>2
    <3>5. \A u \in d[n] : u.tx = t \/ \E v \in s \cup {t.victim} : u.tx = VictimTx(v)
      BY <1>1, <3>1, <3>2
    <3>6. s = {} => d[n] = {[tx |-> VictimTx(t.victim), ok |-> TRUE], [tx |-> t, ok |-> TRUE]}
      BY <1>1, <3>1, <3>2 DEF GoodBlock
    <3> HIDE DEF t
    <3>7. TxAt(<<n, r>>) = t
      BY <2>1, <3>3 DEF t
    <3> QED
      BY <2>1, <3>4, <3>5, <3>6, <3>7 DEF GoodPlace
  <2> QED
    BY <2>2, <2>3
<1>5. GoodChain(d, s)
  BY <1>1, <1>3, <1>4 DEF GoodChain
<1> QED
  BY <1>5 DEF d

\* The pool that is mined: one transaction of the bot, with the right nonce.
LEMMA MiningFacts ==
  ASSUME Core, handler.stage = "mine"
  PROVE  /\ Busy /\ handler \in Handler /\ handler.bundle \in Bundle
         /\ handler.sent = 2 /\ handler.result = "none" /\ ~Counting /\ ~Submitting
         /\ Perm = chain /\ Len(chain) = handler.bundle.block
         /\ handler.op = "simulate" => handler.base = Len(chain)
         /\ handler.op \in Op /\ (handler.op = "submit" => handler.base = -1)
         /\ node_pool \in SUBSET Tx /\ BotsIn(node_pool) # {} /\ BotCount(chain) = next_nonce
         /\ \A t \in BotsIn(node_pool) : t.nonce = TxCount("bot")
         /\ \A s, t \in BotsIn(node_pool) : s = t
         /\ troubles # {"answer"} /\ InHand = BundleTxs(handler.bundle)
<1> USE DEF Core
<1>1. Busy /\ handler \in Handler /\ handler.bundle \in Bundle /\ handler.op \in Op
  BY DEF Busy, FlowType, Idle, Handler
<1>2. ~Submitting /\ ~Counting
  BY <1>1 DEF Protocol, Submitting, Counting
<1>3. /\ handler.sent = 2 /\ handler.result = "none" /\ Len(chain) = handler.bundle.block
      /\ handler.op = "simulate" => handler.base = Len(chain)
      /\ handler.op = "submit" => handler.base = -1
  BY <1>1 DEF Phase, PhaseOf, Busy, Early
<1>4. Perm = chain
  BY PermNow
<1>5. BotsIn(node_pool) # {} /\ \A s, t \in BotsIn(node_pool) : s = t
  BY <1>1 DEF Nonces
<1>6. BotCount(chain) = next_nonce
  BY <1>5 DEF Nonces
<1>7. \A t \in BotsIn(node_pool) : t.nonce = TxCount("bot")
  BY <1>6 DEF Nonces, TxCount, BotCount, BotPlaces
<1>8. troubles # {"answer"} /\ node_pool \in SUBSET Tx
  BY <1>1 DEF Frozen, FlowType
<1>9. InHand = BundleTxs(handler.bundle)
  BY <1>1, <1>3, HandOf DEF InHand
<1> QED
  BY <1>1, <1>2, <1>3, <1>4, <1>5, <1>6, <1>7, <1>8, <1>9

\* Without trouble the pool has the bundle and stranded swaps.
LEMMA MiningPool ==
  ASSUME Core, handler.stage = "mine", troubles \subseteq {"answer"}
  PROVE  /\ \A t \in node_pool : \/ t = BackrunTx(handler.bundle)
                                  \/ \E v \in stranded \cup {handler.bundle.victim} : t = VictimTx(v)
         /\ \A t \in node_pool : t.from = "bot" \/ \E v \in Victims : t = VictimTx(v)
         /\ BundleTxs(handler.bundle) \subseteq node_pool
<1>1. InHand = BundleTxs(handler.bundle) /\ handler.bundle \in Bundle
  BY MiningFacts
<1>2. BundleTxs(handler.bundle) \subseteq node_pool
  BY <1>1 DEF Core, PoolHolds
<1>3. node_pool \subseteq BundleTxs(handler.bundle) \cup {VictimTx(v) : v \in stranded}
  BY <1>1 DEF Core, PoolHolds
<1>4. \A t \in node_pool : \/ t = BackrunTx(handler.bundle)
                          \/ \E v \in stranded \cup {handler.bundle.victim} : t = VictimTx(v)
  BY <1>3 DEF BundleTxs
<1>5. /\ BackrunTx(handler.bundle).from = "bot" /\ handler.bundle.victim \in Victims
      /\ stranded \subseteq Victims
  BY <1>1, ItemsOf DEF Core, FlowType
<1> QED
  BY <1>2, <1>4, <1>5

\* Where nothing was ever stranded the block has the two transactions of the
\* bundle; and a submission whose block is the head runs as its simulation did.
LEMMA MinedBundle ==
  ASSUME Core, handler.stage = "mine", Clean, stranded' = {}, NEW b, Mined(b, node_pool)
  PROVE  /\ node_pool = BundleTxs(handler.bundle) /\ RunOf(handler.bundle, b)
         /\ handler.op = "submit" => b = GoodBlock(handler.bundle)
<1> USE DEF Core
<1> DEFINE q == BundleTxs(handler.bundle)
           V == VictimTx(handler.bundle.victim)
           B == BackrunTx(handler.bundle)
<1>1. /\ Busy /\ handler.bundle \in Bundle /\ Perm = chain /\ Len(chain) = handler.bundle.block
      /\ \A t \in BotsIn(node_pool) : t.nonce = TxCount("bot")
  BY MiningFacts
<1>2. node_pool = q
  <2>1. \A t \in node_pool : t = B \/ t = V
    BY MiningPool DEF Clean
  <2>2. q \subseteq node_pool
    BY MiningPool DEF Clean
  <2> QED
    BY <2>1, <2>2 DEF BundleTxs
<1>3. V \in Tx /\ B \in Tx /\ B.from = "bot" /\ V.from # "bot" /\ handler.bundle.victim \in Victims
  BY <1>1, ItemsOf
<1>4. V \in Runs(node_pool)
  <2>1. handler.bundle.victim \notin Waiting(Stays(node_pool))
    BY DEF Mined
  <2> QED
    BY <1>2, <1>3, <2>1 DEF Waiting, Stays, Runs, BundleTxs
<1>5. B \in Runs(node_pool)
  <2>1. node_pool \in SUBSET Tx
    BY DEF FlowType
  <2>2. B \in BotsIn(node_pool)
    BY <1>2, <1>3 DEF BotsIn, BundleTxs
  <2> QED
    BY <1>1, <2>1, <2>2, BotsRun
<1>6. RunOf(handler.bundle, b)
  <2>1. PICK r \in b : r.tx = V
    BY <1>4 DEF Mined
  <2>2. PICK s \in b : s.tx = B
    BY <1>5 DEF Mined
  <2>3. r \in Result /\ s \in Result
    BY DEF Mined
  <2>4. r = [tx |-> V, ok |-> r.ok] /\ s = [tx |-> B, ok |-> s.ok] /\ r.ok \in BOOLEAN /\ s.ok \in BOOLEAN
    <3> HIDE DEF V, B
    <3> QED
      BY <2>1, <2>2, <2>3 DEF Result
  <2>5. ASSUME NEW k \in b PROVE k = r \/ k = s
    <3>1. k.tx = V \/ k.tx = B
      BY <1>2 DEF Mined, Runs, BundleTxs
    <3> QED
      BY <2>1, <2>2, <3>1 DEF Mined
  <2>6. b = {r, s}
    BY <2>5
  <2>7. b = {[tx |-> V, ok |-> r.ok], [tx |-> B, ok |-> s.ok]}
    BY <2>4, <2>6
  <2> HIDE DEF V, B
  <2> QED
    BY <2>4, <2>7 DEF RunOf, V, B
<1>7. ASSUME handler.op = "submit" PROVE b = GoodBlock(handler.bundle)
  <2>1. executed.on = chain /\ executed.pool = q /\ executed.block = GoodBlock(handler.bundle)
    BY <1>1, <1>7 DEF Pricing, Priced
  <2> QED
    BY <1>2, <2>1 DEF Mined
<1> QED
  BY <1>2, <1>6, <1>7

\* evm_mine: a submission's block is the clients' new head, a simulation's is not.
LEMMA MineBlockStep ==
  ASSUME Core, MineBlock PROVE Core'
<1> USE DEF Core
<1>1. /\ handler.stage = "mine" /\ Mine(node_pool) /\ UNCHANGED <<records, faults>>
      /\ handler' = [handler EXCEPT !.stage = "receipts"] /\ UNCHANGED <<inbox, botVars, troubles>>
  BY DEF MineBlock, Goto
<1>2. /\ Busy /\ handler \in Handler /\ handler.bundle \in Bundle
      /\ handler.sent = 2 /\ handler.result = "none" /\ ~Counting /\ ~Submitting
      /\ Perm = chain /\ Len(chain) = handler.bundle.block
      /\ handler.op = "simulate" => handler.base = Len(chain)
      /\ handler.op \in Op /\ (handler.op = "submit" => handler.base = -1)
      /\ node_pool \in SUBSET Tx /\ BotsIn(node_pool) # {} /\ BotCount(chain) = next_nonce
      /\ \A t \in BotsIn(node_pool) : t.nonce = TxCount("bot")
      /\ \A s, t \in BotsIn(node_pool) : s = t
      /\ troubles # {"answer"}
  BY <1>1, MiningFacts
<1>3. PICK b : Mined(b, node_pool)
  BY <1>1, <1>2, MineEffect
<1>4. /\ b \in SUBSET Result /\ chain' = Append(chain, b) /\ node_pool' = Stays(node_pool)
      /\ executed' = [on |-> chain, pool |-> node_pool, block |-> b]
      /\ stranded' = stranded \cup Waiting(Stays(node_pool))
      /\ \A r \in b : r.tx \in Runs(node_pool)
      /\ \A t \in Runs(node_pool) : \E r \in b : r.tx = t
  BY <1>3 DEF Mined
<1>5. /\ chain' \in Seq(SUBSET Result) /\ Len(chain') = Len(chain) + 1
      /\ IsFiniteSet(BotPlaces(chain')) /\ BotCount(chain') = next_nonce + 1
  BY <1>2, <1>3, MinedCount
<1>6. /\ handler' \in Handler /\ handler'.op = handler.op
      /\ handler'.bundle = handler.bundle /\ handler'.live = handler.live
      /\ handler'.base = handler.base /\ handler'.sent = handler.sent
      /\ handler'.result = handler.result /\ handler'.stage = "receipts"
  BY <1>1, <1>2 DEF Handler, Stage
<1>7. Busy' /\ handler' # Idle
  BY <1>6 DEF Busy, Idle
<1>8. chain \in Seq(SUBSET Result) /\ Len(chain) \in Nat /\ next_nonce \in Nat
  BY PermNow DEF FlowType
<1>9. Phase'
  BY <1>2, <1>5, <1>6 DEF Phase, PhaseOf, Early
<1>10. handler.op = "simulate" => Perm' = Perm
  <2> SUFFICES ASSUME handler.op = "simulate" PROVE Perm' = chain
    BY <1>2
  <2>1. PermOf(chain', handler') = SubSeq(chain', 1, handler'.base)
    BY <1>5, <1>6, <1>7, <1>9, PermFacts DEF Phase
  <2>2. SubSeq(chain', 1, Len(chain)) = chain
    BY <1>4, <1>8, AppendPrefix
  <2> QED
    BY <1>2, <1>6, <2>1, <2>2 DEF Perm
<1>11. handler.op = "submit" => Perm' = chain'
  BY <1>5, <1>6, <1>7, <1>9, PermFacts DEF Phase, Perm
<1>27. /\ stranded \subseteq stranded' /\ stranded' \in SUBSET Victims
       /\ Clean' => Clean /\ stranded' = {}
  BY <1>1, <1>4 DEF FlowType, Waiting, Clean
<1>12. FlowType'
  <2>1. node_pool' \in SUBSET Tx
    BY <1>2, <1>4 DEF Stays
  <2> QED
    BY <1>1, <1>5, <1>6, <1>27, <2>1 DEF FlowType, botVars
<1>13. Protocol'
  BY <1>1, <1>2, <1>6, <1>7 DEF Protocol, botVars
<1>14. Order'
  BY <1>1, <1>2, <1>6, <1>7 DEF Order, botVars
<1>15. (Counting' <=> handler.op = "submit") /\ ~Submitting'
  BY <1>1, <1>2, <1>6, <1>7 DEF Counting, Submitting, botVars
<1>16. Nonces'
  <2>1. BotsIn(node_pool') = {}
    BY <1>2, <1>4, BotsRun
  <2>2. BotCount(Perm') \in {next_nonce', next_nonce' + 1}
    BY <1>1, <1>2, <1>5, <1>10, <1>11 DEF Op, botVars
  <2>3. ~(Busy /\ handler.stage = "mine")'
    BY <1>6
  <2> QED
    BY <1>1, <1>5, <2>1, <2>2, <2>3 DEF Nonces, botVars
<1>17. Settled'
  BY <1>1, <1>2, <1>10, <1>15 DEF Settled, Op, botVars
<1>18. Frozen'
  BY <1>1, <1>2 DEF Frozen
<1>19. PoolHolds'
  <2>1. InHand' = {}
    BY <1>6 DEF InHand
  <2>2. ASSUME troubles \subseteq {"answer"} PROVE node_pool' \subseteq {VictimTx(v) : v \in stranded'}
    <3>1. \A t \in node_pool : t.from = "bot" \/ \E v \in Victims : t = VictimTx(v)
      BY <1>1, <2>2, MiningPool
    <3>2. Stays(node_pool) \subseteq {VictimTx(v) : v \in Waiting(Stays(node_pool))}
      BY <1>2, <3>1, StaysStranded
    <3> QED
      BY <1>4, <3>2
  <2> QED
    BY <1>1, <2>1, <2>2 DEF PoolHolds
<1>20. Len(Perm') >= Len(Perm)
  BY <1>2, <1>5, <1>8, <1>10, <1>11 DEF Op
<1>21. Blocks'
  <2> SUFFICES ASSUME troubles = {} PROVE Blocks'
    BY <1>1 DEF Blocks
  <2> DEFINE k == Len(Perm)
             l == Len(Perm')
  <2>1. /\ bot.stage # "wait" => bot.bundle.block <= k
        /\ \A i \in 1 .. Len(inbox) : inbox[i].bundle.block <= k
        /\ handler.bundle.block <= k
    BY <1>2 DEF Blocks
  <2>2. k \in Nat /\ l \in Nat /\ k <= l
    BY <1>2, <1>5, <1>8, <1>10, <1>11, <1>20 DEF Op
  <2>3. /\ bot.stage # "wait" => bot.bundle.block \in Int
        /\ \A i \in 1 .. Len(inbox) : inbox[i].bundle.block \in Int
        /\ handler.bundle.block \in Int
    <3>1. bot.stage # "wait" => bot \in Bot
      BY DEF FlowType
    <3>2. \A i \in 1 .. Len(inbox) : inbox[i] \in Request
      BY ElementOfSeq DEF FlowType
    <3> QED
      BY <1>2, <3>1, <3>2, BundleConstants DEF Bot, Request, Bundle
  <2> HIDE DEF k, l
  <2>4. /\ bot.stage # "wait" => bot.bundle.block <= l
        /\ \A i \in 1 .. Len(inbox) : inbox[i].bundle.block <= l
        /\ handler.bundle.block <= l
    BY <2>1, <2>2, <2>3
  <2> QED
    BY <1>1, <1>6, <2>4 DEF Blocks, botVars, l
<1>22. Pricing'
  <2> SUFFICES ASSUME Clean PROVE Pricing'
    BY <1>27 DEF Pricing
  <2>1. answer # "included"
    BY <1>2 DEF Protocol, Outcome
  <2>2. CASE handler.op = "simulate"
    <3>1. /\ bot.stage # "submit" /\ \A i \in 1 .. Len(inbox) : inbox[i].op # "submit"
      BY <1>2, <2>2 DEF Order
    <3> QED
      BY <1>1, <1>2, <1>6, <2>1, <2>2, <3>1 DEF Pricing, botVars
  <2>3. CASE handler.op = "submit"
    <3>1. Len(Perm') = Len(Perm) + 1
      BY <1>2, <1>5, <1>11, <2>3
    <3>0. troubles = {}
      BY DEF Clean
    <3>2. ASSUME NEW n \in Int, n <= Len(Perm) PROVE n # Len(Perm')
      BY <1>2, <1>8, <3>1, <3>2
    <3>3. bot.stage = "submit" => bot.bundle.block # Len(Perm')
      <4>1. bot.stage = "submit" => bot \in Bot
        BY DEF FlowType
      <4> QED
        BY <3>0, <3>2, <4>1, BundleConstants DEF Blocks, Bot, Bundle
    <3>4. ASSUME NEW i \in 1 .. Len(inbox) PROVE inbox[i].bundle.block # Len(Perm')
      <4>1. inbox[i] \in Request
        BY ElementOfSeq DEF FlowType
      <4> QED
        BY <3>0, <3>2, <4>1, BundleConstants DEF Blocks, Request, Bundle
    <3>5. handler.bundle.block # Len(Perm')
      BY <1>2, <3>0, <3>2, BundleConstants DEF Blocks, Bundle
    <3> QED
      BY <1>1, <1>2, <1>6, <2>1, <3>3, <3>4, <3>5 DEF Pricing, Priced, botVars
  <2> QED
    BY <1>2, <2>2, <2>3 DEF Op
<1>23. Simulated'
  <2> SUFFICES ASSUME Clean, stranded' = {}, handler.op = "simulate" PROVE Simulated'
    BY <1>6, <1>27 DEF Simulated
  <2>1. node_pool = BundleTxs(handler.bundle) /\ RunOf(handler.bundle, b)
    BY <1>1, <1>3, MinedBundle
  <2>2. executed'.on = chain /\ executed'.block = b /\ executed'.pool = node_pool
    BY <1>4
  <2> QED
    BY <1>2, <1>4, <1>6, <1>10, <2>1, <2>2 DEF Simulated
<1>24. Fresh'
  <2> SUFFICES ASSUME Clean, handler.op = "simulate" PROVE Fresh'
    BY <1>6, <1>27 DEF Fresh
  <2>1. ~Has(Perm, VictimTx(handler.bundle.victim))
    BY <1>1, <1>2 DEF Fresh
  <2> QED
    BY <1>6, <1>10, <2>1 DEF Fresh
<1>25. MinedGood'
  <2> SUFFICES ASSUME troubles \subseteq {"answer"} PROVE GoodChain(Perm', stranded')
    BY <1>1 DEF MinedGood
  <2>0. troubles = {}
    BY <1>2
  <2>1. GoodChain(chain, stranded')
    BY <1>2, <1>27, GoodKept DEF MinedGood
  <2>2. CASE handler.op = "simulate"
    BY <1>2, <1>10, <2>1, <2>2
  <2>3. CASE handler.op = "submit"
    <3>1. stranded' = {} => b = GoodBlock(handler.bundle)
      <4>1. stranded' = {} => Clean
        BY <1>27, <2>0 DEF Clean
      <4> QED
        BY <1>1, <1>3, <2>3, <4>1, MinedBundle
    <3>2. ASSUME NEW r \in b
          PROVE  \/ r.tx = BackrunTx(handler.bundle)
                 \/ \E v \in stranded' \cup {handler.bundle.victim} : r.tx = VictimTx(v)
      <4>1. r.tx \in node_pool
        BY <1>4 DEF Runs
      <4> QED
        BY <1>1, <1>27, <4>1, MiningPool
    <3>3. GoodAfter(chain, b, stranded')
      BY <1>2, <3>1, <3>2 DEF GoodAfter
    <3>4. GoodChain(Append(chain, b), stranded')
      BY <1>4, <1>8, <1>27, <2>1, <3>3, GoodAppend
    <3> QED
      BY <1>4, <1>11, <2>3, <3>4
  <2> QED
    BY <1>2, <2>2, <2>3 DEF Op
<1>26. RecordsTrue'
  <2> SUFFICES ASSUME troubles \subseteq {"answer"} PROVE RecordsTrue'
    BY <1>1 DEF RecordsTrue
  <2>1. CASE handler.op = "simulate"
    BY <1>1, <1>2, <1>10, <1>15, <1>27, <2>1 DEF RecordsTrue
  <2>2. CASE handler.op = "submit"
    <3>0. handler.bundle.victim \in Victims /\ BackrunTx(handler.bundle).from = "bot"
      BY <1>2, ItemsOf
    <3>1. /\ \A t \in node_pool : \/ t = BackrunTx(handler.bundle)
                                  \/ \E v \in stranded \cup {handler.bundle.victim} : t = VictimTx(v)
          /\ VictimTx(handler.bundle.victim) \in node_pool
      BY <1>1, MiningPool DEF BundleTxs
    <3>2. ASSUME handler.bundle.victim \notin stranded' PROVE Has(chain', VictimTx(handler.bundle.victim))
      <4>1. VictimTx(handler.bundle.victim) \in Runs(node_pool)
        BY <1>4, <3>0, <3>1, <3>2 DEF Waiting, Stays, Runs
      <4>2. PICK r \in b : r.tx = VictimTx(handler.bundle.victim)
        BY <1>4, <4>1
      <4>3. Has(Append(chain, b), r.tx)
        BY <1>4, <1>8, HasAppend
      <4> QED
        BY <1>4, <4>2, <4>3
    <3>3. ASSUME NEW v \in Victims \ stranded', v # handler.bundle.victim
          PROVE  records[v] = StatusOn(Perm', v)
      <4>1. VictimTx(v) \notin node_pool
        <5>1. VictimTx(v).victim = v /\ VictimTx(v).from # "bot"
          BY VictimTxType
        <5>2. \A w \in stranded \cup {handler.bundle.victim} : VictimTx(w).victim = w /\ w # v
          BY <1>27, <3>0, <3>3, VictimTxType
        <5> QED
          BY <3>0, <3>1, <5>1, <5>2
      <4>2. \A r \in b : r.tx # VictimTx(v)
        BY <1>4, <4>1 DEF Runs
      <4>3. /\ Has(Append(chain, b), VictimTx(v)) <=> Has(chain, VictimTx(v))
            /\ TxStatus(Append(chain, b), VictimTx(v)) = TxStatus(chain, VictimTx(v))
        BY <1>4, <1>8, <4>2, StatusAppend
      <4>4. records[v] = StatusOn(Perm, v)
        BY <1>2, <1>27 DEF RecordsTrue
      <4> QED
        BY <1>2, <1>4, <1>11, <2>2, <4>3, <4>4 DEF StatusOn
    <3>4. \A v \in Victims \ stranded' :
             (Counting' => v # handler'.bundle.victim) => records'[v] = StatusOn(Perm', v)
      BY <1>1, <1>6, <1>15, <2>2, <3>3
    <3> QED
      BY <1>6, <3>2, <3>4 DEF RecordsTrue
  <2> QED
    BY <1>2, <2>1, <2>2 DEF Op
<1> QED
  BY <1>9, <1>12, <1>13, <1>14, <1>16, <1>17, <1>18, <1>19, <1>21, <1>22, <1>23, <1>24, <1>25, <1>26

-----------------------------------------------------------------------------
(* Receipts and the end of a handler                                       *)

\* A transaction that is new with the block succeeded in it.
LEMMA OkInBlock ==
  ASSUME NEW c \in Seq(SUBSET Result), NEW b \in SUBSET Result, NEW t, ~Has(c, t),
         TxStatus(Append(c, b), t) = "included"
  PROVE  \E r \in b : r.tx = t /\ r.ok
<1> DEFINE d == Append(c, b)
           n == Len(c) + 1
<1>1. \A p : p \in Places(d) <=> p \in Places(c) \/ \E r \in b : p = <<n, r>>
  BY PlacesAppend, Zenon
<1>2. PICK q \in Places(d) : TxAt(q) = t /\ q[2].ok
  <2> DEFINE P == {q \in Places(d) : TxAt(q) = t}
  <2>1. TxStatus(d, t) = IF P = {} THEN "missing"
          ELSE IF \E q \in P : q[2].ok THEN "included" ELSE "reverted"
    BY DEF TxStatus
  <2> HIDE DEF P
  <2>2. \E q \in P : q[2].ok
    <3> SUFFICES ASSUME ~\E q \in P : q[2].ok PROVE FALSE
      OBVIOUS
    <3> QED
      BY <2>1
  <2> QED
    BY <2>2 DEF P
<1> HIDE DEF d, n
<1>3. q \notin Places(c)
  BY <1>2 DEF Has
<1>4. PICK r \in b : q = <<n, r>>
  BY <1>1, <1>3
<1>5. r.tx = t /\ r.ok
  BY <1>2, <1>4 DEF TxAt
<1> QED
  BY <1>5

\* Where the handler stands when it reads the receipts.
LEMMA ReceiptFacts ==
  ASSUME Core, handler.stage = "receipts"
  PROVE  /\ Busy /\ handler \in Handler /\ handler.bundle \in Bundle /\ handler.op \in Op
         /\ (Counting <=> handler.op = "submit") /\ ~Submitting
         /\ troubles # {"answer"} /\ InHand = {}
         /\ BundleStatus \in Outcome
<1> USE DEF Core
<1>1. Busy /\ handler \in Handler /\ handler.bundle \in Bundle /\ handler.op \in Op
  BY DEF Busy, FlowType, Idle, Handler
<1>2. (Counting <=> handler.op = "submit") /\ ~Submitting
  BY <1>1 DEF Protocol, Submitting, Counting
<1>3. troubles # {"answer"}
  BY <1>1 DEF Frozen
<1>4. InHand = {}
  BY DEF InHand
<1>5. BundleStatus \in Outcome
  BY DEF BundleStatus, Outcome
<1> QED
  BY <1>1, <1>2, <1>3, <1>4, <1>5

\* A clean simulation that ends as included ran the bundle, and both of its
\* transactions succeeded.
LEMMA SimulatedWell ==
  ASSUME Core, handler.stage = "receipts", handler.op = "simulate", Clean,
         BundleStatus = "included"
  PROVE  Priced(Perm, handler.bundle)
<1> USE DEF Core
<1> DEFINE v == VictimTx(handler.bundle.victim)
           t == BackrunTx(handler.bundle)
           e == executed.block
<1>1. Busy /\ handler.bundle \in Bundle
  BY ReceiptFacts
<1>2. /\ executed.on = Perm /\ executed.pool = BundleTxs(handler.bundle)
      /\ chain = Append(Perm, e) /\ RunOf(handler.bundle, e)
  BY <1>1 DEF Simulated
<1>3. /\ v.from # "bot" /\ t.from = "bot" /\ t.block = handler.bundle.block /\ v \in Tx /\ t \in Tx
  BY <1>1, ItemsOf
<1>4. Perm \in Seq(SUBSET Result) /\ Len(Perm) \in Nat /\ Len(Perm) = handler.bundle.block
  BY <1>1, PermNow
<1>5. ~Has(Perm, v)
  BY <1>1 DEF Fresh
<1>6. TxStatus(chain, v) = "included" /\ TxStatus(chain, t) = "included"
  <2>1. \A i \in 1 .. 2 : TxStatus(chain, Items(handler.bundle)[i]) = "included"
    BY DEF BundleStatus
  <2> QED
    BY <1>1, <2>1, ItemsOf
<1>7. GoodChain(Perm, stranded)
  BY DEF MinedGood, Clean
<1>10. v # t
  BY <1>3
<1>14. \E x, y \in BOOLEAN : e = {[tx |-> v, ok |-> x], [tx |-> t, ok |-> y]}
  BY <1>2 DEF RunOf
<1> HIDE DEF v, t
<1>8. ~Has(Perm, t)
  <2> SUFFICES ASSUME NEW p \in Places(Perm), TxAt(p) = t PROVE FALSE
    BY DEF Has
  <2>1. t.block = p[1] - 1
    BY <1>3, <1>7 DEF GoodChain, GoodPlace
  <2>2. p[1] \in 1 .. Len(Perm)
    BY PlacesOf
  <2> QED
    BY <1>3, <1>4, <2>1, <2>2
<1> HIDE DEF e
<1>13. PICK x \in BOOLEAN, y \in BOOLEAN : e = {[tx |-> v, ok |-> x], [tx |-> t, ok |-> y]}
  BY <1>14
<1>15. e \in SUBSET Result
  BY <1>3, <1>13 DEF Result
<1>9. x
  <2>1. PICK r \in e : r.tx = v /\ r.ok
    BY <1>2, <1>4, <1>5, <1>6, <1>15, OkInBlock
  <2> QED
    BY <1>10, <1>13, <2>1
<1>11. y
  <2>1. PICK r \in e : r.tx = t /\ r.ok
    BY <1>2, <1>4, <1>6, <1>8, <1>15, OkInBlock
  <2> QED
    BY <1>10, <1>13, <2>1
<1>12. e = GoodBlock(handler.bundle)
  BY <1>9, <1>11, <1>13 DEF GoodBlock, v, t
<1> QED
  BY <1>2, <1>12 DEF Priced, e

\* The receipts: a submission marks the victim's record and answers, a simulation
\* keeps its result for the finally clause.
LEMMA CollectReceiptsStep ==
  ASSUME Core, CollectReceipts PROVE Core'
<1> USE DEF Core
<1>1. handler.stage = "receipts" /\ UNCHANGED <<nodeVars, faults>>
  BY DEF CollectReceipts
<1>2. /\ Busy /\ handler \in Handler /\ handler.bundle \in Bundle /\ handler.op \in Op
      /\ (Counting <=> handler.op = "submit") /\ ~Submitting
      /\ troubles # {"answer"} /\ InHand = {}
      /\ BundleStatus \in Outcome
  BY <1>1, ReceiptFacts
<1>3. CASE handler.op = "simulate"
  <2>1. /\ handler' = [handler EXCEPT !.stage = "revert", !.result = BundleStatus]
        /\ UNCHANGED <<records, inbox, botVars, troubles>>
    BY <1>3 DEF CollectReceipts
  <2>2. /\ handler' \in Handler /\ handler'.op = handler.op
        /\ handler'.bundle = handler.bundle /\ handler'.live = handler.live
        /\ handler'.base = handler.base /\ handler'.sent = handler.sent
        /\ handler'.result = BundleStatus /\ handler'.stage = "revert"
    <3> DEFINE n == BundleStatus
    <3>1. n \in Outcome /\ handler' = [handler EXCEPT !.stage = "revert", !.result = n]
      BY <1>2, <2>1
    <3> HIDE DEF n
    <3>2. /\ handler' \in Handler /\ handler'.op = handler.op
          /\ handler'.bundle = handler.bundle /\ handler'.live = handler.live
          /\ handler'.base = handler.base /\ handler'.sent = handler.sent
          /\ handler'.result = n /\ handler'.stage = "revert"
      BY <1>2, <3>1 DEF Handler, Stage
    <3> QED
      BY <3>2 DEF n
  <2>3. Phase'
    <3>1. handler.base = handler.bundle.block /\ Len(chain) = handler.base + 1
      BY <1>1, <1>2, <1>3 DEF Phase, PhaseOf, Busy, Early
    <3>2. handler'.result # "none"
      BY <1>2, <2>2 DEF Outcome
    <3> QED
      BY <1>1, <1>3, <2>2, <3>1, <3>2 DEF Phase, PhaseOf, Early, nodeVars
  <2>4. Perm' = Perm
    <3>1. handler' # Idle
      BY <2>2 DEF Idle
    <3> QED
      BY <1>1, <1>2, <2>2, <2>3, <3>1, PermSame DEF Busy, nodeVars
  <2>5. PoolHolds'
    <3>1. InHand' = {}
      BY <2>2 DEF InHand
    <3> QED
      BY <1>1, <1>2, <2>1, <3>1, PoolStays DEF nodeVars
  <2>7. stranded' \in SUBSET Victims /\ stranded \subseteq stranded'
    BY <1>1 DEF FlowType, nodeVars
  <2>8. Fresh'
    <3>1. Clean' => Clean
      BY <1>1, <2>1 DEF Clean, nodeVars
    <3> QED
      BY <1>1, <1>2, <2>2, <2>4, <3>1 DEF Fresh
  <2>6. Clean /\ handler'.result = "included" => Priced(Perm, handler.bundle)
    BY <1>1, <1>3, <2>2, SimulatedWell
  <2> QED
    BY <1>1, <1>2, <1>3, <2>1, <2>2, <2>3, <2>4, <2>5, <2>6, <2>7, <2>8, HandlerMoves DEF nodeVars
<1>4. CASE handler.op = "submit"
  <2>1. /\ records' = [records EXCEPT ![handler.bundle.victim] =
                          TxStatus(chain, VictimTx(handler.bundle.victim))]
        /\ Answer(BundleStatus)
    BY <1>4 DEF CollectReceipts
  <2>2. Perm = chain /\ chain \in Seq(SUBSET Result)
    BY <1>4, PermNow
  <2>3. handler' = Idle /\ ~Busy' /\ ~Counting'
        /\ (troubles' \subseteq {"answer"} => troubles \subseteq {"answer"})
    BY <2>1 DEF Answer, Busy, Counting
  <2>4. Perm' = chain
    <3>1. PhaseOf(chain', handler') /\ chain' = chain
      BY <1>1, <2>3 DEF PhaseOf, nodeVars
    <3> QED
      BY <2>2, <2>3, <3>1, PermFacts DEF Perm
  <2>5. PoolHolds'
    <3>1. InHand' = {}
      BY <2>3 DEF InHand
    <3> QED
      BY <1>1, <1>2, <2>3, <3>1, PoolStays DEF nodeVars
  <2>9. stranded' \in SUBSET Victims /\ stranded \subseteq stranded' /\ stranded' = stranded
    BY <1>1 DEF FlowType, nodeVars
  <2> DEFINE w == handler.bundle.victim
             g == TxStatus(chain, VictimTx(w))
  <2>6. records \in [Victims -> Status] /\ w \in Victims /\ g \in Status
    BY <1>2, StatusType DEF FlowType, Bundle, Status
  <2>7. /\ records' \in [Victims -> Status] /\ records'[w] = g
        /\ \A v \in Victims : v # w => records'[v] = records[v]
    <3>1. records' = [records EXCEPT ![w] = g]
      BY <2>1
    <3> HIDE DEF w, g
    <3> QED
      BY <2>6, <3>1
  <2>8. RecordsTrue'
    <3> SUFFICES ASSUME troubles \subseteq {"answer"}, NEW v \in Victims \ stranded
                 PROVE  records'[v] = StatusOn(chain, v)
      BY <2>3, <2>4, <2>9 DEF RecordsTrue
    <3>1. CASE v = w
      BY <1>2, <1>4, <2>7, <3>1 DEF RecordsTrue, StatusOn
    <3>2. CASE v # w
      BY <2>2, <2>7, <3>2 DEF RecordsTrue
    <3> QED
      BY <3>1, <3>2
  <2> QED
    BY <1>1, <1>2, <1>4, <2>1, <2>2, <2>5, <2>7, <2>8, <2>9, HandlerAnswers DEF nodeVars
<1> QED
  BY <1>2, <1>3, <1>4 DEF Op

\* evm_revert brings back the chain the clients never stopped to see.
LEMMA RevertStep ==
  ASSUME Core, Revert PROVE Core'
<1> USE DEF Core
<1>1. /\ handler.stage = "revert" /\ chain' = SubSeq(chain, 1, handler.base)
      /\ Answer(handler.result) /\ UNCHANGED <<node_pool, executed, stranded, records, faults>>
  BY DEF Revert
<1>2. Busy /\ handler \in Handler
  BY <1>1 DEF Busy, FlowType, Idle
<1>3. handler.op = "simulate" /\ handler.result \in {"error"} \cup Outcome
  BY <1>1, <1>2 DEF Phase, PhaseOf, Busy, Handler, Op
<1>4. ~Counting /\ Perm \in Seq(SUBSET Result) /\ chain' = Perm
  BY <1>1, <1>2, <1>3, PermNow DEF Counting
<1>5. handler' = Idle /\ ~Busy' /\ ~Counting'
      /\ (troubles' \subseteq {"answer"} => troubles \subseteq {"answer"})
  BY <1>1 DEF Answer, Busy, Counting
<1>6. Perm' = Perm
  <2>1. PhaseOf(chain', handler')
    BY <1>5 DEF PhaseOf
  <2> QED
    BY <1>4, <1>5, <2>1, PermFacts DEF Perm
<1>7. PoolHolds'
  <2>1. InHand = {}
    BY <1>1 DEF InHand
  <2>2. InHand' = {}
    BY <1>5 DEF InHand
  <2> QED
    BY <1>1, <1>5, <2>1, <2>2, PoolStays
<1>12. stranded' \in SUBSET Victims /\ stranded \subseteq stranded'
  BY <1>1 DEF FlowType
<1>8. RecordsTrue'
  BY <1>1, <1>4, <1>5, <1>6 DEF RecordsTrue
<1>9. records' \in [Victims -> Status]
  BY <1>1 DEF FlowType
<1>10. /\ Clean /\ handler.result = "included" => Priced(Perm, handler.bundle)
       /\ troubles = {"answer"} => handler.result \notin Outcome
  BY <1>2 DEF Pricing, Frozen
<1>11. handler.result \in {"error", "conflict"} \cup Outcome
  BY <1>3
<1> QED
  BY <1>1, <1>2, <1>3, <1>4, <1>7, <1>8, <1>9, <1>10, <1>11, <1>12, HandlerAnswers

\* The loop takes the first request; what is left moves up.
LEMMA TakeRequestStep ==
  ASSUME Core, TakeRequest PROVE Core'
<1> USE DEF Core
<1>1. /\ handler = Idle /\ inbox # <<>> /\ inbox' = Tail(inbox)
      /\ handler' = [stage |-> "admit", op |-> Head(inbox).op, bundle |-> Head(inbox).bundle,
                     live |-> Head(inbox).live, base |-> -1, sent |-> 0, result |-> "none"]
      /\ UNCHANGED <<nodeVars, records, botVars, faults, troubles>>
  BY DEF TakeRequest
<1>2. inbox \in Seq(Request) /\ Len(inbox) \in Nat /\ Len(inbox) # 0
  BY <1>1, LenProperties, EmptySeq DEF FlowType
<1>3. /\ inbox' \in Seq(Request) /\ Len(inbox') = Len(inbox) - 1
      /\ \A i \in 1 .. Len(inbox') : inbox'[i] = inbox[i + 1]
      /\ Head(inbox) = inbox[1] /\ inbox[1] \in Request
      /\ Len(inbox) = 1 => inbox' = <<>>
  BY <1>1, <1>2, HeadTailProperties, ElementOfSeq, EmptySeq
<1>4. /\ handler' \in Handler /\ handler'.stage = "admit" /\ handler'.op = inbox[1].op
      /\ handler'.bundle = inbox[1].bundle /\ handler'.live = inbox[1].live
      /\ handler'.base = -1 /\ handler'.sent = 0 /\ handler'.result = "none"
  BY <1>1, <1>3 DEF Handler, Request, Stage
<1>5. Busy' /\ ~Busy /\ ~Counting' /\ ~Counting /\ (Submitting' <=> Submitting) /\ handler' # Idle
  BY <1>1, <1>4 DEF Busy, Counting, Submitting, botVars, Idle
<1>6. 1 \in 1 .. Len(inbox) /\ \A i \in 1 .. Len(inbox') : i + 1 \in 1 .. Len(inbox)
  BY <1>2, <1>3
<1>7. Phase'
  BY <1>4 DEF Phase, PhaseOf, Early
<1>8. Perm' = Perm
  BY <1>1, <1>4, <1>5, <1>7, PermSame DEF nodeVars
<1>9. FlowType'
  BY <1>1, <1>3, <1>4 DEF FlowType, nodeVars, botVars
<1>10. Protocol'
  <2>1. ASSUME NEW i \in 1 .. Len(inbox')
        PROVE  /\ inbox'[i].bundle.nonce = next_nonce
               /\ inbox'[i].live => /\ i = Len(inbox') /\ answer = "none"
                                    /\ bot.stage = inbox'[i].op /\ bot.bundle = inbox'[i].bundle
    <3>1. /\ inbox[i + 1].bundle.nonce = next_nonce
          /\ inbox[i + 1].live => /\ i + 1 = Len(inbox) /\ answer = "none"
                                  /\ bot.stage = inbox[i + 1].op /\ bot.bundle = inbox[i + 1].bundle
      BY <1>6 DEF Protocol
    <3>2. i + 1 = Len(inbox) => i = Len(inbox')
      BY <1>2, <1>3
    <3> QED
      BY <1>3, <3>1, <3>2
  <2>2. /\ handler'.bundle.nonce = next_nonce
        /\ handler'.live => /\ inbox' = <<>> /\ answer = "none"
                            /\ bot.stage = handler'.op /\ bot.bundle = handler'.bundle
    BY <1>3, <1>4, <1>6 DEF Protocol
  <2>3. answer \notin Outcome \cup {"conflict"}
    BY <1>1 DEF Protocol
  <2>4. /\ bot.stage # "wait" => bot.bundle.nonce = next_nonce
        /\ bot.stage = "wait" => answer = "none"
    BY DEF Protocol
  <2>5. UNCHANGED <<bot, answer, next_nonce>>
    BY <1>1 DEF botVars
  <2> QED
    BY <2>1, <2>2, <2>3, <2>4, <2>5 DEF Protocol
<1>11. Order'
  <2>1. \A i \in 1 .. Len(inbox') : inbox'[i].op \in Op
    <3>1. \A i \in 1 .. Len(inbox') : inbox'[i] \in Request
      BY <1>3, ElementOfSeq
    <3> QED
      BY <3>1 DEF Request
  <2>2. bot.stage = "submit" => /\ \A i \in 1 .. Len(inbox') : inbox'[i].op = "submit"
                                /\ handler'.op = "submit"
    BY <1>3, <1>4, <1>6 DEF Order
  <2>3. ASSUME handler'.op = "simulate", NEW i \in 1 .. Len(inbox') PROVE inbox'[i].op = "simulate"
    <3>1. 1 <= i + 1 /\ inbox[1].op # "submit"
      BY <1>4, <1>6, <2>3
    <3>2. inbox[i + 1].op # "submit"
      BY <1>6, <3>1 DEF Order
    <3> QED
      BY <1>3, <2>1, <3>2 DEF Op
  <2>4. ASSUME NEW i \in 1 .. Len(inbox'), NEW j \in 1 .. Len(inbox'), i <= j, inbox'[j].op = "submit"
        PROVE  inbox'[i].op = "submit"
    <3>1. i + 1 <= j + 1 /\ i + 1 \in 1 .. Len(inbox) /\ j + 1 \in 1 .. Len(inbox)
      BY <1>2, <1>3, <2>4
    <3>2. inbox[j + 1].op = "submit"
      BY <1>3, <2>4
    <3>3. inbox[i + 1].op = "submit"
      BY <3>1, <3>2 DEF Order
    <3> QED
      BY <1>3, <3>3
  <2> QED
    BY <1>1, <2>2, <2>3, <2>4 DEF Order, botVars
<1>12. Nonces'
  BY <1>1, <1>4, <1>5, <1>8, NoncesKept DEF nodeVars, botVars
<1>13. Settled'
  BY <1>1, <1>5, <1>8, SettledKept DEF botVars
<1>14. Frozen'
  BY <1>1, <1>4, <1>8 DEF Frozen, Outcome, botVars
<1>15. PoolHolds'
  <2>1. InHand = {}
    BY <1>5 DEF InHand
  <2>2. InHand' = {}
    BY <1>4 DEF InHand
  <2> QED
    BY <1>1, <2>1, <2>2, PoolStays DEF nodeVars
<1>16. Blocks'
  BY <1>1, <1>3, <1>4, <1>6, <1>8 DEF Blocks, botVars
<1>17. Pricing'
  <2>1. UNCHANGED <<troubles, stranded, executed, bot, answer>>
    BY <1>1 DEF nodeVars, botVars
  <2> QED
    BY <1>3, <1>4, <1>6, <1>8, <2>1 DEF Pricing, Priced, Clean
<1>18. Simulated' /\ Fresh'
  BY <1>4 DEF Simulated, Fresh
<1>19. MinedGood'
  BY <1>1, <1>8 DEF MinedGood, nodeVars
<1>20. RecordsTrue'
  BY <1>1, <1>5, <1>8 DEF RecordsTrue, nodeVars
<1> QED
  BY <1>7, <1>9, <1>10, <1>11, <1>12, <1>13, <1>14, <1>15, <1>16, <1>17, <1>18, <1>19, <1>20

-----------------------------------------------------------------------------
(* The Runtime's loop                                                      *)

\* The bot looks at an answer or at a snapshot and nobody else does anything.
LEMMA BotMoves ==
  ASSUME Core, ~Submitting, answer' = "none",
         UNCHANGED <<nodeVars, records, handler, next_nonce, faults, troubles>>,
         FlowType', Protocol', Order', Blocks', Pricing'
  PROVE  Core'
<1> USE DEF Core
<1>1. UNCHANGED <<chain, node_pool, executed, stranded>>
  BY DEF nodeVars
<1>2. Perm' = Perm /\ (Busy' <=> Busy) /\ (Counting' <=> Counting) /\ ~Submitting'
  BY <1>1 DEF Perm, Busy, Counting, Submitting, Outcome
<1>3. Phase'
  BY <1>1 DEF Phase
<1>4. Nonces'
  BY <1>1, <1>2, NoncesKept
<1>5. Settled'
  BY <1>2, SettledKept
<1>6. Frozen'
  BY <1>2 DEF Frozen, Outcome
<1>7. PoolHolds'
  <2>1. InHand' = InHand
    BY <1>2 DEF InHand
  <2> QED
    BY <1>1, <2>1, PoolStays
<1>8. Simulated' /\ Fresh'
  BY <1>1, <1>2 DEF Simulated, Fresh, Clean
<1>9. MinedGood' /\ RecordsTrue'
  BY <1>1, <1>2 DEF MinedGood, RecordsTrue
<1> QED
  BY <1>3, <1>4, <1>5, <1>6, <1>7, <1>8, <1>9

\* Nobody waits for an answer: what is left is served for nobody.
LEMMA NobodyWaits ==
  ASSUME FlowType, Protocol, answer # "none" \/ bot.stage = "wait"
  PROVE  /\ \A i \in 1 .. Len(inbox) : ~inbox[i].live
         /\ Busy => ~handler.live
<1>1. \A i \in 1 .. Len(inbox) : inbox[i] \in Request
  BY ElementOfSeq DEF FlowType
<1>2. Busy => handler \in Handler
  BY DEF FlowType, Busy
<1>3. \A i \in 1 .. Len(inbox) : inbox[i].op # "wait"
  BY <1>1 DEF Request, Op
<1>4. Busy => handler.op # "wait"
  BY <1>2 DEF Handler, Op
<1> QED
  BY <1>3, <1>4 DEF Protocol

\* The bot posts a request and waits for its answer.
LEMMA BotPosts ==
  ASSUME Core, ~Submitting, answer' = "none",
         UNCHANGED <<nodeVars, records, handler, next_nonce, faults, troubles>>,
         NEW op \in Op, NEW b \in Bundle, Post(op, b),
         bot' \in Bot, bot'.stage = op, bot'.bundle = b, b.nonce = next_nonce,
         answer # "none" \/ bot.stage = "wait",
         op = "submit" => bot.stage = "submit" \/ (inbox = <<>> /\ ~Busy),
         troubles = {} => b.block <= Len(Perm),
         Clean /\ op = "submit" => Priced(Perm, b)
  PROVE  Core'
<1> USE DEF Core
<1> DEFINE r == [op |-> op, bundle |-> b, live |-> TRUE]
           n == Len(inbox)
<1>1. r \in Request /\ r.op = op /\ r.bundle = b /\ r.live
  BY DEF Request
<1>2. inbox \in Seq(Request) /\ n \in Nat
  BY LenProperties DEF FlowType
<1>3. /\ inbox' \in Seq(Request) /\ Len(inbox') = n + 1 /\ inbox'[n + 1] = r
      /\ \A i \in 1 .. n : inbox'[i] = inbox[i]
  <2>1. inbox' = Append(inbox, r)
    BY DEF Post
  <2> QED
    BY <1>1, <1>2, <2>1, AppendProperties
<1>4. \A i : i \in 1 .. Len(inbox') <=> i \in 1 .. n \/ i = n + 1
  BY <1>2, <1>3
<1>5. /\ \A i \in 1 .. n : ~inbox[i].live
      /\ Busy => ~handler.live
  BY NobodyWaits
<1>6. UNCHANGED <<chain, node_pool, executed, stranded>> /\ Perm' = Perm /\ (Busy' <=> Busy)
  BY DEF nodeVars, Perm, Busy
<1>7. n + 1 = Len(inbox') /\ \A i \in 1 .. n : i # n + 1
  BY <1>2, <1>3
<1> HIDE DEF r, n
<1>8. FlowType'
  BY <1>3, <1>6 DEF FlowType
<1>9. Protocol'
  <2>1. ASSUME NEW i \in 1 .. Len(inbox')
        PROVE  /\ inbox'[i].bundle.nonce = next_nonce'
               /\ inbox'[i].live => /\ i = Len(inbox') /\ answer' = "none"
                                    /\ bot'.stage = inbox'[i].op /\ bot'.bundle = inbox'[i].bundle
    <3>1. CASE i = n + 1
      BY <1>1, <1>3, <1>7, <3>1
    <3>2. CASE i \in 1 .. n
      BY <1>3, <1>5, <3>2 DEF Protocol, n
    <3> QED
      BY <1>4, <3>1, <3>2
  <2>2. Busy => handler.bundle.nonce = next_nonce
    BY DEF Protocol
  <2>3. bot'.stage # "wait" /\ answer' \notin Outcome \cup {"conflict"}
    BY DEF Op, Outcome
  <2> QED
    BY <1>5, <1>6, <2>1, <2>2, <2>3 DEF Protocol
<1>10. Order'
  <2>1. ASSUME op = "submit"
        PROVE  (\A i \in 1 .. Len(inbox') : inbox'[i].op = "submit") /\ (Busy => handler.op = "submit")
    <3>1. (\A i \in 1 .. n : inbox[i].op = "submit") /\ (Busy => handler.op = "submit")
      BY <1>2, <2>1 DEF Order, n
    <3> QED
      BY <1>1, <1>3, <1>4, <2>1, <3>1
  <2>2. ASSUME op # "submit"
        PROVE  /\ Busy /\ handler.op = "simulate" => \A i \in 1 .. Len(inbox') : inbox'[i].op = "simulate"
               /\ \A i, j \in 1 .. Len(inbox') :
                    i <= j /\ inbox'[j].op = "submit" => inbox'[i].op = "submit"
    <3>1. inbox'[n + 1].op = "simulate" /\ op = "simulate"
      BY <1>1, <1>3, <2>2 DEF Op
    <3>2. Busy /\ handler.op = "simulate" => \A i \in 1 .. Len(inbox') : inbox'[i].op = "simulate"
      BY <1>3, <1>4, <3>1 DEF Order, n
    <3>3. ASSUME NEW i \in 1 .. Len(inbox'), NEW j \in 1 .. Len(inbox'), i <= j, inbox'[j].op = "submit"
          PROVE  inbox'[i].op = "submit"
      <4>1. j \in 1 .. n
        BY <1>4, <3>1, <3>3
      <4>2. i \in 1 .. n
        BY <1>2, <1>4, <3>3, <4>1
      <4> QED
        BY <1>3, <3>3, <4>1, <4>2 DEF Order, n
    <3> QED
      BY <3>2, <3>3
  <2>3. CASE op = "submit"
    BY <1>6, <2>1, <2>3 DEF Order
  <2>4. CASE op # "submit"
    BY <1>6, <2>2, <2>4 DEF Order
  <2> QED
    BY <2>3, <2>4
<1>11. Blocks'
  <2> SUFFICES ASSUME troubles = {} PROVE Blocks'
    BY DEF Blocks
  <2>1. \A i \in 1 .. Len(inbox') : inbox'[i].bundle.block <= Len(Perm)
    BY <1>1, <1>3, <1>4 DEF Blocks, n
  <2> QED
    BY <1>6, <2>1 DEF Blocks
<1>12. Pricing'
  <2> SUFFICES ASSUME Clean PROVE Pricing'
    BY <1>6 DEF Pricing, Clean
  <2>1. \A i \in 1 .. Len(inbox') : inbox'[i].op = "submit" => Priced(Perm, inbox'[i].bundle)
    BY <1>1, <1>3, <1>4 DEF Pricing, n
  <2>2. answer' # "included"
    OBVIOUS
  <2> QED
    BY <1>6, <2>1, <2>2 DEF Pricing, Priced
<1> QED
  BY <1>8, <1>9, <1>10, <1>11, <1>12, BotMoves

\* The height the clients see is that of their chain.
LEMMA HeadOfPerm ==
  ASSUME FlowType, Phase PROVE Len(Perm) = VisibleHead
<1>1. chain \in Seq(SUBSET Result) /\ handler \in {Idle} \cup Handler /\ PhaseOf(chain, handler)
  BY DEF FlowType, Phase
<1>2. Len(PermOf(chain, handler)) = IF handler.stage # "idle" /\ handler.base >= 0
                                    THEN handler.base ELSE Len(chain)
  BY <1>1, PermFacts
<1> QED
  BY <1>2 DEF Perm, VisibleHead

\* A bundle is composed with the present nonce on a block that was there.
LEMMA ComposeStep ==
  ASSUME Core, "node" \notin troubles, NEW v \in Victims, NEW n \in 0 .. MaxBlock - 1, Compose(v, n)
  PROVE  Core'
<1> USE DEF Core
<1> DEFINE b == [block |-> n, victim |-> v, nonce |-> next_nonce]
<1>1. /\ bot.stage = "wait" /\ n <= VisibleHead
      /\ bot' = [stage |-> "simulate", bundle |-> b, attempt |-> 1] /\ Post("simulate", b)
      /\ UNCHANGED <<nodeVars, records, handler, answer, next_nonce, faults, troubles>>
  BY DEF Compose
<1>2. b \in Bundle /\ b.nonce = next_nonce /\ b.block = n
  BY DEF Bundle, FlowType
<1>3. answer = "none" /\ ~Submitting
  BY <1>1 DEF Protocol, Submitting
<1>4. b.block <= Len(Perm)
  BY <1>1, <1>2, HeadOfPerm
<1> HIDE DEF b
<1>5. bot' \in Bot /\ bot'.stage = "simulate" /\ bot'.bundle = b
  BY <1>1, <1>2 DEF Bot, Op
<1>6. "simulate" \in Op /\ "simulate" # "submit" /\ answer' = "none"
  BY <1>1, <1>3 DEF Op
<1> QED
  BY <1>1, <1>2, <1>3, <1>4, <1>5, <1>6, BotPosts

\* Another attempt posts the same bundle behind what is left of the earlier ones.
LEMMA RetryStep ==
  ASSUME Core, Retry PROVE Core'
<1> USE DEF Core
<1>1. /\ answer = "error" /\ answer' = "none" /\ bot' = [bot EXCEPT !.attempt = @ + 1]
      /\ Post(bot.stage, bot.bundle)
      /\ UNCHANGED <<nodeVars, records, handler, next_nonce, faults, troubles>>
  BY DEF Retry
<1>2. bot.stage # "wait" /\ bot \in Bot /\ ~Submitting
  <2>1. bot.stage # "wait"
    BY <1>1 DEF Protocol
  <2> QED
    BY <1>1, <2>1 DEF FlowType, Submitting, Outcome
<1>3. /\ bot' \in Bot /\ bot'.stage = bot.stage /\ bot'.bundle = bot.bundle
      /\ bot.stage \in Op /\ bot.bundle \in Bundle
  BY <1>1, <1>2 DEF Bot
<1>4. bot.bundle.nonce = next_nonce
  BY <1>2 DEF Protocol
<1>5. /\ troubles = {} => bot.bundle.block <= Len(Perm)
      /\ Clean /\ bot.stage = "submit" => Priced(Perm, bot.bundle)
  BY <1>2 DEF Blocks, Pricing
<1>6. answer # "none"
  BY <1>1
<1> QED
  BY <1>1, <1>2, <1>3, <1>4, <1>5, <1>6, BotPosts

\* A simulation that ended as included leaves nothing of the bot in the builder.
LEMMA SubmitStep ==
  ASSUME Core, Submit PROVE Core'
<1> USE DEF Core
<1>1. /\ bot.stage = "simulate" /\ answer = "included" /\ answer' = "none"
      /\ bot' = [bot EXCEPT !.stage = "submit", !.attempt = 1] /\ Post("submit", bot.bundle)
      /\ UNCHANGED <<nodeVars, records, handler, next_nonce, faults, troubles>>
  BY DEF Submit
<1>2. bot \in Bot /\ ~Submitting
  BY <1>1 DEF FlowType, Submitting
<1>3. /\ bot' \in Bot /\ bot'.stage = "submit" /\ bot'.bundle = bot.bundle /\ bot.bundle \in Bundle
  BY <1>1, <1>2 DEF Bot, Op
<1>4. bot.bundle.nonce = next_nonce /\ inbox = <<>> /\ ~Busy
  BY <1>1 DEF Protocol, Outcome
<1>5. /\ troubles = {} => bot.bundle.block <= Len(Perm)
      /\ Clean => Priced(Perm, bot.bundle)
  BY <1>1 DEF Blocks, Pricing
<1>6. "submit" \in Op /\ answer # "none"
  BY <1>1 DEF Op
<1> QED
  BY <1>1, <1>2, <1>3, <1>4, <1>5, <1>6, BotPosts

\* The loop goes back to waiting: no request in the inbox is the bot's any more.
LEMMA DropStep ==
  ASSUME Core, Drop PROVE Core'
<1> USE DEF Core
<1>1. /\ bot' = [stage |-> "wait"] /\ answer' = "none"
      /\ UNCHANGED <<nodeVars, builderVars, next_nonce, faults, troubles>>
      /\ answer # "none" /\ ~Submitting
  BY DEF Drop, NextSnapshot, Submitting, Outcome
<1>2. UNCHANGED <<chain, node_pool, executed, stranded, records, inbox, handler>>
  BY <1>1 DEF nodeVars, builderVars
<1>3. Perm' = Perm /\ (Busy' <=> Busy) /\ bot'.stage = "wait"
  BY <1>1, <1>2 DEF Perm, Busy
<1>4. /\ \A i \in 1 .. Len(inbox) : ~inbox[i].live
      /\ Busy => ~handler.live
  BY <1>1, NobodyWaits
<1>5. FlowType'
  BY <1>1, <1>2 DEF FlowType
<1>6. Protocol'
  BY <1>1, <1>2, <1>3, <1>4 DEF Protocol, Outcome
<1>7. Order'
  BY <1>2, <1>3 DEF Order
<1>8. Blocks'
  BY <1>1, <1>2, <1>3 DEF Blocks
<1>9. Pricing'
  BY <1>1, <1>2, <1>3 DEF Pricing, Priced, Clean
<1> QED
  BY <1>1, <1>2, <1>5, <1>6, <1>7, <1>8, <1>9, BotMoves

\* mark_nonce_used follows a bundle that is on the chain.
LEMMA SubmittedStep ==
  ASSUME Core, Submitted PROVE Core'
<1> USE DEF Core
<1>1. /\ bot.stage = "submit" /\ answer \in Outcome /\ next_nonce' = next_nonce + 1
      /\ bot' = [stage |-> "wait"] /\ answer' = "none"
      /\ UNCHANGED <<chain, node_pool, executed, stranded, records, inbox, handler, faults, troubles>>
  BY DEF Submitted, NextSnapshot, Outcome, nodeVars, builderVars
<1>2. inbox = <<>> /\ ~Busy /\ handler = Idle /\ Submitting
  BY <1>1 DEF Protocol, Busy, Submitting
<1>3. Perm' = Perm /\ ~Busy' /\ bot'.stage = "wait" /\ Len(inbox) = 0
  BY <1>1, <1>2 DEF Perm, Busy
<1>4. Perm = chain
  BY <1>2, PermNow
<1>5. BotCount(chain) = next_nonce + 1 /\ BotsIn(node_pool) = {} /\ next_nonce \in Nat
  BY <1>2 DEF Nonces, FlowType
<1>6. FlowType'
  BY <1>1, <1>5 DEF FlowType
<1>7. Protocol'
  BY <1>1, <1>3 DEF Protocol, Outcome
<1>8. Order'
  BY <1>1, <1>3 DEF Order
<1>9. Phase'
  BY <1>1 DEF Phase
<1>10. Nonces'
  <2>1. BotsIn(node_pool') = {} /\ IsFiniteSet(BotPlaces(chain'))
    BY <1>1, <1>5 DEF Nonces
  <2>2. BotCount(chain') = next_nonce' /\ BotCount(Perm') = next_nonce'
    BY <1>1, <1>3, <1>4, <1>5
  <2>3. ~Counting' /\ ~Submitting'
    BY <1>1, <1>3 DEF Counting, Submitting, Outcome
  <2> QED
    BY <1>3, <2>1, <2>2, <2>3 DEF Nonces
<1>11. Settled'
  BY <1>1, <1>3, <1>4, <1>5 DEF Settled
<1>12. Frozen'
  BY <1>1 DEF Frozen
<1>13. PoolHolds'
  <2>1. InHand = {} /\ InHand' = {}
    BY <1>2, <1>3 DEF InHand
  <2> QED
    BY <1>1, <2>1, PoolStays
<1>14. Blocks' /\ Pricing'
  BY <1>1, <1>3 DEF Blocks, Pricing
<1>15. Simulated' /\ Fresh'
  BY <1>3 DEF Simulated, Fresh
<1>16. MinedGood' /\ RecordsTrue'
  BY <1>1, <1>2, <1>3 DEF MinedGood, RecordsTrue, Counting
<1> QED
  BY <1>6, <1>7, <1>8, <1>9, <1>10, <1>11, <1>12, <1>13, <1>14, <1>15, <1>16

-----------------------------------------------------------------------------
(* Other clients                                                           *)

\* The pool with what another client has sent: nothing of the bot's unless a
\* call of the node had failed.
LEMMA OtherPool ==
  ASSUME Core, handler = Idle, NEW vs \in SUBSET Victims, NEW q, q = WithSent(vs)
  PROVE  /\ ~Busy /\ ~Counting /\ Perm = chain /\ chain \in Seq(SUBSET Result)
         /\ Len(chain) \in Nat /\ BotCount(chain) \in Nat
         /\ q \in SUBSET Tx /\ BotsIn(q) = BotsIn(node_pool)
         /\ \A t \in BotsIn(q) : t.nonce = TxCount("bot")
         /\ \A s, t \in BotsIn(q) : s = t
         /\ BotsIn(q) # {} => BotCount(chain) = next_nonce
         /\ troubles \subseteq {"answer"} =>
              /\ BotsIn(q) = {}
              /\ \A t \in q : \E v \in stranded \cup vs : t = VictimTx(v)
              /\ \A t \in q : t.from = "bot" \/ \E v \in Victims : t = VictimTx(v)
<1> USE DEF Core
<1>1. ~Busy /\ ~Counting
  BY DEF Busy, Counting
<1>2. Perm = chain /\ chain \in Seq(SUBSET Result) /\ Len(chain) \in Nat /\ BotCount(chain) \in Nat
  BY <1>1, PermNow
<1>3. node_pool \in SUBSET Tx /\ stranded \subseteq Victims
  BY DEF FlowType
<1>4. \A v \in Victims : VictimTx(v) \in Tx /\ VictimTx(v).from # "bot"
  BY VictimTxType
<1>5. q = node_pool \cup {VictimTx(v) : v \in vs}
  BY DEF WithSent
<1>6. q \in SUBSET Tx /\ BotsIn(q) = BotsIn(node_pool)
  BY <1>3, <1>4, <1>5 DEF BotsIn
<1>7. /\ \A t \in BotsIn(q) : t.nonce = next_nonce /\ BotCount(chain) = next_nonce
      /\ \A s, t \in BotsIn(q) : s = t
  BY <1>6 DEF Nonces
<1>8. \A t \in BotsIn(q) : t.nonce = TxCount("bot")
  BY <1>7 DEF TxCount, BotCount, BotPlaces
<1>9. ASSUME troubles \subseteq {"answer"}
      PROVE  /\ BotsIn(q) = {}
             /\ \A t \in q : \E v \in stranded \cup vs : t = VictimTx(v)
             /\ \A t \in q : t.from = "bot" \/ \E v \in Victims : t = VictimTx(v)
  <2>1. InHand = {}
    BY <1>1 DEF InHand
  <2>2. node_pool \subseteq {VictimTx(v) : v \in stranded}
    BY <1>9, <2>1 DEF PoolHolds
  <2>3. \A t \in q : \E v \in stranded \cup vs : t = VictimTx(v)
    BY <1>5, <2>2
  <2>4. \A t \in q : \E v \in Victims : t = VictimTx(v)
    BY <1>3, <2>3
  <2>5. BotsIn(q) = {}
    BY <1>4, <2>4 DEF BotsIn
  <2> QED
    BY <2>3, <2>4, <2>5
<1> QED
  BY <1>1, <1>2, <1>6, <1>7, <1>8, <1>9

\* A step that only touches the node's pool, and leaves no swap there that is
\* not stranded.
LEMMA PoolOnly ==
  ASSUME Core, handler = Idle, UNCHANGED <<chain, executed, builderVars, botVars, faults, troubles>>,
         node_pool' \in SUBSET Tx, BotsIn(node_pool') \subseteq BotsIn(node_pool),
         stranded \subseteq stranded', stranded' \in SUBSET Victims,
         troubles \subseteq {"answer"} => node_pool' \subseteq {VictimTx(v) : v \in stranded'}
  PROVE  Core'
<1> USE DEF Core
<1>1. UNCHANGED <<chain, executed, records, inbox, handler, bot, answer, next_nonce, faults, troubles>>
  BY DEF builderVars, botVars
<1>2. ~Busy /\ ~Busy' /\ ~Counting /\ ~Counting' /\ (Submitting' <=> Submitting) /\ Perm' = Perm
  BY <1>1 DEF Busy, Counting, Submitting, Perm
<1>3. FlowType'
  BY <1>1 DEF FlowType
<1>4. Protocol' /\ Order'
  BY <1>1, <1>2 DEF Protocol, Order
<1>5. Phase'
  BY <1>1 DEF Phase
<1>6. Nonces'
  BY <1>1, <1>2 DEF Nonces
<1>7. Settled' /\ Frozen'
  BY <1>1, <1>2 DEF Settled, Frozen
<1>8. PoolHolds'
  <2>1. InHand' = {}
    BY <1>2 DEF InHand
  <2> QED
    BY <1>1, <2>1 DEF PoolHolds
<1>9. Blocks'
  BY <1>1, <1>2 DEF Blocks
<1>10. Pricing'
  <2>1. Clean' => Clean
    BY <1>1, CleanBefore
  <2> QED
    BY <1>1, <1>2, <2>1 DEF Pricing, Priced
<1>11. Simulated' /\ Fresh'
  BY <1>2 DEF Simulated, Fresh
<1>12. MinedGood'
  BY <1>1, <1>2, GoodKept DEF MinedGood
<1>13. RecordsTrue'
  BY <1>1, <1>2 DEF RecordsTrue
<1> QED
  BY <1>3, <1>4, <1>5, <1>6, <1>7, <1>8, <1>9, <1>10, <1>11, <1>12, <1>13

\* A simulation of others takes what is ready out of the pool; the rest waits.
LEMMA OtherSimulationStep ==
  ASSUME Core, NEW vs \in SUBSET Victims, OtherSimulation(vs) PROVE Core'
<1> USE DEF Core
<1> DEFINE q == WithSent(vs)
<1>1. /\ handler = Idle /\ node_pool' = Stays(q) /\ stranded' = stranded \cup Waiting(Stays(q))
      /\ UNCHANGED <<chain, executed, builderVars, botVars, faults, troubles>>
  BY DEF OtherSimulation, OtherSends
<1>2. /\ q \in SUBSET Tx /\ BotsIn(q) = BotsIn(node_pool)
      /\ \A t \in BotsIn(q) : t.nonce = TxCount("bot")
      /\ troubles \subseteq {"answer"} =>
           \A t \in q : t.from = "bot" \/ \E v \in Victims : t = VictimTx(v)
  BY <1>1, OtherPool
<1> HIDE DEF q
<1>3. node_pool' \in SUBSET Tx /\ BotsIn(node_pool') \subseteq BotsIn(node_pool)
  BY <1>1, <1>2 DEF Stays, BotsIn
<1>4. stranded \subseteq stranded' /\ stranded' \in SUBSET Victims
  BY <1>1 DEF FlowType, Waiting
<1>5. ASSUME troubles \subseteq {"answer"} PROVE node_pool' \subseteq {VictimTx(v) : v \in stranded'}
  <2>1. Stays(q) \subseteq {VictimTx(v) : v \in Waiting(Stays(q))}
    BY <1>2, <1>5, StaysStranded
  <2> QED
    BY <1>1, <2>1
<1> QED
  BY <1>1, <1>3, <1>4, <1>5, PoolOnly

\* A bundle of others that is refused leaves what was sent of it in the pool.
LEMMA OtherRefusedStep ==
  ASSUME Core, NEW vs \in SUBSET Victims, OtherRefused(vs) PROVE Core'
<1> USE DEF Core
<1> DEFINE q == WithSent(vs)
<1>1. /\ handler = Idle /\ node_pool' = q /\ stranded' = stranded \cup Waiting(q)
      /\ UNCHANGED <<chain, executed, builderVars, botVars, faults, troubles>>
  BY DEF OtherRefused, OtherSends
<1>2. /\ q \in SUBSET Tx /\ BotsIn(q) = BotsIn(node_pool)
      /\ troubles \subseteq {"answer"} => \A t \in q : \E v \in stranded \cup vs : t = VictimTx(v)
  BY <1>1, OtherPool
<1> HIDE DEF q
<1>3. stranded \subseteq stranded' /\ stranded' \in SUBSET Victims
  BY <1>1 DEF FlowType, Waiting
<1>4. ASSUME troubles \subseteq {"answer"} PROVE node_pool' \subseteq {VictimTx(v) : v \in stranded'}
  <2> SUFFICES ASSUME NEW t \in q PROVE t \in {VictimTx(v) : v \in stranded'}
    BY <1>1
  <2>1. PICK v \in stranded \cup vs : t = VictimTx(v)
    BY <1>2, <1>4
  <2>2. v \in stranded'
    BY <1>1, <1>3, <2>1 DEF Waiting
  <2> QED
    BY <2>1, <2>2
<1> QED
  BY <1>1, <1>2, <1>3, <1>4, PoolOnly

\* A block of others moves the head past every bundle that was priced before,
\* and brings nothing of the bot's unless a call of the node had failed.
LEMMA OtherBundleStep ==
  ASSUME Core, NEW vs \in SUBSET Victims, OtherBundle(vs) PROVE Core'
<1> USE DEF Core
<1> DEFINE q == WithSent(vs)
<1>1. /\ handler = Idle /\ Mine(q)
      /\ records' = [v \in Victims |-> IF v \in vs THEN TxStatus(chain', VictimTx(v)) ELSE records[v]]
      /\ UNCHANGED <<inbox, handler, bot, answer, next_nonce, faults, troubles>>
  BY DEF OtherBundle, OtherSends, botVars
<1>2. ~Busy /\ ~Counting /\ ~Busy' /\ ~Counting' /\ (Submitting' <=> Submitting)
  BY <1>1 DEF Busy, Counting, Submitting
<1>3. Perm = chain /\ chain \in Seq(SUBSET Result) /\ Len(chain) \in Nat /\ BotCount(chain) \in Nat
  BY <1>2, PermNow
<1>4. node_pool \in SUBSET Tx /\ next_nonce \in Nat
  BY DEF FlowType
<1>5. /\ q \in SUBSET Tx
      /\ troubles \subseteq {"answer"} =>
           /\ \A t \in q : \E v \in stranded \cup vs : t = VictimTx(v)
           /\ \A t \in q : t.from = "bot" \/ \E v \in Victims : t = VictimTx(v)
  BY <1>1, OtherPool
<1>6. /\ \A t \in BotsIn(q) : t.nonce = TxCount("bot")
      /\ \A s, t \in BotsIn(q) : s = t
      /\ BotsIn(q) # {} => BotCount(chain) = next_nonce
  BY <1>1, OtherPool
<1>12. troubles \subseteq {"answer"} => BotsIn(q) = {}
  BY <1>1, OtherPool
<1>24. \A v \in vs : VictimTx(v) \in q
  BY DEF WithSent
<1> HIDE DEF q
<1>7. PICK b : Mined(b, q)
  BY <1>1, <1>5, MineEffect
<1>8. /\ b \in SUBSET Result /\ (\A r \in b : r.tx \in Runs(q))
      /\ (\A t \in Runs(q) : \E r \in b : r.tx = t)
      /\ chain' = Append(chain, b) /\ node_pool' = Stays(q)
      /\ stranded' = stranded \cup Waiting(Stays(q))
  BY <1>7 DEF Mined
<1>25. /\ stranded \subseteq stranded' /\ stranded' \in SUBSET Victims
       /\ Clean' => Clean
  BY <1>1, <1>8 DEF FlowType, Waiting, Clean
<1>9. /\ chain' \in Seq(SUBSET Result) /\ Len(chain') = Len(chain) + 1
      /\ IsFiniteSet(BotPlaces(chain'))
      /\ BotCount(chain') = IF BotsIn(q) = {} THEN BotCount(chain) ELSE BotCount(chain) + 1
  BY <1>5, <1>6, <1>7, MinedCount
<1>10. Phase'
  BY <1>1 DEF Phase, PhaseOf
<1>11. Perm' = chain'
  BY <1>1, <1>9, <1>10, PermFacts DEF Phase, Perm
<1>13. FlowType'
  <2>1. records' \in [Victims -> Status]
    <3>1. \A v \in Victims : records[v] \in Status
      BY DEF FlowType
    <3>2. \A v \in Victims : TxStatus(chain', VictimTx(v)) \in Status
      BY StatusType DEF Status
    <3>3. \A v \in Victims :
            (IF v \in vs THEN TxStatus(chain', VictimTx(v)) ELSE records[v]) \in Status
      BY <3>1, <3>2
    <3> QED
      BY <1>1, <3>3
  <2>2. node_pool' \in SUBSET Tx
    BY <1>5, <1>8 DEF Stays
  <2> QED
    BY <1>1, <1>9, <1>25, <2>1, <2>2 DEF FlowType
<1>14. Protocol' /\ Order'
  BY <1>1, <1>2 DEF Protocol, Order
<1>15. Nonces'
  <2>1. BotsIn(node_pool') = {}
    BY <1>5, <1>6, <1>8, BotsRun
  <2>2. BotCount(chain') \in {next_nonce, next_nonce + 1}
    BY <1>6, <1>9 DEF Nonces
  <2>3. Submitting => BotCount(chain') = next_nonce + 1
    <3> SUFFICES ASSUME Submitting PROVE BotCount(chain') = next_nonce + 1
      OBVIOUS
    <3>1. BotCount(chain) = next_nonce + 1
      BY DEF Nonces
    <3> QED
      BY <1>4, <1>6, <1>9, <3>1
  <2> QED
    BY <1>1, <1>2, <1>9, <1>11, <2>1, <2>2, <2>3 DEF Nonces
<1>16. Settled'
  BY <1>1, <1>2, <1>3, <1>9, <1>11, <1>12 DEF Settled
<1>17. Frozen'
  BY <1>1, <1>2, <1>3, <1>9, <1>11, <1>12 DEF Frozen
<1>18. PoolHolds' /\ Simulated' /\ Fresh'
  <2>1. InHand' = {}
    BY <1>2 DEF InHand
  <2>2. ASSUME troubles \subseteq {"answer"} PROVE node_pool' \subseteq {VictimTx(v) : v \in stranded'}
    <3>1. Stays(q) \subseteq {VictimTx(v) : v \in Waiting(Stays(q))}
      BY <1>5, <1>6, <2>2, StaysStranded
    <3> QED
      BY <1>8, <3>1
  <2>3. PoolHolds'
    BY <1>1, <2>1, <2>2 DEF PoolHolds
  <2> QED
    BY <1>2, <2>3 DEF Simulated, Fresh
<1>19. troubles = {} =>
          /\ bot.stage # "wait" => bot.bundle.block \in Int /\ bot.bundle.block < Len(Perm')
          /\ \A i \in 1 .. Len(inbox) : inbox[i].bundle.block \in Int /\ inbox[i].bundle.block < Len(Perm')
  <2> SUFFICES ASSUME troubles = {}
               PROVE  /\ bot.stage # "wait" => bot.bundle.block \in Int /\ bot.bundle.block < Len(Perm')
                      /\ \A i \in 1 .. Len(inbox) :
                           inbox[i].bundle.block \in Int /\ inbox[i].bundle.block < Len(Perm')
    OBVIOUS
  <2>1. \A m \in Int : m <= Len(Perm) => m < Len(Perm')
    BY <1>3, <1>9, <1>11
  <2>2. bot.stage # "wait" => bot \in Bot
    BY DEF FlowType
  <2>3. \A i \in 1 .. Len(inbox) : inbox[i] \in Request
    BY ElementOfSeq DEF FlowType
  <2>4. /\ bot.stage # "wait" => bot.bundle.block \in Int
        /\ \A i \in 1 .. Len(inbox) : inbox[i].bundle.block \in Int
    BY <2>2, <2>3, BundleConstants DEF Bot, Request, Bundle
  <2> QED
    BY <2>1, <2>4 DEF Blocks
<1>20. Blocks'
  <2>1. Len(Perm') \in Int
    BY <1>3, <1>9, <1>11
  <2> QED
    BY <1>1, <1>2, <1>19, <2>1 DEF Blocks
<1>21. Pricing'
  <2>1. answer = "included" => bot.stage # "wait"
    BY DEF Protocol
  <2>2. Len(Perm') \in Int
    BY <1>3, <1>9, <1>11
  <2> QED
    BY <1>1, <1>2, <1>19, <1>25, <2>1, <2>2 DEF Pricing, Priced, Clean
<1>22. MinedGood'
  <2> SUFFICES ASSUME troubles \subseteq {"answer"} PROVE GoodChain(Perm', stranded')
    BY <1>1 DEF MinedGood
  <2>1. BlockBots(b) = {}
    BY <1>8, <1>12 DEF BlockBots, BotsIn, Runs
  <2>2. GoodChain(chain, stranded')
    BY <1>3, <1>25, GoodKept DEF MinedGood
  <2> QED
    BY <1>3, <1>8, <1>11, <1>25, <2>1, <2>2, GoodAppend
<1>23. RecordsTrue'
  <2> SUFFICES ASSUME troubles \subseteq {"answer"}, NEW v \in Victims \ stranded'
               PROVE  records'[v] = StatusOn(chain', v)
    BY <1>1, <1>2, <1>11 DEF RecordsTrue
  <2>3. CASE v \in vs
    <3>1. VictimTx(v) \in Runs(q)
      BY <1>8, <1>24, <2>3 DEF Waiting, Stays, Runs
    <3>2. PICK r \in b : r.tx = VictimTx(v)
      BY <1>8, <3>1
    <3>3. Has(Append(chain, b), r.tx)
      BY <1>3, <1>8, HasAppend
    <3> QED
      BY <1>1, <1>8, <2>3, <3>2, <3>3 DEF StatusOn
  <2>4. CASE v \notin vs
    <3>1. VictimTx(v) \notin q
      <4>1. \A w \in stranded \cup vs : VictimTx(w).victim = w /\ w # v
        BY <1>25, <2>4, VictimTxType DEF FlowType
      <4>2. VictimTx(v).victim = v
        BY VictimTxType
      <4> QED
        BY <1>5, <4>1, <4>2
    <3>2. \A r \in b : r.tx # VictimTx(v)
      BY <1>8, <3>1 DEF Runs
    <3>3. /\ Has(Append(chain, b), VictimTx(v)) <=> Has(chain, VictimTx(v))
          /\ TxStatus(Append(chain, b), VictimTx(v)) = TxStatus(chain, VictimTx(v))
      BY <1>3, <1>8, <3>2, StatusAppend
    <3>4. records[v] = StatusOn(chain, v)
      BY <1>2, <1>3, <1>25 DEF RecordsTrue
    <3> QED
      BY <1>1, <1>8, <2>4, <3>3, <3>4 DEF StatusOn
  <2> QED
    BY <2>3, <2>4
<1> QED
  BY <1>10, <1>13, <1>14, <1>15, <1>16, <1>17, <1>18, <1>20, <1>21, <1>22, <1>23

-----------------------------------------------------------------------------
(* Faults                                                                  *)

\* The request that was posted last is lost, or loses its client: nobody waits.
LEMMA LoseRequestStep ==
  ASSUME Core, LoseRequest PROVE Core'
<1> USE DEF Core
<1> DEFINE n == Len(inbox)
<1>1. /\ inbox # <<>> /\ Last(inbox).live /\ faults' = faults + 1 /\ troubles' = troubles
      /\ inbox' = Front(inbox) \/ inbox' = [inbox EXCEPT ![n].live = FALSE]
      /\ answer' = "error"
      /\ UNCHANGED <<chain, node_pool, executed, stranded, records, handler, bot, next_nonce>>
  BY DEF LoseRequest, Fault, nodeVars
<1>2. inbox \in Seq(Request) /\ n \in Nat /\ n # 0 /\ n \in 1 .. n /\ n = Len(inbox)
  BY <1>1, LenProperties, EmptySeq DEF FlowType
<1>3. inbox[n].live /\ inbox[n] \in Request
  BY <1>1, <1>2, ElementOfSeq DEF Last
<1>4. /\ answer = "none" /\ bot.stage = inbox[n].op
      /\ \A i \in 1 .. n : i # n => ~inbox[i].live
  BY <1>2, <1>3 DEF Protocol
<1>5. ~Submitting /\ ~Submitting' /\ bot.stage # "wait" /\ (Busy => ~handler.live)
  <2>1. inbox[n].op # "wait"
    BY <1>3 DEF Request, Op
  <2>2. Busy => ~handler.live
    BY <1>1 DEF Protocol
  <2> QED
    BY <1>1, <1>4, <2>1, <2>2 DEF Submitting, Outcome
<1>6. /\ inbox' \in Seq(Request) /\ Len(inbox') \in Nat /\ Len(inbox') <= n
      /\ \A i \in 1 .. Len(inbox') : /\ i \in 1 .. n /\ ~inbox'[i].live
                                     /\ inbox'[i].op = inbox[i].op /\ inbox'[i].bundle = inbox[i].bundle
  <2>1. CASE inbox' = Front(inbox)
    <3>1. /\ inbox' \in Seq(Request) /\ Len(inbox') = n - 1
          /\ \A i \in 1 .. n - 1 : inbox'[i] = inbox[i]
      <4>1. inbox' = SubSeq(inbox, 1, n - 1)
        BY <2>1 DEF Front
      <4>2. 1 \in Int /\ n - 1 \in Int /\ \A i \in 1 .. n - 1 : inbox[i] \in Request
        BY <1>2, ElementOfSeq
      <4>3. /\ inbox' \in Seq(Request)
            /\ Len(inbox') = IF 1 <= n - 1 THEN n - 1 - 1 + 1 ELSE 0
            /\ \A i \in 1 .. n - 1 - 1 + 1 : inbox'[i] = inbox[1 + i - 1]
        BY <1>2, <4>1, <4>2, SubSeqProperties
      <4> HIDE DEF n
      <4> QED
        BY <1>2, <4>3
    <3> HIDE DEF n, Core
    <3>2. \A i \in 1 .. n - 1 : i \in 1 .. n /\ i # n
      BY <1>2
    <3>3. n - 1 \in Nat /\ n - 1 <= n
      BY <1>2
    <3>4. ASSUME NEW i \in 1 .. n - 1
          PROVE  /\ i \in 1 .. n /\ ~inbox'[i].live
                 /\ inbox'[i].op = inbox[i].op /\ inbox'[i].bundle = inbox[i].bundle
      BY <1>4, <3>1, <3>2
    <3> QED
      BY <3>1, <3>3, <3>4
  <2>2. CASE inbox' = [inbox EXCEPT ![n].live = FALSE]
    <3> DEFINE r == [inbox[n] EXCEPT !.live = FALSE]
    <3>1. r \in Request /\ r.op = inbox[n].op /\ r.bundle = inbox[n].bundle /\ ~r.live
      BY <1>3 DEF Request
    <3>2. inbox' = [inbox EXCEPT ![n] = r]
      BY <2>2
    <3> HIDE DEF r, n
    <3>3. inbox' \in Seq(Request) /\ Len(inbox') = Len(inbox)
      BY <1>2, <3>1, <3>2, ExceptSeq
    <3>4. inbox'[n] = r /\ \A i \in 1 .. Len(inbox) : i # n => inbox'[i] = inbox[i]
      BY <1>2, <3>1, <3>2, ExceptSeq
    <3> QED
      BY <1>2, <1>4, <3>1, <3>3, <3>4 DEF n
  <2> QED
    BY <1>1, <2>1, <2>2
<1>7. Perm' = Perm /\ (Busy' <=> Busy) /\ (Counting' <=> Counting)
  BY <1>1 DEF Perm, Busy, Counting
<1> HIDE DEF n
<1>8. FlowType'
  BY <1>1, <1>6 DEF FlowType
<1>9. Protocol'
  <2>1. \A i \in 1 .. Len(inbox') : inbox'[i].bundle.nonce = next_nonce
    BY <1>6 DEF Protocol, n
  <2> QED
    BY <1>1, <1>5, <1>6, <1>7, <2>1 DEF Protocol, Outcome
<1>10. Order'
  BY <1>1, <1>6, <1>7 DEF Order, n
<1>11. Phase'
  BY <1>1 DEF Phase
<1>12. Nonces'
  BY <1>1, <1>5, <1>7, NoncesKept
<1>13. Settled' /\ Frozen'
  BY <1>1, <1>5, <1>7, SettledKept DEF Frozen, Outcome
<1>14. PoolHolds' /\ Simulated' /\ Fresh'
  <2>1. InHand' = InHand
    BY <1>1, <1>7 DEF InHand
  <2>2. PoolHolds'
    BY <1>1, <2>1, PoolStays
  <2> QED
    BY <1>1, <1>7, <2>2 DEF Simulated, Fresh, Clean
<1>15. Blocks'
  BY <1>1, <1>6, <1>7 DEF Blocks, n
<1>16. Pricing'
  BY <1>1, <1>6, <1>7 DEF Pricing, Priced, Clean, n
<1>17. MinedGood' /\ RecordsTrue'
  BY <1>1, <1>7 DEF MinedGood, RecordsTrue
<1> QED
  BY <1>8, <1>9, <1>10, <1>11, <1>12, <1>13, <1>14, <1>15, <1>16, <1>17

\* The client of the running handler is gone, and the handler does not know.
LEMMA LoseClientStep ==
  ASSUME Core, LoseClient PROVE Core'
<1> USE DEF Core
<1>1. /\ Busy /\ handler.live /\ faults' = faults + 1 /\ troubles' = troubles
      /\ handler' = [handler EXCEPT !.live = FALSE] /\ answer' = "error"
      /\ UNCHANGED <<chain, node_pool, executed, stranded, records, inbox, bot, next_nonce>>
  BY DEF LoseClient, Fault, nodeVars, Busy
<1>2. handler \in Handler
  BY <1>1 DEF FlowType, Busy
<1>3. /\ handler' \in Handler /\ handler'.op = handler.op /\ handler'.stage = handler.stage
      /\ handler'.bundle = handler.bundle /\ ~handler'.live
      /\ handler'.base = handler.base /\ handler'.sent = handler.sent
      /\ handler'.result = handler.result
  BY <1>1, <1>2 DEF Handler
<1>4. Busy' /\ handler' # Idle /\ handler # Idle
  BY <1>1, <1>3 DEF Busy, Idle, Handler, Stage
<1>5. inbox = <<>> /\ answer = "none" /\ bot.stage = handler.op /\ bot.stage # "wait" /\ Len(inbox) = 0
  BY <1>1, <1>2 DEF Protocol, Handler, Op
<1>6. ~Submitting /\ ~Submitting' /\ (Counting' <=> Counting)
  BY <1>1, <1>3, <1>4, <1>5 DEF Submitting, Counting, Outcome
<1>7. Phase'
  BY <1>1, <1>3, <1>4 DEF Phase, PhaseOf
<1>8. Perm' = Perm
  BY <1>1, <1>3, <1>4, <1>7, PermSame
<1>9. FlowType'
  BY <1>1, <1>3 DEF FlowType
<1>10. Protocol'
  BY <1>1, <1>3, <1>5 DEF Protocol, Outcome
<1>11. Order'
  BY <1>1, <1>3 DEF Order
<1>12. Nonces'
  BY <1>1, <1>3, <1>6, <1>8, NoncesKept
<1>13. Settled' /\ Frozen'
  BY <1>1, <1>3, <1>6, <1>8, SettledKept DEF Frozen, Outcome
<1>14. PoolHolds' /\ Simulated' /\ Fresh'
  <2>1. InHand' = InHand
    BY <1>1, <1>3, <1>4 DEF InHand
  <2>2. PoolHolds'
    BY <1>1, <2>1, PoolStays
  <2> QED
    BY <1>1, <1>3, <1>4, <1>8, <2>2 DEF Simulated, Fresh, Clean
<1>15. Blocks' /\ Pricing'
  BY <1>1, <1>3, <1>8 DEF Blocks, Pricing, Priced, Clean
<1>16. MinedGood' /\ RecordsTrue'
  BY <1>1, <1>3, <1>6, <1>8 DEF MinedGood, RecordsTrue
<1> QED
  BY <1>7, <1>9, <1>10, <1>11, <1>12, <1>13, <1>14, <1>15, <1>16

\* After a failed call of the node or a restart of the builder only the nonces
\* are still promised.
LEMMA Troubled ==
  ASSUME troubles' \cap {"rpc", "builder"} # {}, FlowType', Protocol', Order', Phase', Nonces',
         InHand' = {}
  PROVE  Core'
<1>1. troubles' # {} /\ troubles' # {"answer"} /\ ~(troubles' \subseteq {"answer"})
  OBVIOUS
<1>2. Settled' /\ Frozen' /\ PoolHolds' /\ Blocks' /\ Pricing' /\ Simulated' /\ Fresh'
  BY <1>1 DEF Settled, Frozen, PoolHolds, Blocks, Pricing, Simulated, Fresh, Clean
<1>3. MinedGood' /\ RecordsTrue'
  BY <1>1 DEF MinedGood, RecordsTrue
<1> QED
  BY <1>2, <1>3 DEF Core

\* The builder restarts: a simulation under way leaves its block on the chain.
LEMMA RestartBuilderStep ==
  ASSUME Core, RestartBuilder PROVE Core'
<1> USE DEF Core
<1>1. /\ faults' = faults + 1 /\ troubles' = troubles \cup {"builder"}
      /\ records' = [v \in Victims |-> "absent"] /\ inbox' = <<>> /\ handler' = Idle
      /\ answer' = IF bot.stage # "wait" /\ answer = "none" THEN "error" ELSE answer
      /\ UNCHANGED <<chain, node_pool, executed, stranded, bot, next_nonce>>
  BY DEF RestartBuilder, Fault, nodeVars
<1>2. ~Busy' /\ ~Counting' /\ Len(inbox') = 0 /\ (Submitting' => Submitting)
  BY <1>1 DEF Busy, Counting, Submitting, Outcome
<1>3. Phase'
  BY <1>1 DEF Phase, PhaseOf
<1>4. Perm' = chain
  BY <1>1, <1>3, PermFacts DEF Phase, Perm, FlowType
<1>5. FlowType'
  BY <1>1 DEF FlowType, Status
<1>6. Protocol'
  BY <1>1, <1>2 DEF Protocol
<1>7. Order'
  BY <1>2 DEF Order
<1>8. Nonces'
  BY <1>1, <1>2, <1>4 DEF Nonces
<1>9. troubles' \cap {"rpc", "builder"} # {} /\ InHand' = {}
  BY <1>1, <1>2 DEF InHand
<1> QED
  BY <1>3, <1>5, <1>6, <1>7, <1>8, <1>9, Troubled

\* The nonces after a call that failed: whatever it did on the node, and whether
\* or not a snapshot is left to revert to.
LEMMA NoncesAfterFailure ==
  ASSUME Core, RpcFail, Busy, handler \in Handler, Phase', ~(Counting \/ Submitting)',
         \/ /\ handler' # Idle /\ handler.op = "simulate"
            /\ handler.stage \in {"send", "mine", "receipts"}
            /\ handler'.op = "simulate" /\ handler'.stage = "revert" /\ handler' \in Handler
            /\ handler'.base = handler.base
         \/ handler' = Idle /\ (handler.op = "submit" \/ handler.stage \in Early \cup {"revert"})
  PROVE  Nonces' /\ chain' \in Seq(SUBSET Result) /\ node_pool' \in SUBSET Tx
         /\ stranded' \in SUBSET Victims
<1> USE DEF Core
<1>1. /\ \/ UNCHANGED <<chain, node_pool, executed, stranded>>
         \/ /\ handler.stage = "send" /\ NodeAccepts(NextItem)
            /\ node_pool' = node_pool \cup {NextItem} /\ UNCHANGED <<chain, executed, stranded>>
         \/ handler.stage = "mine" /\ Mine(node_pool)
         \/ /\ handler.stage = "revert" /\ chain' = SubSeq(chain, 1, handler.base)
            /\ UNCHANGED <<node_pool, executed, stranded>>
      /\ next_nonce' = next_nonce
  BY DEF RpcFail, nodeVars
<1>2. /\ chain \in Seq(SUBSET Result) /\ Len(chain) \in Nat /\ Perm \in Seq(SUBSET Result)
      /\ IsFiniteSet(BotPlaces(Perm)) /\ IsFiniteSet(BotPlaces(chain))
      /\ BotCount(Perm) \in Nat /\ BotCount(chain) \in Nat /\ BotCount(Perm) <= BotCount(chain)
      /\ BotCount(chain) \in {next_nonce, next_nonce + 1}
      /\ BotCount(Perm) \in {next_nonce, next_nonce + 1}
      /\ next_nonce \in Nat /\ node_pool \in SUBSET Tx /\ stranded \in SUBSET Victims
  BY PermNow DEF Nonces, FlowType
<1>3. ~(Busy /\ handler.stage = "mine")'
  BY DEF Busy
<1>4. ASSUME chain' \in Seq(SUBSET Result), handler' = Idle PROVE Perm' = chain'
  BY <1>4, PermFacts DEF Phase, Perm
<1>5. ASSUME chain' \in Seq(SUBSET Result), handler' # Idle PROVE Perm' = SubSeq(chain', 1, handler.base)
  <2>1. PermOf(chain', handler') = SubSeq(chain', 1, handler'.base)
    BY <1>5, PermFacts DEF Phase
  <2> QED
    BY <1>5, <2>1 DEF Perm
<1>6. ASSUME chain' = chain, handler' # Idle PROVE Perm' = Perm
  <2>1. handler.stage # "idle" /\ handler'.stage # "idle" /\ handler'.base = handler.base
    BY <1>6
  <2> QED
    BY <1>6, <2>1 DEF Perm, PermOf
<1>7. CASE UNCHANGED <<chain, node_pool, executed, stranded>>
  <2>1. BotCount(Perm') \in {next_nonce, next_nonce + 1}
    BY <1>2, <1>4, <1>6, <1>7
  <2> QED
    BY <1>1, <1>2, <1>3, <1>7, <2>1 DEF Nonces
<1>8. CASE /\ handler.stage = "send" /\ NodeAccepts(NextItem)
           /\ node_pool' = node_pool \cup {NextItem} /\ UNCHANGED <<chain, executed, stranded>>
  <2>1. Perm = chain
    BY <1>8, SendingFacts
  <2>2. Perm' = Perm
    BY <1>2, <1>4, <1>6, <1>8, <2>1
  <2> QED
    BY <1>1, <1>2, <1>3, <1>8, <2>2, NoncesSent
<1>9. CASE handler.stage = "mine" /\ Mine(node_pool)
  <2>1. /\ Perm = chain /\ BotsIn(node_pool) # {} /\ BotCount(chain) = next_nonce
        /\ \A t \in BotsIn(node_pool) : t.nonce = TxCount("bot")
        /\ \A s, t \in BotsIn(node_pool) : s = t
        /\ handler.op = "simulate" => handler.base = Len(chain)
    BY <1>9, MiningFacts
  <2>2. PICK b : Mined(b, node_pool)
    BY <1>2, <1>9, <2>1, MineEffect
  <2>3. /\ b \in SUBSET Result /\ chain' = Append(chain, b) /\ node_pool' = Stays(node_pool)
        /\ stranded' = stranded \cup Waiting(Stays(node_pool))
    BY <2>2 DEF Mined
  <2>4. /\ chain' \in Seq(SUBSET Result) /\ IsFiniteSet(BotPlaces(chain'))
        /\ BotCount(chain') = next_nonce + 1
    BY <1>2, <2>1, <2>2, MinedCount
  <2>5. BotCount(Perm') \in {next_nonce, next_nonce + 1}
    <3>1. CASE handler' = Idle
      BY <1>4, <2>4, <3>1
    <3>2. CASE handler' # Idle
      <4>1. SubSeq(chain', 1, Len(chain)) = chain
        BY <1>2, <2>3, AppendPrefix
      <4>2. Perm' = Perm
        BY <1>5, <2>1, <2>4, <3>2, <4>1
      <4> QED
        BY <1>2, <4>2
    <3> QED
      BY <3>1, <3>2
  <2>6. BotsIn(node_pool') = {}
    BY <1>2, <2>1, <2>3, BotsRun
  <2>7. node_pool' \in SUBSET Tx /\ stranded' \in SUBSET Victims
    BY <1>2, <2>3 DEF Stays, Waiting
  <2> QED
    BY <1>1, <1>3, <2>4, <2>5, <2>6, <2>7 DEF Nonces
<1>10. CASE /\ handler.stage = "revert" /\ chain' = SubSeq(chain, 1, handler.base)
            /\ UNCHANGED <<node_pool, executed, stranded>>
  <2>1. handler.op = "simulate" /\ handler' = Idle
    BY <1>10 DEF Phase, PhaseOf, Busy, Handler, Op
  <2>2. chain' = Perm
    BY <1>10, <2>1, PermNow
  <2>3. Perm' = Perm
    BY <1>2, <1>4, <2>1, <2>2
  <2>4. \A t \in BotsIn(node_pool') : t.nonce = next_nonce /\ BotCount(Perm) = next_nonce
    BY <1>2, <1>10 DEF Nonces
  <2>5. \A s, t \in BotsIn(node_pool') : s = t
    BY <1>10 DEF Nonces
  <2>6. node_pool' \in SUBSET Tx /\ stranded' \in SUBSET Victims
    BY <1>2, <1>10
  <2> QED
    BY <1>1, <1>2, <1>3, <2>2, <2>3, <2>4, <2>5, <2>6 DEF Nonces
<1> QED
  BY <1>1, <1>7, <1>8, <1>9, <1>10

\* A call of the node failed: the nonces stay in step.
LEMMA RpcFailStep ==
  ASSUME Core, RpcFail PROVE Core'
<1> USE DEF Core
<1>1. /\ handler.stage \in {"head", "snapshot", "send", "mine", "receipts", "revert"}
      /\ faults' = faults + 1 /\ troubles' = troubles \cup {"rpc"}
      /\ IF handler.base >= 0 /\ handler.stage # "revert"
         THEN /\ handler' = [handler EXCEPT !.stage = "revert", !.result = "error"]
              /\ UNCHANGED answer
         ELSE /\ handler' = Idle
              /\ answer' = IF handler.live THEN "error" ELSE answer
      /\ UNCHANGED <<records, inbox, bot, next_nonce>>
  BY DEF RpcFail, Fault
<1>2. Busy /\ handler \in Handler /\ handler.op \in Op
  BY <1>1 DEF Busy, FlowType, Idle, Handler
<1>3. /\ handler.op = "submit" => handler.base = -1 /\ handler.stage # "revert"
      /\ handler.stage \in Early => handler.base = -1
      /\ handler.stage \notin Early /\ handler.op = "simulate" =>
           handler.base = handler.bundle.block /\ handler.base \in Nat
      /\ handler.stage = "revert" => handler.op = "simulate"
  BY <1>1, <1>2 DEF Phase, PhaseOf, Busy, Early, Handler, Bundle, Op
<1>4. answer \notin Outcome \cup {"conflict"} /\ answer' \notin Outcome \cup {"conflict"}
  <2>1. answer \notin Outcome \cup {"conflict"}
    BY <1>2 DEF Protocol
  <2>2. answer' = answer \/ answer' = "error"
    BY <1>1
  <2> QED
    BY <2>1, <2>2 DEF Outcome
<1>5. ~Submitting'
  BY <1>4 DEF Submitting
<1>6. troubles' \cap {"rpc", "builder"} # {} /\ troubles' \subseteq {"answer", "rpc", "builder", "node"}
  BY <1>1 DEF FlowType
<1>7. handler.op # "wait"
  BY <1>2 DEF Op
<1>8. CASE handler.base >= 0 /\ handler.stage # "revert"
  <2>1. /\ handler' = [handler EXCEPT !.stage = "revert", !.result = "error"]
        /\ UNCHANGED answer
    BY <1>1, <1>8
  <2>2. /\ handler' \in Handler /\ handler'.op = handler.op
        /\ handler'.bundle = handler.bundle /\ handler'.live = handler.live
        /\ handler'.base = handler.base /\ handler'.sent = handler.sent
        /\ handler'.result = "error" /\ handler'.stage = "revert"
    BY <1>2, <2>1 DEF Handler, Stage
  <2>3. handler.op = "simulate" /\ handler.stage \in {"send", "mine", "receipts"}
    BY <1>1, <1>2, <1>3, <1>8 DEF Op, Early
  <2>4. handler' # Idle /\ Busy' /\ ~Counting'
    BY <2>2, <2>3 DEF Idle, Busy, Counting
  <2>5. Len(chain') \in {handler.base, handler.base + 1}
    <3>1. /\ handler.stage \in {"send", "mine"} => Len(chain) = handler.base
          /\ handler.stage = "receipts" => Len(chain) = handler.base + 1
      BY <1>2, <1>3, <2>3 DEF Phase, PhaseOf, Busy, Early
    <3>2. CASE chain' = chain
      BY <2>3, <3>1, <3>2
    <3>3. CASE chain' # chain
      <4>1. handler.stage = "mine" /\ Mine(node_pool)
        BY <2>3, <3>3 DEF RpcFail, nodeVars
      <4>2. PICK b : Mined(b, node_pool)
        BY <4>1, MiningFacts, MineEffect
      <4>3. Len(chain') = Len(chain) + 1
        BY <4>1, <4>2, MiningFacts, MinedCount
      <4> QED
        BY <3>1, <4>1, <4>3
    <3> QED
      BY <3>2, <3>3
  <2>6. Phase'
    BY <1>3, <2>2, <2>3, <2>5 DEF Phase, PhaseOf, Early
  <2>7. /\ Nonces' /\ chain' \in Seq(SUBSET Result) /\ node_pool' \in SUBSET Tx
        /\ stranded' \in SUBSET Victims
    BY <1>2, <1>5, <2>2, <2>3, <2>4, <2>6, NoncesAfterFailure
  <2>8. FlowType'
    BY <1>1, <1>6, <2>1, <2>2, <2>7 DEF FlowType
  <2>9. Protocol'
    BY <1>1, <1>2, <1>4, <2>1, <2>2, <2>4 DEF Protocol
  <2>10. Order'
    BY <1>1, <1>2, <2>2, <2>4 DEF Order
  <2>11. InHand' = {}
    BY <2>2 DEF InHand
  <2> QED
    BY <1>6, <2>6, <2>7, <2>8, <2>9, <2>10, <2>11, Troubled
<1>9. CASE ~(handler.base >= 0 /\ handler.stage # "revert")
  <2>1. /\ handler' = Idle
        /\ answer' = IF handler.live THEN "error" ELSE answer
    BY <1>1, <1>9
  <2>2. ~Busy' /\ ~Counting'
    BY <2>1 DEF Busy, Counting
  <2>3. handler.op = "submit" \/ handler.stage \in Early \cup {"revert"}
    BY <1>1, <1>2, <1>3, <1>9 DEF Op
  <2>4. Phase'
    BY <2>1 DEF Phase, PhaseOf
  <2>5. /\ Nonces' /\ chain' \in Seq(SUBSET Result) /\ node_pool' \in SUBSET Tx
        /\ stranded' \in SUBSET Victims
    BY <1>2, <1>5, <2>1, <2>2, <2>3, <2>4, NoncesAfterFailure
  <2>6. answer' \in {"none", "error", "conflict"} \cup Outcome
    BY <2>1 DEF FlowType
  <2>7. FlowType'
    BY <1>1, <1>6, <2>1, <2>5, <2>6 DEF FlowType
  <2>8. Protocol'
    <3>1. handler.live => inbox = <<>> /\ bot.stage # "wait" /\ Len(inbox) = 0
      BY <1>2, <1>7 DEF Protocol
    <3>2. ~handler.live => answer' = answer
      BY <2>1
    <3> QED
      BY <1>1, <1>4, <2>2, <3>1, <3>2 DEF Protocol
  <2>9. Order'
    BY <1>1, <2>2 DEF Order
  <2>10. InHand' = {}
    BY <2>2 DEF InHand
  <2> QED
    BY <1>6, <2>4, <2>5, <2>7, <2>8, <2>9, <2>10, Troubled
<1> QED
  BY <1>8, <1>9

-----------------------------------------------------------------------------
(* The invariant and what follows from it                                  *)

\* At startup.
LEMMA InitCore ==
  ASSUME Init PROVE Core
<1> USE DEF Init
<1>1. handler.stage = "idle" /\ ~Busy /\ Len(inbox) = 0 /\ bot.stage = "wait"
  BY DEF Idle, Busy
<1>2. FlowType
  BY DEF FlowType, Status
<1>3. Phase
  BY DEF Phase, PhaseOf
<1>4. Perm = <<>>
  <2>1. Perm = chain
    BY <1>2, <1>3, PermFacts DEF Perm, Phase, FlowType
  <2> QED
    BY <2>1
<1>5. Places(<<>>) = {}
  <2>1. Len(<<>>) = 0
    OBVIOUS
  <2> QED
    BY <2>1, PlacesOf
<1>6. BotPlaces(<<>>) = {}
  BY <1>5 DEF BotPlaces
<1>7. IsFiniteSet({}) /\ Cardinality({}) = 0
  BY FS_EmptySet
<1>8. BotsIn({}) = {} /\ ~Counting /\ ~Submitting
  BY <1>1 DEF BotsIn, Counting, Submitting
<1>9. Nonces
  BY <1>1, <1>4, <1>6, <1>7, <1>8 DEF Nonces, BotCount
<1>10. Settled /\ Frozen
  BY <1>4, <1>6, <1>7 DEF Settled, Frozen, BotCount
<1>11. Protocol /\ Order
  BY <1>1 DEF Protocol, Order, Outcome
<1>12. PoolHolds /\ Blocks /\ Pricing /\ Simulated /\ Fresh
  BY <1>1 DEF PoolHolds, InHand, Blocks, Pricing, Simulated, Fresh
<1>13. MinedGood
  BY <1>4, <1>5 DEF MinedGood, GoodChain
<1>14. RecordsTrue
  BY <1>4, <1>5, <1>8 DEF RecordsTrue, StatusOn, Has
<1> QED
  BY <1>2, <1>3, <1>9, <1>10, <1>11, <1>12, <1>13, <1>14 DEF Core

\* Every step but a restart of the node.
LEMMA CoreKept ==
  ASSUME Core, "node" \notin troubles, Next, "node" \notin troubles' PROVE Core'
<1>1. CASE \E v \in Victims, n \in 0 .. MaxBlock - 1 : Compose(v, n)
  BY <1>1, ComposeStep
<1>2. CASE HandlerStep
  BY <1>2, TakeRequestStep, AdmitStep, CheckHeadStep, TakeSnapshotStep, SendTransactionStep,
     MineBlockStep, CollectReceiptsStep, RevertStep DEF HandlerStep
<1>3. CASE BotStep
  BY <1>3, RetryStep, DropStep, SubmitStep, SubmittedStep DEF BotStep
<1>4. CASE \E vs \in SUBSET Victims : OtherBundle(vs) \/ OtherSimulation(vs) \/ OtherRefused(vs)
  BY <1>4, OtherBundleStep, OtherSimulationStep, OtherRefusedStep
<1>6. CASE LoseRequest \/ LoseClient \/ RpcFail
  BY <1>6, LoseRequestStep, LoseClientStep, RpcFailStep
<1>7. CASE RestartBuilder
  BY <1>7, RestartBuilderStep
<1>8. CASE RestartNode
  BY <1>8 DEF RestartNode, Fault
<1> QED
  BY <1>1, <1>2, <1>3, <1>4, <1>6, <1>7, <1>8 DEF Next

\* What is in the history of faults stays there.
LEMMA TroublesStay ==
  ASSUME Next PROVE troubles \subseteq troubles'
<1>1. ASSUME NEW v, NEW n, Compose(v, n) PROVE troubles \subseteq troubles'
  BY <1>1 DEF Compose
<1>2. ASSUME NEW r, Answer(r) PROVE troubles \subseteq troubles'
  BY <1>2 DEF Answer
<1>3. ASSUME NEW s, Goto(s) PROVE troubles \subseteq troubles'
  BY <1>3 DEF Goto
<1>4. ASSUME Raise PROVE troubles \subseteq troubles'
  BY <1>2, <1>4 DEF Raise
<1>5. CASE HandlerStep
  <2>1. CASE TakeRequest \/ TakeSnapshot
    BY <2>1 DEF TakeRequest, TakeSnapshot
  <2>2. CASE Admit
    BY <1>2, <1>3, <2>2 DEF Admit
  <2>3. CASE CheckHead
    BY <1>3, <1>4, <2>3 DEF CheckHead
  <2>4. CASE SendTransaction
    BY <1>4, <2>4 DEF SendTransaction
  <2>5. CASE MineBlock
    BY <1>3, <2>5 DEF MineBlock
  <2>6. CASE CollectReceipts
    BY <1>2, <2>6 DEF CollectReceipts
  <2>7. CASE Revert
    BY <1>2, <2>7 DEF Revert
  <2> QED
    BY <1>5, <2>1, <2>2, <2>3, <2>4, <2>5, <2>6, <2>7 DEF HandlerStep
<1>6. CASE BotStep
  BY <1>6 DEF BotStep, Retry, Drop, Submit, Submitted, NextSnapshot
<1>7. ASSUME NEW vs, OtherBundle(vs) \/ OtherSimulation(vs) \/ OtherRefused(vs)
      PROVE  troubles \subseteq troubles'
  BY <1>7 DEF OtherBundle, OtherSimulation, OtherRefused
<1>8. CASE LoseRequest \/ LoseClient \/ RpcFail \/ RestartBuilder \/ RestartNode
  BY <1>8 DEF LoseRequest, LoseClient, RpcFail, RestartBuilder, RestartNode, Fault
<1> QED
  BY <1>1, <1>5, <1>6, <1>7, <1>8 DEF Next

\* As long as the node does not lose its chain, the builder's handlers, the node's
\* pool and the Runtime's loop stay in the relation Core: who waits for what,
\* which transactions are where, and what the last simulation was worth.
THEOREM FlowInvariant == Spec => []FlowInv
<1>1. Init => FlowInv
  BY InitCore DEF FlowInv
<1>2. FlowInv /\ [Next]_vars => FlowInv'
  <2> SUFFICES ASSUME FlowInv, [Next]_vars, "node" \notin troubles' PROVE Core'
    BY DEF FlowInv
  <2>1. CASE Next
    <3>1. "node" \notin troubles
      BY <2>1, TroublesStay
    <3> QED
      BY <2>1, <3>1, CoreKept DEF FlowInv
  <2>2. CASE UNCHANGED vars
    <3>1. UNCHANGED <<chain, node_pool, executed, stranded, records, inbox, handler, bot, answer, next_nonce,
                      faults, troubles>>
      BY <2>2 DEF vars, nodeVars, builderVars, botVars
    <3>2. Core
      BY <3>1 DEF FlowInv
    <3>3. Perm' = Perm /\ (Busy' <=> Busy) /\ (Counting' <=> Counting) /\ (Submitting' <=> Submitting)
      BY <3>1 DEF Perm, Busy, Counting, Submitting
    <3>4. FlowType' /\ Protocol' /\ Order' /\ Phase'
      BY <3>1, <3>2, <3>3 DEF Core, FlowType, Protocol, Order, Phase
    <3>5. Nonces' /\ Settled' /\ Frozen'
      BY <3>1, <3>2, <3>3 DEF Core, Nonces, Settled, Frozen
    <3>6. PoolHolds' /\ Blocks' /\ Pricing'
      <4>1. InHand' = InHand
        BY <3>1, <3>3 DEF InHand
      <4> QED
        BY <3>1, <3>2, <3>3, <4>1 DEF Core, PoolHolds, Blocks, Pricing, Priced, Clean
    <3>7. Simulated' /\ Fresh' /\ MinedGood' /\ RecordsTrue'
      BY <3>1, <3>2, <3>3 DEF Core, Simulated, Fresh, MinedGood, RecordsTrue, Clean
    <3> QED
      BY <3>4, <3>5, <3>6, <3>7 DEF Core
  <2> QED
    BY <2>1, <2>2
<1> QED
  BY <1>1, <1>2, PTL DEF Spec

\* The composer's own count of the bot's nonce (TxComposer::mark_nonce_used) never
\* runs ahead of the chain and is at most one behind; between bundles it is exact
\* as long as no answer to a mined bundle was lost and nothing failed.
THEOREM NonceKeptInStep == Spec => []NonceInStep
<1>1. FlowInv => NonceInStep
  <2> SUFFICES ASSUME FlowInv, "node" \notin troubles
               PROVE  /\ TxCount("bot") \in {next_nonce, next_nonce + 1}
                      /\ Resting /\ troubles = {} => TxCount("bot") = next_nonce
    BY DEF NonceInStep
  <2>1. Core
    BY DEF FlowInv
  <2>2. TxCount("bot") = BotCount(chain)
    BY DEF TxCount, BotCount, BotPlaces
  <2>3. BotCount(chain) \in {next_nonce, next_nonce + 1}
    BY <2>1 DEF Core, Nonces
  <2>4. ASSUME Resting, troubles = {} PROVE BotCount(chain) = next_nonce
    <3>1. ~Busy /\ ~Counting /\ ~Submitting
      BY <2>4 DEF Resting, Busy, Counting, Submitting
    <3>2. Perm = chain
      BY <2>1, <3>1, PermNow DEF Core
    <3> QED
      BY <2>1, <2>4, <3>1, <3>2 DEF Core, Settled
  <2> QED
    BY <2>2, <2>3, <2>4
<1> QED
  BY <1>1, FlowInvariant, PTL

\* A backrun that mineBundle puts on the chain is in the block it was priced for,
\* with no company but its victim and swaps stranded in the node's pool; if none
\* ever was, it has run exactly as simulateBundle ran it: alone with its victim,
\* both successful. For any senders and nonces of the swaps, any bundles of other
\* clients, any number of retries and lost connections.
THEOREM BackrunsMinedAsSimulated == Spec => []MinedAsSimulated
<1>1. FlowInv => MinedAsSimulated
  <2> SUFFICES ASSUME FlowInv, troubles \subseteq {"answer"},
                      NEW p \in Places(SubSeq(chain, 1, VisibleHead)),
                      TxAt(p).from = "bot"
               PROVE  LET t == TxAt(p)
                      IN  /\ t.block = p[1] - 1
                          /\ \A r \in chain[p[1]] :
                                r.tx = t \/ \E v \in stranded \cup {t.victim} : r.tx = VictimTx(v)
                          /\ stranded = {} =>
                                chain[p[1]] = {[tx |-> VictimTx(t.victim), ok |-> TRUE], [tx |-> t, ok |-> TRUE]}
    BY DEF MinedAsSimulated
  <2>1. Core
    BY DEF FlowInv
  <2>2. Perm = SubSeq(chain, 1, VisibleHead)
    BY DEF Perm, PermOf, VisibleHead
  <2>3. GoodPlace(Perm, stranded, p)
    BY <2>1, <2>2 DEF Core, MinedGood, GoodChain
  <2>4. Perm[p[1]] = chain[p[1]]
    <3>1. /\ chain \in Seq(SUBSET Result) /\ handler \in {Idle} \cup Handler /\ PhaseOf(chain, handler)
      BY <2>1 DEF Core, FlowType, Phase
    <3>2. PICK n \in 0 .. Len(chain) : Perm = SubSeq(chain, 1, n)
      BY <3>1, PermFacts DEF Perm
    <3>3. Len(Perm) = n /\ \A i \in 1 .. n : Perm[i] = chain[i]
      BY <3>1, <3>2, PrefixPlaces
    <3>4. p[1] \in 1 .. Len(Perm)
      <4>1. p \in Places(Perm)
        BY <2>2
      <4>2. PICK i \in 1 .. Len(Perm) : \E r \in Perm[i] : p = <<i, r>>
        BY <4>1, PlacesOf
      <4> QED
        BY <4>2
    <3> QED
      BY <3>3, <3>4
  <2> QED
    BY <2>3, <2>4, Zenon DEF GoodPlace
<1> QED
  BY <1>1, FlowInvariant, PTL

\* Between requests the record of every swap that no request has stranded in the
\* node's pool is pending exactly when the swap is not on the chain, and has the
\* status of its receipt when it is: simulations do not mark it, and no submission
\* is forgotten, whether or not its answer arrived.
THEOREM RecordsTellTheTruth == Spec => []RecordsMatchChain
<1>1. FlowInv => RecordsMatchChain
  <2> SUFFICES ASSUME FlowInv, handler = Idle, troubles \subseteq {"answer"}, NEW v \in Victims \ stranded
               PROVE  LET status == TxStatus(chain, VictimTx(v))
                      IN  records[v] = IF status = "missing" THEN "pending" ELSE status
    BY DEF RecordsMatchChain
  <2>1. Core /\ ~Busy /\ ~Counting
    BY DEF FlowInv, Busy, Counting
  <2>2. Perm = chain
    BY <2>1, PermNow DEF Core
  <2>3. records[v] = StatusOn(chain, v)
    BY <2>1, <2>2 DEF Core, RecordsTrue
  <2>4. TxStatus(chain, VictimTx(v)) = "missing" <=> ~Has(chain, VictimTx(v))
    <3> DEFINE P == {q \in Places(chain) : TxAt(q) = VictimTx(v)}
    <3>1. TxStatus(chain, VictimTx(v)) = IF P = {} THEN "missing"
            ELSE IF \E q \in P : q[2].ok THEN "included" ELSE "reverted"
      BY DEF TxStatus
    <3>2. Has(chain, VictimTx(v)) <=> P # {}
      BY DEF Has
    <3> HIDE DEF P
    <3>3. (IF \E q \in P : q[2].ok THEN "included" ELSE "reverted") # "missing"
      OBVIOUS
    <3> QED
      BY <3>1, <3>2, <3>3
  <2> QED
    BY <2>3, <2>4 DEF StatusOn
<1> QED
  BY <1>1, FlowInvariant, PTL
=============================================================================
