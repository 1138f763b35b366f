----------------------------- MODULE BundleFlow -----------------------------
(***************************************************************************)
(* From an opportunity to a mined bundle: the Runtime's loop after pricing *)
(* (compose, simulate, submit, advance the nonce), the retries of the REST *)
(* client, and the builder's bundle handlers RPC by RPC on the Anvil node. *)
(*                                                                         *)
(* The builder's loop is blocked while a handler talks to the node, so     *)
(* requests are served one after the other; but a handler goes on when its *)
(* client is gone, and the client's next attempt waits behind it.          *)
(***************************************************************************)
EXTENDS Integers, Sequences, FiniteSets, SequencesExt

CONSTANTS
    Accounts,       \* the senders of public transactions
    Victims,        \* public mempool swaps worth a backrun: <<sender, nonce>>
    MaxBlock,       \* height the chain may reach
    MaxAttempts,    \* RestClient::kMaxAttempts (3 in the code)
    MaxFaults       \* budget of lost connections, failed RPCs and restarts

ASSUME BundleConstants ==
    /\ "bot" \notin Accounts
    /\ Victims \subseteq Accounts \X Nat
    /\ MaxBlock \in Nat
    /\ MaxAttempts \in Nat \ {0}
    /\ MaxFaults \in Nat

VARIABLES
    chain,          \* the node's blocks, each the set of its [tx, ok]
    node_pool,      \* the node's own pool: transactions sent and not mined
    executed,       \* history: the last evm_mine, its chain, pool and block
    stranded,       \* history: swaps a request left behind in the node's pool
    records,        \* status of each victim's record in the public mempool
    inbox,          \* requests posted and not yet taken by the builder's loop
    handler,        \* the bundle handler that is running
    bot,            \* where the Runtime's loop is
    answer,         \* what post_with_retry got back and has not looked at
    next_nonce,     \* TxComposer::m_next_nonce
    faults,         \* faults so far
    troubles        \* history: which kinds of fault had an effect

nodeVars == <<chain, node_pool, executed, stranded>>
builderVars == <<records, inbox, handler>>
botVars == <<bot, answer, next_nonce>>
vars == <<nodeVars, builderVars, botVars, faults, troubles>>

\* The two transactions of a bundle: the victim's own, kept in the mempool
\* record with its sender and its sender's nonce, and the backrun composed for
\* it with the bot's nonce, on the reserves of a block.
VictimTx(v) == [from |-> v[1], victim |-> v, nonce |-> v[2], block |-> 0]
BackrunTx(b) == [from |-> "bot", victim |-> b.victim, nonce |-> b.nonce, block |-> b.block]
Items(b) == <<VictimTx(b.victim), BackrunTx(b)>>

Idle == [stage |-> "idle"]

Init ==
    /\ chain = <<>>
    /\ node_pool = {}
    /\ executed = [on |-> <<>>, pool |-> {}, block |-> {}]
    /\ stranded = {}
    /\ records = [v \in Victims |-> "pending"]
    /\ inbox = <<>>
    /\ handler = Idle
    /\ bot = [stage |-> "wait"]
    /\ answer = "none"
    /\ next_nonce = 0
    /\ faults = 0
    /\ troubles = {}

-----------------------------------------------------------------------------
(* The node, as the builder uses it: automine is off, a transaction waits  *)
(* in the node's pool until evm_mine, and evm_revert restores the chain    *)
(* but not the pool.                                                       *)

Places(c) == UNION {{<<i, r>> : r \in c[i]} : i \in 1 .. Len(c)}
TxAt(p) == p[2].tx

\* eth_getTransactionCount of account a.
TxCount(a) == Cardinality({p \in Places(chain) : TxAt(p).from = a})

TakenIn(pool, a, n) == \E t \in pool : t.from = a /\ t.nonce = n

\* eth_sendTransaction: a nonce that is used, or taken in the pool, is refused.
NodeAccepts(t) == t.nonce >= TxCount(t.from) /\ ~TakenIn(node_pool, t.from, t.nonce)

\* A transaction behind a gap of its sender's nonces has to wait.
Ready(pool, t) == \A n \in TxCount(t.from) .. t.nonce - 1 : TakenIn(pool, t.from, n)

Runs(pool) == {t \in pool : Ready(pool, t)}
Stays(pool) == {t \in pool : ~Ready(pool, t)}

\* The victims whose transactions are in the pool.
Waiting(pool) == {v \in Victims : VictimTx(v) \in pool}

\* evm_mine runs what is ready. The order is the node's own: each sender's by
\* nonce, between senders by fees, then by arrival; the same pool on the same
\* chain again makes the same block.
Mine(pool) ==
    \E ok \in [Runs(pool) -> BOOLEAN] :
        LET block == {[tx |-> t, ok |-> ok[t]] : t \in Runs(pool)}
        IN  /\ executed.on = chain /\ executed.pool = pool => block = executed.block
            /\ chain' = Append(chain, block)
            /\ executed' = [on |-> chain, pool |-> pool, block |-> block]
            /\ node_pool' = Stays(pool)
            /\ stranded' = stranded \cup Waiting(Stays(pool))

\* _statusFromReceipt of transaction t on chain c.
TxStatus(c, t) ==
    LET p == {q \in Places(c) : TxAt(q) = t}
    IN  IF p = {} THEN "missing"
        ELSE IF \E q \in p : q[2].ok THEN "included" ELSE "reverted"

\* The height a client can see: never that of a simulation's temporary block.
VisibleHead == IF handler.stage # "idle" /\ handler.base >= 0 THEN handler.base ELSE Len(chain)

-----------------------------------------------------------------------------
(* The builder's handlers                                                  *)

\* The handler ends. A client that is gone never sees the answer.
Answer(r) ==
    /\ handler' = Idle
    /\ answer' = IF handler.live THEN r ELSE answer
    /\ troubles' = IF ~handler.live /\ handler.op = "submit" /\ r \in {"included", "failed"}
                   THEN troubles \cup {"answer"} ELSE troubles
    /\ UNCHANGED <<inbox, bot, next_nonce>>

\* The handler goes on.
Goto(stage) ==
    /\ handler' = [handler EXCEPT !.stage = stage]
    /\ UNCHANGED <<inbox, botVars, troubles>>

\* An exception: simulateBundle still runs its finally clause once it has a
\* snapshot, mineBundle just ends.
Raise ==
    IF handler.base >= 0
    THEN /\ handler' = [handler EXCEPT !.stage = "revert", !.result = "error"]
         /\ UNCHANGED <<inbox, botVars, troubles>>
    ELSE Answer("error")

\* The loop takes the next request.
TakeRequest ==
    /\ handler = Idle
    /\ inbox # <<>>
    /\ handler' = [stage |-> "admit", op |-> Head(inbox).op, bundle |-> Head(inbox).bundle,
                   live |-> Head(inbox).live, base |-> -1, sent |-> 0, result |-> "none"]
    /\ inbox' = Tail(inbox)
    /\ UNCHANGED <<nodeVars, records, botVars, faults, troubles>>

\* Bundle.fromJson: an unknown record is a 400, one that is not pending a 409.
Admit ==
    /\ handler.stage = "admit"
    /\ CASE records[handler.bundle.victim] = "pending" -> Goto("head")
         [] records[handler.bundle.victim] = "absent"  -> Answer("error")
         [] OTHER                                      -> Answer("conflict")
    /\ UNCHANGED <<nodeVars, records, faults>>

\* simulateBundle refuses a block ahead of the head (400) or behind it (501).
SimulateAdmits(b) == ~(b > Len(chain)) /\ ~(b < Len(chain))

\* Mutation: mineBundle does not compare the bundle's block with the head.
MineAdmitsAny(b) == TRUE

\* mineBundle wants exactly the head.
MineAdmits(b) == b = Len(chain)

CheckHead ==
    /\ handler.stage = "head"
    /\ IF handler.op = "simulate"
       THEN IF SimulateAdmits(handler.bundle.block) THEN Goto("snapshot") ELSE Raise
       ELSE IF MineAdmits(handler.bundle.block) THEN Goto("send") ELSE Raise
    /\ UNCHANGED <<nodeVars, records, faults>>

\* simulateBundle: evm_snapshot.
TakeSnapshot ==
    /\ handler.stage = "snapshot"
    /\ handler' = [handler EXCEPT !.stage = "send", !.base = Len(chain)]
    /\ UNCHANGED <<nodeVars, records, inbox, botVars, faults, troubles>>

NextItem == Items(handler.bundle)[handler.sent + 1]

\* _executeBundle: sendTransaction of the next item. When the node refuses it,
\* the items before it stay in the node's pool.
SendTransaction ==
    /\ handler.stage = "send"
    /\ IF NodeAccepts(NextItem)
       THEN /\ node_pool' = node_pool \cup {NextItem}
            /\ handler' = [handler EXCEPT !.sent = @ + 1,
                                          !.stage = IF handler.sent = 1 THEN "mine" ELSE "send"]
            /\ UNCHANGED <<stranded, inbox, botVars, troubles>>
       ELSE /\ Raise
            /\ stranded' = stranded \cup Waiting(node_pool)
            /\ UNCHANGED node_pool
    /\ UNCHANGED <<chain, executed, records, faults>>

\* _executeBundle: evm_mine.
MineBlock ==
    /\ handler.stage = "mine"
    /\ Mine(node_pool)
    /\ Goto("receipts")
    /\ UNCHANGED <<records, faults>>

\* The status of the bundle: included when every item is.
BundleStatus ==
    IF \A i \in 1 .. 2 : TxStatus(chain, Items(handler.bundle)[i]) = "included"
    THEN "included" ELSE "failed"

\* Mutation: the simulation marks the victim's record too.
CollectReceiptsMarking ==
    /\ handler.stage = "receipts"
    /\ records' = [records EXCEPT ![handler.bundle.victim] =
                      TxStatus(chain, VictimTx(handler.bundle.victim))]
    /\ IF handler.op = "simulate"
       THEN /\ handler' = [handler EXCEPT !.stage = "revert", !.result = BundleStatus]
            /\ UNCHANGED <<inbox, botVars, troubles>>
       ELSE Answer(BundleStatus)
    /\ UNCHANGED <<nodeVars, faults>>

\* _executeBundle: the receipts; then mineBundle marks the victim's record and
\* answers, simulateBundle goes on to its finally clause.
CollectReceipts ==
    /\ handler.stage = "receipts"
    /\ IF handler.op = "simulate"
       THEN /\ handler' = [handler EXCEPT !.stage = "revert", !.result = BundleStatus]
            /\ UNCHANGED <<records, inbox, botVars, troubles>>
       ELSE /\ records' = [records EXCEPT ![handler.bundle.victim] =
                              TxStatus(chain, VictimTx(handler.bundle.victim))]
            /\ Answer(BundleStatus)
    /\ UNCHANGED <<nodeVars, faults>>

\* simulateBundle, finally: evm_revert.
Revert ==
    /\ handler.stage = "revert"
    /\ chain' = SubSeq(chain, 1, handler.base)
    /\ Answer(handler.result)
    /\ UNCHANGED <<node_pool, executed, stranded, records, faults>>

HandlerStep ==
    \/ TakeRequest \/ Admit \/ CheckHead \/ TakeSnapshot \/ SendTransaction
    \/ MineBlock \/ CollectReceipts \/ Revert

-----------------------------------------------------------------------------
(* The Runtime's loop and the REST client                                  *)

Post(op, b) == inbox' = Append(inbox, [op |-> op, bundle |-> b, live |-> TRUE])

\* run_core_loop: a snapshot came with a candidate that pays; compose and post
\* the simulation. The snapshot's block may be behind the head by now, or ahead
\* of the chain of a node that was restarted.
Compose(v, n) ==
    /\ bot.stage = "wait"
    /\ n <= VisibleHead \/ "node" \in troubles
    /\ LET b == [block |-> n, victim |-> v, nonce |-> next_nonce]
       IN  /\ bot' = [stage |-> "simulate", bundle |-> b, attempt |-> 1]
           /\ Post("simulate", b)
    /\ UNCHANGED <<nodeVars, records, handler, answer, next_nonce, faults, troubles>>

\* The loop goes on to the next snapshot.
NextSnapshot ==
    /\ bot' = [stage |-> "wait"]
    /\ answer' = "none"
    /\ UNCHANGED <<nodeVars, builderVars, faults, troubles>>

\* post_with_retry: another attempt is left.
MayRetry == bot.attempt < MaxAttempts

\* Mutation: attempts are not counted.
RetryUncounted ==
    /\ answer = "error"
    /\ answer' = "none"
    /\ Post(bot.stage, bot.bundle)
    /\ UNCHANGED <<nodeVars, records, handler, bot, next_nonce, faults, troubles>>

\* post_with_retry: any error but a conflict is retried.
Retry ==
    /\ answer = "error"
    /\ MayRetry
    /\ bot' = [bot EXCEPT !.attempt = @ + 1]
    /\ answer' = "none"
    /\ Post(bot.stage, bot.bundle)
    /\ UNCHANGED <<nodeVars, records, handler, next_nonce, faults, troubles>>

\* The attempts are used up, or the candidate is no longer pending, or its
\* simulation did not end as included: the loop drops it.
Drop ==
    /\ \/ answer = "error" /\ ~MayRetry
       \/ answer = "conflict"
       \/ answer = "failed" /\ bot.stage = "simulate"
    /\ NextSnapshot
    /\ UNCHANGED next_nonce

\* Mutation: the nonce is taken as used when the simulation succeeds.
SubmitAdvancing ==
    /\ bot.stage = "simulate"
    /\ answer = "included"
    /\ bot' = [bot EXCEPT !.stage = "submit", !.attempt = 1]
    /\ answer' = "none"
    /\ next_nonce' = next_nonce + 1
    /\ Post("submit", bot.bundle)
    /\ UNCHANGED <<nodeVars, records, handler, faults, troubles>>

\* The simulation was included: post the same bundle for mining.
Submit ==
    /\ bot.stage = "simulate"
    /\ answer = "included"
    /\ bot' = [bot EXCEPT !.stage = "submit", !.attempt = 1]
    /\ answer' = "none"
    /\ Post("submit", bot.bundle)
    /\ UNCHANGED <<nodeVars, records, handler, next_nonce, faults, troubles>>

\* The submission was answered, included or not: mark_nonce_used.
Submitted ==
    /\ bot.stage = "submit"
    /\ answer \in {"included", "failed"}
    /\ next_nonce' = next_nonce + 1
    /\ NextSnapshot

BotStep == Retry \/ Drop \/ Submit \/ Submitted

-----------------------------------------------------------------------------
(* Others, and what can go wrong                                           *)

\* Another client's request is served while the loop is free. Its bundle refers
\* to the records of vs, and may have private transactions besides.
OtherSends(vs) ==
    /\ handler = Idle
    /\ \A v \in vs : records[v] = "pending" /\ NodeAccepts(VictimTx(v))

WithSent(vs) == node_pool \cup {VictimTx(v) : v \in vs}

\* The bundle is mined, and its records are marked.
OtherBundle(vs) ==
    /\ OtherSends(vs)
    /\ Len(chain) < MaxBlock
    /\ Mine(WithSent(vs))
    /\ records' = [v \in Victims |-> IF v \in vs THEN TxStatus(chain', VictimTx(v)) ELSE records[v]]
    /\ UNCHANGED <<inbox, handler, botVars, faults, troubles>>

\* The bundle is simulated: its block is reverted, the node's pool is not.
OtherSimulation(vs) ==
    /\ OtherSends(vs)
    /\ node_pool' = Stays(WithSent(vs))
    /\ stranded' = stranded \cup Waiting(Stays(WithSent(vs)))
    /\ UNCHANGED <<chain, executed, builderVars, botVars, faults, troubles>>

\* The node refuses the item after vs, to be mined or simulated.
OtherRefused(vs) ==
    /\ OtherSends(vs)
    /\ node_pool' = WithSent(vs)
    /\ stranded' = stranded \cup Waiting(WithSent(vs))
    /\ UNCHANGED <<chain, executed, builderVars, botVars, faults, troubles>>

Fault(kind) ==
    /\ faults < MaxFaults
    /\ faults' = faults + 1
    /\ troubles' = troubles \cup kind

\* The bot's connection fails before its request is taken: it never arrives,
\* or it does and nobody waits for the answer.
LoseRequest ==
    /\ inbox # <<>> /\ Last(inbox).live
    /\ Fault({})
    /\ \/ inbox' = Front(inbox)
       \/ inbox' = [inbox EXCEPT ![Len(inbox)].live = FALSE]
    /\ answer' = "error"
    /\ UNCHANGED <<nodeVars, records, handler, bot, next_nonce>>

\* The connection fails while the handler is at work, which goes on.
LoseClient ==
    /\ handler # Idle /\ handler.live
    /\ Fault({})
    /\ handler' = [handler EXCEPT !.live = FALSE]
    /\ answer' = "error"
    /\ UNCHANGED <<nodeVars, records, inbox, bot, next_nonce>>

\* A call of the node fails or times out, before or after it took effect, and
\* the handler raises. A failed evm_revert leaves the simulation's block.
RpcFail ==
    /\ handler.stage \in {"head", "snapshot", "send", "mine", "receipts", "revert"}
    /\ Fault({"rpc"})
    /\ \/ UNCHANGED nodeVars
       \/ /\ handler.stage = "send" /\ NodeAccepts(NextItem)
          /\ node_pool' = node_pool \cup {NextItem}
          /\ UNCHANGED <<chain, executed, stranded>>
       \/ handler.stage = "mine" /\ Mine(node_pool)
       \/ /\ handler.stage = "revert"
          /\ chain' = SubSeq(chain, 1, handler.base)
          /\ UNCHANGED <<node_pool, executed, stranded>>
    /\ IF handler.base >= 0 /\ handler.stage # "revert"
       THEN /\ handler' = [handler EXCEPT !.stage = "revert", !.result = "error"]
            /\ UNCHANGED answer
       ELSE /\ handler' = Idle
            /\ answer' = IF handler.live THEN "error" ELSE answer
    /\ UNCHANGED <<records, inbox, bot, next_nonce>>

\* The builder restarts: its mempool and whatever it was doing are gone.
RestartBuilder ==
    /\ Fault({"builder"})
    /\ records' = [v \in Victims |-> "absent"]
    /\ inbox' = <<>>
    /\ handler' = Idle
    /\ answer' = IF bot.stage # "wait" /\ answer = "none" THEN "error" ELSE answer
    /\ UNCHANGED <<nodeVars, bot, next_nonce>>

\* The node restarts on an empty chain between two requests.
RestartNode ==
    /\ handler = Idle
    /\ Fault({"node"})
    /\ chain' = <<>>
    /\ node_pool' = {}
    /\ executed' = [on |-> <<>>, pool |-> {}, block |-> {}]
    /\ UNCHANGED <<stranded, builderVars, botVars>>

Next ==
    \/ \E v \in Victims, n \in 0 .. MaxBlock - 1 : Compose(v, n)
    \/ HandlerStep
    \/ BotStep
    \/ \E vs \in SUBSET Victims : OtherBundle(vs) \/ OtherSimulation(vs) \/ OtherRefused(vs)
    \/ LoseRequest \/ LoseClient \/ RpcFail
    \/ RestartBuilder \/ RestartNode

Spec == Init /\ [][Next]_vars

\* The builder serves what was posted and the bot looks at its answers; nobody
\* has to find an opportunity, mine or fail.
FairSpec == Spec /\ WF_vars(HandlerStep) /\ WF_vars(BotStep)

-----------------------------------------------------------------------------
(* Properties                                                              *)

Bundle == [block : 0 .. MaxBlock - 1, victim : Victims, nonce : Nat]
Resting == handler = Idle /\ inbox = <<>> /\ bot.stage = "wait"

\* The composer counts the nonce by itself from startup on (mark_nonce_used)
\* and stays with the chain: it is never ahead, never more than one behind, and
\* between bundles it is exact unless the answer to a mined bundle was lost, a
\* call of the node failed or a process restarted.
NonceInStep ==
    "node" \notin troubles =>
        /\ TxCount("bot") \in {next_nonce, next_nonce + 1}
        /\ Resting /\ troubles = {} => TxCount("bot") = next_nonce

\* A backrun of the bot gets on the chain only in the block it was priced for,
\* with no company but its victim and swaps that some request had left in the
\* node's pool; and when nothing was ever left there, exactly as it was
\* simulated: alone with its victim, both successful, whatever others mine or
\* simulate in between, and whichever requests and answers are lost.
MinedAsSimulated ==
    troubles \subseteq {"answer"} =>
        \A p \in Places(SubSeq(chain, 1, VisibleHead)) :
            LET t == TxAt(p)
            IN  t.from = "bot" =>
                  /\ t.block = p[1] - 1
                  /\ \A r \in chain[p[1]] :
                        r.tx = t \/ \E v \in stranded \cup {t.victim} : r.tx = VictimTx(v)
                  /\ stranded = {} =>
                        chain[p[1]] = {[tx |-> VictimTx(t.victim), ok |-> TRUE], [tx |-> t, ok |-> TRUE]}

\* Between requests the public mempool tells the truth about every swap that no
\* request left in the node's pool: its record is pending exactly when it is not
\* on the chain, and otherwise has the status of its receipt. A simulation does
\* not mark it, and neither a lost answer nor what is mined by the way makes its
\* record wrong.
RecordsMatchChain ==
    handler = Idle /\ troubles \subseteq {"answer"} =>
        \A v \in Victims \ stranded :
            LET status == TxStatus(chain, VictimTx(v))
            IN  records[v] = IF status = "missing" THEN "pending" ELSE status

\* The loop never hangs on a candidate: after its simulation and submission,
\* with all their retries, the Runtime asks for the next snapshot.
EveryCandidateFinishes == bot.stage # "wait" ~> bot.stage = "wait"
=============================================================================
