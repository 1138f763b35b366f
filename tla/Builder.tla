------------------------------- MODULE Builder -------------------------------
(***************************************************************************)
(* The block builder as its clients see it: the head of the chain behind   *)
(* it, the public mempool, and the broadcaster that streams new pending    *)
(* transactions to the bot's websocket.                                    *)
(*                                                                         *)
(* The builder is one asyncio loop whose RPC calls block the loop, so a    *)
(* handler is one step up to its next await. The awaits that matter are    *)
(* the send in broadcast (the record is in the mempool before the message  *)
(* leaves) and the accept in connect (the client may see the connection    *)
(* open before its socket is in _subscribers).                             *)
(***************************************************************************)
EXTENDS Common

CONSTANTS
    MaxFaults,      \* budget of failed requests, dropped connections, timeouts
    MaxRewinds      \* number of times the chain's head may move back

ASSUME BuilderConstants ==
    /\ MaxFaults \in Nat
    /\ MaxRewinds \in Nat

VARIABLES
    head,           \* number of the chain's latest block
    epoch,          \* which life of the builder process this is
    last_seq,       \* Mempool._lastSeqNum
    pending,        \* records of Mempool._transactions with status "pending"
    unsent,         \* records added whose broadcast has not sent them yet
    ws,             \* the bot's websocket, from both ends (see WsState)
    stream,         \* messages sent on it and not yet read by the bot
    lost,           \* history: transactions an open feed failed to carry
    faults,         \* faults so far
    rewinds         \* rewinds so far

builderVars ==
    <<head, epoch, last_seq, pending, unsent, ws, stream, lost, faults, rewinds>>

\* closed: not opened by the bot yet, or stopped; connecting: first handshake
\* under way; accepted: open for the client, not yet in _subscribers;
\* subscribed: in _subscribers; reconnecting: lost, a new attempt is under way.
WsState == {"closed", "connecting", "accepted", "subscribed", "reconnecting"}

\* WsSource::State::RUNNING, on which PendingFeed reports OPEN.
WsOpen == ws \in {"accepted", "subscribed"}

BuilderInit ==
    /\ head = 0
    /\ epoch = 0
    /\ last_seq = 0
    /\ pending = {}
    /\ unsent = {}
    /\ ws = "closed"
    /\ stream = <<>>
    /\ lost = {}
    /\ faults = 0
    /\ rewinds = 0

-----------------------------------------------------------------------------
(* POST /public/tx                                                         *)

\* Mempool.addTransaction: the next sequence number, status "pending".
AddTransaction(t) ==
    /\ t = [epoch |-> epoch, seq |-> last_seq + 1]
    /\ last_seq' = last_seq + 1
    /\ pending' = pending \cup {t}

\* submit_public_tx up to its await: the record is in, its message is not out.
SubmitPublicTx ==
    /\ last_seq < MaxSeq
    /\ \E t \in Tx : AddTransaction(t) /\ unsent' = unsent \cup {t}
    /\ UNCHANGED <<head, epoch, ws, stream, lost, faults, rewinds>>

\* broadcast: the message reaches the bot's socket if it is a subscriber at
\* this moment. Handlers suspended in send resume in no particular order.
Broadcast(t) ==
    /\ t \in unsent
    /\ unsent' = unsent \ {t}
    /\ stream' = IF ws = "subscribed" THEN Append(stream, t) ELSE stream
    /\ lost' = IF ws \in {"accepted", "reconnecting"} THEN lost \cup {t} ELSE lost
    /\ UNCHANGED <<head, epoch, last_seq, pending, ws, faults, rewinds>>

\* GET /public/pending: Mempool.pendingSnapshot, atomic under the lock.
PendingSnapshot == [seq |-> last_seq, txs |-> pending]

-----------------------------------------------------------------------------
(* The chain, through the builder                                          *)

\* A block is mined: a bundle is submitted through POST /private/bundle (by
\* the bot or another client) and the records S it refers to get their final
\* status, or the chain's node mines for someone else (S is empty).
MineBlock(S) ==
    /\ head < MaxBlock
    /\ S \subseteq pending
    /\ head' = head + 1
    /\ pending' = pending \ S
    /\ UNCHANGED <<epoch, last_seq, unsent, ws, stream, lost, faults, rewinds>>

\* The node restarts with an empty or an older chain.
RewindChain ==
    /\ rewinds < MaxRewinds
    /\ head > 0
    /\ head' \in 0 .. head - 1
    /\ rewinds' = rewinds + 1
    /\ UNCHANGED <<epoch, last_seq, pending, unsent, ws, stream, lost, faults>>

-----------------------------------------------------------------------------
(* WS /ws/pending and the process itself                                   *)

\* The handshake completes: accept() returns to the client, and the handler
\* has yet to reach _subscribers.add.
AcceptWebsocket ==
    /\ ws \in {"connecting", "reconnecting"}
    /\ ws' = "accepted"
    /\ UNCHANGED <<head, epoch, last_seq, pending, unsent, stream, lost, faults, rewinds>>

\* connect() resumes after accept() and adds the socket.
AddSubscriber ==
    /\ ws = "accepted"
    /\ ws' = "subscribed"
    /\ UNCHANGED <<head, epoch, last_seq, pending, unsent, stream, lost, faults, rewinds>>

StreamTxs == {stream[i] : i \in 1 .. Len(stream)}

\* The first handshake fails or the connection breaks: what was in flight is
\* gone, the builder discards the socket at its next send or receive, the bot
\* reports FAILED and schedules a reconnect.
DropWebsocket ==
    /\ ws = "connecting" \/ WsOpen
    /\ faults < MaxFaults
    /\ faults' = faults + 1
    /\ ws' = "reconnecting"
    /\ lost' = lost \cup StreamTxs
    /\ stream' = <<>>
    /\ UNCHANGED <<head, epoch, last_seq, pending, unsent, rewinds>>

\* The builder process restarts: the mempool is in memory only.
RestartBuilder ==
    /\ epoch < MaxEpoch
    /\ epoch' = epoch + 1
    /\ last_seq' = 0
    /\ pending' = {}
    /\ unsent' = {}
    /\ ws' = IF WsOpen THEN "reconnecting" ELSE ws
    /\ stream' = <<>>
    /\ UNCHANGED <<head, lost, faults, rewinds>>

BuilderNext ==
    \/ SubmitPublicTx
    \/ \E t \in unsent : Broadcast(t)
    \/ \E S \in SUBSET pending : MineBlock(S)
    \/ RewindChain
    \/ AcceptWebsocket
    \/ AddSubscriber
    \/ DropWebsocket
    \/ RestartBuilder

\* The types of the builder's variables.
BuilderTypeOK ==
    /\ head \in Block /\ epoch \in 0 .. MaxEpoch /\ last_seq \in 0 .. MaxSeq
    /\ pending \subseteq Tx /\ unsent \subseteq Tx /\ lost \subseteq Tx
    /\ ws \in WsState /\ stream \in Seq(Tx)
    /\ faults \in 0 .. MaxFaults /\ rewinds \in 0 .. MaxRewinds
=============================================================================
