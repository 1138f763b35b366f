------------------------- MODULE CandidatePipeline -------------------------
(***************************************************************************)
(* The bot's candidate pipeline: BlockSyncer and PendingFeed push events   *)
(* into a bounded queue, the CandidateSource worker turns them into        *)
(* candidate::State, and the Runtime thread takes one StateSnapshot at a   *)
(* time with wait_pop_state. Composed with the builder it reads from.      *)
(*                                                                         *)
(* Threads: the syncer's worker, the network thread (PendingFeed's         *)
(* callbacks), the source's worker, the Runtime, and whoever calls stop(). *)
(* The worker's requests are separate steps: the builder may change        *)
(* between the pool reads, the mempool read and their application.         *)
(***************************************************************************)
EXTENDS Builder, CandidateState

CONSTANTS
    Capacity,       \* capacity of the event queue (10,000 in the code)
    Relevant        \* sequence numbers of the swaps on configured pools

ASSUME PipelineConstants ==
    /\ Capacity \in Nat \ {0}
    /\ Relevant \subseteq 1 .. MaxSeq

VARIABLES
    syncer,         \* BlockSyncer::m_state
    fetched,        \* head the syncer has read and not yet published
    current_block,  \* BlockSyncer::m_current_block
    phase,          \* where CandidateSource::run is
    queue,          \* m_pending_queue
    event,          \* event the worker is handling
    read_pools,     \* pool snapshots request_pool_snapshots has so far
    read_snapshot,  \* answer of request_snapshot, filtered
    invalid_snapshot_pending,
    closed,         \* CandidateSource::m_closed
    stop,           \* progress of Runtime::stop and CandidateSource::stop
    runtime,        \* where the Runtime thread is
    taken,          \* last StateSnapshot wait_pop_state returned
    delivered,      \* history: candidates taken, with the block they came with
    dropped_block   \* history: last new-block event the queue refused

syncerVars == <<syncer, fetched, current_block>>
workerVars == <<phase, event, read_pools, read_snapshot>>
waitVars == <<invalid_snapshot_pending, closed>>
runtimeVars == <<runtime, taken, delivered>>
vars == <<builderVars, stateVars, syncerVars, workerVars, queue, waitVars,
          stop, runtimeVars, dropped_block>>

TxEvent(t) == [kind |-> "tx", tx |-> t]
BlockEvent(b) == [kind |-> "block", block |-> b]
NoEvent == [kind |-> "none"]
Event == [kind : {"tx"}, tx : Tx] \cup [kind : {"block"}, block : Block]

NoSnapshot == [seq |-> -1, txs |-> {}]

NoTx == [epoch |-> 0, seq |-> 0]

\* make_snapshot_locked: the state as it is, with candidate c or without one.
MakeSnapshot(c) ==
    [valid |-> valid, block |-> block_number, pools |-> pools, candidate |-> c]

NoView == [valid |-> FALSE, block |-> NoBlock, pools |-> <<>>, candidate |-> NoTx]

\* CandidateFilter::filter and filter_snapshot.
Filter(ts) == {t \in ts : t.seq \in Relevant}

Init ==
    /\ BuilderInit
    /\ StateInit
    /\ syncer = "stopped"
    /\ fetched = NoBlock
    /\ current_block = NoBlock
    /\ phase = "start"
    /\ queue = <<>>
    /\ event = NoEvent
    /\ read_pools = <<>>
    /\ read_snapshot = NoSnapshot
    /\ invalid_snapshot_pending = FALSE
    /\ closed = FALSE
    /\ stop = "no"
    /\ runtime = "busy"
    /\ taken = NoView
    /\ delivered = {}
    /\ dropped_block = NoBlock

-----------------------------------------------------------------------------
(* The event queue and the condition variable                              *)

QueueClosed == stop \in {"queue", "done"}

\* Mutation: one element too many fits.
CanPushOneMore == ~QueueClosed /\ Len(queue) <= Capacity

\* Queue::try_push returns true.
CanPush == ~QueueClosed /\ Len(queue) < Capacity

\* m_state_cv.notify: a blocked Runtime re-evaluates its condition.
Notify == runtime' = IF runtime = "blocked" THEN "call" ELSE runtime

\* close_state_waiters.
CloseStateWaiters ==
    /\ closed' = TRUE
    /\ Notify
    /\ UNCHANGED <<invalid_snapshot_pending, taken, delivered>>

-----------------------------------------------------------------------------
(* BlockSyncer                                                             *)

\* Mutation: the syncer fetches once and never polls again.
SyncerFetchOnce ==
    /\ syncer = "starting"
    /\ fetched = NoBlock
    /\ head # current_block
    /\ fetched' = head
    /\ UNCHANGED <<builderVars, stateVars, syncer, current_block, workerVars,
                   queue, waitVars, stop, runtimeVars, dropped_block>>

\* fetch_last_block answered, and the number is not the current one. A failed
\* poll, and one that finds the current number, change nothing.
SyncerFetch ==
    /\ syncer \in {"starting", "ready"}
    /\ fetched = NoBlock
    /\ head # current_block
    /\ fetched' = head
    /\ UNCHANGED <<builderVars, stateVars, syncer, current_block, workerVars,
                   queue, waitVars, stop, runtimeVars, dropped_block>>

\* CandidateSource::publish_new_block: a full or closed queue refuses the event,
\* which is logged; the syncer is not told.
PublishNewBlock(b) ==
    /\ queue' = IF CanPush THEN Append(queue, BlockEvent(b)) ELSE queue
    /\ dropped_block' = IF CanPush THEN dropped_block ELSE b

\* BlockSyncer::publish_new_block, then m_current_block and READY.
SyncerPublish ==
    /\ fetched # NoBlock
    /\ PublishNewBlock(fetched)
    /\ current_block' = fetched
    /\ syncer' = "ready"
    /\ fetched' = NoBlock
    /\ UNCHANGED <<builderVars, stateVars, workerVars, waitVars, stop, runtimeVars>>

\* The first fetch fails: BlockSyncer::run ends with FAILED.
SyncerFail ==
    /\ syncer = "starting"
    /\ fetched = NoBlock
    /\ faults < MaxFaults
    /\ faults' = faults + 1
    /\ syncer' = "failed"
    /\ UNCHANGED <<head, epoch, last_seq, pending, unsent, ws, stream, lost,
                   rewinds, stateVars, fetched, current_block, workerVars,
                   queue, waitVars, stop, runtimeVars, dropped_block>>

-----------------------------------------------------------------------------
(* PendingFeed                                                             *)

\* CandidateSource::publish_pending_transaction.
PublishPendingTransaction(t) ==
    /\ queue' = IF CanPush THEN Append(queue, TxEvent(t)) ELSE queue
    /\ lost' = IF CanPush THEN lost ELSE lost \cup {t}

\* on_ws_message on the next message of the stream.
FeedReceive ==
    /\ stream # <<>>
    /\ stream' = Tail(stream)
    /\ PublishPendingTransaction(Head(stream))
    /\ UNCHANGED <<head, epoch, last_seq, pending, unsent, ws, faults, rewinds,
                   stateVars, syncerVars, workerVars, waitVars, stop,
                   runtimeVars, dropped_block>>

-----------------------------------------------------------------------------
(* CandidateSource::run                                                    *)

\* run: m_block_syncer->start().
StartSyncer ==
    /\ phase = "start"
    /\ phase' = "sync"
    /\ syncer' = "starting"
    /\ UNCHANGED <<builderVars, stateVars, fetched, current_block, event,
                   read_pools, read_snapshot, queue, waitVars, stop,
                   runtimeVars, dropped_block>>

\* run: the syncer is READY, m_pending_feed->open().
OpenFeed ==
    /\ phase = "sync"
    /\ syncer = "ready"
    /\ phase' = "feed"
    /\ ws' = "connecting"
    /\ UNCHANGED <<head, epoch, last_seq, pending, unsent, stream, lost, faults,
                   rewinds, stateVars, syncerVars, event, read_pools,
                   read_snapshot, queue, waitVars, stop, runtimeVars,
                   dropped_block>>

\* Mutation: the core loop does not wait for the feed to open.
EnterLoopUnready ==
    /\ phase = "feed"
    /\ phase' = "loop"
    /\ UNCHANGED <<builderVars, stateVars, syncerVars, event, read_pools,
                   read_snapshot, queue, waitVars, stop, runtimeVars,
                   dropped_block>>

\* run: the feed is OPEN, run_core_loop().
EnterLoop ==
    /\ phase = "feed"
    /\ WsOpen
    /\ phase' = "loop"
    /\ UNCHANGED <<builderVars, stateVars, syncerVars, event, read_pools,
                   read_snapshot, queue, waitVars, stop, runtimeVars,
                   dropped_block>>

\* stop_inputs. PendingFeed::close does nothing in state CLOSED, which is also
\* its state during the first handshake. BlockSyncer::stop joins the syncer's
\* thread: a number that was fetched is published first.
StopInputs ==
    /\ fetched = NoBlock
    /\ syncer' = "stopped"
    /\ ws' = IF ws = "connecting" THEN ws ELSE "closed"
    /\ stream' = IF ws = "connecting" THEN stream ELSE <<>>
    /\ UNCHANGED <<head, epoch, last_seq, pending, unsent, lost, rewinds,
                   fetched, current_block>>

\* run: wait_until_ready ended in failure, or after its 10 s, for the syncer or
\* for the feed (a feed that stop() closed only times out). Inputs are stopped
\* and the Runtime is released.
StartupFail ==
    /\ \/ phase = "sync" /\ syncer \in {"failed", "stopped"} /\ UNCHANGED faults
       \/ phase = "feed" /\ ws \in {"reconnecting", "closed"} /\ UNCHANGED faults
       \/ phase \in {"sync", "feed"} /\ faults < MaxFaults /\ faults' = faults + 1
    /\ StopInputs
    /\ CloseStateWaiters
    /\ phase' = "done"
    /\ UNCHANGED <<stateVars, event, read_pools, read_snapshot, queue, stop,
                   dropped_block>>

\* run_core_loop: wait_pop returns an event.
TakeEvent ==
    /\ phase = "loop"
    /\ event = NoEvent
    /\ queue # <<>>
    /\ event' = Head(queue)
    /\ queue' = Tail(queue)
    /\ UNCHANGED <<builderVars, stateVars, syncerVars, phase, read_pools,
                   read_snapshot, waitVars, stop, runtimeVars, dropped_block>>

\* run_core_loop: wait_pop finds the queue closed and drained.
LeaveLoop ==
    /\ phase = "loop"
    /\ event = NoEvent
    /\ queue = <<>>
    /\ QueueClosed
    /\ phase' = "done"
    /\ UNCHANGED <<builderVars, stateVars, syncerVars, event, read_pools,
                   read_snapshot, queue, waitVars, stop, runtimeVars,
                   dropped_block>>

-----------------------------------------------------------------------------
(* The worker's two handlers                                               *)

EventDone ==
    /\ event' = NoEvent
    /\ read_pools' = <<>>
    /\ read_snapshot' = NoSnapshot
    /\ UNCHANGED <<phase, syncerVars, queue, stop, dropped_block>>

\* apply_pending_candidate; no effect after close or when State refuses it.
ApplyPendingCandidate(c) ==
    IF ~closed /\ AcceptsPendingTx(c)
    THEN ApplyPendingTx(c) /\ Notify
    ELSE UNCHANGED <<stateVars, runtime>>

\* handle_pending_tx_event.
HandlePendingTx ==
    /\ event.kind = "tx"
    /\ IF Filter({event.tx}) # {}
       THEN ApplyPendingCandidate(event.tx)
       ELSE UNCHANGED <<stateVars, runtime>>
    /\ EventDone
    /\ UNCHANGED <<builderVars, waitVars, taken, delivered>>

\* Mutation: eth_call at "latest" instead of at the event's block.
ReadPoolLatest ==
    /\ event.kind = "block"
    /\ Len(read_pools) < NumPools
    /\ event.block <= head
    /\ read_pools' = Append(read_pools, head)
    /\ UNCHANGED <<builderVars, stateVars, syncerVars, phase, event,
                   read_snapshot, queue, waitVars, stop, runtimeVars,
                   dropped_block>>

\* request_pool_snapshots, one pool: eth_call of getReserves at the event's
\* block. The node refuses a block above its head.
ReadPool ==
    /\ event.kind = "block"
    /\ Len(read_pools) < NumPools
    /\ event.block <= head
    /\ read_pools' = Append(read_pools, event.block)
    /\ UNCHANGED <<builderVars, stateVars, syncerVars, phase, event,
                   read_snapshot, queue, waitVars, stop, runtimeVars,
                   dropped_block>>

\* request_snapshot, PendingSnapshot::from_json, filter_snapshot.
ReadPending ==
    /\ event.kind = "block"
    /\ Len(read_pools) = NumPools
    /\ read_snapshot = NoSnapshot
    /\ read_snapshot' = [seq |-> PendingSnapshot.seq,
                         txs |-> Filter(PendingSnapshot.txs)]
    /\ UNCHANGED <<builderVars, stateVars, syncerVars, phase, event,
                   read_pools, queue, waitVars, stop, runtimeVars,
                   dropped_block>>

\* mark_state_invalid; no effect after close or on an older block.
MarkStateInvalid ==
    /\ IF ~closed /\ AcceptsBlock(event.block)
       THEN /\ MarkInvalid(event.block)
            /\ invalid_snapshot_pending' = TRUE
            /\ Notify
       ELSE UNCHANGED <<stateVars, invalid_snapshot_pending, runtime>>
    /\ UNCHANGED <<closed, taken, delivered>>

\* handle_new_block_event: a pool read or the mempool read failed (after the
\* client's retries) or could not be parsed.
RequestFail ==
    /\ event.kind = "block"
    /\ read_snapshot = NoSnapshot
    /\ \/ Len(read_pools) < NumPools /\ event.block > head /\ UNCHANGED faults
       \/ faults < MaxFaults /\ faults' = faults + 1
    /\ MarkStateInvalid
    /\ EventDone
    /\ UNCHANGED <<head, epoch, last_seq, pending, unsent, ws, stream, lost, rewinds>>

\* Mutation: the snapshot is applied and the Runtime is not notified.
ApplyStateSnapshotSilently ==
    /\ IF ~closed /\ AcceptsSnapshot(event.block, read_snapshot.seq)
       THEN /\ ApplySnapshot(event.block, read_snapshot.seq, read_snapshot.txs, read_pools)
            /\ invalid_snapshot_pending' = FALSE
       ELSE UNCHANGED <<stateVars, invalid_snapshot_pending>>
    /\ UNCHANGED <<closed, runtimeVars>>

\* Mutation: an applied snapshot leaves the invalid flag as it was.
ApplyStateSnapshotKeepFlag ==
    /\ IF ~closed /\ AcceptsSnapshot(event.block, read_snapshot.seq)
       THEN /\ ApplySnapshot(event.block, read_snapshot.seq, read_snapshot.txs, read_pools)
            /\ IF read_snapshot.txs # {} THEN Notify ELSE UNCHANGED runtime
       ELSE UNCHANGED <<stateVars, runtime>>
    /\ UNCHANGED <<waitVars, taken, delivered>>

\* apply_state_snapshot; no effect after close or when State refuses it.
ApplyStateSnapshot ==
    /\ IF ~closed /\ AcceptsSnapshot(event.block, read_snapshot.seq)
       THEN /\ ApplySnapshot(event.block, read_snapshot.seq, read_snapshot.txs, read_pools)
            /\ invalid_snapshot_pending' = FALSE
            /\ IF read_snapshot.txs # {} THEN Notify ELSE UNCHANGED runtime
       ELSE UNCHANGED <<stateVars, invalid_snapshot_pending, runtime>>
    /\ UNCHANGED <<closed, taken, delivered>>

\* handle_new_block_event: all answers are in.
FinishNewBlock ==
    /\ event.kind = "block"
    /\ read_snapshot # NoSnapshot
    /\ ApplyStateSnapshot
    /\ EventDone
    /\ UNCHANGED builderVars

-----------------------------------------------------------------------------
(* Runtime::stop and in it CandidateSource::stop, in the order of calls    *)

\* Runtime::stop clears m_running; the source does not know yet.
StopRunning ==
    /\ stop = "no"
    /\ stop' = "begun"
    /\ UNCHANGED <<builderVars, stateVars, syncerVars, workerVars, queue,
                   waitVars, runtimeVars, dropped_block>>

StopFirst ==
    /\ stop = "begun"
    /\ stop' = "inputs"
    /\ StopInputs
    /\ UNCHANGED <<faults, stateVars, workerVars, queue, waitVars, runtimeVars,
                   dropped_block>>

StopQueue ==
    /\ stop = "inputs"
    /\ stop' = "queue"
    /\ UNCHANGED <<builderVars, stateVars, syncerVars, workerVars, queue,
                   waitVars, runtimeVars, dropped_block>>

StopWaiters ==
    /\ stop = "queue"
    /\ stop' = "done"
    /\ CloseStateWaiters
    /\ UNCHANGED <<builderVars, stateVars, syncerVars, workerVars, queue,
                   dropped_block>>

-----------------------------------------------------------------------------
(* The Runtime thread in run_core_loop and wait_pop_state                  *)

\* The condition the Runtime waits for.
StateReady == closed \/ invalid_snapshot_pending \/ candidates # {}

\* m_state_cv.wait: the condition is false.
RuntimeWait ==
    /\ runtime = "call"
    /\ ~StateReady
    /\ runtime' = "blocked"
    /\ UNCHANGED <<builderVars, stateVars, syncerVars, workerVars, queue,
                   waitVars, stop, taken, delivered, dropped_block>>

\* wait_pop_state returns CLOSED, on which run_core_loop ends.
RuntimeClosed ==
    /\ runtime = "call"
    /\ closed
    /\ runtime' = "ended"
    /\ UNCHANGED <<builderVars, stateVars, syncerVars, workerVars, queue,
                   waitVars, stop, taken, delivered, dropped_block>>

\* wait_pop_state returns the invalid state once.
RuntimeTakeInvalid ==
    /\ runtime = "call"
    /\ ~closed
    /\ invalid_snapshot_pending
    /\ invalid_snapshot_pending' = FALSE
    /\ taken' = MakeSnapshot(NoTx)
    /\ runtime' = "busy"
    /\ UNCHANGED <<builderVars, stateVars, syncerVars, workerVars, queue,
                   closed, stop, delivered, dropped_block>>

\* wait_pop_state pops a candidate. pop_next_snapshot gives nothing when the
\* state is not valid, and that too is reported as CLOSED.
RuntimeTakeCandidate ==
    /\ runtime = "call"
    /\ ~closed /\ ~invalid_snapshot_pending
    /\ candidates # {}
    /\ IF valid
       THEN \E c \in candidates :
               /\ PopNextSnapshot(c)
               /\ taken' = MakeSnapshot(c)
               /\ delivered' = delivered \cup {[tx |-> c, block |-> block_number]}
               /\ runtime' = "busy"
       ELSE runtime' = "ended" /\ UNCHANGED <<stateVars, taken, delivered>>
    /\ UNCHANGED <<builderVars, syncerVars, workerVars, queue, waitVars, stop,
                   dropped_block>>

\* run_core_loop, before the first snapshot or through with one, tests
\* m_running: it calls wait_pop_state, or the loop ends.
RuntimeDone ==
    /\ runtime = "busy"
    /\ runtime' = IF stop = "no" THEN "call" ELSE "ended"
    /\ UNCHANGED <<builderVars, stateVars, syncerVars, workerVars, queue,
                   waitVars, stop, taken, delivered, dropped_block>>

-----------------------------------------------------------------------------

BuilderStep ==
    /\ BuilderNext
    /\ UNCHANGED <<stateVars, syncerVars, workerVars, queue, waitVars, stop,
                   runtimeVars, dropped_block>>

\* The system has nothing left to do: not a deadlock.
Idle ==
    /\ event = NoEvent
    /\ phase \in {"loop", "done"}
    /\ runtime \in {"blocked", "ended"}
    /\ UNCHANGED vars

SyncerThread == SyncerFetch \/ SyncerPublish \/ SyncerFail

WorkerThread ==
    \/ StartSyncer \/ OpenFeed \/ EnterLoop \/ StartupFail
    \/ TakeEvent \/ LeaveLoop
    \/ HandlePendingTx
    \/ ReadPool \/ ReadPending \/ RequestFail \/ FinishNewBlock

RuntimeThread ==
    \/ RuntimeWait \/ RuntimeClosed \/ RuntimeTakeInvalid \/ RuntimeTakeCandidate
    \/ RuntimeDone

Stop == StopRunning \/ StopFirst \/ StopQueue \/ StopWaiters

Next ==
    \/ BuilderStep
    \/ SyncerThread
    \/ FeedReceive
    \/ WorkerThread
    \/ Stop
    \/ RuntimeThread
    \/ Idle

Spec == Init /\ [][Next]_vars

\* The builder's loop runs its suspended handlers, and a handshake succeeds
\* once it is tried often enough.
BroadcastStep == BuilderStep /\ \E t \in unsent : Broadcast(t)
HandshakeStep == BuilderStep /\ (AcceptWebsocket \/ AddSubscriber)

\* Every thread is scheduled; nobody has to submit, mine or fail, and nobody
\* calls stop(): from there on the properties below promise nothing anyway.
FairSpec ==
    /\ Init /\ [][Next /\ UNCHANGED stop]_vars
    /\ WF_vars(BroadcastStep)
    /\ WF_vars(HandshakeStep)
    /\ WF_vars(SyncerThread)
    /\ WF_vars(FeedReceive)
    /\ WF_vars(WorkerThread)
    /\ WF_vars(RuntimeThread)

-----------------------------------------------------------------------------
(* Properties                                                              *)

View == [valid : BOOLEAN, block : Block \cup {NoBlock}, pools : Seq(Block),
         candidate : Tx \cup {NoTx}]

SyncerTypeOK ==
    /\ syncer \in {"stopped", "starting", "ready", "failed"}
    /\ fetched \in Block \cup {NoBlock}
    /\ current_block \in Block \cup {NoBlock}
    /\ dropped_block \in Block \cup {NoBlock}

WorkerTypeOK ==
    /\ phase \in {"start", "sync", "feed", "loop", "done"}
    /\ queue \in Seq(Event)
    /\ Len(queue) <= Capacity
    /\ event \in Event \cup {NoEvent}
    /\ read_pools \in Seq(Block)
    /\ read_snapshot \in [seq : 0 .. MaxSeq, txs : SUBSET Tx] \cup {NoSnapshot}

RuntimeTypeOK ==
    /\ invalid_snapshot_pending \in BOOLEAN
    /\ closed \in BOOLEAN
    /\ stop \in {"no", "begun", "inputs", "queue", "done"}
    /\ runtime \in {"call", "blocked", "busy", "ended"}
    /\ taken \in View
    /\ delivered \subseteq [tx : Tx, block : Block]

\* Every variable has its type; in particular the event queue never holds more
\* than its capacity (Queue::try_push) and the local mempool is a map.
TypeOK ==
    /\ BuilderTypeOK
    /\ StateTypeOK
    /\ SyncerTypeOK
    /\ WorkerTypeOK
    /\ RuntimeTypeOK

\* What the Runtime prices and bundles is one coherent view: a snapshot is
\* valid exactly when it carries a candidate, and then it has the reserves of
\* every pool, all read at the block number it will put into the bundle, though
\* the chain moves on between the separate requests.
CoherentView ==
    /\ CoherentState
    /\ taken.valid <=> taken.candidate # NoTx
    /\ taken.valid => taken.pools = [i \in 1 .. NumPools |-> taken.block]

\* An invalidation reaches the Runtime: while the state is invalid, either the
\* flag is still up or the last snapshot the Runtime took was not a valid one.
\* And the flag never announces a state that is valid again.
InvalidationReported ==
    /\ ~valid /\ block_number # NoBlock => invalid_snapshot_pending \/ ~taken.valid
    /\ invalid_snapshot_pending => ~valid

\* No wakeup is lost: the Runtime never sleeps in wait_pop_state while there is
\* something for it to return.
NoLostWakeup == runtime = "blocked" => ~StateReady

\* The Runtime's loop ends only when the source was closed or stop() has cleared
\* m_running: pop_next_snapshot returning nothing, which wait_pop_state also
\* reports as CLOSED, never happens under the condition it waited for.
EndsOnlyWhenStopped == runtime = "ended" => closed \/ stop # "no"

\* stop() has not come to the syncer and the feed.
InputsOn == stop \in {"no", "begun"}

QueuedTxs == {queue[i].tx : i \in {j \in 1 .. Len(queue) : queue[j].kind = "tx"}}

InFlight(t) ==
    \/ t \in unsent \cup StreamTxs \cup QueuedTxs
    \/ event.kind = "tx" /\ event.tx = t

\* Snapshot and stream leave no gap: while the state is valid, every pending
\* swap is in the local mempool, on its way, or was handed to the Runtime for
\* this block, unless the feed was down or a queue was full when it passed.
NoSilentLoss ==
    phase = "loop" /\ InputsOn /\ valid =>
        \A t \in Filter(pending) :
            \/ t \in lost \cup candidates
            \/ InFlight(t)
            \/ [tx |-> t, block |-> block_number] \in delivered

\* What the source promises the Runtime, whatever happens around it.
Feed == INSTANCE CandidateFeed WITH
    view <- [valid |-> taken.valid, block |-> taken.block, candidate |-> taken.candidate],
    seen <- delivered,
    ended <- runtime = "ended"

\* The pipeline implements that promise: block numbers never go back and no
\* candidate is handed out twice for one block.
ImplementsFeed == Feed!FeedSpec

\* Also when the chain is rewound or the builder restarts, the Runtime is never
\* given a view of an earlier block than the one it had.
ViewsNeverRegress == [][taken'.block >= taken.block]_taken

\* When the head rests, the state comes to describe it (valid or marked
\* invalid), unless the queue refused the event of that very block.
EventuallyCurrent ==
    <>[](~InputsOn \/ closed \/ block_number = head \/ dropped_block = head)

\* When the head rests on a block with a valid state, every pending swap that
\* the feed did not lose is eventually handed to the Runtime for that block.
EventuallyDelivered ==
    <>[](stop = "no" /\ ~closed /\ valid /\ block_number = head =>
            \A t \in Filter(pending) \ lost :
                [tx |-> t, block |-> head] \in delivered)
=============================================================================
