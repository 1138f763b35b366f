----------------------- MODULE CandidatePipelineProofs -----------------------
(***************************************************************************)
(* Proofs about the candidate pipeline, for every value of the constants:  *)
(* type correctness, the safety properties of the hand-over from the       *)
(* source's worker to the Runtime, that snapshot and stream leave no gap,  *)
(* and that the pipeline implements CandidateFeed.                         *)
(***************************************************************************)
EXTENDS CandidatePipeline, SequenceTheorems, TLAPS

\* Sequence numbers are unique within one life of the builder, so the answer
\* of a mempool read names each at most once.
OneTxPerSeq ==
    /\ \A t \in pending : t.epoch = epoch
    /\ \A c, d \in read_snapshot.txs : c.seq = d.seq => c = d

\* What the worker has read so far belongs to the event it is handling.
HandlerInv ==
    /\ event.kind # "block" => read_pools = <<>> /\ read_snapshot = NoSnapshot
    /\ event.kind = "block" => read_pools = [i \in 1 .. Len(read_pools) |-> event.block]
    /\ Len(read_pools) <= NumPools
    /\ read_snapshot # NoSnapshot => Len(read_pools) = NumPools

\* A valid state has a block number.
ValidHasBlock == valid => block_number # NoBlock

TypeInv == TypeOK /\ OneTxPerSeq /\ ValidHasBlock

\* What holds between the state, the flags and the Runtime.
ViewInv ==
    /\ CoherentView
    /\ InvalidationReported
    /\ NoLostWakeup
    /\ EndsOnlyWhenStopped
    /\ taken.block <= block_number

\* The inductive invariant.
IInv == TypeInv /\ HandlerInv /\ ViewInv
-----------------------------------------------------------------------------
(* Type correctness                                                        *)

USE CommonConstants, BuilderConstants, PipelineConstants
    DEF CommonConstants, BuilderConstants, PipelineConstants

\* The empty sequence has every sequence type.
LEMMA EmptySeqType == ASSUME NEW S PROVE <<>> \in Seq(S)
  OBVIOUS

\* Taking the first element of a queue leaves a shorter queue.
LEMMA TailType ==
  ASSUME NEW S, NEW q \in Seq(S), q # <<>>
  PROVE  Head(q) \in S /\ Tail(q) \in Seq(S) /\ Len(Tail(q)) = Len(q) - 1
  BY HeadTailProperties

\* The builder's variables keep their types, and a pending record always
\* belongs to the builder's current life.
LEMMA BuilderTypeStep ==
  ASSUME TypeInv, [Next]_vars
  PROVE  BuilderTypeOK' /\ (\A t \in pending : t.epoch = epoch)'
<1> USE DEF BuilderTypeOK, WsState
<1>0. BuilderTypeOK /\ \A t \in pending : t.epoch = epoch
  BY DEF TypeInv, TypeOK, OneTxPerSeq
<1>1. CASE SubmitPublicTx
  <2>1. PICK t \in Tx : AddTransaction(t) /\ unsent' = unsent \cup {t}
    BY <1>1 DEF SubmitPublicTx
  <2>2. t.epoch = epoch /\ pending' = pending \cup {t}
    BY <2>1 DEF AddTransaction
  <2>3. last_seq' \in 0 .. MaxSeq
    BY <1>0, <1>1, <2>1 DEF SubmitPublicTx, AddTransaction
  <2> QED
    BY <1>0, <1>1, <2>1, <2>2, <2>3 DEF SubmitPublicTx
<1>2. ASSUME NEW t \in unsent, Broadcast(t)
      PROVE  BuilderTypeOK' /\ (\A u \in pending : u.epoch = epoch)'
  BY <1>0, <1>2 DEF Broadcast
<1>3. ASSUME NEW S \in SUBSET pending, MineBlock(S)
      PROVE  BuilderTypeOK' /\ (\A t \in pending : t.epoch = epoch)'
  BY <1>0, <1>3 DEF MineBlock, Block
<1>4. CASE RewindChain
  BY <1>0, <1>4 DEF RewindChain, Block
<1>5. CASE AcceptWebsocket \/ AddSubscriber
  BY <1>0, <1>5 DEF AcceptWebsocket, AddSubscriber
<1>6. CASE DropWebsocket
  <2>1. StreamTxs \subseteq Tx
    BY <1>0 DEF StreamTxs
  <2> QED
    BY <1>0, <1>6, <2>1, EmptySeqType DEF DropWebsocket
<1>7. CASE RestartBuilder
  BY <1>0, <1>7, EmptySeqType DEF RestartBuilder
<1>8. CASE FeedReceive
  BY <1>0, <1>8, TailType DEF FeedReceive, PublishPendingTransaction
<1>9. CASE OpenFeed
  BY <1>0, <1>9 DEF OpenFeed
<1>10. CASE SyncerFail
  BY <1>0, <1>10 DEF SyncerFail
<1>11. CASE StartupFail
  BY <1>0, <1>11, EmptySeqType DEF StartupFail, StopInputs
<1>12. CASE RequestFail
  BY <1>0, <1>12 DEF RequestFail
<1>13. CASE StopFirst
  BY <1>0, <1>13, EmptySeqType DEF StopFirst, StopInputs
<1>14. CASE UNCHANGED builderVars
  BY <1>0, <1>14 DEF builderVars
<1>15. \/ BuilderNext \/ FeedReceive \/ OpenFeed \/ SyncerFail \/ StartupFail
       \/ RequestFail \/ StopFirst \/ UNCHANGED builderVars
  BY DEF Next, vars, BuilderStep, SyncerThread, WorkerThread, RuntimeThread, Stop,
         Idle, SyncerFetch, SyncerPublish, StartSyncer, EnterLoop, TakeEvent,
         LeaveLoop, HandlePendingTx, ReadPool, ReadPending, FinishNewBlock,
         StopRunning, StopQueue, StopWaiters, RuntimeWait, RuntimeClosed,
         RuntimeTakeInvalid, RuntimeTakeCandidate, RuntimeDone
<1> QED
  BY <1>1, <1>2, <1>3, <1>4, <1>5, <1>6, <1>7, <1>8, <1>9, <1>10, <1>11, <1>12,
     <1>13, <1>14, <1>15 DEF BuilderNext

\* Which steps change candidate::State at all.
LEMMA StateFrame ==
  ASSUME [Next]_vars
  PROVE  \/ HandlePendingTx \/ RequestFail \/ FinishNewBlock \/ RuntimeTakeCandidate
         \/ UNCHANGED stateVars
  BY DEF Next, vars, BuilderStep, SyncerThread, SyncerFetch, SyncerPublish,
         SyncerFail, FeedReceive, WorkerThread, StartSyncer, OpenFeed, EnterLoop,
         StartupFail, TakeEvent, LeaveLoop, ReadPool, ReadPending, Stop, StopRunning, StopFirst,
         StopQueue, StopWaiters, RuntimeThread, RuntimeWait, RuntimeClosed,
         RuntimeTakeInvalid, RuntimeDone, Idle

\* candidate::State keeps its type: only the worker's three handler steps and
\* the Runtime's pop change it.
LEMMA StateTypeStep ==
  ASSUME TypeInv, [Next]_vars
  PROVE  StateTypeOK' /\ ValidHasBlock'
<1> USE DEF StateTypeOK, ValidHasBlock
<1>0. /\ StateTypeOK /\ ValidHasBlock /\ WorkerTypeOK
      /\ \A c, d \in read_snapshot.txs : c.seq = d.seq => c = d
  BY DEF TypeInv, TypeOK, OneTxPerSeq
<1>1. ASSUME event.kind = "tx", ApplyPendingTx(event.tx)
      PROVE  StateTypeOK' /\ ValidHasBlock'
  <2>1. event.tx \in Tx
    BY <1>0, <1>1 DEF WorkerTypeOK, Event, NoEvent
  <2> QED
    BY <1>0, <1>1, <2>1 DEF ApplyPendingTx, InsertOrAssign
<1>2. ASSUME event.kind = "block", MarkInvalid(event.block)
      PROVE  StateTypeOK' /\ ValidHasBlock'
  <2>1. event.block \in Block
    BY <1>0, <1>2 DEF WorkerTypeOK, Event, NoEvent
  <2>2. pools' \in Seq(Block)
    BY <1>2, EmptySeqType DEF MarkInvalid
  <2>3. block_number' \in Block /\ snapshot_seq' \in 0 .. MaxSeq
    BY <1>2, <2>1 DEF MarkInvalid
  <2> QED
    BY <1>2, <2>2, <2>3, Zenon DEF MarkInvalid
<1>3. ASSUME event.kind = "block", read_snapshot # NoSnapshot,
             ApplySnapshot(event.block, read_snapshot.seq, read_snapshot.txs, read_pools)
      PROVE  StateTypeOK' /\ ValidHasBlock'
  <2>1. event.block \in Block
    BY <1>0, <1>3 DEF WorkerTypeOK, Event, NoEvent
  <2>2. read_snapshot.seq \in 0 .. MaxSeq /\ read_snapshot.txs \subseteq Tx
    BY <1>0, <1>3 DEF WorkerTypeOK
  <2>3. read_pools \in Seq(Block)
    BY <1>0 DEF WorkerTypeOK
  <2> QED
    BY <1>0, <1>3, <2>1, <2>2, <2>3 DEF ApplySnapshot, Block, NoBlock
<1>4. ASSUME NEW c \in candidates, PopNextSnapshot(c)
      PROVE  StateTypeOK' /\ ValidHasBlock'
  BY <1>0, <1>4 DEF PopNextSnapshot
<1>5. CASE UNCHANGED stateVars
  BY <1>0, <1>5 DEF stateVars
<1>6. CASE HandlePendingTx
  BY <1>1, <1>5, <1>6 DEF HandlePendingTx, ApplyPendingCandidate
<1>7. CASE RequestFail
  BY <1>2, <1>5, <1>7 DEF RequestFail, MarkStateInvalid
<1>8. CASE FinishNewBlock
  BY <1>3, <1>5, <1>8 DEF FinishNewBlock, ApplyStateSnapshot
<1>9. CASE RuntimeTakeCandidate
  BY <1>4, <1>5, <1>9 DEF RuntimeTakeCandidate
<1>10. \/ HandlePendingTx \/ RequestFail \/ FinishNewBlock \/ RuntimeTakeCandidate
       \/ UNCHANGED stateVars
  BY StateFrame
<1> QED
  BY <1>5, <1>6, <1>7, <1>8, <1>9, <1>10

\* The syncer's variables keep their types.
LEMMA SyncerTypeStep ==
  ASSUME TypeInv, [Next]_vars
  PROVE  SyncerTypeOK'
<1> USE DEF SyncerTypeOK
<1>0. SyncerTypeOK /\ head \in Block
  BY DEF TypeInv, TypeOK, BuilderTypeOK
<1>1. CASE SyncerFetch
  BY <1>0, <1>1 DEF SyncerFetch
<1>2. CASE SyncerPublish
  BY <1>0, <1>2 DEF SyncerPublish, PublishNewBlock
<1>3. CASE SyncerFail
  BY <1>0, <1>3 DEF SyncerFail
<1>4. CASE StartSyncer
  BY <1>0, <1>4 DEF StartSyncer
<1>5. CASE StartupFail
  BY <1>0, <1>5 DEF StartupFail, StopInputs
<1>6. CASE StopFirst
  BY <1>0, <1>6 DEF StopFirst, StopInputs
<1>7. CASE UNCHANGED <<syncerVars, dropped_block>>
  BY <1>0, <1>7 DEF syncerVars
<1>8. \/ SyncerFetch \/ SyncerPublish \/ SyncerFail \/ StartSyncer \/ StartupFail
      \/ StopFirst \/ UNCHANGED <<syncerVars, dropped_block>>
  BY DEF Next, vars, BuilderStep, SyncerThread, FeedReceive, WorkerThread,
         RuntimeThread, Stop, Idle, OpenFeed, EnterLoop, TakeEvent, LeaveLoop,
         HandlePendingTx, ReadPool, ReadPending, RequestFail, FinishNewBlock,
         EventDone, StopRunning, StopQueue, StopWaiters, RuntimeWait, RuntimeClosed,
         RuntimeTakeInvalid, RuntimeTakeCandidate, RuntimeDone
<1> QED
  BY <1>1, <1>2, <1>3, <1>4, <1>5, <1>6, <1>7, <1>8

\* The worker's variables and the event queue keep their types, and a mempool
\* answer names each sequence number once.
LEMMA WorkerTypeStep ==
  ASSUME TypeInv, [Next]_vars
  PROVE  /\ WorkerTypeOK'
         /\ (\A c, d \in read_snapshot.txs : c.seq = d.seq => c = d)'
<1> DEFINE Uniq == \A c, d \in read_snapshot.txs : c.seq = d.seq => c = d
<1> USE DEF WorkerTypeOK
<1>0. /\ BuilderTypeOK /\ SyncerTypeOK /\ WorkerTypeOK /\ Uniq
      /\ \A t \in pending : t.epoch = epoch
  BY DEF TypeInv, TypeOK, OneTxPerSeq
<1>1. ASSUME NEW e \in Event, queue' = IF CanPush THEN Append(queue, e) ELSE queue,
             UNCHANGED workerVars
      PROVE  WorkerTypeOK' /\ Uniq'
  BY <1>0, <1>1 DEF workerVars, CanPush
<1>2. CASE SyncerPublish
  <2>1. BlockEvent(fetched) \in Event
    BY <1>0, <1>2 DEF SyncerPublish, PublishNewBlock, SyncerTypeOK, BlockEvent, Event
  <2> QED
    BY <1>1, <1>2, <2>1 DEF SyncerPublish, PublishNewBlock
<1>3. CASE FeedReceive
  <2>1. TxEvent(Head(stream)) \in Event
    BY <1>0, <1>3, TailType DEF FeedReceive, BuilderTypeOK, TxEvent, Event
  <2> QED
    BY <1>1, <1>3, <2>1 DEF FeedReceive, PublishPendingTransaction
<1>4. CASE StartSyncer \/ OpenFeed \/ EnterLoop \/ StartupFail \/ LeaveLoop
  BY <1>0, <1>4 DEF StartSyncer, OpenFeed, EnterLoop, StartupFail, LeaveLoop
<1>5. CASE TakeEvent
  BY <1>0, <1>5, TailType DEF TakeEvent
<1>6. CASE ReadPool
  <2>1. event.block \in Block
    BY <1>0, <1>6 DEF ReadPool, Event, NoEvent
  <2> QED
    BY <1>0, <1>6, <2>1 DEF ReadPool
<1>7. CASE ReadPending
  <2> DEFINE snap == [seq |-> last_seq, txs |-> Filter(pending)]
  <2>1. snap \in [seq : 0 .. MaxSeq, txs : SUBSET Tx]
    BY <1>0 DEF BuilderTypeOK, Filter
  <2>2. \A c, d \in snap.txs : c.seq = d.seq => c = d
    BY <1>0, SMTT(30) DEF BuilderTypeOK, Filter, Tx
  <2>3. read_snapshot' = snap /\ UNCHANGED <<phase, event, read_pools, queue>>
    BY <1>7 DEF ReadPending, PendingSnapshot
  <2> HIDE DEF snap
  <2> QED
    BY <1>0, <2>1, <2>2, <2>3
<1>8. CASE EventDone
  <2>1. read_pools' \in Seq(Block)
    BY <1>8, EmptySeqType DEF EventDone
  <2>2. read_snapshot' = NoSnapshot /\ read_snapshot'.txs = {}
    BY <1>8 DEF EventDone, NoSnapshot
  <2> QED
    BY <1>0, <1>8, <2>1, <2>2 DEF EventDone
<1>9. CASE UNCHANGED <<workerVars, queue>>
  BY <1>0, <1>9 DEF workerVars
<1>10. \/ SyncerPublish \/ FeedReceive
       \/ StartSyncer \/ OpenFeed \/ EnterLoop \/ StartupFail \/ LeaveLoop
       \/ TakeEvent \/ ReadPool \/ ReadPending \/ EventDone
       \/ UNCHANGED <<workerVars, queue>>
  BY DEF Next, vars, BuilderStep, SyncerThread, SyncerFetch, SyncerFail,
         WorkerThread, RuntimeThread, Stop, Idle, HandlePendingTx, RequestFail,
         FinishNewBlock, StopRunning, StopFirst, StopQueue, StopWaiters, RuntimeWait,
         RuntimeClosed, RuntimeTakeInvalid, RuntimeTakeCandidate, RuntimeDone
<1> QED
  BY <1>2, <1>3, <1>4, <1>5, <1>6, <1>7, <1>8, <1>9, <1>10

\* The Runtime's variables, the flags and the history keep their types.
LEMMA RuntimeTypeStep ==
  ASSUME TypeInv, [Next]_vars
  PROVE  RuntimeTypeOK'
<1> USE DEF RuntimeTypeOK
<1>0. RuntimeTypeOK /\ StateTypeOK /\ ValidHasBlock
  BY DEF TypeInv, TypeOK
<1>1. CASE StartupFail \/ StopWaiters
  BY <1>0, <1>1 DEF StartupFail, StopWaiters, CloseStateWaiters, Notify
<1>2. CASE HandlePendingTx
  BY <1>0, <1>2 DEF HandlePendingTx, ApplyPendingCandidate, EventDone, Notify, waitVars
<1>3. CASE RequestFail
  BY <1>0, <1>3 DEF RequestFail, MarkStateInvalid, EventDone, Notify
<1>4. CASE FinishNewBlock
  BY <1>0, <1>4 DEF FinishNewBlock, ApplyStateSnapshot, EventDone, Notify
<1>5. CASE StopRunning \/ StopFirst \/ StopQueue
  BY <1>0, <1>5 DEF StopRunning, StopFirst, StopQueue, waitVars, runtimeVars
<1>6. CASE RuntimeWait \/ RuntimeClosed \/ RuntimeDone
  BY <1>0, <1>6 DEF RuntimeWait, RuntimeClosed, RuntimeDone, waitVars
<1>7. CASE RuntimeTakeInvalid
  <2>1. MakeSnapshot(NoTx) \in View
    BY <1>0 DEF MakeSnapshot, View, StateTypeOK
  <2> QED
    BY <1>0, <1>7, <2>1 DEF RuntimeTakeInvalid
<1>8. CASE RuntimeTakeCandidate
  <2>1. CASE valid
    <3>1. PICK c \in candidates :
             /\ taken' = MakeSnapshot(c)
             /\ delivered' = delivered \cup {[tx |-> c, block |-> block_number]}
             /\ runtime' = "busy"
      BY <1>8, <2>1 DEF RuntimeTakeCandidate
    <3>2. MakeSnapshot(c) \in View
      BY <1>0 DEF MakeSnapshot, View, StateTypeOK
    <3>3. [tx |-> c, block |-> block_number] \in [tx : Tx, block : Block]
      BY <1>0, <2>1 DEF StateTypeOK, ValidHasBlock
    <3> QED
      BY <1>0, <1>8, <3>1, <3>2, <3>3 DEF RuntimeTakeCandidate, waitVars
  <2>2. CASE ~valid
    BY <1>0, <1>8, <2>2 DEF RuntimeTakeCandidate, waitVars
  <2> QED
    BY <2>1, <2>2
<1>9. CASE UNCHANGED <<waitVars, stop, runtimeVars>>
  BY <1>0, <1>9 DEF waitVars, runtimeVars
<1>10. \/ StartupFail \/ StopWaiters \/ HandlePendingTx \/ RequestFail
       \/ FinishNewBlock \/ StopRunning \/ StopFirst \/ StopQueue
       \/ RuntimeWait \/ RuntimeClosed \/ RuntimeDone \/ RuntimeTakeInvalid
       \/ RuntimeTakeCandidate
       \/ UNCHANGED <<waitVars, stop, runtimeVars>>
  BY DEF Next, vars, BuilderStep, SyncerThread, SyncerFetch, SyncerPublish,
         SyncerFail, FeedReceive, WorkerThread, StartSyncer, OpenFeed, EnterLoop,
         TakeEvent, LeaveLoop, ReadPool, ReadPending, RuntimeThread, Stop, Idle
<1> QED
  BY <1>1, <1>2, <1>3, <1>4, <1>5, <1>6, <1>7, <1>8, <1>9, <1>10

\* The types and the facts they need are an invariant.
THEOREM TypeInvariant == Spec => []TypeInv
<1>1. Init => TypeInv
  <2> SUFFICES ASSUME Init PROVE TypeInv
    OBVIOUS
  <2> USE DEF Init
  <2>1. BuilderTypeOK
    BY EmptySeqType DEF BuilderInit, BuilderTypeOK, Block, WsState
  <2>2. StateTypeOK /\ ValidHasBlock
    <3>1. pools \in Seq(Block)
      BY EmptySeqType DEF StateInit
    <3>2. block_number \in Block \cup {NoBlock} /\ snapshot_seq \in 0 .. MaxSeq
      BY DEF StateInit
    <3> QED
      BY <3>1, <3>2, Zenon DEF StateInit, StateTypeOK, ValidHasBlock
  <2>3. SyncerTypeOK
    BY DEF SyncerTypeOK
  <2>4. WorkerTypeOK
    BY EmptySeqType DEF WorkerTypeOK
  <2>5. RuntimeTypeOK
    <3>1. NoView \in View
      BY EmptySeqType DEF NoView, View
    <3> QED
      BY <3>1 DEF RuntimeTypeOK
  <2>6. OneTxPerSeq
    BY DEF OneTxPerSeq, BuilderInit, NoSnapshot
  <2> QED
    BY <2>1, <2>2, <2>3, <2>4, <2>5, <2>6 DEF TypeInv, TypeOK
<1>2. TypeInv /\ [Next]_vars => TypeInv'
  BY BuilderTypeStep, StateTypeStep, SyncerTypeStep, WorkerTypeStep, RuntimeTypeStep
     DEF TypeInv, TypeOK, OneTxPerSeq
<1> QED
  BY <1>1, <1>2, PTL DEF Spec

\* Type correctness of the whole pipeline: among others, the event queue never
\* exceeds its capacity (Queue::try_push) and the local mempool is a map.
THEOREM TypeCorrect == Spec => []TypeOK
<1>1. TypeInv => TypeOK
  BY DEF TypeInv
<1> QED
  BY <1>1, TypeInvariant, PTL

-----------------------------------------------------------------------------
(* The hand-over from the worker to the Runtime                            *)

\* What request_pool_snapshots has read stays tied to the event being handled,
\* one pool after the other, until the event is done.
LEMMA HandlerStep ==
  ASSUME TypeInv, HandlerInv, [Next]_vars
  PROVE  HandlerInv'
<1>0. WorkerTypeOK
  BY DEF TypeInv, TypeOK
<1>1. CASE TakeEvent
  <2>1. read_pools = <<>> /\ read_snapshot = NoSnapshot
    BY <1>1 DEF HandlerInv, TakeEvent, NoEvent
  <2>2. UNCHANGED <<read_pools, read_snapshot>>
    BY <1>1 DEF TakeEvent
  <2>3. read_pools = [i \in 1 .. Len(read_pools) |-> event'.block]
    BY <2>1
  <2> QED
    BY <2>1, <2>2, <2>3 DEF HandlerInv
<1>2. CASE ReadPool
  <2> DEFINE n == Len(read_pools)
  <2>1. n \in Nat /\ n < NumPools /\ event.kind = "block" /\ UNCHANGED event
    BY <1>0, <1>2 DEF ReadPool, WorkerTypeOK
  <2>2. read_pools = [i \in 1 .. n |-> event.block]
    BY <2>1 DEF HandlerInv
  <2>3. read_pools' = Append(read_pools, event.block)
    BY <1>2 DEF ReadPool
  <2>4. /\ Len(read_pools') = n + 1
        /\ read_pools' = [i \in 1 .. n + 1 |-> event.block]
    BY <1>0, <2>1, <2>2, <2>3 DEF WorkerTypeOK
  <2>5. UNCHANGED read_snapshot /\ n # NumPools
    BY <1>2, <2>1 DEF ReadPool
  <2>6. read_snapshot' = NoSnapshot
    BY <2>5 DEF HandlerInv
  <2>7. /\ read_pools' = [i \in 1 .. Len(read_pools') |-> event'.block]
        /\ Len(read_pools') <= NumPools
    BY <2>1, <2>4
  <2> QED
    BY <2>1, <2>6, <2>7 DEF HandlerInv
<1>3. CASE ReadPending
  BY <1>3 DEF ReadPending, HandlerInv
<1>4. CASE EventDone
  <2>1. event'.kind # "block" /\ read_pools' = <<>> /\ read_snapshot' = NoSnapshot
    BY <1>4 DEF EventDone, NoEvent
  <2> QED
    BY <2>1 DEF HandlerInv
<1>5. CASE UNCHANGED <<event, read_pools, read_snapshot>>
  BY <1>5 DEF HandlerInv
<1>6. \/ TakeEvent \/ ReadPool \/ ReadPending \/ EventDone
      \/ UNCHANGED <<event, read_pools, read_snapshot>>
  BY DEF Next, vars, workerVars, BuilderStep, SyncerThread, SyncerFetch,
         SyncerPublish, SyncerFail, FeedReceive, WorkerThread, StartSyncer,
         OpenFeed, EnterLoop, StartupFail, LeaveLoop, HandlePendingTx,
         RequestFail, FinishNewBlock, Stop, StopRunning, StopFirst, StopQueue, StopWaiters,
         RuntimeThread, RuntimeWait, RuntimeClosed, RuntimeTakeInvalid,
         RuntimeTakeCandidate, RuntimeDone, Idle
<1> QED
  BY <1>1, <1>2, <1>3, <1>4, <1>5, <1>6

\* The steps that touch the state, the flags or the Runtime. Everyone else
\* leaves the hand-over alone.
LEMMA HandoverFrame ==
  ASSUME [Next]_vars
  PROVE  \/ HandlePendingTx \/ RequestFail \/ FinishNewBlock
         \/ CloseStateWaiters /\ UNCHANGED stateVars
         \/ RuntimeThread
         \/ UNCHANGED <<stateVars, waitVars, runtimeVars>>
  BY DEF Next, vars, BuilderStep, SyncerThread, SyncerFetch, SyncerPublish,
         SyncerFail, FeedReceive, WorkerThread, StartSyncer, OpenFeed, EnterLoop,
         StartupFail, TakeEvent, LeaveLoop, ReadPool, ReadPending, Stop, StopRunning, StopFirst,
         StopQueue, StopWaiters, Idle

\* Once stop() has begun it has begun for good.
LEMMA StopStays ==
  ASSUME [Next]_vars, stop # "no"
  PROVE  stop' # "no"
<1>1. \/ StopRunning \/ StopFirst \/ StopQueue \/ StopWaiters \/ stop' = stop
  BY DEF Next, vars, BuilderStep, SyncerThread, SyncerFetch, SyncerPublish, SyncerFail,
         FeedReceive, WorkerThread, StartSyncer, OpenFeed, EnterLoop, StartupFail,
         TakeEvent, LeaveLoop, HandlePendingTx, ReadPool, ReadPending, RequestFail,
         FinishNewBlock, EventDone, Stop, RuntimeThread, RuntimeWait, RuntimeClosed,
         RuntimeTakeInvalid, RuntimeTakeCandidate, RuntimeDone, Idle
<1> QED
  BY <1>1 DEF StopRunning, StopFirst, StopQueue, StopWaiters

\* One step keeps the invariant of the hand-over.
LEMMA ViewStep ==
  ASSUME TypeInv, HandlerInv, ViewInv, [Next]_vars
  PROVE  ViewInv'
<1>0. /\ StateTypeOK /\ WorkerTypeOK /\ RuntimeTypeOK /\ ValidHasBlock
      /\ HandlerInv /\ ViewInv /\ (stop # "no" => stop' # "no")
  BY StopStays DEF TypeInv, TypeOK
<1> USE DEF CoherentView, CoherentState, InvalidationReported, NoLostWakeup,
            EndsOnlyWhenStopped, StateReady, ViewInv
<1>1. ASSUME event.kind = "tx", ApplyPendingTx(event.tx), Notify,
             UNCHANGED <<waitVars, taken, delivered>>
      PROVE  ViewInv'
  BY <1>0, <1>1 DEF ApplyPendingTx, AcceptsPendingTx, Notify, waitVars
<1>2. CASE HandlePendingTx
  <2>1. CASE UNCHANGED <<stateVars, runtime>>
    BY <1>0, <1>2, <2>1 DEF HandlePendingTx, ApplyPendingCandidate, stateVars, waitVars
  <2> QED
    BY <1>1, <1>2, <2>1 DEF HandlePendingTx, ApplyPendingCandidate
<1>3. CASE RequestFail
  <2>1. CASE ~closed /\ AcceptsBlock(event.block)
    <3>1. event.block \in Block
      BY <1>0, <1>3 DEF RequestFail, WorkerTypeOK, Event, NoEvent
    <3>2. /\ MarkInvalid(event.block) /\ invalid_snapshot_pending' = TRUE
          /\ Notify /\ UNCHANGED <<closed, taken, delivered>>
      BY <1>3, <2>1 DEF RequestFail, MarkStateInvalid
    <3>3. taken'.block <= block_number'
      BY <1>0, <3>1, <3>2 DEF MarkInvalid, AcceptsBlock, StateTypeOK, RuntimeTypeOK,
                              View, Block, NoBlock
    <3> QED
      BY <1>0, <3>2, <3>3 DEF MarkInvalid, Notify
  <2>2. CASE ~(~closed /\ AcceptsBlock(event.block))
    BY <1>0, <1>3, <2>2 DEF RequestFail, MarkStateInvalid, stateVars
  <2> QED
    BY <2>1, <2>2
<1>4. CASE FinishNewBlock
  <2>1. CASE ~closed /\ AcceptsSnapshot(event.block, read_snapshot.seq)
    <3>1. event.block \in Block /\ event.kind = "block"
      BY <1>0, <1>4 DEF FinishNewBlock, WorkerTypeOK, Event, NoEvent
    <3>2. /\ ApplySnapshot(event.block, read_snapshot.seq, read_snapshot.txs, read_pools)
          /\ invalid_snapshot_pending' = FALSE
          /\ IF read_snapshot.txs # {} THEN Notify ELSE UNCHANGED runtime
          /\ UNCHANGED <<closed, taken, delivered>>
      BY <1>4, <2>1 DEF FinishNewBlock, ApplyStateSnapshot
    <3>3. read_pools = [i \in 1 .. NumPools |-> event.block]
      BY <1>0, <1>4, <3>1 DEF FinishNewBlock, HandlerInv
    <3>4. taken'.block <= block_number'
      BY <1>0, <2>1, <3>1, <3>2 DEF ApplySnapshot, AcceptsSnapshot, AcceptsBlock,
                              StateTypeOK, RuntimeTypeOK, View, Block, NoBlock
    <3>5. CoherentView' /\ InvalidationReported' /\ EndsOnlyWhenStopped'
      BY <1>0, <3>2, <3>3 DEF ApplySnapshot, Notify
    <3>6. NoLostWakeup'
      BY <1>0, <2>1, <3>2 DEF ApplySnapshot, Notify
    <3> QED
      BY <3>4, <3>5, <3>6
  <2>2. CASE ~(~closed /\ AcceptsSnapshot(event.block, read_snapshot.seq))
    BY <1>0, <1>4, <2>2 DEF FinishNewBlock, ApplyStateSnapshot, stateVars
  <2> QED
    BY <2>1, <2>2
<1>5. CASE CloseStateWaiters /\ UNCHANGED stateVars
  BY <1>0, <1>5 DEF CloseStateWaiters, Notify, stateVars
<1>6. CASE RuntimeWait \/ RuntimeClosed \/ RuntimeDone
  BY <1>0, <1>6 DEF RuntimeWait, RuntimeClosed, RuntimeDone, stateVars, waitVars
<1>7. CASE RuntimeTakeInvalid
  <2>1. taken' = MakeSnapshot(NoTx) /\ ~valid
    BY <1>0, <1>7 DEF RuntimeTakeInvalid
  <2>2. ~taken'.valid /\ taken'.candidate = NoTx /\ taken'.block = block_number
    BY <2>1 DEF MakeSnapshot
  <2>3. UNCHANGED stateVars /\ runtime' = "busy"
    BY <1>7 DEF RuntimeTakeInvalid
  <2>4. taken'.block <= block_number'
    BY <1>0, <2>2, <2>3 DEF stateVars, StateTypeOK, Block, NoBlock
  <2> QED
    BY <1>0, <1>7, <2>2, <2>3, <2>4 DEF RuntimeTakeInvalid, stateVars
<1>8. CASE RuntimeTakeCandidate
  <2>1. valid
    BY <1>0, <1>8 DEF RuntimeTakeCandidate
  <2>2. PICK c \in candidates :
           PopNextSnapshot(c) /\ taken' = MakeSnapshot(c) /\ runtime' = "busy"
    BY <1>8, <2>1 DEF RuntimeTakeCandidate
  <2>3. c # NoTx
    BY <1>0 DEF StateTypeOK, Tx, NoTx
  <2>4. /\ taken'.valid = valid /\ taken'.candidate = c
        /\ taken'.block = block_number /\ taken'.pools = pools
    BY <2>2 DEF MakeSnapshot
  <2>5. UNCHANGED <<block_number, valid, pools, snapshot_seq, waitVars>>
    BY <1>8, <2>2 DEF RuntimeTakeCandidate, PopNextSnapshot
  <2>6. taken'.block <= block_number'
    BY <1>0, <2>4, <2>5 DEF StateTypeOK, Block, NoBlock
  <2> QED
    BY <1>0, <2>1, <2>2, <2>3, <2>4, <2>5, <2>6 DEF waitVars
<1>9. CASE UNCHANGED <<stateVars, waitVars, runtimeVars>>
  BY <1>0, <1>9 DEF stateVars, waitVars, runtimeVars
<1> QED
  BY <1>2, <1>3, <1>4, <1>5, <1>6, <1>7, <1>8, <1>9, HandoverFrame DEF RuntimeThread

\* The inductive invariant holds in every reachable state.
THEOREM InvariantHolds == Spec => []IInv
<1>1. Init => HandlerInv /\ ViewInv
  <2> SUFFICES ASSUME Init PROVE HandlerInv /\ ViewInv
    OBVIOUS
  <2>1. HandlerInv
    BY DEF Init, HandlerInv, NoEvent
  <2>2. taken.block <= block_number
    BY DEF Init, StateInit, NoView, NoBlock
  <2>3. CoherentView
    BY DEF Init, StateInit, CoherentView, CoherentState, NoView
  <2>4. InvalidationReported /\ NoLostWakeup /\ EndsOnlyWhenStopped
    BY DEF Init, StateInit, InvalidationReported, NoLostWakeup, EndsOnlyWhenStopped
  <2> QED
    BY <2>1, <2>2, <2>3, <2>4 DEF ViewInv
<1>2. TypeInv /\ HandlerInv /\ ViewInv /\ [Next]_vars => HandlerInv' /\ ViewInv'
  BY HandlerStep, ViewStep
<1> QED
  BY <1>1, <1>2, TypeInvariant, PTL DEF Spec, IInv

\* What the Runtime prices and bundles is one coherent view of one block
\* (handle_new_block_event reads every pool at the event's block).
THEOREM CoherentViewHolds == Spec => []CoherentView
<1>1. IInv => CoherentView
  BY DEF IInv, ViewInv
<1> QED
  BY <1>1, InvariantHolds, PTL

\* An invalidation always reaches the Runtime, and the flag never announces a
\* state that became valid again (mark_state_invalid, apply_state_snapshot).
THEOREM InvalidationReportedHolds == Spec => []InvalidationReported
<1>1. IInv => InvalidationReported
  BY DEF IInv, ViewInv
<1> QED
  BY <1>1, InvariantHolds, PTL

\* wait_pop_state never sleeps while it has something to return.
THEOREM NoLostWakeupHolds == Spec => []NoLostWakeup
<1>1. IInv => NoLostWakeup
  BY DEF IInv, ViewInv
<1> QED
  BY <1>1, InvariantHolds, PTL

\* The Runtime's loop ends only when the source was closed or stop() has cleared
\* m_running: pop_next_snapshot never comes back empty in wait_pop_state.
THEOREM EndsOnlyWhenStoppedHolds == Spec => []EndsOnlyWhenStopped
<1>1. IInv => EndsOnlyWhenStopped
  BY DEF IInv, ViewInv
<1> QED
  BY <1>1, InvariantHolds, PTL

\* The Runtime is never given a view of an earlier block than the one it had,
\* also when the chain is rewound or the builder restarts (the block guards of
\* State::apply_snapshot and State::mark_invalid).
THEOREM ViewsNeverRegressHolds == Spec => ViewsNeverRegress
<1>1. IInv /\ [Next]_vars => [taken'.block >= taken.block]_taken
  <2> SUFFICES ASSUME IInv, [Next]_vars, taken' # taken
               PROVE  taken'.block >= taken.block
    OBVIOUS
  <2>1. /\ taken.block <= block_number
        /\ taken.block \in Int /\ block_number \in Int
    BY DEF IInv, TypeInv, ViewInv, TypeOK, RuntimeTypeOK, StateTypeOK, View, Block,
           NoBlock
  <2>2. RuntimeTakeInvalid \/ RuntimeTakeCandidate
    BY HandoverFrame DEF HandlePendingTx, ApplyPendingCandidate, RequestFail, MarkStateInvalid, FinishNewBlock,
       ApplyStateSnapshot, CloseStateWaiters, RuntimeThread, RuntimeWait, RuntimeClosed,
       RuntimeDone, runtimeVars
  <2>3. taken'.block = block_number
    BY <2>2 DEF RuntimeTakeInvalid, RuntimeTakeCandidate, MakeSnapshot
  <2> QED
    BY <2>1, <2>3
<1> QED
  BY <1>1, InvariantHolds, PTL DEF Spec, ViewsNeverRegress

-----------------------------------------------------------------------------
(* No gap between snapshot and stream                                      *)

\* The transactions a sequence of events carries, and the ones of a sequence
\* of messages.
TxsIn(q) == {q[i].tx : i \in {j \in 1 .. Len(q) : q[j].kind = "tx"}}
MessagesIn(s) == {s[i] : i \in 1 .. Len(s)}

\* The core loop runs and stop() has not come to its inputs.
Running == phase = "loop" /\ InputsOn

\* The transaction went to the Runtime with the state's block.
Delivered(t) == [tx |-> t, block |-> block_number] \in delivered

\* The transaction is on its way to the worker, or the feed is known to have
\* lost it.
Carried(t) == t \in lost \cup unsent \cup StreamTxs \cup QueuedTxs

\* The worker has the transaction in hand.
InHand(t) == event.kind = "tx" /\ event.tx = t

\* Before the core loop there is no valid state and no event in hand; while it
\* runs the feed is open or reconnecting, and the Runtime is not released.
LoopInv ==
    /\ phase \in {"start", "sync", "feed"} => ~valid /\ event = NoEvent
    /\ Running => ws \in {"accepted", "subscribed", "reconnecting"}
    /\ closed => phase = "done" \/ stop = "done"

\* In the builder's first life everything on its way was numbered in that life,
\* and no pending record is numbered beyond the counter.
FlightInv ==
    /\ \A t \in pending : t.seq <= last_seq
    /\ epoch = 0 => /\ \A t \in unsent \cup StreamTxs \cup QueuedTxs : t.epoch = 0
                    /\ event.kind = "tx" => event.tx.epoch = 0

\* A mempool answer in the worker's hands still covers what is pending: what
\* it does not hold is on its way, and has a number above the answer's.
ReadComplete ==
    Running /\ epoch = 0 /\ read_snapshot # NoSnapshot =>
        /\ read_snapshot.seq <= last_seq
        /\ \A t \in Filter(pending) :
              \/ t \in read_snapshot.txs
              \/ t.seq > read_snapshot.seq /\ Carried(t)

\* So does a valid state: what it neither holds nor has delivered is on its way
\* with a number above the snapshot's, so the state will not refuse it.
StateComplete ==
    Running /\ epoch = 0 /\ valid =>
        /\ snapshot_seq <= last_seq
        /\ \A t \in Filter(pending) :
              \/ t \in candidates
              \/ Delivered(t)
              \/ t.seq > snapshot_seq /\ (Carried(t) \/ InHand(t))

GapInv == LoopInv /\ FlightInv /\ ReadComplete /\ StateComplete

\* An event appended to the queue adds its transaction.
LEMMA TxsInAppend ==
  ASSUME NEW q \in Seq(Event), NEW e \in Event
  PROVE  TxsIn(Append(q, e)) = TxsIn(q) \cup (IF e.kind = "tx" THEN {e.tx} ELSE {})
<1> DEFINE r == Append(q, e)
<1>1. /\ r \in Seq(Event) /\ Len(r) = Len(q) + 1 /\ Len(q) \in Nat
      /\ r[Len(q) + 1] = e /\ \A i \in 1 .. Len(q) : r[i] = q[i]
  BY AppendProperties
<1> HIDE DEF r
<1>2. ASSUME NEW t
      PROVE  t \in TxsIn(r) <=> t \in TxsIn(q) \/ (e.kind = "tx" /\ t = e.tx)
  BY <1>1 DEF TxsIn
<1> QED
  BY <1>2 DEF r

\* Taking the first event leaves all transactions but the one it carries.
LEMMA TxsInTail ==
  ASSUME NEW q \in Seq(Event), q # <<>>
  PROVE  TxsIn(q) = TxsIn(Tail(q)) \cup (IF Head(q).kind = "tx" THEN {Head(q).tx} ELSE {})
<1> DEFINE r == Tail(q)
<1>1. /\ r \in Seq(Event) /\ Len(r) = Len(q) - 1 /\ Len(q) \in Nat /\ Len(q) >= 1
      /\ Head(q) = q[1] /\ \A i \in 1 .. Len(r) : r[i] = q[i + 1]
  BY HeadTailProperties
<1> HIDE DEF r
<1>2. \A j \in 1 .. Len(q) : j = 1 \/ (j - 1 \in 1 .. Len(r) /\ r[j - 1] = q[j])
  BY <1>1
<1>3. ASSUME NEW t
      PROVE  t \in TxsIn(q) <=> t \in TxsIn(r) \/ (Head(q).kind = "tx" /\ t = Head(q).tx)
  <2>1. ASSUME t \in TxsIn(q)
        PROVE  t \in TxsIn(r) \/ (Head(q).kind = "tx" /\ t = Head(q).tx)
    <3>1. PICK j \in 1 .. Len(q) : q[j].kind = "tx" /\ q[j].tx = t
      BY <2>1 DEF TxsIn
    <3>2. CASE j = 1
      BY <1>1, <3>1, <3>2
    <3>3. CASE j # 1
      <4>1. j - 1 \in 1 .. Len(r) /\ r[j - 1].kind = "tx" /\ r[j - 1].tx = t
        BY <1>2, <3>1, <3>3
      <4> QED
        BY <4>1 DEF TxsIn
    <3> QED
      BY <3>2, <3>3
  <2>2. ASSUME t \in TxsIn(r) PROVE t \in TxsIn(q)
    <3>1. PICK i \in 1 .. Len(r) : r[i].kind = "tx" /\ r[i].tx = t
      BY <2>2 DEF TxsIn
    <3>2. i + 1 \in 1 .. Len(q) /\ q[i + 1].kind = "tx" /\ q[i + 1].tx = t
      BY <1>1, <3>1
    <3> QED
      BY <3>2 DEF TxsIn
  <2>3. ASSUME Head(q).kind = "tx" PROVE Head(q).tx \in TxsIn(q)
    BY <1>1, <2>3 DEF TxsIn
  <2> QED
    BY <2>1, <2>2, <2>3
<1> QED
  BY <1>3 DEF r

\* The same for the messages of the stream.
LEMMA MessagesInAppend ==
  ASSUME NEW s \in Seq(Tx), NEW t \in Tx
  PROVE  MessagesIn(Append(s, t)) = MessagesIn(s) \cup {t}
<1> DEFINE r == Append(s, t)
<1>1. /\ Len(r) = Len(s) + 1 /\ Len(s) \in Nat
      /\ r[Len(s) + 1] = t /\ \A i \in 1 .. Len(s) : r[i] = s[i]
  BY AppendProperties
<1> HIDE DEF r
<1>2. ASSUME NEW u PROVE u \in MessagesIn(r) <=> u \in MessagesIn(s) \/ u = t
  BY <1>1 DEF MessagesIn
<1> QED
  BY <1>2 DEF r

\* Receiving a message takes exactly that one from the socket.
LEMMA MessagesInTail ==
  ASSUME NEW s \in Seq(Tx), s # <<>>
  PROVE  MessagesIn(s) = MessagesIn(Tail(s)) \cup {Head(s)}
<1> DEFINE r == Tail(s)
<1>1. /\ Len(r) = Len(s) - 1 /\ Len(s) \in Nat /\ Len(s) >= 1
      /\ Head(s) = s[1] /\ \A i \in 1 .. Len(r) : r[i] = s[i + 1]
  BY HeadTailProperties
<1> HIDE DEF r
<1>2. \A j \in 1 .. Len(s) : j = 1 \/ (j - 1 \in 1 .. Len(r) /\ r[j - 1] = s[j])
  BY <1>1
<1>3. ASSUME NEW u PROVE u \in MessagesIn(s) <=> u \in MessagesIn(r) \/ u = Head(s)
  <2>1. ASSUME u \in MessagesIn(s) PROVE u \in MessagesIn(r) \/ u = Head(s)
    BY <1>1, <1>2, <2>1 DEF MessagesIn
  <2>2. ASSUME u \in MessagesIn(r) PROVE u \in MessagesIn(s)
    <3>1. PICK i \in 1 .. Len(r) : r[i] = u
      BY <2>2 DEF MessagesIn
    <3>2. i + 1 \in 1 .. Len(s) /\ s[i + 1] = u
      BY <1>1, <3>1
    <3> QED
      BY <3>2 DEF MessagesIn
  <2>3. Head(s) \in MessagesIn(s)
    BY <1>1 DEF MessagesIn
  <2> QED
    BY <2>1, <2>2, <2>3
<1> QED
  BY <1>3 DEF r

\* One step keeps the loop's invariant: EnterLoop waits for the feed to be open,
\* and only a failed start-up or the last step of stop() releases the Runtime.
LEMMA LoopStep ==
  ASSUME TypeInv, LoopInv, [Next]_vars
  PROVE  LoopInv'
<1>0. RuntimeTypeOK /\ WorkerTypeOK /\ StateTypeOK /\ BuilderTypeOK
  BY DEF TypeInv, TypeOK
<1> USE DEF LoopInv, Running, InputsOn
<1>1. CASE BuilderStep
  <2>1. UNCHANGED <<phase, valid, event, stop, closed>>
    BY <1>1 DEF BuilderStep, stateVars, workerVars, waitVars
  <2>2. ws \in {"accepted", "subscribed", "reconnecting"} =>
          ws' \in {"accepted", "subscribed", "reconnecting"}
    BY <1>1 DEF BuilderStep, BuilderNext, SubmitPublicTx, Broadcast, MineBlock,
                RewindChain, AcceptWebsocket, AddSubscriber, DropWebsocket,
                RestartBuilder
  <2> QED
    BY <2>1, <2>2
<1>2. CASE StartSyncer \/ OpenFeed \/ EnterLoop \/ LeaveLoop
  BY <1>2 DEF StartSyncer, OpenFeed, EnterLoop, LeaveLoop, stateVars, waitVars,
              builderVars, WsOpen, QueueClosed
<1>3. CASE StartupFail
  BY <1>3 DEF StartupFail
<1>4. CASE TakeEvent
  BY <1>4 DEF TakeEvent, stateVars, waitVars, builderVars
<1>5. CASE HandlePendingTx \/ RequestFail \/ FinishNewBlock
  <2>1. phase \notin {"start", "sync", "feed"}
    BY <1>5 DEF HandlePendingTx, RequestFail, FinishNewBlock, NoEvent
  <2>2. UNCHANGED <<phase, stop, ws, closed>>
    BY <1>5 DEF HandlePendingTx, RequestFail, FinishNewBlock, EventDone, builderVars,
                waitVars, MarkStateInvalid, ApplyStateSnapshot
  <2> QED
    BY <2>1, <2>2
<1>6. CASE StopRunning \/ StopFirst \/ StopQueue \/ StopWaiters
  BY <1>6 DEF StopRunning, StopFirst, StopQueue, StopWaiters, CloseStateWaiters,
              builderVars, stateVars, workerVars, waitVars, InputsOn
<1>7. CASE RuntimeThread
  <2>1. UNCHANGED <<phase, stop, ws, closed, event, valid>>
    BY <1>7 DEF RuntimeThread, RuntimeWait, RuntimeClosed, RuntimeTakeInvalid,
                RuntimeTakeCandidate, RuntimeDone, PopNextSnapshot, builderVars,
                stateVars, workerVars, waitVars
  <2> QED
    BY <2>1
<1>8. CASE UNCHANGED <<phase, stop, ws, closed, event, valid>>
  BY <1>8
<1>9. \/ BuilderStep \/ StartSyncer \/ OpenFeed \/ EnterLoop \/ LeaveLoop
      \/ StartupFail \/ TakeEvent \/ HandlePendingTx \/ RequestFail
      \/ FinishNewBlock \/ StopRunning \/ StopFirst \/ StopQueue \/ StopWaiters
      \/ RuntimeThread
      \/ UNCHANGED <<phase, stop, ws, closed, event, valid>>
  BY DEF Next, vars, SyncerThread, SyncerFetch, SyncerPublish, SyncerFail,
         FeedReceive, WorkerThread, ReadPool, ReadPending, Stop, Idle, builderVars,
         stateVars, workerVars, waitVars
<1> QED
  BY <1>1, <1>2, <1>3, <1>4, <1>5, <1>6, <1>7, <1>8, <1>9

\* Which steps touch what is on its way.
LEMMA CarriageFrame ==
  ASSUME [Next]_vars
  PROVE  \/ BuilderStep \/ SyncerPublish \/ FeedReceive \/ TakeEvent
         \/ /\ stream' = <<>> /\ (phase' = "done" \/ ~InputsOn')
            /\ UNCHANGED <<pending, last_seq, epoch, unsent, lost, queue, event>>
         \/ /\ EventDone
            /\ UNCHANGED <<pending, last_seq, epoch, unsent, lost, stream, queue>>
         \/ UNCHANGED <<pending, last_seq, epoch, unsent, lost, stream, queue, event>>
<1>1. CASE StartupFail
  BY <1>1 DEF StartupFail, StopInputs
<1>2. CASE StopFirst
  BY <1>2 DEF StopFirst, StopInputs, workerVars, InputsOn
<1>3. CASE HandlePendingTx \/ RequestFail \/ FinishNewBlock
  BY <1>3 DEF HandlePendingTx, RequestFail, FinishNewBlock, EventDone, builderVars
<1>4. CASE SyncerFetch \/ SyncerFail \/ StartSyncer \/ OpenFeed \/ EnterLoop \/ LeaveLoop
           \/ ReadPool \/ ReadPending
  BY <1>4 DEF SyncerFetch, SyncerFail, StartSyncer, OpenFeed, EnterLoop, LeaveLoop,
              ReadPool, ReadPending, builderVars, workerVars
<1>5. CASE StopRunning \/ StopQueue \/ StopWaiters \/ RuntimeThread \/ Idle \/ UNCHANGED vars
  BY <1>5 DEF StopRunning, StopQueue, StopWaiters, RuntimeThread, RuntimeWait, RuntimeClosed,
         RuntimeTakeInvalid, RuntimeTakeCandidate, RuntimeDone, Idle, vars,
         builderVars, workerVars
<1> QED
  BY <1>1, <1>2, <1>3, <1>4, <1>5 DEF Next, SyncerThread, WorkerThread, Stop

\* One step keeps the numbering of what is on its way.
LEMMA FlightStep ==
  ASSUME TypeInv, FlightInv, [Next]_vars
  PROVE  FlightInv'
<1> DEFINE Numbered == \A t \in pending : t.seq <= last_seq
           OnWay == \A t \in unsent \cup MessagesIn(stream) \cup TxsIn(queue) : t.epoch = 0
           InHandOK == event.kind = "tx" => event.tx.epoch = 0
<1>0. /\ BuilderTypeOK /\ WorkerTypeOK /\ SyncerTypeOK
      /\ Numbered /\ (epoch = 0 => OnWay /\ InHandOK)
      /\ last_seq \in Nat /\ epoch \in Nat
  BY DEF TypeInv, TypeOK, FlightInv, BuilderTypeOK, StreamTxs, QueuedTxs, MessagesIn, TxsIn
<1>1. SUFFICES Numbered' /\ (epoch' = 0 => OnWay' /\ InHandOK')
  BY DEF FlightInv, StreamTxs, QueuedTxs, MessagesIn, TxsIn
<1>2. CASE BuilderStep
  <2>0. UNCHANGED <<queue, event>>
    BY <1>2 DEF BuilderStep, workerVars
  <2>1. CASE SubmitPublicTx
    <3>1. PICK t \in Tx : AddTransaction(t) /\ unsent' = unsent \cup {t}
      BY <2>1 DEF SubmitPublicTx
    <3>2. /\ t.epoch = epoch /\ t.seq = last_seq + 1 /\ pending' = pending \cup {t}
          /\ last_seq' = last_seq + 1
      BY <3>1 DEF AddTransaction
    <3>3. UNCHANGED <<stream, epoch>>
      BY <2>1 DEF SubmitPublicTx
    <3>4. Numbered'
      <4>1. \A u \in pending : u.seq \in Nat
        BY <1>0 DEF BuilderTypeOK, Tx
      <4> QED
        BY <1>0, <3>2, <4>1
    <3> QED
      BY <1>0, <2>0, <3>1, <3>2, <3>3, <3>4
  <2>2. ASSUME NEW t \in unsent, Broadcast(t)
        PROVE  Numbered' /\ (epoch' = 0 => OnWay' /\ InHandOK')
    <3>1. MessagesIn(stream') \subseteq MessagesIn(stream) \cup {t}
      BY <1>0, <2>2, MessagesInAppend DEF Broadcast, BuilderTypeOK
    <3>2. unsent' \subseteq unsent /\ UNCHANGED <<pending, last_seq, epoch>>
      BY <2>2 DEF Broadcast
    <3> QED
      BY <1>0, <2>0, <3>1, <3>2
  <2>3. ASSUME NEW S \in SUBSET pending, MineBlock(S)
        PROVE  Numbered' /\ (epoch' = 0 => OnWay' /\ InHandOK')
    BY <1>0, <2>0, <2>3 DEF MineBlock
  <2>4. CASE RewindChain \/ AcceptWebsocket \/ AddSubscriber
    BY <1>0, <2>0, <2>4 DEF RewindChain, AcceptWebsocket, AddSubscriber
  <2>5. CASE DropWebsocket
    <3>1. MessagesIn(stream') = {}
      BY <2>5 DEF DropWebsocket, MessagesIn
    <3> QED
      BY <1>0, <2>0, <2>5, <3>1 DEF DropWebsocket
  <2>6. CASE RestartBuilder
    BY <1>0, <2>6 DEF RestartBuilder
  <2> QED
    BY <1>2, <2>1, <2>2, <2>3, <2>4, <2>5, <2>6 DEF BuilderStep, BuilderNext
<1>3. CASE SyncerPublish
  <2>1. BlockEvent(fetched) \in Event /\ BlockEvent(fetched).kind = "block"
    BY <1>0, <1>3 DEF SyncerPublish, SyncerTypeOK, BlockEvent, Event
  <2>2. TxsIn(queue') = TxsIn(queue)
    BY <1>0, <1>3, <2>1, TxsInAppend DEF SyncerPublish, PublishNewBlock, WorkerTypeOK
  <2>3. UNCHANGED <<pending, last_seq, epoch, unsent, stream, event>>
    BY <1>3 DEF SyncerPublish, builderVars, workerVars
  <2> QED
    BY <1>0, <2>2, <2>3
<1>4. CASE FeedReceive
  <2> DEFINE t == Head(stream)
  <2>1. t \in Tx /\ MessagesIn(stream) = MessagesIn(stream') \cup {t}
    BY <1>0, <1>4, MessagesInTail, TailType DEF FeedReceive, BuilderTypeOK
  <2>2. TxEvent(t) \in Event /\ TxEvent(t).kind = "tx" /\ TxEvent(t).tx = t
    BY <2>1 DEF TxEvent, Event
  <2>3. TxsIn(queue') \subseteq TxsIn(queue) \cup {t}
    BY <1>0, <1>4, <2>2, TxsInAppend DEF FeedReceive, PublishPendingTransaction, WorkerTypeOK
  <2>4. UNCHANGED <<pending, last_seq, epoch, unsent, event>>
    BY <1>4 DEF FeedReceive, workerVars
  <2> HIDE DEF t
  <2> QED
    BY <1>0, <2>1, <2>3, <2>4
<1>5. CASE TakeEvent
  <2>1. TxsIn(queue) = TxsIn(queue') \cup (IF event'.kind = "tx" THEN {event'.tx} ELSE {})
    BY <1>0, <1>5, TxsInTail DEF TakeEvent, WorkerTypeOK
  <2>2. UNCHANGED <<pending, last_seq, epoch, unsent, stream>>
    BY <1>5 DEF TakeEvent, builderVars
  <2> QED
    BY <1>0, <2>1, <2>2
<1>6. CASE stream' = <<>> /\ UNCHANGED <<pending, last_seq, epoch, unsent, lost, queue, event>>
  <2>1. MessagesIn(stream') = {}
    BY <1>6 DEF MessagesIn
  <2> QED
    BY <1>0, <1>6, <2>1
<1>7. CASE EventDone /\ UNCHANGED <<pending, last_seq, epoch, unsent, lost, stream, queue>>
  BY <1>0, <1>7 DEF EventDone, NoEvent
<1>8. CASE UNCHANGED <<pending, last_seq, epoch, unsent, lost, stream, queue, event>>
  BY <1>0, <1>8
<1> QED
  BY <1>2, <1>3, <1>4, <1>5, <1>6, <1>7, <1>8, CarriageFrame

\* What is on its way stays on its way while the loop runs, until the worker
\* takes it in hand: the feed is open or reconnecting, so a message that does
\* not reach the bot is a known loss, and so is one the queue refuses.
LEMMA CarriedStep ==
  ASSUME TypeInv, LoopInv, [Next]_vars, Running', epoch' = epoch, NEW t, Carried(t)
  PROVE  Carried(t)' \/ InHand(t)'
<1>0. BuilderTypeOK /\ WorkerTypeOK /\ SyncerTypeOK
  BY DEF TypeInv, TypeOK
<1>1. Carried(t) <=> t \in lost \cup unsent \cup MessagesIn(stream) \cup TxsIn(queue)
  BY DEF Carried, StreamTxs, QueuedTxs, MessagesIn, TxsIn
<1>2. Carried(t)' <=> t \in lost' \cup unsent' \cup MessagesIn(stream') \cup TxsIn(queue')
  BY DEF Carried, StreamTxs, QueuedTxs, MessagesIn, TxsIn
<1>3. CASE BuilderStep
  <2>1. queue' = queue
    BY <1>3 DEF BuilderStep
  <2>2. ws \in {"accepted", "subscribed", "reconnecting"}
    BY <1>3 DEF BuilderStep, workerVars, Running, LoopInv, InputsOn
  <2>3. CASE SubmitPublicTx
    BY <1>1, <1>2, <2>1, <2>3 DEF SubmitPublicTx
  <2>4. ASSUME NEW u \in unsent, Broadcast(u)
        PROVE  Carried(t)'
    <3>1. CASE ws = "subscribed"
      <4>1. MessagesIn(stream') = MessagesIn(stream) \cup {u}
        BY <1>0, <2>4, <3>1, MessagesInAppend DEF Broadcast, BuilderTypeOK
      <4> QED
        BY <1>1, <1>2, <2>1, <2>4, <3>1, <4>1 DEF Broadcast
    <3>2. CASE ws # "subscribed"
      BY <1>1, <1>2, <2>1, <2>2, <2>4, <3>2 DEF Broadcast
    <3> QED
      BY <3>1, <3>2
  <2>5. ASSUME NEW S \in SUBSET pending, MineBlock(S)
        PROVE  Carried(t)'
    BY <1>1, <1>2, <2>1, <2>5 DEF MineBlock
  <2>6. CASE RewindChain \/ AcceptWebsocket \/ AddSubscriber
    BY <1>1, <1>2, <2>1, <2>6 DEF RewindChain, AcceptWebsocket, AddSubscriber
  <2>7. CASE DropWebsocket
    <3>1. lost' = lost \cup MessagesIn(stream) /\ unsent' = unsent
      BY <2>7 DEF DropWebsocket, StreamTxs, MessagesIn
    <3> QED
      BY <1>1, <1>2, <2>1, <3>1
  <2>8. CASE RestartBuilder
    BY <1>0, <2>8 DEF RestartBuilder, BuilderTypeOK
  <2> QED
    BY <1>3, <2>3, <2>4, <2>5, <2>6, <2>7, <2>8 DEF BuilderStep, BuilderNext
<1>4. CASE SyncerPublish
  <2>1. BlockEvent(fetched) \in Event /\ BlockEvent(fetched).kind = "block"
    BY <1>0, <1>4 DEF SyncerPublish, SyncerTypeOK, BlockEvent, Event
  <2>2. TxsIn(queue') = TxsIn(queue)
    BY <1>0, <1>4, <2>1, TxsInAppend DEF SyncerPublish, PublishNewBlock, WorkerTypeOK
  <2>3. UNCHANGED <<unsent, lost, stream>>
    BY <1>4 DEF SyncerPublish, builderVars
  <2> QED
    BY <1>1, <1>2, <2>2, <2>3
<1>5. CASE FeedReceive
  <2> DEFINE u == Head(stream)
  <2>1. u \in Tx /\ MessagesIn(stream) = MessagesIn(stream') \cup {u}
    BY <1>0, <1>5, MessagesInTail, TailType DEF FeedReceive, BuilderTypeOK
  <2>2. TxEvent(u) \in Event /\ TxEvent(u).kind = "tx" /\ TxEvent(u).tx = u
    BY <2>1 DEF TxEvent, Event
  <2>3. \/ TxsIn(queue') = TxsIn(queue) \cup {u} /\ lost' = lost
        \/ queue' = queue /\ lost' = lost \cup {u}
    BY <1>0, <1>5, <2>2, TxsInAppend DEF FeedReceive, PublishPendingTransaction, WorkerTypeOK
  <2>4. UNCHANGED unsent
    BY <1>5 DEF FeedReceive
  <2> HIDE DEF u
  <2> QED
    BY <1>1, <1>2, <2>1, <2>3, <2>4
<1>6. CASE TakeEvent
  <2>1. TxsIn(queue) = TxsIn(queue') \cup (IF event'.kind = "tx" THEN {event'.tx} ELSE {})
    BY <1>0, <1>6, TxsInTail DEF TakeEvent, WorkerTypeOK
  <2>2. UNCHANGED <<unsent, lost, stream>>
    BY <1>6 DEF TakeEvent, builderVars
  <2> QED
    BY <1>1, <1>2, <2>1, <2>2 DEF InHand
<1>7. CASE UNCHANGED <<unsent, lost, stream, queue>>
  BY <1>1, <1>2, <1>7
<1> QED
  BY <1>3, <1>4, <1>5, <1>6, <1>7, CarriageFrame DEF Running

\* A new pending record has the next sequence number and its message is not out
\* yet; the counter never decreases within one life of the builder.
LEMMA PendingStep ==
  ASSUME TypeInv, [Next]_vars, epoch' = epoch
  PROVE  /\ last_seq' >= last_seq
         /\ \A t \in pending' : t \in pending \/ (t \in unsent' /\ t.seq = last_seq + 1)
<1>0. last_seq \in Nat /\ epoch \in Nat
  BY DEF TypeInv, TypeOK, BuilderTypeOK
<1>1. CASE SubmitPublicTx
  BY <1>0, <1>1 DEF SubmitPublicTx, AddTransaction
<1>2. CASE RestartBuilder
  BY <1>0, <1>2 DEF RestartBuilder
<1>3. CASE last_seq' = last_seq /\ pending' \subseteq pending
  BY <1>0, <1>3
<1>4. SubmitPublicTx \/ RestartBuilder \/ (last_seq' = last_seq /\ pending' \subseteq pending)
  <2>1. CASE BuilderStep
    BY <2>1 DEF BuilderStep, BuilderNext, Broadcast, MineBlock, RewindChain,
                AcceptWebsocket, AddSubscriber, DropWebsocket
  <2>2. CASE SyncerPublish \/ FeedReceive \/ TakeEvent
    BY <2>2 DEF SyncerPublish, FeedReceive, TakeEvent, builderVars
  <2> QED
    BY <2>1, <2>2, CarriageFrame
<1> QED
  BY <1>1, <1>2, <1>3, <1>4

\* A builder in its first life was in its first life before.
LEMMA EpochStep ==
  ASSUME TypeInv, [Next]_vars, epoch' = 0
  PROVE  epoch' = epoch
<1>0. epoch \in Nat
  BY DEF TypeInv, TypeOK, BuilderTypeOK
<1>1. CASE BuilderStep
  BY <1>0, <1>1 DEF BuilderStep, BuilderNext, SubmitPublicTx, Broadcast, MineBlock,
     RewindChain, AcceptWebsocket, AddSubscriber, DropWebsocket, RestartBuilder
<1>2. CASE SyncerPublish \/ FeedReceive \/ TakeEvent
  BY <1>2 DEF SyncerPublish, FeedReceive, TakeEvent, builderVars
<1> QED
  BY <1>1, <1>2, CarriageFrame

\* The loop runs because it ran before or because it is entered in this step.
LEMMA RunningStep ==
  ASSUME [Next]_vars, Running'
  PROVE  Running \/ phase = "feed"
<1>1. InputsOn
  BY DEF Running, InputsOn, Next, vars, BuilderStep, SyncerThread, SyncerFetch, SyncerPublish,
     SyncerFail, FeedReceive, WorkerThread, StartSyncer, OpenFeed, EnterLoop,
     StartupFail, TakeEvent, LeaveLoop, HandlePendingTx, ReadPool, ReadPending,
     RequestFail, FinishNewBlock, EventDone, Stop, StopRunning, StopFirst, StopQueue, StopWaiters,
     RuntimeThread, RuntimeWait, RuntimeClosed, RuntimeTakeInvalid,
     RuntimeTakeCandidate, RuntimeDone, Idle
<1>2. phase = "loop" \/ phase = "feed"
  BY DEF Running, Next, vars, workerVars, BuilderStep, SyncerThread, SyncerFetch, SyncerPublish,
     SyncerFail, FeedReceive, WorkerThread, StartSyncer, OpenFeed, EnterLoop,
     StartupFail, TakeEvent, LeaveLoop, HandlePendingTx, ReadPool, ReadPending,
     RequestFail, FinishNewBlock, EventDone, Stop, StopRunning, StopFirst, StopQueue, StopWaiters,
     RuntimeThread, RuntimeWait, RuntimeClosed, RuntimeTakeInvalid,
     RuntimeTakeCandidate, RuntimeDone, Idle
<1> QED
  BY <1>1, <1>2 DEF Running

\* One step keeps the mempool answer complete. The read itself is atomic under
\* the mempool's lock; what is added after it has a higher number and is on its
\* way; nothing on its way is handled before this event is done.
LEMMA ReadStep ==
  ASSUME TypeInv, HandlerInv, GapInv, [Next]_vars
  PROVE  ReadComplete'
<1> SUFFICES ASSUME Running', epoch' = 0, read_snapshot' # NoSnapshot
             PROVE  /\ read_snapshot'.seq <= last_seq'
                    /\ \A t \in Filter(pending') :
                          \/ t \in read_snapshot'.txs
                          \/ t.seq > read_snapshot'.seq /\ Carried(t)'
  BY DEF ReadComplete, Filter
<1>0. /\ BuilderTypeOK /\ WorkerTypeOK /\ epoch' = epoch
      /\ LoopInv /\ ReadComplete /\ last_seq \in Nat /\ last_seq' \in Nat
  BY EpochStep, BuilderTypeStep DEF TypeInv, TypeOK, GapInv, BuilderTypeOK
<1>1. CASE ReadPending
  <2>1. read_snapshot'.seq = last_seq /\ read_snapshot'.txs = Filter(pending)
    BY <1>1 DEF ReadPending, PendingSnapshot
  <2>2. last_seq' = last_seq /\ pending' = pending
    BY <1>1 DEF ReadPending, builderVars
  <2> QED
    BY <1>0, <2>1, <2>2
<1>2. CASE read_snapshot' = read_snapshot
  <2>1. Running
    <3>1. event.kind = "block"
      BY <1>2 DEF HandlerInv
    <3>2. event # NoEvent
      BY <3>1 DEF NoEvent
    <3> QED
      BY <1>0, <3>2, RunningStep DEF LoopInv
  <2>2. /\ read_snapshot.seq <= last_seq /\ read_snapshot.seq \in Nat
        /\ \A t \in Filter(pending) :
              \/ t \in read_snapshot.txs
              \/ t.seq > read_snapshot.seq /\ Carried(t)
    BY <1>0, <1>2, <2>1 DEF ReadComplete, WorkerTypeOK
  <2>3. \A t : ~InHand(t)'
    <3>1. HandlerInv'
      BY HandlerStep
    <3>2. event'.kind = "block"
      BY <3>1 DEF HandlerInv
    <3> QED
      BY <3>2 DEF InHand
  <2>4. ASSUME NEW t \in Filter(pending')
        PROVE  t \in read_snapshot.txs \/ (t.seq > read_snapshot.seq /\ Carried(t)')
    <3>1. CASE t \in pending
      <4>1. t \in Filter(pending)
        BY <2>4, <3>1 DEF Filter
      <4> QED
        BY <1>0, <2>2, <2>3, <4>1, CarriedStep
    <3>2. CASE t \in unsent' /\ t.seq = last_seq + 1
      <4>1. Carried(t)'
        BY <3>2 DEF Carried
      <4> QED
        BY <1>0, <2>2, <3>2, <4>1
    <3> QED
      BY <1>0, <2>4, <3>1, <3>2, PendingStep DEF Filter
  <2>5. read_snapshot.seq <= last_seq'
    BY <1>0, <2>2, PendingStep
  <2> QED
    BY <1>2, <2>4, <2>5
<1>3. ReadPending \/ read_snapshot' = read_snapshot \/ read_snapshot' = NoSnapshot
  BY DEF Next, vars, workerVars, BuilderStep, SyncerThread, SyncerFetch, SyncerPublish,
     SyncerFail, FeedReceive, WorkerThread, StartSyncer, OpenFeed, EnterLoop,
     StartupFail, TakeEvent, LeaveLoop, HandlePendingTx, ReadPool,
     RequestFail, FinishNewBlock, EventDone, Stop, StopRunning, StopFirst, StopQueue, StopWaiters,
     RuntimeThread, RuntimeWait, RuntimeClosed, RuntimeTakeInvalid,
     RuntimeTakeCandidate, RuntimeDone, Idle
<1> QED
  BY <1>1, <1>2, <1>3

\* The steps of the worker and of the Runtime that change candidate::State or
\* finish an event; every other step leaves the state and what the worker holds.
LEMMA StateOrHandFrame ==
  ASSUME [Next]_vars
  PROVE  \/ HandlePendingTx \/ RequestFail \/ FinishNewBlock \/ RuntimeTakeCandidate
         \/ UNCHANGED <<stateVars, delivered>> /\ (UNCHANGED event \/ event = NoEvent)
<1>1. CASE BuilderStep \/ SyncerThread \/ FeedReceive \/ Idle \/ UNCHANGED vars
  BY <1>1 DEF BuilderStep, SyncerThread, SyncerFetch, SyncerPublish, SyncerFail,
              FeedReceive, Idle, vars, workerVars, runtimeVars
<1>2. CASE StartSyncer \/ OpenFeed \/ EnterLoop \/ StartupFail \/ TakeEvent \/ LeaveLoop
           \/ ReadPool \/ ReadPending
  BY <1>2 DEF StartSyncer, OpenFeed, EnterLoop, StartupFail, CloseStateWaiters,
              TakeEvent, LeaveLoop, ReadPool, ReadPending, runtimeVars
<1>3. CASE Stop \/ RuntimeWait \/ RuntimeClosed \/ RuntimeTakeInvalid \/ RuntimeDone
  BY <1>3 DEF Stop, StopRunning, StopFirst, StopQueue, StopWaiters, CloseStateWaiters, RuntimeWait,
              RuntimeClosed, RuntimeTakeInvalid, RuntimeDone, workerVars, runtimeVars
<1> QED
  BY <1>1, <1>2, <1>3 DEF Next, WorkerThread, RuntimeThread

\* One step keeps a valid state complete.
LEMMA StateStep ==
  ASSUME TypeInv, HandlerInv, GapInv, [Next]_vars
  PROVE  StateComplete'
<1> DEFINE Covered(t) == \/ t \in candidates
                         \/ Delivered(t)
                         \/ t.seq > snapshot_seq /\ (Carried(t) \/ InHand(t))
<1> SUFFICES ASSUME Running', epoch' = 0, valid'
             PROVE  snapshot_seq' <= last_seq' /\ \A t \in Filter(pending') : Covered(t)'
  BY DEF StateComplete, Filter
<1>0. /\ BuilderTypeOK /\ WorkerTypeOK /\ StateTypeOK /\ epoch' = epoch /\ epoch = 0
      /\ LoopInv /\ FlightInv /\ ReadComplete /\ StateComplete
      /\ last_seq \in Nat /\ last_seq' \in Nat /\ snapshot_seq \in Nat
  BY EpochStep, BuilderTypeStep DEF TypeInv, TypeOK, GapInv, BuilderTypeOK, StateTypeOK
<1>1. ASSUME event # NoEvent \/ valid PROVE Running
  BY <1>0, <1>1, RunningStep DEF LoopInv
<1>2. ASSUME valid
      PROVE  snapshot_seq <= last_seq /\ \A t \in Filter(pending) : Covered(t)
  BY <1>0, <1>1, <1>2 DEF StateComplete
<1>3. CASE UNCHANGED <<stateVars, delivered>> /\ (UNCHANGED event \/ event = NoEvent)
  <2>1. valid /\ UNCHANGED <<block_number, snapshot_seq, candidates, delivered>>
    BY <1>3 DEF stateVars
  <2>2. ASSUME NEW t \in Filter(pending') PROVE Covered(t)'
    <3>1. CASE t \in pending
      <4>1. t \in Filter(pending)
        BY <2>2, <3>1 DEF Filter
      <4>2. CASE t \in candidates \/ Delivered(t)
        BY <2>1, <4>2 DEF Delivered
      <4>3. CASE t.seq > snapshot_seq /\ Carried(t)
        BY <1>0, <2>1, <4>3, CarriedStep
      <4>4. CASE t.seq > snapshot_seq /\ InHand(t)
        BY <1>3, <2>1, <4>4 DEF InHand, NoEvent
      <4> QED
        BY <1>2, <2>1, <4>1, <4>2, <4>3, <4>4
    <3>2. CASE t \in unsent' /\ t.seq = last_seq + 1
      <4>1. Carried(t)'
        BY <3>2 DEF Carried
      <4> QED
        BY <1>0, <1>2, <2>1, <3>2, <4>1
    <3> QED
      BY <1>0, <2>2, <3>1, <3>2, PendingStep DEF Filter
  <2>3. snapshot_seq' <= last_seq'
    BY <1>0, <1>2, <2>1, PendingStep
  <2> QED
    BY <2>2, <2>3
<1>4. CASE HandlePendingTx
  <2>1. /\ event.kind = "tx" /\ event.tx \in Tx /\ event # NoEvent
        /\ event.tx.epoch = 0
    BY <1>0, <1>4 DEF HandlePendingTx, WorkerTypeOK, Event, NoEvent, FlightInv
  <2>2. /\ UNCHANGED <<pending, last_seq, block_number, snapshot_seq, valid, delivered>>
        /\ ~closed
    <3>1. ~closed
      BY <1>0, <1>1, <2>1 DEF LoopInv, Running, InputsOn
    <3> QED
      BY <1>4, <3>1 DEF HandlePendingTx, ApplyPendingCandidate, ApplyPendingTx, builderVars, stateVars
  <2>3. ASSUME NEW t PROVE Carried(t) => Carried(t)'
    BY <1>4 DEF HandlePendingTx, EventDone, builderVars, Carried, StreamTxs, QueuedTxs
  <2>4. ASSUME NEW t \in Filter(pending) PROVE Covered(t)'
    <3>1. t \in Tx /\ t.epoch = 0 /\ t \in pending
      BY <1>0, <2>4 DEF Filter, BuilderTypeOK, TypeInv, OneTxPerSeq
    <3>2. CASE Filter({event.tx}) # {} /\ AcceptsPendingTx(event.tx)
      <4>1. candidates' = {d \in candidates : d.seq # event.tx.seq} \cup {event.tx}
        BY <1>4, <2>2, <3>2 DEF HandlePendingTx, ApplyPendingCandidate, ApplyPendingTx,
                                InsertOrAssign
      <4>2. t.seq = event.tx.seq => t = event.tx
        BY <2>1, <3>1 DEF Tx
      <4> QED
        BY <1>2, <2>2, <2>3, <2>4, <4>1, <4>2 DEF Delivered, InHand
    <3>3. CASE ~(Filter({event.tx}) # {} /\ AcceptsPendingTx(event.tx))
      <4>1. candidates' = candidates
        BY <1>4, <3>3 DEF HandlePendingTx, ApplyPendingCandidate, stateVars
      <4>2. valid /\ Covered(t)
        BY <1>2, <2>2, <2>4
      <4>3. ~(t.seq > snapshot_seq /\ InHand(t))
        <5> SUFFICES ASSUME t.seq > snapshot_seq, InHand(t) PROVE FALSE
          OBVIOUS
        <5>1. event.tx = t /\ t \in Filter({event.tx})
          BY <2>4 DEF InHand, Filter
        <5> QED
          BY <1>0, <2>2, <3>1, <3>3, <4>2, <5>1 DEF AcceptsPendingTx, CoveredBySnapshot, Tx
      <4> QED
        BY <2>2, <2>3, <4>1, <4>2, <4>3 DEF Delivered
    <3> QED
      BY <3>2, <3>3
  <2> QED
    BY <1>2, <2>2, <2>4
<1>5. CASE RequestFail
  <2>1. UNCHANGED stateVars /\ event.kind = "block" /\ UNCHANGED <<pending, last_seq, delivered>>
    BY <1>5 DEF RequestFail, MarkStateInvalid, MarkInvalid
  <2>2. ASSUME NEW t PROVE Carried(t) => Carried(t)'
    BY <1>5 DEF RequestFail, EventDone, Carried, StreamTxs, QueuedTxs
  <2>3. UNCHANGED <<block_number, snapshot_seq, candidates>> /\ valid
    BY <2>1 DEF stateVars
  <2> QED
    BY <1>2, <2>1, <2>2, <2>3 DEF Delivered, InHand
<1>6. CASE FinishNewBlock
  <2>1. event.kind = "block" /\ read_snapshot # NoSnapshot /\ UNCHANGED <<pending, last_seq, delivered>>
    BY <1>6 DEF FinishNewBlock, ApplyStateSnapshot, builderVars
  <2>2. ASSUME NEW t PROVE Carried(t) => Carried(t)'
    BY <1>6 DEF FinishNewBlock, EventDone, builderVars, Carried, StreamTxs, QueuedTxs
  <2>3. CASE ~closed /\ AcceptsSnapshot(event.block, read_snapshot.seq)
    <3>1. candidates' = read_snapshot.txs /\ snapshot_seq' = read_snapshot.seq
      BY <1>6, <2>3 DEF FinishNewBlock, ApplyStateSnapshot, ApplySnapshot
    <3>2. event # NoEvent
      BY <2>1 DEF NoEvent
    <3> QED
      BY <1>0, <1>1, <2>1, <2>2, <3>1, <3>2 DEF ReadComplete
  <2>4. CASE ~(~closed /\ AcceptsSnapshot(event.block, read_snapshot.seq))
    <3>1. UNCHANGED <<block_number, snapshot_seq, candidates>> /\ valid
      BY <1>6, <2>4 DEF FinishNewBlock, ApplyStateSnapshot, stateVars
    <3> QED
      BY <1>2, <2>1, <2>2, <3>1 DEF Delivered, InHand
  <2> QED
    BY <2>3, <2>4
<1>7. CASE RuntimeTakeCandidate
  <2>1. UNCHANGED <<pending, last_seq, event, block_number, snapshot_seq, valid>>
    BY <1>7 DEF RuntimeTakeCandidate, PopNextSnapshot, builderVars, workerVars, stateVars
  <2>2. ASSUME NEW t PROVE Carried(t) => Carried(t)'
    BY <1>7 DEF RuntimeTakeCandidate, builderVars, Carried, StreamTxs, QueuedTxs
  <2>3. PICK c \in candidates :
           /\ candidates' = candidates \ {c}
           /\ delivered' = delivered \cup {[tx |-> c, block |-> block_number]}
    BY <1>7, <2>1 DEF RuntimeTakeCandidate, PopNextSnapshot
  <2>4. ASSUME NEW t \in Filter(pending) PROVE Covered(t)'
    BY <1>2, <2>1, <2>2, <2>3 DEF Delivered, InHand
  <2> QED
    BY <1>2, <2>1, <2>4
<1> QED
  BY <1>3, <1>4, <1>5, <1>6, <1>7, StateOrHandFrame

\* The invariant of snapshot and stream holds in every reachable state.
THEOREM GapInvariant == Spec => []GapInv
<1>1. Init => GapInv
  <2> SUFFICES ASSUME Init PROVE GapInv
    OBVIOUS
  <2>1. LoopInv
    BY DEF Init, StateInit, LoopInv, Running
  <2>2. FlightInv
    BY DEF Init, BuilderInit, FlightInv, StreamTxs, QueuedTxs, NoEvent
  <2>3. ReadComplete /\ StateComplete
    BY DEF Init, ReadComplete, StateComplete, Running
  <2> QED
    BY <2>1, <2>2, <2>3 DEF GapInv
<1>2. IInv /\ GapInv /\ [Next]_vars => GapInv'
  BY LoopStep, FlightStep, ReadStep, StateStep DEF IInv, GapInv
<1> QED
  BY <1>1, <1>2, InvariantHolds, PTL DEF Spec

\* Snapshot and stream leave no gap while the builder lives its first life:
\* request_snapshot, publish_pending_transaction and State::apply_pending_tx
\* together bring every pending swap to the local mempool or to the Runtime,
\* whatever the order of mempool read, stream and block events. After a restart
\* of the builder sequence numbers start again at 1, and until they have caught
\* up State::apply_pending_tx takes a new transaction for a covered one.
THEOREM NoSilentLossInFirstLife == Spec => [](epoch = 0 => NoSilentLoss)
<1>1. GapInv => (epoch = 0 => NoSilentLoss)
  BY DEF GapInv, StateComplete, NoSilentLoss, Running, Carried, InHand, Delivered, InFlight
<1> QED
  BY <1>1, GapInvariant, PTL

-----------------------------------------------------------------------------
(* The pipeline implements CandidateFeed                                   *)

\* Distinct messages, distinct transactions of a sequence of events, and block
\* events that strictly ascend from above low up to high.
DistinctMessages(s) == \A i, j \in 1 .. Len(s) : s[i] = s[j] => i = j
DistinctTxs(q) ==
    \A i, j \in 1 .. Len(q) :
        q[i].kind = "tx" /\ q[j].kind = "tx" /\ q[i].tx = q[j].tx => i = j
Ascends(q, low, high) ==
    /\ low <= high
    /\ \A i \in 1 .. Len(q) : q[i].kind = "block" => low < q[i].block /\ q[i].block <= high
    /\ \A i, j \in 1 .. Len(q) :
          i < j /\ q[i].kind = "block" /\ q[j].kind = "block" => q[i].block < q[j].block

\* The highest block the worker has dealt with or has in hand.
Reached == IF event.kind = "block" THEN event.block ELSE block_number

\* Block events come in ascending order: each is above the state's block and
\* above those before it, and the syncer's own numbers are above them all.
BlockOrder ==
    /\ current_block <= head
    /\ fetched # NoBlock => current_block < fetched /\ fetched <= head
    /\ event.kind = "block" => block_number < event.block
    /\ Ascends(queue, Reached, current_block)

\* The builder gave this number already.
Numbered(t) == t.epoch < epoch \/ (t.epoch = epoch /\ t.seq <= last_seq)

Travelling == unsent \cup MessagesIn(stream) \cup TxsIn(queue)

\* A transaction travels from the builder to the worker once: it is in one
\* place at a time, and only there.
TravelInv ==
    /\ unsent \cap MessagesIn(stream) = {}
    /\ unsent \cap TxsIn(queue) = {}
    /\ MessagesIn(stream) \cap TxsIn(queue) = {}
    /\ DistinctMessages(stream)
    /\ DistinctTxs(queue)
    /\ \A t \in Travelling : Numbered(t)
    /\ event.kind = "tx" => event.tx \notin Travelling /\ Numbered(event.tx)

\* A mempool answer holds nothing above its own number.
ReadInv == \A t \in read_snapshot.txs : Numbered(t) /\ t.seq <= read_snapshot.seq

\* Nothing in the local mempool was handed out for this block, and what is
\* still on its way though the state had it is covered by the snapshot.
FreshInv ==
    /\ \A d \in delivered : d.block <= block_number /\ Numbered(d.tx)
    /\ \A c \in candidates : Numbered(c) /\ ~Delivered(c)
    /\ \A t \in Tx : /\ t \in Travelling \/ InHand(t)
                     /\ t \in candidates \/ Delivered(t)
                     => t.seq <= snapshot_seq

\* While the chain was never rewound.
FeedInv ==
    /\ invalid_snapshot_pending => block_number # NoBlock
    /\ TravelInv /\ ReadInv
    /\ rewinds = 0 => BlockOrder /\ FreshInv

\* Appending a message that is not there yet keeps messages distinct.
LEMMA DistinctMessagesAppend ==
  ASSUME NEW s \in Seq(Tx), NEW t \in Tx, DistinctMessages(s), t \notin MessagesIn(s)
  PROVE  DistinctMessages(Append(s, t))
<1> DEFINE r == Append(s, t)
<1>1. /\ Len(r) = Len(s) + 1 /\ Len(s) \in Nat
      /\ r[Len(s) + 1] = t /\ \A i \in 1 .. Len(s) : r[i] = s[i]
  BY AppendProperties
<1> HIDE DEF r
<1>2. \A i \in 1 .. Len(s) : s[i] # t
  BY DEF MessagesIn
<1>3. ASSUME NEW i \in 1 .. Len(r), NEW j \in 1 .. Len(r), r[i] = r[j]
      PROVE  i = j
  <2>1. CASE i \in 1 .. Len(s) /\ j \in 1 .. Len(s)
    BY <1>1, <1>3, <2>1 DEF DistinctMessages
  <2>2. CASE i = Len(s) + 1 \/ j = Len(s) + 1
    <3>1. i \in 1 .. Len(s) \/ i = Len(s) + 1
      BY <1>1
    <3>2. j \in 1 .. Len(s) \/ j = Len(s) + 1
      BY <1>1
    <3> QED
      BY <1>1, <1>2, <1>3, <2>2, <3>1, <3>2
  <2> QED
    BY <1>1, <2>1, <2>2
<1> QED
  BY <1>3 DEF r, DistinctMessages

\* The first of distinct messages is not among the others.
LEMMA DistinctMessagesTail ==
  ASSUME NEW s \in Seq(Tx), s # <<>>, DistinctMessages(s)
  PROVE  DistinctMessages(Tail(s)) /\ Head(s) \notin MessagesIn(Tail(s))
<1> DEFINE r == Tail(s)
<1>1. /\ Len(r) = Len(s) - 1 /\ Len(s) \in Nat /\ Len(s) >= 1
      /\ Head(s) = s[1] /\ \A i \in 1 .. Len(r) : r[i] = s[i + 1]
  BY HeadTailProperties
<1> HIDE DEF r
<1>2. ASSUME NEW i \in 1 .. Len(r), NEW j \in 1 .. Len(r), r[i] = r[j]
      PROVE  i = j
  <2>1. i + 1 \in 1 .. Len(s) /\ j + 1 \in 1 .. Len(s) /\ s[i + 1] = s[j + 1]
    BY <1>1, <1>2
  <2>2. i + 1 = j + 1
    BY <2>1 DEF DistinctMessages
  <2> QED
    BY <2>2
<1>3. ASSUME NEW i \in 1 .. Len(r) PROVE r[i] # Head(s)
  <2>1. i + 1 \in 1 .. Len(s) /\ 1 \in 1 .. Len(s) /\ i + 1 # 1
    BY <1>1
  <2> QED
    BY <1>1, <2>1 DEF DistinctMessages
<1> QED
  BY <1>2, <1>3 DEF r, DistinctMessages, MessagesIn

\* The same for the transactions in the event queue.
LEMMA DistinctTxsAppend ==
  ASSUME NEW q \in Seq(Event), NEW e \in Event, DistinctTxs(q),
         e.kind = "tx" => e.tx \notin TxsIn(q)
  PROVE  DistinctTxs(Append(q, e))
<1> DEFINE r == Append(q, e)
<1>1. /\ Len(r) = Len(q) + 1 /\ Len(q) \in Nat
      /\ r[Len(q) + 1] = e /\ \A i \in 1 .. Len(q) : r[i] = q[i]
  BY AppendProperties
<1> HIDE DEF r
<1>2. \A i \in 1 .. Len(q) : ~(e.kind = "tx" /\ q[i].kind = "tx" /\ q[i].tx = e.tx)
  BY DEF TxsIn
<1>3. ASSUME NEW i \in 1 .. Len(r), NEW j \in 1 .. Len(r),
             r[i].kind = "tx", r[j].kind = "tx", r[i].tx = r[j].tx
      PROVE  i = j
  <2>1. CASE i \in 1 .. Len(q) /\ j \in 1 .. Len(q)
    BY <1>1, <1>3, <2>1 DEF DistinctTxs
  <2>2. CASE i = Len(q) + 1 \/ j = Len(q) + 1
    <3>1. i \in 1 .. Len(q) \/ i = Len(q) + 1
      BY <1>1
    <3>2. j \in 1 .. Len(q) \/ j = Len(q) + 1
      BY <1>1
    <3> QED
      BY <1>1, <1>2, <1>3, <2>2, <3>1, <3>2
  <2> QED
    BY <1>1, <2>1, <2>2
<1> QED
  BY <1>3 DEF r, DistinctTxs

\* Taking an event leaves a queue without repetitions, and no second copy of it.
LEMMA DistinctTxsTail ==
  ASSUME NEW q \in Seq(Event), q # <<>>, DistinctTxs(q)
  PROVE  /\ DistinctTxs(Tail(q))
         /\ Head(q).kind = "tx" => Head(q).tx \notin TxsIn(Tail(q))
<1> DEFINE r == Tail(q)
<1>1. /\ Len(r) = Len(q) - 1 /\ Len(q) \in Nat /\ Len(q) >= 1
      /\ Head(q) = q[1] /\ \A i \in 1 .. Len(r) : r[i] = q[i + 1]
  BY HeadTailProperties
<1> HIDE DEF r
<1>2. ASSUME NEW i \in 1 .. Len(r), NEW j \in 1 .. Len(r),
             r[i].kind = "tx", r[j].kind = "tx", r[i].tx = r[j].tx
      PROVE  i = j
  <2>1. i + 1 \in 1 .. Len(q) /\ j + 1 \in 1 .. Len(q)
    BY <1>1
  <2>2. r[i] = q[i + 1] /\ r[j] = q[j + 1]
    BY <1>1
  <2>3. i + 1 = j + 1
    BY <1>2, <2>1, <2>2 DEF DistinctTxs
  <2> QED
    BY <2>3
<1>3. ASSUME NEW i \in 1 .. Len(r), r[i].kind = "tx", Head(q).kind = "tx"
      PROVE  r[i].tx # Head(q).tx
  <2>1. i + 1 \in 1 .. Len(q) /\ 1 \in 1 .. Len(q) /\ i + 1 # 1
    BY <1>1
  <2> QED
    BY <1>1, <1>3, <2>1 DEF DistinctTxs
<1> QED
  BY <1>2, <1>3 DEF r, DistinctTxs, TxsIn

\* Block events keep ascending when a higher one is appended.
LEMMA AscendsAppend ==
  ASSUME NEW q \in Seq(Event), NEW e \in Event, NEW low \in Int, NEW high \in Int,
         NEW top \in Int, Ascends(q, low, high), high <= top,
         e.kind = "block" => high < e.block /\ e.block <= top
  PROVE  Ascends(Append(q, e), low, top)
<1> DEFINE r == Append(q, e)
<1>1. /\ Len(r) = Len(q) + 1 /\ Len(q) \in Nat
      /\ r[Len(q) + 1] = e /\ \A i \in 1 .. Len(q) : r[i] = q[i]
  BY AppendProperties
<1> HIDE DEF r
<1>2. \A i \in 1 .. Len(q) : q[i].kind = "block" => q[i].block \in Int
  <2>1. \A i \in 1 .. Len(q) : q[i] \in Event
    BY ElementOfSeq
  <2> QED
    BY <2>1 DEF Event, Block
<1>3. e.kind = "block" => e.block \in Int
  BY DEF Event, Block
<1>4. ASSUME NEW i \in 1 .. Len(r), r[i].kind = "block"
      PROVE  low < r[i].block /\ r[i].block <= top
  <2>1. CASE i \in 1 .. Len(q)
    BY <1>1, <1>2, <1>4, <2>1 DEF Ascends
  <2>2. CASE i = Len(q) + 1
    BY <1>1, <1>3, <1>4, <2>2 DEF Ascends
  <2> QED
    BY <1>1, <2>1, <2>2
<1>5. ASSUME NEW i \in 1 .. Len(r), NEW j \in 1 .. Len(r), i < j,
             r[i].kind = "block", r[j].kind = "block"
      PROVE  r[i].block < r[j].block
  <2>0. i \in 1 .. Len(q)
    BY <1>1, <1>5
  <2>1. CASE j \in 1 .. Len(q)
    BY <1>1, <1>5, <2>0, <2>1 DEF Ascends
  <2>2. CASE j = Len(q) + 1
    <3>1. r[j] = e /\ r[i] = q[i]
      BY <1>1, <2>0, <2>2
    <3>2. q[i].block <= high
      BY <1>5, <2>0, <3>1 DEF Ascends
    <3> QED
      BY <1>2, <1>3, <1>5, <2>0, <3>1, <3>2
  <2> QED
    BY <1>1, <2>1, <2>2
<1>6. low <= top
  BY DEF Ascends
<1> QED
  BY <1>4, <1>5, <1>6 DEF r, Ascends

\* The first of ascending block events is below the others.
LEMMA AscendsTail ==
  ASSUME NEW q \in Seq(Event), q # <<>>, NEW low \in Int, NEW high \in Int,
         Ascends(q, low, high)
  PROVE  /\ Head(q).kind = "block" =>
               low < Head(q).block /\ Ascends(Tail(q), Head(q).block, high)
         /\ Ascends(Tail(q), low, high)
<1> DEFINE r == Tail(q)
<1>1. /\ Len(r) = Len(q) - 1 /\ Len(q) \in Nat /\ Len(q) >= 1
      /\ Head(q) = q[1] /\ \A i \in 1 .. Len(r) : r[i] = q[i + 1]
  BY HeadTailProperties
<1> HIDE DEF r
<1>2. 1 \in 1 .. Len(q) /\ \A i \in 1 .. Len(r) : i + 1 \in 1 .. Len(q) /\ 1 < i + 1
  BY <1>1
<1>3. \A i \in 1 .. Len(r) : r[i].kind = "block" => low < r[i].block /\ r[i].block <= high
  BY <1>1, <1>2 DEF Ascends
<1>4. ASSUME NEW i \in 1 .. Len(r), NEW j \in 1 .. Len(r), i < j,
             r[i].kind = "block", r[j].kind = "block"
      PROVE  r[i].block < r[j].block
  <2>1. r[i] = q[i + 1] /\ r[j] = q[j + 1]
    BY <1>1
  <2>2. i + 1 < j + 1
    BY <1>1, <1>4
  <2> QED
    BY <1>2, <1>4, <2>1, <2>2 DEF Ascends
<1>5. ASSUME Head(q).kind = "block"
      PROVE  /\ low < Head(q).block /\ Head(q).block <= high
             /\ \A i \in 1 .. Len(r) : r[i].kind = "block" => Head(q).block < r[i].block
  BY <1>1, <1>2, <1>5 DEF Ascends
<1>6. low <= high
  BY DEF Ascends
<1> QED
  BY <1>3, <1>4, <1>5, <1>6 DEF r, Ascends

\* The bounds may be relaxed.
LEMMA AscendsRelax ==
  ASSUME NEW q \in Seq(Event), NEW low \in Int, NEW high \in Int, NEW bottom \in Int,
         NEW top \in Int, Ascends(q, low, high), bottom <= low, high <= top
  PROVE  Ascends(q, bottom, top)
<1>1. \A i \in 1 .. Len(q) : q[i].kind = "block" => q[i].block \in Int
  <2>1. \A i \in 1 .. Len(q) : q[i] \in Event
    BY ElementOfSeq
  <2> QED
    BY <2>1 DEF Event, Block
<1> QED
  BY <1>1 DEF Ascends

\* A number once given stays given, and only SubmitPublicTx gives a new one.
LEMMA NumberedStep ==
  ASSUME TypeInv, [Next]_vars, NEW t \in Tx, Numbered(t)
  PROVE  Numbered(t)'
<1>0. last_seq \in Nat /\ epoch \in Nat /\ t.seq \in Nat /\ t.epoch \in Nat
      /\ last_seq' \in Nat
  BY BuilderTypeStep DEF TypeInv, TypeOK, BuilderTypeOK, Tx
<1>1. CASE RestartBuilder
  BY <1>0, <1>1 DEF RestartBuilder, Numbered
<1>2. CASE epoch' = epoch
  BY <1>0, <1>2, PendingStep DEF Numbered
<1>3. RestartBuilder \/ epoch' = epoch
  <2>1. CASE BuilderStep
    BY <2>1 DEF BuilderStep, BuilderNext, SubmitPublicTx, Broadcast, MineBlock,
       RewindChain, AcceptWebsocket, AddSubscriber, DropWebsocket
  <2>2. CASE SyncerPublish \/ FeedReceive \/ TakeEvent
    BY <2>2 DEF SyncerPublish, FeedReceive, TakeEvent, builderVars
  <2> QED
    BY <2>1, <2>2, CarriageFrame
<1> QED
  BY <1>1, <1>2, <1>3

\* One step keeps a transaction in one place.
LEMMA TravelStep ==
  ASSUME TypeInv, TravelInv, [Next]_vars
  PROVE  /\ TravelInv'
         /\ \A t \in Tx : t \in Travelling' \/ InHand(t)' =>
               t \in Travelling \/ InHand(t) \/ ~Numbered(t)
<1> DEFINE Once == /\ unsent \cap MessagesIn(stream) = {}
                   /\ unsent \cap TxsIn(queue) = {}
                   /\ MessagesIn(stream) \cap TxsIn(queue) = {}
                   /\ DistinctMessages(stream)
                   /\ DistinctTxs(queue)
                   /\ event.kind = "tx" => event.tx \notin Travelling
           Older == \A t \in Tx : t \in Travelling' \/ InHand(t)' =>
                       t \in Travelling \/ InHand(t) \/ (~Numbered(t) /\ Numbered(t)')
<1>0. /\ BuilderTypeOK /\ WorkerTypeOK /\ SyncerTypeOK /\ BuilderTypeOK' /\ WorkerTypeOK'
      /\ Once /\ (\A t \in Travelling : Numbered(t))
      /\ (event.kind = "tx" => Numbered(event.tx))
  BY BuilderTypeStep, WorkerTypeStep DEF TypeInv, TypeOK, TravelInv
<1>1. SUFFICES Once' /\ Older
  <2>1. \A t \in Travelling' : t \in Tx
    <3>1. \A i \in 1 .. Len(queue') : queue'[i] \in Event
      BY <1>0, ElementOfSeq DEF WorkerTypeOK
    <3>2. \A i \in 1 .. Len(queue') : queue'[i].kind = "tx" => queue'[i].tx \in Tx
      BY <3>1 DEF Event
    <3>3. \A i \in 1 .. Len(stream') : stream'[i] \in Tx
      BY <1>0, ElementOfSeq DEF BuilderTypeOK
    <3>4. unsent' \subseteq Tx
      BY <1>0 DEF BuilderTypeOK
    <3> QED
      BY <3>2, <3>3, <3>4 DEF Travelling, MessagesIn, TxsIn
  <2>2. event'.kind = "tx" => event'.tx \in Tx
    BY <1>0 DEF WorkerTypeOK, Event, NoEvent
  <2>3. ASSUME NEW t \in Tx, t \in Travelling' \/ InHand(t)' PROVE Numbered(t)'
    BY <1>0, <1>1, <2>3, NumberedStep DEF InHand
  <2>4. event'.kind = "tx" => Numbered(event.tx)'
    BY <2>2, <2>3 DEF InHand
  <2>5. \A t \in Travelling' : Numbered(t)'
    BY <2>1, <2>3
  <2> QED
    BY <1>1, <2>4, <2>5 DEF TravelInv
<1>2. CASE BuilderStep
  <2>0. UNCHANGED <<queue, event>>
    BY <1>2 DEF BuilderStep, workerVars
  <2>1. CASE SubmitPublicTx
    <3>1. PICK t \in Tx : AddTransaction(t) /\ unsent' = unsent \cup {t}
      BY <2>1 DEF SubmitPublicTx
    <3>2. /\ t.epoch = epoch /\ t.seq = last_seq + 1 /\ last_seq' = last_seq + 1
          /\ epoch' = epoch /\ UNCHANGED stream
      BY <2>1, <3>1 DEF SubmitPublicTx, AddTransaction
    <3>3. ~Numbered(t) /\ Numbered(t)'
      BY <1>0, <3>2 DEF Numbered, BuilderTypeOK
    <3>4. t \notin Travelling /\ ~InHand(t)
      BY <1>0, <3>3 DEF InHand
    <3> QED
      BY <1>0, <2>0, <3>1, <3>2, <3>3, <3>4 DEF Travelling, InHand
  <2>2. ASSUME NEW t \in unsent, Broadcast(t)
        PROVE  Once' /\ Older
    <3>1. unsent' = unsent \ {t}
      BY <2>2 DEF Broadcast
    <3>2. CASE ws = "subscribed"
      <4>1. stream' = Append(stream, t) /\ t \in Tx /\ stream \in Seq(Tx)
        BY <1>0, <2>2, <3>2 DEF Broadcast, BuilderTypeOK
      <4>2. MessagesIn(stream') = MessagesIn(stream) \cup {t}
        BY <4>1, MessagesInAppend
      <4>3. DistinctMessages(stream')
        BY <1>0, <4>1, DistinctMessagesAppend
      <4> QED
        BY <1>0, <2>0, <3>1, <4>2, <4>3 DEF Travelling, InHand
    <3>3. CASE ws # "subscribed"
      <4>1. stream' = stream
        BY <2>2, <3>3 DEF Broadcast
      <4> QED
        BY <1>0, <2>0, <3>1, <4>1 DEF Travelling, InHand
    <3> QED
      BY <3>2, <3>3
  <2>3. CASE UNCHANGED <<unsent, stream>>
    BY <1>0, <2>0, <2>3 DEF Travelling, InHand
  <2>4. CASE unsent' \subseteq unsent /\ stream' = <<>>
    <3>1. MessagesIn(stream') = {} /\ DistinctMessages(stream')
      BY <2>4 DEF MessagesIn, DistinctMessages
    <3> QED
      BY <1>0, <2>0, <2>4, <3>1 DEF Travelling, InHand
  <2>5. \/ SubmitPublicTx \/ \E t \in unsent : Broadcast(t)
        \/ UNCHANGED <<unsent, stream>> \/ (unsent' \subseteq unsent /\ stream' = <<>>)
    BY <1>2 DEF BuilderStep, BuilderNext, MineBlock, RewindChain, AcceptWebsocket,
                AddSubscriber, DropWebsocket, RestartBuilder
  <2> QED
    BY <2>1, <2>2, <2>3, <2>4, <2>5
<1>3. CASE SyncerPublish
  <2>1. BlockEvent(fetched) \in Event /\ BlockEvent(fetched).kind = "block"
    BY <1>0, <1>3 DEF SyncerPublish, SyncerTypeOK, BlockEvent, Event
  <2>2. TxsIn(queue') = TxsIn(queue) /\ DistinctTxs(queue')
    BY <1>0, <1>3, <2>1, TxsInAppend, DistinctTxsAppend
       DEF SyncerPublish, PublishNewBlock, WorkerTypeOK
  <2>3. UNCHANGED <<unsent, stream, event>>
    BY <1>3 DEF SyncerPublish, builderVars, workerVars
  <2> QED
    BY <1>0, <2>2, <2>3 DEF Travelling, InHand
<1>4. CASE FeedReceive
  <2> DEFINE t == Head(stream)
  <2>1. /\ stream # <<>> /\ stream' = Tail(stream) /\ stream \in Seq(Tx)
        /\ UNCHANGED <<unsent, event>>
    BY <1>0, <1>4 DEF FeedReceive, BuilderTypeOK, workerVars
  <2>2. t \in Tx /\ MessagesIn(stream) = MessagesIn(stream') \cup {t}
    BY <2>1, MessagesInTail, TailType
  <2>3. DistinctMessages(stream') /\ t \notin MessagesIn(stream')
    BY <1>0, <2>1, DistinctMessagesTail
  <2>4. TxEvent(t) \in Event /\ TxEvent(t).kind = "tx" /\ TxEvent(t).tx = t
    BY <2>2 DEF TxEvent, Event
  <2>5. t \notin TxsIn(queue)
    BY <1>0, <2>2
  <2>6. CASE CanPush
    <3>1. queue' = Append(queue, TxEvent(t)) /\ queue \in Seq(Event)
      BY <1>0, <1>4, <2>6 DEF FeedReceive, PublishPendingTransaction, WorkerTypeOK
    <3>2. TxsIn(queue') = TxsIn(queue) \cup {t}
      BY <2>4, <3>1, TxsInAppend
    <3>3. DistinctTxs(queue')
      BY <1>0, <2>4, <2>5, <3>1, DistinctTxsAppend
    <3> HIDE DEF t
    <3> QED
      BY <1>0, <2>1, <2>2, <2>3, <2>5, <3>2, <3>3 DEF Travelling, InHand
  <2>7. CASE ~CanPush
    <3>1. queue' = queue
      BY <1>4, <2>7 DEF FeedReceive, PublishPendingTransaction
    <3> HIDE DEF t
    <3> QED
      BY <1>0, <2>1, <2>2, <2>3, <3>1 DEF Travelling, InHand
  <2> QED
    BY <2>6, <2>7
<1>5. CASE TakeEvent
  <2>1. /\ queue # <<>> /\ queue \in Seq(Event) /\ queue' = Tail(queue)
        /\ event' = Head(queue) /\ UNCHANGED <<unsent, stream>>
    BY <1>0, <1>5 DEF TakeEvent, WorkerTypeOK, builderVars
  <2>2. TxsIn(queue) = TxsIn(queue') \cup (IF event'.kind = "tx" THEN {event'.tx} ELSE {})
    BY <2>1, TxsInTail
  <2>3. DistinctTxs(queue') /\ (event'.kind = "tx" => event'.tx \notin TxsIn(queue'))
    BY <1>0, <2>1, DistinctTxsTail
  <2> QED
    BY <1>0, <2>1, <2>2, <2>3 DEF Travelling, InHand
<1>6. CASE stream' = <<>> /\ UNCHANGED <<unsent, queue, event>>
  <2>1. MessagesIn(stream') = {} /\ DistinctMessages(stream')
    BY <1>6 DEF MessagesIn, DistinctMessages
  <2> QED
    BY <1>0, <1>6, <2>1 DEF Travelling, InHand
<1>7. CASE EventDone /\ UNCHANGED <<unsent, stream, queue>>
  BY <1>0, <1>7 DEF EventDone, NoEvent, Travelling, InHand
<1>8. CASE UNCHANGED <<unsent, stream, queue, event>>
  BY <1>0, <1>8 DEF Travelling, InHand
<1> QED
  BY <1>2, <1>3, <1>4, <1>5, <1>6, <1>7, <1>8, CarriageFrame

\* One step keeps the mempool answer below its own number.
LEMMA ReadNumberedStep ==
  ASSUME TypeInv, FlightInv, ReadInv, [Next]_vars
  PROVE  ReadInv'
<1>0. BuilderTypeOK /\ WorkerTypeOK
  BY DEF TypeInv, TypeOK
<1>1. CASE ReadPending
  <2>1. /\ read_snapshot'.seq = last_seq /\ read_snapshot'.txs = Filter(pending)
        /\ UNCHANGED <<epoch, last_seq>>
    BY <1>1 DEF ReadPending, PendingSnapshot, builderVars
  <2>2. \A t \in Filter(pending) : t.epoch = epoch /\ t.seq <= last_seq
    BY DEF Filter, TypeInv, OneTxPerSeq, FlightInv
  <2> QED
    BY <2>1, <2>2 DEF ReadInv, Numbered
<1>2. CASE read_snapshot' = read_snapshot
  <2>1. read_snapshot.txs \subseteq Tx
    BY <1>0 DEF WorkerTypeOK, NoSnapshot
  <2> QED
    BY <1>2, <2>1, NumberedStep DEF ReadInv
<1>3. CASE read_snapshot' = NoSnapshot
  BY <1>3 DEF ReadInv, NoSnapshot
<1>4. ReadPending \/ read_snapshot' = read_snapshot \/ read_snapshot' = NoSnapshot
  BY DEF Next, vars, workerVars, BuilderStep, SyncerThread, SyncerFetch, SyncerPublish,
     SyncerFail, FeedReceive, WorkerThread, StartSyncer, OpenFeed, EnterLoop,
     StartupFail, TakeEvent, LeaveLoop, HandlePendingTx, ReadPool,
     RequestFail, FinishNewBlock, EventDone, Stop, StopRunning, StopFirst, StopQueue, StopWaiters,
     RuntimeThread, RuntimeWait, RuntimeClosed, RuntimeTakeInvalid,
     RuntimeTakeCandidate, RuntimeDone, Idle
<1> QED
  BY <1>1, <1>2, <1>3, <1>4

\* Without a rewind the head never goes back.
LEMMA HeadStep ==
  ASSUME TypeInv, [Next]_vars, rewinds' = 0
  PROVE  rewinds = 0 /\ head' >= head
<1>0. head \in Nat /\ rewinds \in Nat
  BY DEF TypeInv, TypeOK, BuilderTypeOK, Block
<1>1. CASE RewindChain
  BY <1>0, <1>1 DEF RewindChain
<1>2. CASE UNCHANGED rewinds /\ head' = head
  BY <1>0, <1>2
<1>3. ASSUME NEW S \in SUBSET pending, MineBlock(S)
      PROVE  rewinds = 0 /\ head' >= head
  BY <1>0, <1>3 DEF MineBlock
<1>4. \/ RewindChain \/ \E S \in SUBSET pending : MineBlock(S)
      \/ UNCHANGED rewinds /\ head' = head
  <2>1. CASE BuilderStep
    BY <2>1 DEF BuilderStep, BuilderNext, SubmitPublicTx, Broadcast, AcceptWebsocket,
       AddSubscriber, DropWebsocket, RestartBuilder
  <2> QED
    BY <2>1 DEF Next, vars, builderVars, SyncerThread, SyncerFetch, SyncerPublish,
     SyncerFail, FeedReceive, WorkerThread, StartSyncer, OpenFeed, EnterLoop,
     StartupFail, StopInputs, TakeEvent, LeaveLoop, HandlePendingTx, ReadPool, ReadPending,
     RequestFail, FinishNewBlock, Stop, StopRunning, StopFirst, StopQueue, StopWaiters,
     RuntimeThread, RuntimeWait, RuntimeClosed, RuntimeTakeInvalid,
     RuntimeTakeCandidate, RuntimeDone, Idle
<1> QED
  BY <1>1, <1>2, <1>3, <1>4

\* A handler leaves the state at its block or moves it to the event's.
LEMMA HandledBlock ==
  ASSUME HandlePendingTx \/ RequestFail \/ FinishNewBlock
  PROVE  /\ EventDone /\ UNCHANGED head
         /\ \/ block_number' = block_number
            \/ event.kind = "block" /\ block_number' = event.block
<1>1. CASE HandlePendingTx
  BY <1>1 DEF HandlePendingTx, ApplyPendingCandidate, ApplyPendingTx, stateVars, builderVars
<1>2. CASE RequestFail
  BY <1>2 DEF RequestFail, MarkStateInvalid, MarkInvalid, stateVars
<1>3. CASE FinishNewBlock
  BY <1>3 DEF FinishNewBlock, ApplyStateSnapshot, ApplySnapshot, stateVars, builderVars
<1> QED
  BY <1>1, <1>2, <1>3

\* One step keeps block events in order: fetch_last_block answers a number above
\* the current one, which was published before it, and the queue is first in,
\* first out.
LEMMA BlockOrderStep ==
  ASSUME TypeInv, BlockOrder, [Next]_vars, head' >= head
  PROVE  BlockOrder'
<1>0. /\ WorkerTypeOK /\ SyncerTypeOK /\ StateTypeOK /\ head \in Int /\ head' \in Int
      /\ current_block \in Int /\ fetched \in Int /\ block_number \in Int
      /\ queue \in Seq(Event)
  BY BuilderTypeStep DEF TypeInv, TypeOK, BuilderTypeOK, WorkerTypeOK, SyncerTypeOK,
         StateTypeOK, Block, NoBlock
<1>1. event.kind = "block" => event.block \in Int
  BY <1>0 DEF WorkerTypeOK, Event, NoEvent, Block
<1>2. Reached \in Int
  BY <1>0, <1>1 DEF Reached
<1>3. CASE SyncerFetch
  <2>1. /\ fetched' = head /\ head # current_block
        /\ UNCHANGED <<head, current_block, event, block_number, queue>>
    BY <1>3 DEF SyncerFetch, builderVars, stateVars, workerVars
  <2>2. Reached' = Reached
    BY <2>1 DEF Reached
  <2> QED
    BY <1>0, <2>1, <2>2 DEF BlockOrder
<1>4. CASE SyncerPublish
  <2>1. /\ fetched # NoBlock /\ current_block' = fetched /\ fetched' = NoBlock
        /\ UNCHANGED <<head, event, block_number>>
        /\ queue' = IF CanPush THEN Append(queue, BlockEvent(fetched)) ELSE queue
    BY <1>4 DEF SyncerPublish, PublishNewBlock, builderVars, stateVars, workerVars
  <2>2. Reached' = Reached
    BY <2>1 DEF Reached
  <2>3. /\ BlockEvent(fetched) \in Event /\ BlockEvent(fetched).kind = "block"
        /\ BlockEvent(fetched).block = fetched
    BY <1>0, <2>1 DEF SyncerTypeOK, BlockEvent, Event
  <2>4. current_block < fetched /\ fetched <= head /\ Ascends(queue, Reached, current_block)
    BY <2>1 DEF BlockOrder
  <2>5. Ascends(Append(queue, BlockEvent(fetched)), Reached, fetched)
    BY <1>0, <1>2, <2>3, <2>4, AscendsAppend
  <2>6. Ascends(queue, Reached, fetched)
    BY <1>0, <1>2, <2>4, AscendsRelax
  <2> QED
    BY <2>1, <2>2, <2>4, <2>5, <2>6 DEF BlockOrder
<1>5. CASE FeedReceive
  <2>1. UNCHANGED <<head, fetched, current_block, event, block_number>>
    BY <1>5 DEF FeedReceive, stateVars, workerVars, syncerVars
  <2>2. Reached' = Reached
    BY <2>1 DEF Reached
  <2>3. Head(stream) \in Tx
    BY <1>5, TailType DEF FeedReceive, TypeInv, TypeOK, BuilderTypeOK
  <2>4. TxEvent(Head(stream)) \in Event /\ TxEvent(Head(stream)).kind = "tx"
    BY <2>3 DEF TxEvent, Event
  <2>5. Ascends(Append(queue, TxEvent(Head(stream))), Reached, current_block)
    BY <1>0, <1>2, <2>4, AscendsAppend DEF BlockOrder
  <2>6. queue' = Append(queue, TxEvent(Head(stream))) \/ queue' = queue
    BY <1>5 DEF FeedReceive, PublishPendingTransaction
  <2> QED
    BY <2>1, <2>2, <2>5, <2>6 DEF BlockOrder
<1>6. CASE TakeEvent
  <2>1. /\ event = NoEvent /\ queue # <<>> /\ event' = Head(queue) /\ queue' = Tail(queue)
        /\ UNCHANGED <<head, fetched, current_block, block_number>>
    BY <1>6 DEF TakeEvent, builderVars, stateVars, syncerVars
  <2>2. Reached = block_number
    BY <2>1 DEF Reached, NoEvent
  <2>3. /\ event'.kind = "block" =>
              block_number < event'.block /\ Ascends(queue', event'.block, current_block)
        /\ Ascends(queue', block_number, current_block)
    BY <1>0, <2>1, <2>2, AscendsTail DEF BlockOrder
  <2>4. Reached' = IF event'.kind = "block" THEN event'.block ELSE block_number
    BY <2>1 DEF Reached
  <2> QED
    BY <2>1, <2>3, <2>4 DEF BlockOrder
<1>7. CASE HandlePendingTx \/ RequestFail \/ FinishNewBlock
  <2>1. /\ EventDone /\ UNCHANGED head
        /\ block_number' = block_number \/ (event.kind = "block" /\ block_number' = event.block)
    BY <1>7, HandledBlock
  <2>2. event'.kind # "block" /\ UNCHANGED <<fetched, current_block, queue>>
    BY <2>1 DEF EventDone, NoEvent, syncerVars
  <2>3. Reached' = block_number' /\ block_number' <= Reached /\ block_number' \in Int
    BY <1>0, <1>1, <2>1, <2>2 DEF Reached, BlockOrder
  <2>4. Ascends(queue, block_number', current_block)
    BY <1>0, <1>2, <2>3, AscendsRelax DEF BlockOrder
  <2> QED
    BY <2>1, <2>2, <2>3, <2>4 DEF BlockOrder
<1>8. CASE UNCHANGED <<fetched, current_block, event, block_number, queue>>
  <2>1. Reached' = Reached
    BY <1>8 DEF Reached
  <2> QED
    BY <1>0, <1>8, <2>1 DEF BlockOrder
<1>9. \/ SyncerFetch \/ SyncerPublish \/ FeedReceive \/ TakeEvent
      \/ HandlePendingTx \/ RequestFail \/ FinishNewBlock
      \/ UNCHANGED <<fetched, current_block, event, block_number, queue>>
  <2>1. CASE BuilderStep \/ SyncerFail \/ Idle \/ UNCHANGED vars
    BY <2>1 DEF BuilderStep, SyncerFail, Idle, vars, syncerVars, stateVars, workerVars
  <2>2. CASE StartSyncer \/ OpenFeed \/ EnterLoop \/ StartupFail \/ LeaveLoop
             \/ ReadPool \/ ReadPending
    BY <2>2 DEF StartSyncer, OpenFeed, EnterLoop, StartupFail, StopInputs, LeaveLoop,
                ReadPool, ReadPending, syncerVars, stateVars
  <2>3. CASE Stop \/ RuntimeThread
    BY <2>3 DEF Stop, StopRunning, StopFirst, StopQueue, StopWaiters, StopInputs, RuntimeThread,
       RuntimeWait, RuntimeClosed, RuntimeTakeInvalid, RuntimeTakeCandidate,
       RuntimeDone, PopNextSnapshot, syncerVars, stateVars, workerVars
  <2> QED
    BY <2>1, <2>2, <2>3 DEF Next, SyncerThread, WorkerThread
<1> QED
  BY <1>3, <1>4, <1>5, <1>6, <1>7, <1>8, <1>9

\* One step keeps the local mempool fresh. A snapshot is for a block nothing
\* was handed out for yet; a streamed transaction is applied once, and not if
\* the snapshot covers it.
LEMMA FreshStep ==
  ASSUME TypeInv, BlockOrder, TravelInv, ReadInv, FreshInv, [Next]_vars
  PROVE  FreshInv'
<1>0. /\ WorkerTypeOK /\ StateTypeOK /\ RuntimeTypeOK
      /\ StateTypeOK' /\ RuntimeTypeOK' /\ snapshot_seq \in Nat /\ block_number \in Int
  BY StateTypeStep, RuntimeTypeStep DEF TypeInv, TypeOK, StateTypeOK, Block, NoBlock
<1>1. \A t \in Tx : Numbered(t) => Numbered(t)'
  BY NumberedStep
<1>2. \A t \in Tx : t \in Travelling' \/ InHand(t)' =>
                       t \in Travelling \/ InHand(t) \/ ~Numbered(t)
  BY TravelStep
<1>3. /\ candidates \subseteq Tx /\ \A d \in delivered : d.tx \in Tx /\ d.block \in Int
  BY <1>0 DEF StateTypeOK, RuntimeTypeOK, Block
<1>4. \A t \in Tx : t \in candidates \/ Delivered(t) => Numbered(t)
  BY DEF FreshInv, Delivered
<1>5. CASE UNCHANGED <<block_number, snapshot_seq, candidates, delivered>>
  <2>1. \A t \in Tx : Delivered(t)' <=> Delivered(t)
    BY <1>5 DEF Delivered
  <2>2. \A t \in Tx : /\ t \in Travelling' \/ InHand(t)'
                      /\ t \in candidates' \/ Delivered(t)'
                      => t.seq <= snapshot_seq'
    BY <1>2, <1>4, <1>5, <2>1 DEF FreshInv
  <2> QED
    BY <1>1, <1>3, <1>5, <2>1, <2>2 DEF FreshInv
<1>6. CASE HandlePendingTx /\ ApplyPendingTx(event.tx)
  <2>1. /\ event.kind = "tx" /\ event.tx \in Tx
        /\ event'.kind = "none" /\ UNCHANGED delivered
    BY <1>0, <1>6 DEF HandlePendingTx, EventDone, WorkerTypeOK, Event, NoEvent
  <2>2. /\ UNCHANGED <<block_number, snapshot_seq>> /\ ~(event.tx.seq <= snapshot_seq)
        /\ candidates' \subseteq candidates \cup {event.tx}
    BY <1>6 DEF ApplyPendingTx, AcceptsPendingTx, CoveredBySnapshot, InsertOrAssign
  <2>3. InHand(event.tx) /\ Numbered(event.tx) /\ event.tx \notin Travelling
    BY <2>1 DEF InHand, TravelInv
  <2>4. ~Delivered(event.tx)
    BY <2>1, <2>2, <2>3 DEF FreshInv
  <2>5. \A t \in Tx : (Delivered(t)' <=> Delivered(t)) /\ ~InHand(t)'
    BY <2>1, <2>2 DEF Delivered, InHand
  <2>6. Travelling' = Travelling
    BY <1>6 DEF HandlePendingTx, EventDone, builderVars, Travelling
  <2>7. \A c \in candidates' : Numbered(c)' /\ ~Delivered(c)'
    BY <1>1, <1>3, <2>1, <2>2, <2>3, <2>4, <2>5 DEF FreshInv
  <2>8. \A t \in Tx : /\ t \in Travelling' \/ InHand(t)'
                      /\ t \in candidates' \/ Delivered(t)'
                      => t.seq <= snapshot_seq'
    BY <2>2, <2>3, <2>5, <2>6 DEF FreshInv
  <2>9. \A d \in delivered' : d.block <= block_number' /\ Numbered(d.tx)'
    BY <1>1, <1>3, <2>1, <2>2 DEF FreshInv
  <2> QED
    BY <2>7, <2>8, <2>9 DEF FreshInv
<1>7. CASE /\ RequestFail \/ FinishNewBlock
           /\ block_number' = event.block /\ UNCHANGED delivered
           /\ \/ candidates' = {}
              \/ candidates' = read_snapshot.txs /\ snapshot_seq' = read_snapshot.seq
  <2>1. block_number < event.block /\ event.block \in Int
    BY <1>0, <1>7 DEF RequestFail, FinishNewBlock, BlockOrder, WorkerTypeOK, Event, NoEvent,
                      Block
  <2>2. \A d \in delivered : d.block <= block_number' /\ d.block # block_number'
    BY <1>0, <1>3, <1>7, <2>1 DEF FreshInv
  <2>3. \A t \in Tx : ~Delivered(t)'
    BY <1>7, <2>2 DEF Delivered
  <2>4. \A t \in candidates' : t \in read_snapshot.txs /\ snapshot_seq' = read_snapshot.seq
    BY <1>7
  <2>5. candidates' \subseteq Tx
    BY <1>0 DEF StateTypeOK
  <2>6. \A c \in candidates' : Numbered(c)' /\ ~Delivered(c)' /\ c.seq <= snapshot_seq'
    BY <1>1, <2>3, <2>4, <2>5 DEF ReadInv
  <2>7. \A d \in delivered' : d.block <= block_number' /\ Numbered(d.tx)'
    BY <1>1, <1>3, <1>7, <2>2 DEF FreshInv
  <2> QED
    BY <2>3, <2>6, <2>7 DEF FreshInv
<1>8. CASE RuntimeTakeCandidate /\ valid
  <2>1. PICK c \in candidates :
           /\ candidates' = candidates \ {c}
           /\ delivered' = delivered \cup {[tx |-> c, block |-> block_number]}
           /\ UNCHANGED <<block_number, snapshot_seq>>
    BY <1>8 DEF RuntimeTakeCandidate, PopNextSnapshot
  <2>2. \A t \in Tx : Delivered(t)' <=> Delivered(t) \/ t = c
    BY <2>1 DEF Delivered
  <2>3. \A t \in Tx : t \in Travelling' \/ InHand(t)' => t \in Travelling \/ InHand(t)
    BY <1>8 DEF RuntimeTakeCandidate, builderVars, workerVars, Travelling, InHand
  <2>4. \A t \in Tx : /\ t \in Travelling' \/ InHand(t)'
                      /\ t \in candidates' \/ Delivered(t)'
                      => t.seq <= snapshot_seq'
    BY <2>1, <2>2, <2>3 DEF FreshInv
  <2>5. \A d \in candidates' : Numbered(d)' /\ ~Delivered(d)'
    BY <1>1, <1>3, <2>1, <2>2 DEF FreshInv
  <2>6. \A d \in delivered' : d.block <= block_number' /\ Numbered(d.tx)'
    BY <1>0, <1>1, <1>3, <2>1 DEF FreshInv
  <2> QED
    BY <2>4, <2>5, <2>6 DEF FreshInv
<1>9. \/ UNCHANGED <<block_number, snapshot_seq, candidates, delivered>>
      \/ HandlePendingTx /\ ApplyPendingTx(event.tx)
      \/ /\ RequestFail \/ FinishNewBlock
         /\ block_number' = event.block /\ UNCHANGED delivered
         /\ \/ candidates' = {}
            \/ candidates' = read_snapshot.txs /\ snapshot_seq' = read_snapshot.seq
      \/ RuntimeTakeCandidate /\ valid
  <2>1. CASE HandlePendingTx
    BY <2>1 DEF HandlePendingTx, ApplyPendingCandidate, stateVars
  <2>2. CASE RequestFail
    BY <2>2 DEF RequestFail, MarkStateInvalid, MarkInvalid, stateVars
  <2>3. CASE FinishNewBlock
    BY <2>3 DEF FinishNewBlock, ApplyStateSnapshot, ApplySnapshot, stateVars
  <2>4. CASE RuntimeTakeCandidate
    BY <2>4 DEF RuntimeTakeCandidate, stateVars
  <2> QED
    BY <2>1, <2>2, <2>3, <2>4, StateOrHandFrame DEF stateVars
<1> QED
  BY <1>5, <1>6, <1>7, <1>8, <1>9

\* The flag is raised only together with a block number.
LEMMA FlagStep ==
  ASSUME TypeInv, [Next]_vars, invalid_snapshot_pending => block_number # NoBlock
  PROVE  (invalid_snapshot_pending => block_number # NoBlock)'
<1>0. WorkerTypeOK /\ StateTypeOK
  BY DEF TypeInv, TypeOK
<1>1. CASE HandlePendingTx
  BY <1>1 DEF HandlePendingTx, ApplyPendingCandidate, ApplyPendingTx, stateVars, waitVars
<1>2. CASE RequestFail
  <2>1. event.block # NoBlock
    BY <1>0, <1>2 DEF RequestFail, WorkerTypeOK, Event, NoEvent, Block, NoBlock
  <2> QED
    BY <1>2, <2>1 DEF RequestFail, MarkStateInvalid, MarkInvalid, stateVars
<1>3. CASE FinishNewBlock
  BY <1>3 DEF FinishNewBlock, ApplyStateSnapshot, stateVars
<1>4. CASE CloseStateWaiters /\ UNCHANGED stateVars
  BY <1>4 DEF CloseStateWaiters, stateVars
<1>5. CASE RuntimeThread
  BY <1>5 DEF RuntimeThread, RuntimeWait, RuntimeClosed, RuntimeTakeInvalid,
     RuntimeTakeCandidate, RuntimeDone, PopNextSnapshot, stateVars, waitVars
<1>6. CASE UNCHANGED <<stateVars, waitVars, runtimeVars>>
  BY <1>6 DEF stateVars, waitVars
<1> QED
  BY <1>1, <1>2, <1>3, <1>4, <1>5, <1>6, HandoverFrame

\* The invariant of the refinement holds in every reachable state.
THEOREM FeedInvariant == Spec => []FeedInv
<1>1. Init => FeedInv
  <2> SUFFICES ASSUME Init PROVE FeedInv
    OBVIOUS
  <2> USE DEF Init, BuilderInit, StateInit
  <2>1. TravelInv
    BY DEF TravelInv, Travelling, MessagesIn, TxsIn, DistinctMessages, DistinctTxs, NoEvent
  <2>2. ReadInv
    BY DEF ReadInv, NoSnapshot
  <2>3. BlockOrder
    BY DEF BlockOrder, Ascends, Reached, NoEvent, NoBlock
  <2>4. FreshInv
    BY DEF FreshInv, Delivered
  <2> QED
    BY <2>1, <2>2, <2>3, <2>4 DEF FeedInv
<1>2. IInv /\ GapInv /\ FeedInv /\ [Next]_vars => FeedInv'
  <2> SUFFICES ASSUME IInv, GapInv, FeedInv, [Next]_vars PROVE FeedInv'
    OBVIOUS
  <2>1. /\ TypeInv /\ FlightInv /\ TravelInv /\ ReadInv
        /\ (invalid_snapshot_pending => block_number # NoBlock)
    BY DEF IInv, GapInv, FeedInv
  <2>2. TravelInv' /\ ReadInv' /\ (invalid_snapshot_pending => block_number # NoBlock)'
    BY <2>1, TravelStep, ReadNumberedStep, FlagStep
  <2>3. ASSUME rewinds' = 0 PROVE BlockOrder' /\ FreshInv'
    <3>1. rewinds = 0 /\ head' >= head
      BY <2>1, <2>3, HeadStep
    <3>2. BlockOrder /\ FreshInv
      BY <3>1 DEF FeedInv
    <3> QED
      BY <2>1, <3>1, <3>2, BlockOrderStep, FreshStep
  <2> QED
    BY <2>2, <2>3 DEF FeedInv
<1> QED
  BY <1>1, <1>2, InvariantHolds, GapInvariant, PTL DEF Spec

\* Every step of the pipeline is a step of CandidateFeed or leaves what its
\* caller sees: only the Runtime's own steps change it.
LEMMA FeedStep ==
  ASSUME IInv, FeedInv, rewinds = 0, [Next]_vars
  PROVE  [Feed!FeedNext]_(Feed!feedVars)
<1>0. /\ TypeInv /\ ViewInv /\ BlockOrder /\ FreshInv /\ StateTypeOK /\ RuntimeTypeOK
      /\ ValidHasBlock /\ (invalid_snapshot_pending => block_number # NoBlock)
  BY DEF IInv, FeedInv, TypeInv, TypeOK
<1>1. ASSUME UNCHANGED <<taken, delivered>>, (runtime' = "ended") = (runtime = "ended")
      PROVE  UNCHANGED Feed!feedVars
  BY <1>1 DEF Feed!feedVars
<1>2. ASSUME UNCHANGED <<taken, delivered>>, runtime # "ended", runtime' = "ended"
      PROVE  Feed!End
  BY <1>2 DEF Feed!End
<1>3. CASE RuntimeTakeInvalid
  <2>1. /\ taken' = MakeSnapshot(NoTx) /\ ~valid /\ UNCHANGED delivered
        /\ runtime = "call" /\ runtime' = "busy" /\ block_number \in Block
    BY <1>0, <1>3 DEF RuntimeTakeInvalid, ViewInv, InvalidationReported, StateTypeOK
  <2>2. /\ taken'.valid = FALSE /\ taken'.block = block_number
        /\ taken'.candidate = Feed!NoCandidate
    BY <1>0, <2>1 DEF MakeSnapshot, NoTx, Feed!NoCandidate, StateTypeOK
  <2>3. block_number >= taken.block
    BY <1>0 DEF ViewInv, StateTypeOK, RuntimeTypeOK, View, Block, NoBlock
  <2>4. Feed!Invalidate(block_number)
    BY <2>1, <2>2, <2>3 DEF Feed!Invalidate
  <2> QED
    BY <2>1, <2>4 DEF Feed!FeedNext, Feed!Block, Block
<1>4. CASE RuntimeTakeCandidate /\ valid
  <2>1. PICK c \in candidates :
           /\ taken' = MakeSnapshot(c)
           /\ delivered' = delivered \cup {[tx |-> c, block |-> block_number]}
           /\ runtime = "call" /\ runtime' = "busy"
    BY <1>4 DEF RuntimeTakeCandidate
  <2>2. c \in Tx /\ block_number \in Block
    BY <1>0, <1>4 DEF StateTypeOK, ValidHasBlock
  <2>3. taken'.valid = TRUE /\ taken'.block = block_number /\ taken'.candidate = c
    BY <1>0, <1>4, <2>1 DEF MakeSnapshot, StateTypeOK
  <2>4. block_number >= taken.block
    BY <1>0 DEF ViewInv, StateTypeOK, RuntimeTypeOK, View, Block, NoBlock
  <2>5. [tx |-> c, block |-> block_number] \notin delivered
    BY <1>0 DEF FreshInv, Delivered
  <2>6. Feed!Deliver(block_number, c)
    BY <2>1, <2>3, <2>4, <2>5 DEF Feed!Deliver
  <2> QED
    BY <2>2, <2>6 DEF Feed!FeedNext, Feed!Block, Feed!Tx, Block, Tx
<1>5. CASE RuntimeTakeCandidate /\ ~valid
  BY <1>2, <1>5 DEF RuntimeTakeCandidate, Feed!FeedNext
<1>6. CASE RuntimeClosed
  BY <1>2, <1>6 DEF RuntimeClosed, Feed!FeedNext
<1>7. CASE RuntimeWait \/ RuntimeDone
  <2>1. CASE RuntimeDone /\ stop # "no"
    BY <1>2, <2>1 DEF RuntimeDone, Feed!FeedNext
  <2> QED
    BY <1>1, <1>7, <2>1 DEF RuntimeWait, RuntimeDone
<1>8. CASE /\ UNCHANGED <<taken, delivered>>
           /\ runtime' = runtime \/ (runtime = "blocked" /\ runtime' = "call")
  BY <1>1, <1>8
<1>9. \/ RuntimeThread
      \/ /\ UNCHANGED <<taken, delivered>>
         /\ runtime' = runtime \/ (runtime = "blocked" /\ runtime' = "call")
  <2>1. CASE HandlePendingTx
    BY <2>1 DEF HandlePendingTx, ApplyPendingCandidate, Notify
  <2>2. CASE RequestFail
    BY <2>2 DEF RequestFail, MarkStateInvalid, Notify
  <2>3. CASE FinishNewBlock
    BY <2>3 DEF FinishNewBlock, ApplyStateSnapshot, Notify
  <2>4. CASE CloseStateWaiters
    BY <2>4 DEF CloseStateWaiters, Notify
  <2> QED
    BY <2>1, <2>2, <2>3, <2>4, HandoverFrame DEF runtimeVars
<1> QED
  BY <1>3, <1>4, <1>5, <1>6, <1>7, <1>8, <1>9 DEF RuntimeThread

\* The pipeline keeps the promise of wait_pop_state as long as the chain is not
\* rewound, also when the builder restarts: block numbers never go back, no
\* candidate is handed out twice for one block, an invalid view carries none,
\* and nothing follows CLOSED.
THEOREM PipelineImplementsFeed == Spec /\ [](rewinds = 0) => ImplementsFeed
<1>1. Init => Feed!FeedInit
  BY DEF Init, NoView, NoTx, Feed!FeedInit, Feed!NoCandidate, NoBlock, Feed!NoBlock
<1>2. IInv /\ FeedInv /\ rewinds = 0 /\ [Next]_vars => [Feed!FeedNext]_(Feed!feedVars)
  BY FeedStep
<1> QED
  BY <1>1, <1>2, InvariantHolds, FeedInvariant, PTL
     DEF Spec, ImplementsFeed, Feed!FeedSpec
=============================================================================
