--------------------------- MODULE LifecycleProofs ---------------------------
(***************************************************************************)
(* Whatever the order of start, failure, signal and stop, the process      *)
(* joins its threads before it destroys what they use. The argument is who *)
(* owns a join: Worker::stop clears m_running before it joins, so a thread *)
(* that is joinable and no longer running has exactly the caller that      *)
(* cleared the flag on its way to join it, and the destructors run only    *)
(* once no other caller can be left.                                       *)
(***************************************************************************)
EXTENDS Lifecycle, TLAPS

\* Inside Runtime::stop or ~CandidateSource, after the exchange.
StopLabel ==
    {"feed", "syncer", "join_syncer", "queue", "waiters", "worker", "join_worker",
     "io_stop", "join_io"}

\* main() and Runtime::run up to the end of SignalListener::stop.
RunLabel == {"io", "source", "loop", "wait", "stop_listener", "join_listener"}

OverLabel == {"exited", "killed", "terminated"}

MainLabel == {"start", "run", "exchange", "members"} \cup RunLabel \cup StopLabel \cup OverLabel
ListenerLabel == {"off", "sigwait", "check", "exchange", "end"} \cup StopLabel
WorkerLabel ==
    {"off", "start_syncer", "spawn_syncer", "await_syncer", "open_feed", "await_feed",
     "loop", "feed", "syncer", "join_syncer", "waiters", "end"}
SyncerLabel == {"off", "fetch", "poll", "end"}

ThreadState == {"none", "running", "ended", "joined"}

PcType == pc \in [main : MainLabel, listener : ListenerLabel,
                  worker : WorkerLabel, syncer : SyncerLabel]

ThrType == thr \in [{"listener", "io", "worker", "syncer"} -> ThreadState]

FlagType ==
    /\ running \in BOOLEAN /\ io_stopped \in BOOLEAN
    /\ worker_running \in BOOLEAN /\ syncer_running \in BOOLEAN
    /\ destroying \in {"nothing", "source", "syncer"}
    /\ unjoined \in BOOLEAN

LifecycleType == PcType /\ ThrType /\ FlagType

\* A thread object is what the thread's position says.
ThreadAt(t) ==
    /\ thr[t] = "none" <=> pc[t] = "off"
    /\ thr[t] = "running" <=> pc[t] \notin {"off", "end"}

ThreadsMatch == \A t \in {"listener", "worker", "syncer"} : ThreadAt(t)

\* What main's position says about the threads and the destructors.
MainPhase ==
    /\ pc.main = "start" => pc.listener = "off"
    /\ pc.main \in {"start", "run"} => ~running /\ pc.listener \notin StopLabel
    /\ pc.main \in {"start", "run", "io"} => thr.io = "none"
    /\ pc.main \in {"start", "run", "io", "source"} => thr.worker = "none"
    /\ pc.main \in {"exchange", "members"} \cup StopLabel => thr.listener \in {"none", "joined"}
    /\ pc.main \in {"start", "run", "exchange"} \cup RunLabel => destroying = "nothing"
    /\ pc.main = "members" => destroying = "syncer"
    /\ pc.main = "exchange" /\ thr.listener = "none" => thr.io = "none"
    /\ destroying = "syncer" => pc.main \in {"syncer", "join_syncer", "members"} \cup OverLabel
    /\ pc.main \in {"io_stop", "join_io"} => destroying = "nothing"

\* Runtime::stop ran to its end: the io context is stopped, and its thread is
\* joined, or was not yet there to join.
IoDone == io_stopped /\ (unjoined \/ thr.io = "joined")

\* Who has called Runtime::stop with effect, and how far it is.
StopPhase ==
    /\ pc.listener \in StopLabel => ~running
    /\ pc.main \in StopLabel => ~running
    /\ pc.main \in RunLabel /\ ~running =>
          pc.listener \in StopLabel \/ (pc.listener = "end" /\ IoDone)
    /\ pc.main = "exchange" /\ ~running => thr.io = "none" \/ IoDone
    /\ pc.listener = "join_io" \/ pc.main = "join_io" => io_stopped
    /\ destroying # "nothing" => thr.io = "none" \/ IoDone

\* The candidate source's thread: joinable and told to stop, it has a joiner;
\* once ~CandidateSource is past Worker::stop it is gone.
WorkerOwned ==
    /\ Joinable("worker") /\ ~worker_running =>
          pc.main = "join_worker" \/ pc.listener = "join_worker" \/ pc.main = "killed"
    /\ destroying = "syncer" => ~Joinable("worker")

\* The same of the block syncer's thread, which the worker may join too.
SyncerOwned ==
    /\ pc.worker \in {"off", "start_syncer", "spawn_syncer"} => thr.syncer = "none"
    /\ Joinable("syncer") /\ ~syncer_running =>
          \/ \E t \in {"main", "listener", "worker"} : pc[t] = "join_syncer"
          \/ pc.main = "killed"
    /\ pc.main \in {"members", "exited", "terminated"} => ~Joinable("syncer")

\* How main got out.
ExitPhase ==
    /\ pc.main \in {"exited", "terminated"} => destroying = "syncer"
    /\ pc.main = "terminated" => Joinable("io")

LifecycleInv ==
    LifecycleType /\ ThreadsMatch /\ MainPhase /\ StopPhase /\ WorkerOwned
    /\ SyncerOwned /\ ExitPhase

-----------------------------------------------------------------------------
(* The invariant is inductive: one step per action                         *)

USE DEF LifecycleInv, LifecycleType, PcType, ThrType, FlagType, ThreadsMatch, ThreadAt, MainPhase, StopPhase,
        WorkerOwned, SyncerOwned, ExitPhase, IoDone, Joinable, MainLabel,
        ListenerLabel, WorkerLabel, SyncerLabel, RunLabel, StopLabel, OverLabel,
        ThreadState, Over, Goto, End, flags, signalVars

\* No thread but the main one exists at the start.
LEMMA LifecycleInit == Init => LifecycleInv
<1> SUFFICES ASSUME Init PROVE LifecycleInv
  OBVIOUS
<1>1. LifecycleType
  BY DEF Init
<1>2. ThreadsMatch
  BY DEF Init
<1>3. MainPhase
  BY DEF Init
<1>4. StopPhase
  BY DEF Init
<1>5. WorkerOwned
  BY DEF Init
<1>6. SyncerOwned
  BY DEF Init
<1>7. ExitPhase
  BY DEF Init
<1> QED
  BY <1>1, <1>2, <1>3, <1>4, <1>5, <1>6, <1>7

\* Runtime::stop and ~CandidateSource, called by main.
LEMMA MainStops == LifecycleInv /\ ~Over /\ Stopping("main") => LifecycleInv'
<1> SUFFICES ASSUME LifecycleInv, ~Over, Stopping("main") PROVE LifecycleInv'
  OBVIOUS
<1>1. CASE Exchange("main")
  <2>1. LifecycleType'
    <3>1. PcType'
      BY <1>1 DEF Exchange, ReturnFromStop
    <3>2. ThrType'
      BY <1>1 DEF Exchange, ReturnFromStop
    <3>3. FlagType'
      BY <1>1 DEF Exchange, ReturnFromStop
    <3> QED
      BY <3>1, <3>2, <3>3
  <2>2. ThreadsMatch'
    BY <1>1 DEF Exchange, ReturnFromStop
  <2>3. MainPhase'
    BY <1>1 DEF Exchange, ReturnFromStop
  <2>4. StopPhase'
    BY <1>1 DEF Exchange, ReturnFromStop
  <2>5. WorkerOwned'
    BY <1>1 DEF Exchange, ReturnFromStop
  <2>6. SyncerOwned'
    BY <1>1 DEF Exchange, ReturnFromStop
  <2>7. ExitPhase'
    BY <1>1 DEF Exchange, ReturnFromStop
  <2> QED
    BY <2>1, <2>2, <2>3, <2>4, <2>5, <2>6, <2>7
<1>2. CASE CloseFeed("main")
  BY <1>2 DEF CloseFeed
<1>3. CASE StopSyncer("main")
  <2>1. LifecycleType'
    <3>1. PcType'
      BY <1>3 DEF StopSyncer, AfterSyncer
    <3>2. ThrType'
      BY <1>3 DEF StopSyncer, AfterSyncer
    <3>3. FlagType'
      BY <1>3 DEF StopSyncer, AfterSyncer
    <3> QED
      BY <3>1, <3>2, <3>3
  <2>2. ThreadsMatch'
    BY <1>3 DEF StopSyncer, AfterSyncer
  <2>3. MainPhase'
    BY <1>3 DEF StopSyncer, AfterSyncer
  <2>4. StopPhase'
    BY <1>3 DEF StopSyncer, AfterSyncer
  <2>5. WorkerOwned'
    BY <1>3 DEF StopSyncer, AfterSyncer
  <2>6. SyncerOwned'
    BY <1>3 DEF StopSyncer, AfterSyncer
  <2>7. ExitPhase'
    BY <1>3 DEF StopSyncer, AfterSyncer
  <2> QED
    BY <2>1, <2>2, <2>3, <2>4, <2>5, <2>6, <2>7
<1>4. CASE JoinSyncer("main")
  BY <1>4 DEF JoinSyncer, AfterSyncer
<1>5. CASE CloseQueue("main")
  BY <1>5 DEF CloseQueue
<1>6. CASE CloseStateWaiters("main")
  BY <1>6 DEF CloseStateWaiters
<1>7. CASE StopWorker("main")
  <2>1. LifecycleType'
    <3>1. PcType'
      BY <1>7 DEF StopWorker, AfterWorker
    <3>2. ThrType'
      BY <1>7 DEF StopWorker, AfterWorker
    <3>3. FlagType'
      BY <1>7 DEF StopWorker, AfterWorker
    <3> QED
      BY <3>1, <3>2, <3>3
  <2>2. ThreadsMatch'
    BY <1>7 DEF StopWorker, AfterWorker
  <2>3. MainPhase'
    BY <1>7 DEF StopWorker, AfterWorker
  <2>4. StopPhase'
    BY <1>7 DEF StopWorker, AfterWorker
  <2>5. WorkerOwned'
    BY <1>7 DEF StopWorker, AfterWorker
  <2>6. SyncerOwned'
    BY <1>7 DEF StopWorker, AfterWorker
  <2>7. ExitPhase'
    BY <1>7 DEF StopWorker, AfterWorker
  <2> QED
    BY <2>1, <2>2, <2>3, <2>4, <2>5, <2>6, <2>7
<1>8. CASE JoinWorker("main")
  BY <1>8 DEF JoinWorker, AfterWorker
<1>9. CASE StopIoContext("main")
  BY <1>9 DEF StopIoContext
<1>10. CASE JoinIo("main")
  <2>1. LifecycleType'
    <3>1. PcType'
      BY <1>10 DEF JoinIo, ReturnFromStop
    <3>2. ThrType'
      BY <1>10 DEF JoinIo, ReturnFromStop
    <3>3. FlagType'
      BY <1>10 DEF JoinIo, ReturnFromStop
    <3> QED
      BY <3>1, <3>2, <3>3
  <2>2. ThreadsMatch'
    <3>1. CASE Joinable("io")
      BY <1>10, <3>1 DEF JoinIo, ReturnFromStop
    <3>2. CASE ~(Joinable("io"))
      BY <1>10, <3>2 DEF JoinIo, ReturnFromStop
    <3> QED
      BY <3>1, <3>2
  <2>3. MainPhase'
    BY <1>10 DEF JoinIo, ReturnFromStop
  <2>4. StopPhase'
    BY <1>10 DEF JoinIo, ReturnFromStop
  <2>5. WorkerOwned'
    BY <1>10 DEF JoinIo, ReturnFromStop
  <2>6. SyncerOwned'
    BY <1>10 DEF JoinIo, ReturnFromStop
  <2>7. ExitPhase'
    BY <1>10 DEF JoinIo, ReturnFromStop
  <2> QED
    BY <2>1, <2>2, <2>3, <2>4, <2>5, <2>6, <2>7
<1> QED
  BY <1>1, <1>2, <1>3, <1>4, <1>5, <1>6, <1>7, <1>8, <1>9, <1>10 DEF Stopping

\* Runtime::stop, called by the signal handler.
LEMMA ListenerStops == LifecycleInv /\ ~Over /\ Stopping("listener") => LifecycleInv'
<1> SUFFICES ASSUME LifecycleInv, ~Over, Stopping("listener") PROVE LifecycleInv'
  OBVIOUS
<1>1. CASE Exchange("listener")
  <2>1. LifecycleType'
    <3>1. PcType'
      BY <1>1 DEF Exchange, ReturnFromStop
    <3>2. ThrType'
      BY <1>1 DEF Exchange, ReturnFromStop
    <3>3. FlagType'
      BY <1>1 DEF Exchange, ReturnFromStop
    <3> QED
      BY <3>1, <3>2, <3>3
  <2>2. ThreadsMatch'
    BY <1>1 DEF Exchange, ReturnFromStop
  <2>3. MainPhase'
    BY <1>1 DEF Exchange, ReturnFromStop
  <2>4. StopPhase'
    BY <1>1 DEF Exchange, ReturnFromStop
  <2>5. WorkerOwned'
    BY <1>1 DEF Exchange, ReturnFromStop
  <2>6. SyncerOwned'
    BY <1>1 DEF Exchange, ReturnFromStop
  <2>7. ExitPhase'
    BY <1>1 DEF Exchange, ReturnFromStop
  <2> QED
    BY <2>1, <2>2, <2>3, <2>4, <2>5, <2>6, <2>7
<1>2. CASE CloseFeed("listener")
  BY <1>2 DEF CloseFeed
<1>3. CASE StopSyncer("listener")
  <2>1. LifecycleType'
    <3>1. PcType'
      BY <1>3 DEF StopSyncer, AfterSyncer
    <3>2. ThrType'
      BY <1>3 DEF StopSyncer, AfterSyncer
    <3>3. FlagType'
      BY <1>3 DEF StopSyncer, AfterSyncer
    <3> QED
      BY <3>1, <3>2, <3>3
  <2>2. ThreadsMatch'
    BY <1>3 DEF StopSyncer, AfterSyncer
  <2>3. MainPhase'
    BY <1>3 DEF StopSyncer, AfterSyncer
  <2>4. StopPhase'
    BY <1>3 DEF StopSyncer, AfterSyncer
  <2>5. WorkerOwned'
    BY <1>3 DEF StopSyncer, AfterSyncer
  <2>6. SyncerOwned'
    BY <1>3 DEF StopSyncer, AfterSyncer
  <2>7. ExitPhase'
    BY <1>3 DEF StopSyncer, AfterSyncer
  <2> QED
    BY <2>1, <2>2, <2>3, <2>4, <2>5, <2>6, <2>7
<1>4. CASE JoinSyncer("listener")
  BY <1>4 DEF JoinSyncer, AfterSyncer
<1>5. CASE CloseQueue("listener")
  BY <1>5 DEF CloseQueue
<1>6. CASE CloseStateWaiters("listener")
  BY <1>6 DEF CloseStateWaiters
<1>7. CASE StopWorker("listener")
  <2>1. LifecycleType'
    <3>1. PcType'
      BY <1>7 DEF StopWorker, AfterWorker
    <3>2. ThrType'
      BY <1>7 DEF StopWorker, AfterWorker
    <3>3. FlagType'
      BY <1>7 DEF StopWorker, AfterWorker
    <3> QED
      BY <3>1, <3>2, <3>3
  <2>2. ThreadsMatch'
    BY <1>7 DEF StopWorker, AfterWorker
  <2>3. MainPhase'
    BY <1>7 DEF StopWorker, AfterWorker
  <2>4. StopPhase'
    BY <1>7 DEF StopWorker, AfterWorker
  <2>5. WorkerOwned'
    BY <1>7 DEF StopWorker, AfterWorker
  <2>6. SyncerOwned'
    BY <1>7 DEF StopWorker, AfterWorker
  <2>7. ExitPhase'
    BY <1>7 DEF StopWorker, AfterWorker
  <2> QED
    BY <2>1, <2>2, <2>3, <2>4, <2>5, <2>6, <2>7
<1>8. CASE JoinWorker("listener")
  BY <1>8 DEF JoinWorker, AfterWorker
<1>9. CASE StopIoContext("listener")
  BY <1>9 DEF StopIoContext
<1>10. CASE JoinIo("listener")
  <2>1. LifecycleType'
    <3>1. PcType'
      BY <1>10 DEF JoinIo, ReturnFromStop
    <3>2. ThrType'
      <4>1. \/ thr' = [thr EXCEPT !["listener"] = "ended"]
            \/ thr' = [thr EXCEPT !.io = "joined", !.listener = "ended"]
        BY <1>10 DEF JoinIo, ReturnFromStop
      <4>2. ThrType
        OBVIOUS
      <4> HIDE DEF LifecycleInv
      <4> QED
        BY <4>1, <4>2
    <3>3. FlagType'
      BY <1>10 DEF JoinIo, ReturnFromStop
    <3> QED
      BY <3>1, <3>2, <3>3
  <2>2. ThreadsMatch'
    <3>1. CASE Joinable("io")
      <4>1. /\ pc' = [pc EXCEPT !["listener"] = "end"]
            /\ thr' = [thr EXCEPT !.io = "joined", !.listener = "ended"]
        BY <1>10, <3>1 DEF JoinIo, ReturnFromStop
      <4>2. ThreadAt("listener")' /\ ThreadAt("worker")' /\ ThreadAt("syncer")'
        BY <4>1
      <4> QED
        BY <4>2
    <3>2. CASE ~(Joinable("io"))
      BY <1>10, <3>2 DEF JoinIo, ReturnFromStop
    <3> QED
      BY <3>1, <3>2
  <2>3. MainPhase'
    BY <1>10 DEF JoinIo, ReturnFromStop
  <2>4. StopPhase'
    BY <1>10 DEF JoinIo, ReturnFromStop
  <2>5. WorkerOwned'
    BY <1>10 DEF JoinIo, ReturnFromStop
  <2>6. SyncerOwned'
    BY <1>10, ZenonT(40) DEF JoinIo, ReturnFromStop
  <2>7. ExitPhase'
    BY <1>10 DEF JoinIo, ReturnFromStop
  <2> QED
    BY <2>1, <2>2, <2>3, <2>4, <2>5, <2>6, <2>7
<1> QED
  BY <1>1, <1>2, <1>3, <1>4, <1>5, <1>6, <1>7, <1>8, <1>9, <1>10 DEF Stopping

\* main(), Runtime::run and the destructors.
LEMMA MainKeeps == LifecycleInv /\ ~Over /\ Main => LifecycleInv'
<1> SUFFICES ASSUME LifecycleInv, ~Over, Main PROVE LifecycleInv'
  OBVIOUS
<1>1. CASE StartListener
  <2>1. LifecycleType'
    <3>1. PcType'
      BY <1>1 DEF StartListener
    <3>2. ThrType'
      BY <1>1 DEF StartListener
    <3>3. FlagType'
      BY <1>1 DEF StartListener
    <3> QED
      BY <3>1, <3>2, <3>3
  <2>2. ThreadsMatch'
    <3>1. CASE pc'.main = "run"
      <4>1. /\ pc' = [pc EXCEPT !.main = "run", !.listener = "sigwait"]
            /\ thr' = [thr EXCEPT !.listener = "running"]
        BY <1>1, <3>1 DEF StartListener
      <4>2. ThreadAt("listener")' /\ ThreadAt("worker")' /\ ThreadAt("syncer")'
        BY <4>1
      <4> QED
        BY <4>2
    <3>2. CASE ~(pc'.main = "run")
      BY <1>1, <3>2, ZenonT(40) DEF StartListener
    <3> QED
      BY <3>1, <3>2
  <2>3. MainPhase'
    BY <1>1, ZenonT(40) DEF StartListener
  <2>4. StopPhase'
    BY <1>1, ZenonT(40) DEF StartListener
  <2>5. WorkerOwned'
    BY <1>1 DEF StartListener
  <2>6. SyncerOwned'
    BY <1>1 DEF StartListener
  <2>7. ExitPhase'
    BY <1>1 DEF StartListener
  <2> QED
    BY <2>1, <2>2, <2>3, <2>4, <2>5, <2>6, <2>7
<1>2. CASE SetRunning
  <2>1. LifecycleType'
    BY <1>2 DEF SetRunning
  <2>2. ThreadsMatch'
    BY <1>2 DEF SetRunning
  <2>3. MainPhase'
    BY <1>2 DEF SetRunning
  <2>4. StopPhase'
    BY <1>2 DEF SetRunning
  <2>5. WorkerOwned'
    BY <1>2 DEF SetRunning
  <2>6. SyncerOwned'
    BY <1>2 DEF SetRunning
  <2>7. ExitPhase'
    BY <1>2 DEF SetRunning
  <2> QED
    BY <2>1, <2>2, <2>3, <2>4, <2>5, <2>6, <2>7
<1>3. CASE StartIoThread
  BY <1>3 DEF StartIoThread
<1>4. CASE StartSource
  <2>1. LifecycleType'
    BY <1>4 DEF StartSource
  <2>2. ThreadsMatch'
    BY <1>4, ZenonT(40) DEF StartSource
  <2>3. MainPhase'
    BY <1>4 DEF StartSource
  <2>4. StopPhase'
    BY <1>4 DEF StartSource
  <2>5. WorkerOwned'
    BY <1>4 DEF StartSource
  <2>6. SyncerOwned'
    BY <1>4 DEF StartSource
  <2>7. ExitPhase'
    BY <1>4 DEF StartSource
  <2> QED
    BY <2>1, <2>2, <2>3, <2>4, <2>5, <2>6, <2>7
<1>5. CASE LoopTop
  BY <1>5 DEF LoopTop
<1>6. CASE WaitPopState
  BY <1>6 DEF WaitPopState
<1>7. CASE StopListener
  BY <1>7 DEF StopListener
<1>8. CASE JoinListener
  BY <1>8 DEF JoinListener
<1>9. CASE DestroyMembers
  BY <1>9 DEF DestroyMembers
<1> QED
  BY <1>1, <1>2, <1>3, <1>4, <1>5, <1>6, <1>7, <1>8, <1>9, MainStops DEF Main

\* The signal listener's thread.
LEMMA ListenerKeeps == LifecycleInv /\ ~Over /\ Listener => LifecycleInv'
<1> SUFFICES ASSUME LifecycleInv, ~Over, Listener PROVE LifecycleInv'
  OBVIOUS
<1>1. CASE SigWait
  BY <1>1 DEF SigWait
<1>2. CASE CheckStopRequested
  BY <1>2 DEF CheckStopRequested
<1> QED
  BY <1>1, <1>2, ListenerStops DEF Listener

\* CandidateSource::run, which stops the syncer itself when a start fails.
LEMMA WorkerKeeps == LifecycleInv /\ ~Over /\ Worker => LifecycleInv'
<1> SUFFICES ASSUME LifecycleInv, ~Over, Worker PROVE LifecycleInv'
  OBVIOUS
<1>1. CASE BeginStartSyncer
  BY <1>1 DEF BeginStartSyncer
<1>2. CASE SpawnSyncer
  <2>1. LifecycleType'
    BY <1>2, ZenonT(40) DEF SpawnSyncer
  <2>2. ThreadsMatch'
    BY <1>2, ZenonT(40) DEF SpawnSyncer
  <2>3. MainPhase'
    BY <1>2 DEF SpawnSyncer
  <2>4. StopPhase'
    BY <1>2 DEF SpawnSyncer
  <2>5. WorkerOwned'
    BY <1>2 DEF SpawnSyncer
  <2>6. SyncerOwned'
    BY <1>2 DEF SpawnSyncer
  <2>7. ExitPhase'
    BY <1>2 DEF SpawnSyncer
  <2> QED
    BY <2>1, <2>2, <2>3, <2>4, <2>5, <2>6, <2>7
<1>3. CASE AwaitSyncer
  BY <1>3 DEF AwaitSyncer
<1>4. CASE OpenFeed
  BY <1>4 DEF OpenFeed
<1>5. CASE AwaitFeed
  BY <1>5 DEF AwaitFeed
<1>6. CASE LeaveLoop
  BY <1>6 DEF LeaveLoop
<1>7. CASE CloseFeed("worker")
  BY <1>7 DEF CloseFeed
<1>8. CASE StopSyncer("worker")
  <2>1. LifecycleType'
    <3>1. PcType'
      BY <1>8 DEF StopSyncer, AfterSyncer
    <3>2. ThrType'
      BY <1>8 DEF StopSyncer, AfterSyncer
    <3>3. FlagType'
      BY <1>8 DEF StopSyncer, AfterSyncer
    <3> QED
      BY <3>1, <3>2, <3>3
  <2>2. ThreadsMatch'
    BY <1>8 DEF StopSyncer, AfterSyncer
  <2>3. MainPhase'
    BY <1>8 DEF StopSyncer, AfterSyncer
  <2>4. StopPhase'
    BY <1>8 DEF StopSyncer, AfterSyncer
  <2>5. WorkerOwned'
    BY <1>8 DEF StopSyncer, AfterSyncer
  <2>6. SyncerOwned'
    BY <1>8 DEF StopSyncer, AfterSyncer
  <2>7. ExitPhase'
    BY <1>8 DEF StopSyncer, AfterSyncer
  <2> QED
    BY <2>1, <2>2, <2>3, <2>4, <2>5, <2>6, <2>7
<1>9. CASE JoinSyncer("worker")
  BY <1>9 DEF JoinSyncer, AfterSyncer
<1>10. CASE CloseStateWaiters("worker")
  BY <1>10 DEF CloseStateWaiters
<1> QED
  BY <1>1, <1>2, <1>3, <1>4, <1>5, <1>6, <1>7, <1>8, <1>9, <1>10 DEF Worker

\* BlockSyncer::run.
LEMMA SyncerKeeps == LifecycleInv /\ ~Over /\ Syncer => LifecycleInv'
<1> SUFFICES ASSUME LifecycleInv, ~Over, Syncer PROVE LifecycleInv'
  OBVIOUS
<1>1. CASE FirstFetch
  BY <1>1 DEF FirstFetch
<1>2. CASE LeavePoll
  BY <1>2 DEF LeavePoll
<1> QED
  BY <1>1, <1>2 DEF Syncer

\* No step of any thread leaves a join without an owner.
LEMMA LifecycleStep == LifecycleInv /\ [Next]_vars => LifecycleInv'
<1> SUFFICES ASSUME LifecycleInv, [Next]_vars PROVE LifecycleInv'
  OBVIOUS
<1>1. CASE Alive(FeedEvent)
  BY <1>1 DEF Alive, FeedEvent
<1>2. CASE Alive(IoEnds)
  BY <1>2 DEF Alive, IoEnds
<1>3. CASE Alive(Signal)
  BY <1>3 DEF Alive, Signal
<1>4. CASE Gone \/ UNCHANGED vars
  BY <1>4 DEF Gone, vars
<1> QED
  BY <1>1, <1>2, <1>3, <1>4, MainKeeps, ListenerKeeps, WorkerKeeps, SyncerKeeps
  DEF Next, Alive

HIDE DEF LifecycleInv, LifecycleType, PcType, ThrType, FlagType, ThreadsMatch, ThreadAt, MainPhase, StopPhase,
        WorkerOwned, SyncerOwned, ExitPhase, IoDone, Joinable, MainLabel,
        ListenerLabel, WorkerLabel, SyncerLabel, RunLabel, StopLabel, OverLabel,
        ThreadState, Over, Goto, End, flags, signalVars

\* The inductive invariant of the process, for any number of signals.
THEOREM ThreadsOwned == Spec => []LifecycleInv
BY LifecycleInit, LifecycleStep, PTL DEF Spec

\* The process ends through std::terminate in one way only: a signal's
\* Runtime::stop had gone past m_io_thread before Runtime::run assigned it.
THEOREM TerminatesOnlyInRace == Spec => []TerminatesOnlyIfStoppedInRun
<1>1. LifecycleInv => TerminatesOnlyIfStoppedInRun
  BY DEF TerminatesOnlyIfStoppedInRun, LifecycleInv, StopPhase, WorkerOwned, SyncerOwned,
         ExitPhase, IoDone, Joinable
<1> QED
  BY <1>1, ThreadsOwned, PTL

\* Nobody uses the candidate source while its destructor runs.
THEOREM DestroyedUnused == Spec => []NoUserAtDestruction
<1>1. LifecycleInv => NoUserAtDestruction
  BY DEF NoUserAtDestruction, LifecycleInv, MainPhase, StopPhase, WorkerOwned,
         SyncerOwned, ExitPhase, IoDone, Joinable
<1> QED
  BY <1>1, ThreadsOwned, PTL

\* A signal is swallowed only before Runtime::run has set m_running.
THEOREM SignalsHeeded == Spec => SignalIgnoredOnlyBeforeRun
<1>1. LifecycleInv /\ [Next]_vars
        => [pc.listener = "exchange" /\ pc'.listener = "end" => pc.main = "run"]_vars
  <2> SUFFICES ASSUME LifecycleInv, Next, pc.listener = "exchange", pc'.listener = "end"
               PROVE  pc.main = "run"
    OBVIOUS
  <2>1. pc'.listener # pc.listener /\ PcType
    BY DEF LifecycleInv, LifecycleType
  <2> USE DEF Goto, End, PcType
  <2>2. ~Main
    <3>1. ~Stopping("main")
      BY <2>1 DEF Stopping, Exchange, CloseFeed, StopSyncer, JoinSyncer, CloseQueue,
        CloseStateWaiters, StopWorker, JoinWorker, StopIoContext, JoinIo, ReturnFromStop,
        AfterSyncer, AfterWorker
    <3> QED
      BY <2>1, <3>1 DEF Main, StartListener, SetRunning, StartIoThread, StartSource, LoopTop, WaitPopState,
        StopListener, JoinListener, DestroyMembers
  <2>3. ~Worker
    BY <2>1 DEF Worker, BeginStartSyncer, SpawnSyncer, AwaitSyncer, OpenFeed, AwaitFeed,
        LeaveLoop, CloseFeed, StopSyncer, JoinSyncer, CloseStateWaiters, AfterSyncer
  <2>4. ~Syncer
    BY <2>1 DEF Syncer, FirstFetch, LeavePoll
  <2>5. ~FeedEvent /\ ~IoEnds /\ ~Signal /\ ~Gone
    BY <2>1 DEF FeedEvent, IoEnds, Signal, Gone, vars
  <2>6. ~Over /\ Listener
    BY <2>2, <2>3, <2>4, <2>5 DEF Next, Alive
  <2>7. Exchange("listener")
    BY <2>6 DEF Listener, SigWait, CheckStopRequested, Stopping, CloseFeed, StopSyncer, JoinSyncer, CloseQueue,
        CloseStateWaiters, StopWorker, JoinWorker, StopIoContext, JoinIo,
        AfterSyncer, AfterWorker
  <2>8. ~Over /\ Exchange("listener") /\ ~running
    BY <2>1, <2>6, <2>7 DEF Exchange
  <2>9. thr.listener = "running"
    BY DEF LifecycleInv, ThreadsMatch, ThreadAt
  <2>10. pc.main \notin RunLabel /\ pc.main # "start"
    BY <2>8 DEF LifecycleInv, StopPhase, MainPhase, StopLabel
  <2>11. pc.main \notin {"exchange", "members"} \cup StopLabel
    BY <2>9 DEF LifecycleInv, MainPhase
  <2> QED
    BY <2>8, <2>10, <2>11 DEF LifecycleInv, LifecycleType, PcType, MainLabel, Over, OverLabel
<1> QED
  BY <1>1, ThreadsOwned, PTL DEF Spec, SignalIgnoredOnlyBeforeRun
=============================================================================
