------------------------------ MODULE Lifecycle ------------------------------
(***************************************************************************)
(* The threads of the bot's process, from main() to exit: the signal       *)
(* listener, the io thread, the candidate source's worker and the block    *)
(* syncer; how they are started, told to stop and joined, and what is      *)
(* destroyed when. A thread's position is its pc; a call is a sequence of  *)
(* positions, a step lies between two accesses to shared state.            *)
(*                                                                         *)
(* Requests to the builder are steps that end: the clients set no timeout, *)
(* so a builder that accepts a request and never answers stalls a join.    *)
(***************************************************************************)
EXTENDS Integers

CONSTANT MaxSignals     \* bound on the SIGINT and SIGTERM the process gets

ASSUME LifecycleConstants == MaxSignals \in Nat

VARIABLES
    pc,             \* position of each thread
    thr,            \* the std::thread objects
    running,        \* Runtime::m_running
    io_stopped,     \* m_io_ctx.stop() has been called
    worker_running, \* Worker::m_running of the candidate source
    syncer_running, \* Worker::m_running of the block syncer
    syncer_state,   \* BlockSyncer::m_state
    queue_closed,   \* the event queue's closed flag
    closed,         \* CandidateSource::m_closed
    feed,           \* PendingFeed::m_state; STARTING reads as CLOSED
    signals,        \* signals pending for the process
    sent,           \* signals sent so far
    kicked,         \* the listener's own SIGTERM from pthread_kill
    stop_requested, \* SignalListener::m_stop_requested
    destroying,     \* the destructor main is in
    unjoined        \* history: stop() found m_io_thread not yet assigned

flags == <<running, io_stopped, worker_running, syncer_running, queue_closed, closed>>
signalVars == <<signals, sent, kicked, stop_requested>>
vars == <<pc, thr, flags, syncer_state, feed, signalVars, destroying, unjoined>>

\* A std::thread is "none" (default constructed), "running", "ended" or "joined".
Joinable(t) == thr[t] \in {"running", "ended"}

\* t moves on to label l.
Goto(t, l) == pc' = [pc EXCEPT ![t] = l]

\* t's function returns: its thread ends.
End(t) == Goto(t, "end") /\ thr' = [thr EXCEPT ![t] = "ended"]

Init ==
    /\ pc = [main |-> "start", listener |-> "off", worker |-> "off", syncer |-> "off"]
    /\ thr = [t \in {"listener", "io", "worker", "syncer"} |-> "none"]
    /\ running = FALSE
    /\ io_stopped = FALSE
    /\ worker_running = FALSE
    /\ syncer_running = FALSE
    /\ syncer_state = "STOPPED"
    /\ queue_closed = FALSE
    /\ closed = FALSE
    /\ feed = "CLOSED"
    /\ signals = 0
    /\ sent = 0
    /\ kicked = FALSE
    /\ stop_requested = FALSE
    /\ destroying = "nothing"
    /\ unjoined = FALSE

-----------------------------------------------------------------------------
(* main() and Runtime::run                                                 *)

\* SignalListener::start: block the signals, start the thread. If the mask
\* cannot be set, main returns and the destructors run.
StartListener ==
    /\ pc.main = "start"
    /\ \/ /\ thr' = [thr EXCEPT !.listener = "running"]
          /\ pc' = [pc EXCEPT !.main = "run", !.listener = "sigwait"]
       \/ Goto("main", "exchange") /\ UNCHANGED thr
    /\ UNCHANGED <<flags, syncer_state, feed, signalVars, destroying, unjoined>>

SetRunningNot ==
    /\ pc.main = "run"
    /\ Goto("main", "io")
    /\ UNCHANGED <<thr, flags, syncer_state, feed, signalVars, destroying, unjoined>>

SetRunning ==
    /\ pc.main = "run"
    /\ running' = TRUE
    /\ Goto("main", "io")
    /\ UNCHANGED <<thr, io_stopped, worker_running, syncer_running, queue_closed,
                   closed, syncer_state, feed, signalVars, destroying, unjoined>>

StartIoThread ==
    /\ pc.main = "io"
    /\ thr' = [thr EXCEPT !.io = "running"]
    /\ Goto("main", "source")
    /\ UNCHANGED <<flags, syncer_state, feed, signalVars, destroying, unjoined>>

\* Worker::start of the candidate source.
StartSource ==
    /\ pc.main = "source"
    /\ worker_running' = TRUE
    /\ thr' = [thr EXCEPT !.worker = "running"]
    /\ pc' = [pc EXCEPT !.main = "loop", !.worker = "start_syncer"]
    /\ UNCHANGED <<running, io_stopped, syncer_running, queue_closed, closed,
                   syncer_state, feed, signalVars, destroying, unjoined>>

\* while (m_running)
LoopTop ==
    /\ pc.main = "loop"
    /\ Goto("main", IF running THEN "wait" ELSE "stop_listener")
    /\ UNCHANGED <<thr, flags, syncer_state, feed, signalVars, destroying, unjoined>>

WaitPopStateContinues ==
    /\ pc.main = "wait"
    /\ closed \/ pc.worker = "loop"
    /\ Goto("main", "loop")
    /\ UNCHANGED <<thr, flags, syncer_state, feed, signalVars, destroying, unjoined>>

\* wait_pop_state: CLOSED before all else; a view needs the worker in its loop.
WaitPopState ==
    /\ pc.main = "wait"
    /\ \/ closed /\ Goto("main", "stop_listener")
       \/ ~closed /\ pc.worker = "loop" /\ Goto("main", "loop")
    /\ UNCHANGED <<thr, flags, syncer_state, feed, signalVars, destroying, unjoined>>

-----------------------------------------------------------------------------
(* SignalListener                                                          *)

\* The signals are blocked in every thread until main restores the mask, and
\* kill the process from then on.
Signal ==
    /\ sent < MaxSignals
    /\ pc.main \notin {"start", "exited", "killed", "terminated"}
    /\ sent' = sent + 1
    /\ \/ /\ destroying = "nothing" /\ pc.main # "exchange"
          /\ signals' = signals + 1
          /\ UNCHANGED pc
       \/ /\ destroying # "nothing" \/ pc.main = "exchange"
          /\ Goto("main", "killed")
          /\ UNCHANGED signals
    /\ UNCHANGED <<thr, flags, syncer_state, feed, kicked, stop_requested,
                   destroying, unjoined>>

\* sigwait returns a signal of the process or the one main sent this thread.
SigWait ==
    /\ pc.listener = "sigwait"
    /\ \/ signals > 0 /\ signals' = signals - 1 /\ UNCHANGED kicked
       \/ kicked /\ kicked' = FALSE /\ UNCHANGED signals
    /\ Goto("listener", "check")
    /\ UNCHANGED <<thr, flags, syncer_state, feed, sent, stop_requested,
                   destroying, unjoined>>

CheckStopRequestedOnly ==
    /\ pc.listener = "check"
    /\ End("listener")
    /\ UNCHANGED <<flags, syncer_state, feed, signalVars, destroying, unjoined>>

\* Return if stop() asked for it, else the handler: Runtime::stop.
CheckStopRequested ==
    /\ pc.listener = "check"
    /\ IF stop_requested THEN End("listener")
       ELSE Goto("listener", "exchange") /\ UNCHANGED thr
    /\ UNCHANGED <<flags, syncer_state, feed, signalVars, destroying, unjoined>>

\* SignalListener::stop up to its join.
StopListener ==
    /\ pc.main = "stop_listener"
    /\ stop_requested' = TRUE
    /\ kicked' = TRUE
    /\ Goto("main", "join_listener")
    /\ UNCHANGED <<thr, flags, syncer_state, feed, signals, sent, destroying, unjoined>>

\* The join, restore_signal_mask, and on to ~Runtime. A signal that is still
\* pending is delivered as the mask is restored.
JoinListener ==
    /\ pc.main = "join_listener"
    /\ thr.listener = "ended"
    /\ thr' = [thr EXCEPT !.listener = "joined"]
    /\ Goto("main", IF signals > 0 THEN "killed" ELSE "exchange")
    /\ UNCHANGED <<flags, syncer_state, feed, signalVars, destroying, unjoined>>

-----------------------------------------------------------------------------
(* Runtime::stop, by the listener's handler or by main in ~Runtime, and    *)
(* CandidateSource::stop inside it and in ~CandidateSource                 *)

\* Where t goes when Runtime::stop returns: the handler ends with its thread,
\* main goes on to destroy the candidate source.
ReturnFromStop(t) ==
    IF t = "listener"
    THEN End("listener") /\ UNCHANGED destroying
    ELSE Goto("main", "feed") /\ destroying' = "source" /\ UNCHANGED thr

Exchange(t) ==
    /\ pc[t] = "exchange"
    /\ IF running
       THEN running' = FALSE /\ Goto(t, "feed") /\ UNCHANGED <<thr, destroying>>
       ELSE ReturnFromStop(t) /\ UNCHANGED running
    /\ UNCHANGED <<io_stopped, worker_running, syncer_running, queue_closed,
                   closed, syncer_state, feed, signalVars, unjoined>>

\* stop_inputs: PendingFeed::close. The worker calls it when a start fails.
CloseFeed(t) ==
    /\ pc[t] = "feed"
    /\ feed' = IF feed \in {"OPEN", "FAILED"} THEN "CLOSED" ELSE feed
    /\ Goto(t, "syncer")
    /\ UNCHANGED <<thr, flags, syncer_state, signalVars, destroying, unjoined>>

\* Where t goes when the syncer has been stopped.
AfterSyncer(t) ==
    CASE t = "worker" -> "waiters"
      [] t = "main" /\ destroying = "syncer" -> "members"
      [] OTHER -> "queue"

StopSyncerNoJoin(t) ==
    /\ pc[t] = "syncer"
    /\ syncer_running' = FALSE
    /\ syncer_state' = "STOPPED"
    /\ Goto(t, AfterSyncer(t))
    /\ UNCHANGED <<thr, running, io_stopped, worker_running, queue_closed, closed,
                   feed, signalVars, destroying, unjoined>>

\* BlockSyncer::stop: Worker::stop returns at once if the syncer is not
\* running, which includes another thread being about to join it.
StopSyncer(t) ==
    /\ pc[t] = "syncer"
    /\ IF syncer_running
       THEN Goto(t, "join_syncer") /\ syncer_running' = FALSE /\ UNCHANGED syncer_state
       ELSE Goto(t, AfterSyncer(t)) /\ syncer_state' = "STOPPED" /\ UNCHANGED syncer_running
    /\ UNCHANGED <<thr, running, io_stopped, worker_running, queue_closed, closed,
                   feed, signalVars, destroying, unjoined>>

JoinSyncer(t) ==
    /\ pc[t] = "join_syncer"
    /\ thr.syncer = "ended"
    /\ thr' = [thr EXCEPT !.syncer = "joined"]
    /\ syncer_state' = "STOPPED"
    /\ Goto(t, AfterSyncer(t))
    /\ UNCHANGED <<flags, feed, signalVars, destroying, unjoined>>

CloseQueue(t) ==
    /\ pc[t] = "queue"
    /\ queue_closed' = TRUE
    /\ Goto(t, "waiters")
    /\ UNCHANGED <<thr, running, io_stopped, worker_running, syncer_running, closed,
                   syncer_state, feed, signalVars, destroying, unjoined>>

\* close_state_waiters; the last thing the worker does when a start failed.
CloseStateWaiters(t) ==
    /\ pc[t] = "waiters"
    /\ closed' = TRUE
    /\ IF t = "worker" THEN End(t) ELSE Goto(t, "worker") /\ UNCHANGED thr
    /\ UNCHANGED <<running, io_stopped, worker_running, syncer_running, queue_closed,
                   syncer_state, feed, signalVars, destroying, unjoined>>

\* Where t goes when the worker has been stopped: ~CandidateSource destroys
\* the block syncer, Runtime::stop goes on.
AfterWorker(t) ==
    IF destroying = "source"
    THEN Goto(t, "syncer") /\ destroying' = "syncer"
    ELSE Goto(t, "io_stop") /\ UNCHANGED destroying

\* Worker::stop of the candidate source.
StopWorker(t) ==
    /\ pc[t] = "worker"
    /\ worker_running' = FALSE
    /\ IF worker_running THEN Goto(t, "join_worker") /\ UNCHANGED destroying
       ELSE AfterWorker(t)
    /\ UNCHANGED <<thr, running, io_stopped, syncer_running, queue_closed, closed,
                   syncer_state, feed, signalVars, unjoined>>

JoinWorker(t) ==
    /\ pc[t] = "join_worker"
    /\ thr.worker = "ended"
    /\ thr' = [thr EXCEPT !.worker = "joined"]
    /\ AfterWorker(t)
    /\ UNCHANGED <<flags, syncer_state, feed, signalVars, unjoined>>

StopIoContext(t) ==
    /\ pc[t] = "io_stop"
    /\ io_stopped' = TRUE
    /\ Goto(t, "join_io")
    /\ UNCHANGED <<thr, running, worker_running, syncer_running, queue_closed, closed,
                   syncer_state, feed, signalVars, destroying, unjoined>>

JoinIoNot(t) ==
    /\ pc[t] = "join_io"
    /\ ReturnFromStop(t)
    /\ UNCHANGED <<flags, syncer_state, feed, signalVars, unjoined>>

\* m_io_thread.join() if it is joinable. Assigning m_io_thread in run() and
\* testing it here is a race; each is taken as one step.
JoinIo(t) ==
    /\ pc[t] = "join_io"
    /\ \/ ~Joinable("io") /\ unjoined' = TRUE /\ ReturnFromStop(t)
       \/ /\ thr.io = "ended"
          /\ UNCHANGED unjoined
          /\ IF t = "listener"
             THEN /\ Goto(t, "end")
                  /\ thr' = [thr EXCEPT !.io = "joined", !.listener = "ended"]
                  /\ UNCHANGED destroying
             ELSE /\ Goto(t, "feed")
                  /\ thr' = [thr EXCEPT !.io = "joined"]
                  /\ destroying' = "source"
    /\ UNCHANGED <<flags, syncer_state, feed, signalVars>>

-----------------------------------------------------------------------------
(* Destructors: a std::thread destroyed while joinable terminates the      *)
(* process                                                                 *)

\* The members of the candidate source, its Worker base, then m_io_thread.
DestroyMembers ==
    /\ pc.main = "members"
    /\ Goto("main", IF \E t \in {"worker", "syncer", "io"} : Joinable(t)
                    THEN "terminated" ELSE "exited")
    /\ UNCHANGED <<thr, flags, syncer_state, feed, signalVars, destroying, unjoined>>

-----------------------------------------------------------------------------
(* The worker: CandidateSource::run                                        *)

\* BlockSyncer::start up to Worker::start.
BeginStartSyncer ==
    /\ pc.worker = "start_syncer"
    /\ syncer_state' = "STARTING"
    /\ Goto("worker", "spawn_syncer")
    /\ UNCHANGED <<thr, flags, feed, signalVars, destroying, unjoined>>

SpawnSyncer ==
    /\ pc.worker = "spawn_syncer"
    /\ syncer_running' = TRUE
    /\ thr' = [thr EXCEPT !.syncer = "running"]
    /\ pc' = [pc EXCEPT !.worker = "await_syncer", !.syncer = "fetch"]
    /\ UNCHANGED <<running, io_stopped, worker_running, queue_closed, closed,
                   syncer_state, feed, signalVars, destroying, unjoined>>

\* BlockSyncer::wait_until_ready; it may time out while the state is STARTING.
AwaitSyncer ==
    /\ pc.worker = "await_syncer"
    /\ Goto("worker", IF syncer_state = "READY" THEN "open_feed" ELSE "feed")
    /\ UNCHANGED <<thr, flags, syncer_state, feed, signalVars, destroying, unjoined>>

OpenFeed ==
    /\ pc.worker = "open_feed"
    /\ feed' = IF feed = "OPEN" THEN feed ELSE "STARTING"
    /\ Goto("worker", "await_feed")
    /\ UNCHANGED <<thr, flags, syncer_state, signalVars, destroying, unjoined>>

\* PendingFeed::wait_until_ready; it may time out.
AwaitFeed ==
    /\ pc.worker = "await_feed"
    /\ Goto("worker", IF feed = "OPEN" THEN "loop" ELSE "feed")
    /\ UNCHANGED <<thr, flags, syncer_state, feed, signalVars, destroying, unjoined>>

\* run_core_loop finds the queue closed.
LeaveLoop ==
    /\ pc.worker = "loop"
    /\ queue_closed
    /\ End("worker")
    /\ UNCHANGED <<flags, syncer_state, feed, signalVars, destroying, unjoined>>

-----------------------------------------------------------------------------
(* The syncer and the io thread                                            *)

\* BlockSyncer::run: the first fetch.
FirstFetch ==
    /\ pc.syncer = "fetch"
    /\ \/ syncer_state' = "READY" /\ Goto("syncer", "poll") /\ UNCHANGED thr
       \/ syncer_state' = "FAILED" /\ End("syncer")
    /\ UNCHANGED <<flags, feed, signalVars, destroying, unjoined>>

\* run_core_loop sees m_running go, at its next poll or woken by stop().
LeavePoll ==
    /\ pc.syncer = "poll"
    /\ ~syncer_running
    /\ End("syncer")
    /\ UNCHANGED <<flags, syncer_state, feed, signalVars, destroying, unjoined>>

\* The feed opens or fails, also after it was closed (see WsSource).
FeedEvent ==
    /\ thr.io = "running"
    /\ ~io_stopped
    /\ pc.worker \notin {"off", "start_syncer", "spawn_syncer", "await_syncer", "open_feed"}
    /\ feed' \in {"OPEN", "FAILED"}
    /\ UNCHANGED <<pc, thr, flags, syncer_state, signalVars, destroying, unjoined>>

\* m_io_ctx.run() returns.
IoEnds ==
    /\ thr.io = "running"
    /\ io_stopped
    /\ thr' = [thr EXCEPT !.io = "ended"]
    /\ UNCHANGED <<pc, flags, syncer_state, feed, signalVars, destroying, unjoined>>

Over == pc.main \in {"exited", "killed", "terminated"}

\* The process is gone, with all its threads.
Gone == Over /\ UNCHANGED vars

Stopping(t) ==
    \/ Exchange(t) \/ CloseFeed(t) \/ StopSyncer(t) \/ JoinSyncer(t)
    \/ CloseQueue(t) \/ CloseStateWaiters(t) \/ StopWorker(t) \/ JoinWorker(t)
    \/ StopIoContext(t) \/ JoinIo(t)

Main ==
    \/ StartListener \/ SetRunning \/ StartIoThread \/ StartSource
    \/ LoopTop \/ WaitPopState \/ StopListener \/ JoinListener \/ DestroyMembers
    \/ Stopping("main")

Listener == SigWait \/ CheckStopRequested \/ Stopping("listener")

Worker ==
    \/ BeginStartSyncer \/ SpawnSyncer \/ AwaitSyncer \/ OpenFeed \/ AwaitFeed
    \/ LeaveLoop
    \/ CloseFeed("worker") \/ StopSyncer("worker") \/ JoinSyncer("worker")
    \/ CloseStateWaiters("worker")

Syncer == FirstFetch \/ LeavePoll

Alive(A) == ~Over /\ A

Next ==
    \/ Alive(Main) \/ Alive(Listener) \/ Alive(Worker) \/ Alive(Syncer)
    \/ Alive(FeedEvent) \/ Alive(IoEnds) \/ Alive(Signal)
    \/ Gone

Spec == Init /\ [][Next]_vars

\* Every thread runs; requests, waits with a timeout and polls end.
FairSpec ==
    /\ Spec
    /\ WF_vars(Alive(Main))
    /\ WF_vars(Alive(Listener))
    /\ WF_vars(Alive(Worker))
    /\ WF_vars(Alive(Syncer))
    /\ WF_vars(Alive(IoEnds))

-----------------------------------------------------------------------------
(* Properties                                                              *)

\* Whatever order start, failure and a signal come in, every thread has been
\* joined when its std::thread is destroyed. The one exception is the io thread,
\* when a signal's Runtime::stop ran to its end before run() assigned it.
TerminatesOnlyIfStoppedInRun ==
    pc.main = "terminated" => /\ unjoined /\ io_stopped
                              /\ ~Joinable("worker") /\ ~Joinable("syncer")

\* While the candidate source is being destroyed nobody is left to use it: its
\* two threads are joined and the io context runs no handler.
NoUserAtDestruction ==
    pc.main \in {"members", "exited"} =>
        /\ thr.worker # "running" /\ thr.syncer # "running"
        /\ thr.io = "running" => io_stopped

\* The one time a signal is taken and has no effect is before Runtime::run has
\* set m_running: the handler's stop() then does nothing, and no later signal is
\* waited for.
SignalIgnoredOnlyBeforeRun ==
    [][pc.listener = "exchange" /\ pc'.listener = "end" => pc.main = "run"]_vars

\* A signal that finds the bot running and the listener waiting ends the
\* process, whatever main, the worker and the syncer are doing at that moment.
SignalEndsProcess ==
    signals > 0 /\ running /\ pc.listener = "sigwait" ~> Over

\* A source that closed itself, its start having failed, ends the process too.
FailedStartEndsProcess == closed ~> Over
=============================================================================
