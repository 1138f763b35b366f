------------------------------ MODULE WsSource ------------------------------
(***************************************************************************)
(* The websocket source and the pending feed above it: a chain of          *)
(* asynchronous operations (resolve, connect, TLS and websocket handshake, *)
(* read after read), reconnection with a bounded number of attempts, and   *)
(* close() called from the bot's other threads while the io thread runs    *)
(* completion handlers.                                                    *)
(*                                                                         *)
(* The object is one record, src; a method is a function from the record   *)
(* before it to the record after it, so that a handler that calls start()  *)
(* or fail() reads as it does in the code. Boost.Asio and Beast are        *)
(* modelled from how they are used: an operation is in flight until it     *)
(* completes; its handler then waits in the io thread's queue, where       *)
(* handlers may overtake each other but none overtakes a timer's.          *)
(***************************************************************************)
EXTENDS Integers, Sequences, FiniteSets, SequencesExt

CONSTANTS
    UseTls,         \* m_use_tls
    MaxAttempts,    \* kMaxReconnectAttempts
    MaxFaults,      \* bound on the failures of the network
    MaxReopens      \* bound on calls of reopen(); the bot makes none

ASSUME WsConstants ==
    /\ UseTls \in BOOLEAN
    /\ MaxAttempts \in Nat
    /\ MaxFaults \in Nat
    /\ MaxReopens \in Nat

VARIABLES
    src,            \* the WsSource object and its operations (see Source)
    at,             \* where the threads that open and close the feed are
    io,             \* FALSE once the io context has been stopped
    faults,         \* failures of the network so far
    reopens         \* calls of reopen() so far

vars == <<src, at, io, faults, reopens>>

State == {"STOPPED", "STARTING", "RUNNING", "STOPPING", "FAILED"}
FeedState == {"CLOSED", "OPEN", "FAILED"}

\* The steps of one connection, each started by the handler of the one before.
ChainOps == {"resolve", "connect", "tls_handshake", "ws_handshake", "read"}

\* aborted: the stream was reset under the operation. undefined: a connect
\* that had completed refers to a socket destroyed since.
Result == {"ok", "error", "aborted", "undefined"}
Completion == [op : ChainOps \cup {"close", "timer"}, res : Result]

Source ==
    [state : State,
     restart_requested : BOOLEAN,
     reconnect_attempts : 0 .. MaxAttempts,
     is_open : BOOLEAN,                         \* the lowest layer's socket
     live : SUBSET (ChainOps \cup {"close"}),   \* operations in flight
     ready : Seq(Completion),                   \* handlers queued
     timer : BOOLEAN,                           \* m_reconnect_timer is running
     feed : FeedState,                          \* PendingFeed::m_state
     clash : BOOLEAN,       \* history: a chain was started beside another
     stray : BOOLEAN,       \* history: an operation was started on a dead socket
     failures : Nat,        \* history: failures since the last handshake
     released : BOOLEAN]    \* history: stop() or restart() took effect

-----------------------------------------------------------------------------
(* Callbacks into PendingFeed                                              *)

PublishStateNotClosed(state, s) ==
    [s EXCEPT !.state = state,
              !.feed = CASE state = "RUNNING" -> "OPEN"
                         [] state = "FAILED" -> "FAILED"
                         [] OTHER -> s.feed]

\* publish_state, with PendingFeed::on_ws_state.
PublishState(state, s) ==
    [s EXCEPT !.state = state,
              !.feed = CASE state = "STOPPED" -> "CLOSED"
                         [] state = "RUNNING" -> "OPEN"
                         [] state = "FAILED" -> "FAILED"
                         [] OTHER -> s.feed]

\* publish_error, with PendingFeed::on_ws_error.
PublishError(s) == [s EXCEPT !.feed = "FAILED"]

-----------------------------------------------------------------------------
(* The stream and its operations                                           *)

\* What is left of a queued completion when its stream is destroyed. The
\* resolver is not part of the stream.
Abandon(c) ==
    IF c.op \in {"resolve", "timer"} \/ c.res # "ok" THEN c
    ELSE [c EXCEPT !.res = IF c.op = "connect" THEN "undefined" ELSE "aborted"]

\* The handler of op, queued with operation_aborted if op is in flight.
AbortedOp(op, ops) == IF op \in ops THEN <<[op |-> op, res |-> "aborted"]>> ELSE <<>>

Aborted(ops) ==
    AbortedOp("resolve", ops) \o AbortedOp("connect", ops) \o AbortedOp("tls_handshake", ops)
        \o AbortedOp("ws_handshake", ops) \o AbortedOp("read", ops) \o AbortedOp("close", ops)

\* What is queued once the stream is gone.
Leftover(s) ==
    [i \in 1 .. Len(s.ready) |-> Abandon(s.ready[i])] \o Aborted(s.live)

ResetStream(s) == [s EXCEPT !.is_open = FALSE, !.live = {}, !.ready = Leftover(s)]

\* Start the next operation of a connection.
Initiate(op, s) ==
    [s EXCEPT !.live = @ \cup {op},
              !.is_open = @ \/ op = "connect",
              !.clash = @ \/ s.live \cap ChainOps # {},
              !.stray = @ \/ (op \notin {"resolve", "connect"} /\ ~s.is_open)]

-----------------------------------------------------------------------------
(* start, fail, close                                                      *)

Start(s) ==
    IF s.state \in {"STARTING", "RUNNING"}
    THEN [s EXCEPT !.timer = FALSE]
    ELSE Initiate("resolve", PublishState("STARTING", ResetStream(
             [s EXCEPT !.timer = FALSE, !.restart_requested = FALSE])))

ScheduleReconnectOneMore(s) ==
    IF s.state \in {"STOPPING", "STOPPED"} \/ s.reconnect_attempts > MaxAttempts
    THEN s
    ELSE [s EXCEPT !.reconnect_attempts = @ + 1, !.timer = TRUE]

ScheduleReconnect(s) ==
    IF s.state \in {"STOPPING", "STOPPED"} \/ s.reconnect_attempts >= MaxAttempts
    THEN s
    ELSE [s EXCEPT !.reconnect_attempts = @ + 1, !.timer = TRUE]

FailAsStopped(s) ==
    ScheduleReconnect(ResetStream(PublishState("STOPPED", PublishError(
        [s EXCEPT !.failures = @ + 1]))))

Fail(s) ==
    ScheduleReconnect(ResetStream(PublishState("FAILED", PublishError(
        [s EXCEPT !.failures = @ + 1]))))

\* failed: an error other than websocket::error::closed.
OnClose(failed, s) ==
    LET published ==
            IF failed
            THEN ScheduleReconnect(PublishState("FAILED", PublishError(s)))
            ELSE PublishState("STOPPED", s)
        reset == ResetStream(published)
    IN  IF reset.restart_requested
        THEN Start([reset EXCEPT !.restart_requested = FALSE])
        ELSE reset

DoClose(s) ==
    IF s.is_open THEN [s EXCEPT !.live = @ \cup {"close"}] ELSE OnClose(FALSE, s)

\* stop() up to do_close().
BeginStop(s) ==
    LET quiet == [s EXCEPT !.restart_requested = FALSE, !.timer = FALSE]
    IN  IF s.state \in {"STOPPED", "STOPPING"} THEN quiet
        ELSE PublishState("STOPPING", [quiet EXCEPT !.released = TRUE])

Restart(s) ==
    LET asked == [s EXCEPT !.restart_requested = TRUE, !.released = TRUE]
    IN  CASE s.state \in {"STOPPED", "FAILED"} -> Start(ResetStream(asked))
          [] s.state = "STOPPING" -> asked
          [] OTHER -> DoClose(PublishState("STOPPING", asked))

-----------------------------------------------------------------------------
(* Completion handlers                                                     *)

OnResolveTwice(ok, s) ==
    IF ok THEN Initiate("connect", Initiate("connect", s)) ELSE Fail(s)

OnResolve(ok, s) == IF ok THEN Initiate("connect", s) ELSE Fail(s)

\* Failing to set the TLS host name is one more way for ok to be FALSE.
OnConnect(ok, s) ==
    IF ~ok THEN Fail(s)
    ELSE Initiate(IF UseTls THEN "tls_handshake" ELSE "ws_handshake", s)

OnTlsHandshake(ok, s) == IF ok THEN Initiate("ws_handshake", s) ELSE Fail(s)

OnWsHandshakeNoRead(ok, s) ==
    IF ~ok THEN Fail(s)
    ELSE PublishState("RUNNING", [s EXCEPT !.reconnect_attempts = 0, !.failures = 0])

OnWsHandshakeKeepCount(ok, s) ==
    IF ~ok THEN Fail(s)
    ELSE Initiate("read", PublishState("RUNNING", [s EXCEPT !.failures = 0]))

OnWsHandshake(ok, s) ==
    IF ~ok THEN Fail(s)
    ELSE Initiate("read", PublishState("RUNNING",
             [s EXCEPT !.reconnect_attempts = 0, !.failures = 0]))

OnRead(ok, s) ==
    IF ~ok THEN Fail(s)
    ELSE IF s.state = "RUNNING" THEN Initiate("read", s) ELSE s

OnTimer(s) == IF s.state \in {"STOPPING", "RUNNING"} THEN s ELSE Start(s)

\* The handler of operation op. An aborted close may be dropped uncalled
\* (Beast destroys a close that waits for the read), and a connect whose
\* socket is gone reports anything.
Handle(c, s) ==
    LET oks == CASE c.res = "ok" -> {TRUE}
                 [] c.res = "undefined" -> BOOLEAN
                 [] OTHER -> {FALSE}
    IN  CASE c.op = "resolve" -> {OnResolve(ok, s) : ok \in oks}
          [] c.op = "connect" -> {OnConnect(ok, s) : ok \in oks}
          [] c.op = "tls_handshake" -> {OnTlsHandshake(ok, s) : ok \in oks}
          [] c.op = "ws_handshake" -> {OnWsHandshake(ok, s) : ok \in oks}
          [] c.op = "read" -> {OnRead(ok, s) : ok \in oks}
          [] c.op = "close" -> {OnClose(~ok, s) : ok \in oks}
                                  \cup (IF c.res = "aborted" THEN {s} ELSE {})
          [] c.op = "timer" -> {OnTimer(s)}

-----------------------------------------------------------------------------
(* The io thread and the network                                           *)

Init ==
    /\ src = [state |-> "STOPPED", restart_requested |-> FALSE,
              reconnect_attempts |-> 0, is_open |-> FALSE, live |-> {},
              ready |-> <<>>, timer |-> FALSE, feed |-> "CLOSED",
              clash |-> FALSE, stray |-> FALSE, failures |-> 0, released |-> FALSE]
    /\ at = [worker |-> "init", stopper |-> "away"]
    /\ io = TRUE
    /\ faults = 0
    /\ reopens = 0

\* A queued handler runs: those before it may be overtaken, timers not.
RunHandler ==
    /\ io
    /\ \E i \in 1 .. Len(src.ready) :
          /\ \A j \in 1 .. i - 1 : "timer" \notin {src.ready[j].op, src.ready[i].op}
          /\ src' \in Handle(src.ready[i], [src EXCEPT !.ready = RemoveAt(src.ready, i)])
    /\ UNCHANGED <<at, io, faults, reopens>>

Queue(op, res) ==
    src' = [src EXCEPT !.live = @ \ {op},
                       !.ready = Append(@, [op |-> op, res |-> res])]

\* Only a stream whose socket is open can shake hands, read or close.
CompleteOk(op) ==
    /\ io
    /\ op \in src.live
    /\ op \in {"resolve", "connect"} \/ src.is_open
    /\ Queue(op, "ok")
    /\ UNCHANGED <<at, io, faults, reopens>>

\* A failure is the network's, or follows from a close under way or from the
\* socket not being open.
CompleteError(op) ==
    /\ io
    /\ op \in src.live
    /\ Queue(op, "error")
    /\ \/ "close" \in src.live /\ UNCHANGED faults
       \/ op \notin {"resolve", "connect"} /\ ~src.is_open /\ UNCHANGED faults
       \/ faults < MaxFaults /\ faults' = faults + 1
    /\ UNCHANGED <<at, io, reopens>>

TimerExpires ==
    /\ io
    /\ src.timer
    /\ src' = [src EXCEPT !.timer = FALSE,
                          !.ready = Append(@, [op |-> "timer", res |-> "ok"])]
    /\ UNCHANGED <<at, io, faults, reopens>>

-----------------------------------------------------------------------------
(* PendingFeed and its callers, on threads of their own                    *)

\* The worker opens the feed once.
Open ==
    /\ at.worker = "init"
    /\ src' = IF src.feed = "OPEN" THEN src ELSE Start(src)
    /\ at' = [at EXCEPT !.worker = "waiting"]
    /\ UNCHANGED <<io, faults, reopens>>

\* wait_until_ready, and what CandidateSource::run does with its answer: a
\* failed start closes the feed, as does a wait that times out.
WaitUntilReady ==
    /\ at.worker = "waiting"
    /\ at' = [at EXCEPT !.worker = IF src.feed = "OPEN" THEN "loop" ELSE "close"]
    /\ UNCHANGED <<src, io, faults, reopens>>

\* close() up to do_close(). The worker calls it when its wait has failed,
\* CandidateSource::stop() at any time.
Close(t) ==
    /\ at[t] = IF t = "worker" THEN "close" ELSE "away"
    /\ src' = IF src.feed = "CLOSED" THEN src ELSE BeginStop(src)
    /\ at' = [at EXCEPT ![t] =
                IF src.feed = "CLOSED" \/ src.state \in {"STOPPED", "STOPPING"}
                THEN "done" ELSE "closing"]
    /\ UNCHANGED <<io, faults, reopens>>

\* The rest of stop(), the io thread having run in between.
FinishClose(t) ==
    /\ at[t] = "closing"
    /\ src' = DoClose(src)
    /\ at' = [at EXCEPT ![t] = "done"]
    /\ UNCHANGED <<io, faults, reopens>>

Reopen ==
    /\ reopens < MaxReopens
    /\ at.worker # "init"
    /\ src' = Restart(src)
    /\ reopens' = reopens + 1
    /\ UNCHANGED <<at, io, faults>>

\* Runtime::stop: source.stop() has returned, its worker joined.
StopIo ==
    /\ io
    /\ at.stopper = "done"
    /\ at.worker \in {"init", "loop", "done"}
    /\ io' = FALSE
    /\ UNCHANGED <<src, at, faults, reopens>>

Network == \E op \in ChainOps \cup {"close"} : CompleteOk(op) \/ CompleteError(op)

Next ==
    \/ RunHandler
    \/ Network
    \/ TimerExpires
    \/ Open
    \/ WaitUntilReady
    \/ \E t \in {"worker", "stopper"} : Close(t) \/ FinishClose(t)
    \/ Reopen
    \/ StopIo

Spec == Init /\ [][Next]_vars

\* The io thread runs what is queued, the timer expires, and an operation ends:
\* Beast's suggested timeouts bound the handshake and an idle connection, the
\* kernel bounds a connect. The worker runs, and a close() that began goes on.
FairSpec ==
    /\ Spec
    /\ WF_vars(RunHandler)
    /\ WF_vars(\E op \in ChainOps \ {"read"} : CompleteOk(op) \/ CompleteError(op))
    /\ WF_vars(TimerExpires)
    /\ WF_vars(Open)
    /\ WF_vars(Close("worker"))
    /\ \A t \in {"worker", "stopper"} : WF_vars(FinishClose(t))

-----------------------------------------------------------------------------
(* Properties                                                              *)

Queued(op) == \E i \in 1 .. Len(src.ready) : src.ready[i].op = op

\* A source that reports RUNNING, whose feed reports OPEN, has a read in flight
\* or a read's handler queued: it never sits there deaf.
ReaderPresent == src.state = "RUNNING" => "read" \in src.live \/ Queued("read")

Closed(t) == at[t] \in {"closing", "done"}

\* Handlers that arrive late, after a stop() or for a stream that was reset,
\* start no operation beside the current connection's, although fail() revives
\* a source that was stopped: Beast allows one read and one handshake at a time
\* on a stream. Two chains take a close by both threads, or reopen(), which
\* resets the stream under a resolve that has already succeeded, or a connect
\* that had completed when its socket was destroyed and reports success.
OneChain ==
    src.clash => (Closed("worker") /\ Closed("stopper")) \/ reopens > 0 \/ src.stray

\* The feed says OPEN only of a source that is RUNNING or being stopped, and
\* CLOSED never of one that is running or has failed: PendingFeed::close(), which
\* does nothing when it reads CLOSED, never skips a connection that has been up.
FeedMirrorsSource ==
    /\ src.feed = "OPEN" => src.state \in {"RUNNING", "STOPPING"}
    /\ src.feed = "CLOSED" => src.state \notin {"RUNNING", "FAILED"}

Busy == src.live # {} \/ src.ready # <<>> \/ src.timer

\* Until someone closes it, an opened source is always on its way: an operation,
\* a handler or the reconnect timer is outstanding. It gives up only after more
\* failures in a row, with no handshake between them, than attempts allowed, and
\* then it does give up.
GivesUpAfterMaxAttempts ==
    ~src.released =>
        /\ at.worker # "init" /\ ~Busy => src.failures > MaxAttempts
        /\ src.failures <= MaxAttempts + 1

Conn ==
    IF src.released THEN "released"
    ELSE IF src.state = "STOPPED" THEN "closed"
    ELSE IF src.state = "RUNNING" THEN "open"
    ELSE IF src.feed = "CLOSED" THEN "connecting"
    ELSE "reconnecting"

Stream == INSTANCE PendingStream WITH conn <- Conn

\* Until it is closed the source is the stream the rest of the bot assumes.
ImplementsStream == Stream!StreamSpec

\* A lost connection comes back, however often it is lost, unless the failures
\* in a row exceed the attempts or the feed is closed or the bot stops meanwhile.
Reconnects ==
    src.feed = "FAILED" ~>
        src.feed = "OPEN" \/ src.released \/ ~io \/ src.failures > MaxAttempts
=============================================================================
