---------------------------- MODULE WsSourceProofs ----------------------------
(***************************************************************************)
(* The websocket source, for any number of attempts, faults and calls of   *)
(* reopen(). Three invariants carry the proofs. Good: what holds of the    *)
(* object whatever is called when. FirstLife: until a stop() or restart()  *)
(* takes effect the source holds exactly one token, which is an operation  *)
(* in flight, its handler, the reconnect timer or the timer's handler, and *)
(* the state says which; it drops the token only after more failures than  *)
(* attempts. ChainInv: afterwards, among the handlers still queued, at     *)
(* most one goes on with the chain of operations, and no handler or timer  *)
(* that is still to come can start or reset a second one.                  *)
(***************************************************************************)
EXTENDS WsSource, SequenceTheorems, TLAPS

Place == {"init", "waiting", "loop", "close", "away", "closing", "done"}

WsType ==
    /\ src \in Source
    /\ at \in [worker : Place, stopper : Place]
    /\ io \in BOOLEAN
    /\ faults \in Nat
    /\ reopens \in Nat

\* The parts of the invariants, of any record s.
HasReader(s) == "read" \in s.live \/ \E i \in 1 .. Len(s.ready) : s.ready[i].op = "read"

Mirrors(s) ==
    /\ s.feed = "OPEN" => s.state \in {"RUNNING", "STOPPING"}
    /\ s.feed = "CLOSED" => s.state \notin {"RUNNING", "FAILED"}

Good(s) ==
    /\ s \in Source
    /\ Mirrors(s)
    /\ s.state = "RUNNING" => HasReader(s)

\* The token of a source nobody has stopped.
Attempting(s) ==
    s.failures <= MaxAttempts /\ s.reconnect_attempts = s.failures

Holds(s, live, ready, timer) == s.live = live /\ s.ready = ready /\ s.timer = timer

StateOf(op) == IF op = "read" THEN "RUNNING" ELSE "STARTING"

Unopened(s) ==
    /\ Holds(s, {}, <<>>, FALSE)
    /\ s.state = "STOPPED" /\ s.feed = "CLOSED" /\ s.failures = 0 /\ s.reconnect_attempts = 0

InFlight(s, op) ==
    Holds(s, {op}, <<>>, FALSE) /\ s.state = StateOf(op) /\ Attempting(s)

Completed(s, op, res) ==
    Holds(s, {}, <<[op |-> op, res |-> res]>>, FALSE) /\ s.state = StateOf(op) /\ Attempting(s)

Waiting(s) == Holds(s, {}, <<>>, TRUE) /\ s.state = "FAILED" /\ Attempting(s)

Expired(s) ==
    Holds(s, {}, <<[op |-> "timer", res |-> "ok"]>>, FALSE) /\ s.state = "FAILED" /\ Attempting(s)

GaveUp(s) ==
    /\ Holds(s, {}, <<>>, FALSE)
    /\ s.state = "FAILED" /\ s.failures = MaxAttempts + 1

OneToken(s) ==
    /\ ~s.clash /\ ~s.restart_requested
    /\ \/ \E op \in ChainOps : InFlight(s, op)
       \/ \E op \in ChainOps, res \in {"ok", "error"} : Completed(s, op, res)
       \/ Waiting(s) \/ Expired(s) \/ GaveUp(s)

FirstLife ==
    /\ \A t \in {"worker", "stopper"} : at[t] = "closing" => src.released
    /\ ~src.released =>
          IF at.worker = "init" THEN Unopened(src) /\ ~src.clash /\ ~src.restart_requested
          ELSE OneToken(src)

WsInv == WsType /\ Good(src) /\ FirstLife

-----------------------------------------------------------------------------
(* The queue of handlers                                                   *)

\* Taking the i-th handler keeps the others, in order.
LEMMA RemoveAtProperties ==
  ASSUME NEW S, NEW q \in Seq(S), NEW i \in 1 .. Len(q)
  PROVE  /\ RemoveAt(q, i) \in Seq(S)
         /\ Len(RemoveAt(q, i)) = Len(q) - 1
         /\ \A j \in 1 .. i - 1 : RemoveAt(q, i)[j] = q[j]
         /\ \A j \in i .. Len(q) - 1 : RemoveAt(q, i)[j] = q[j + 1]
<1> DEFINE a == SubSeq(q, 1, i - 1)
           b == SubSeq(q, i + 1, Len(q))
<1>1. Len(q) \in Nat /\ i \in Nat /\ i >= 1 /\ i <= Len(q)
  BY LenProperties
<1>2. a \in Seq(S) /\ Len(a) = i - 1 /\ \A j \in 1 .. i - 1 : a[j] = q[j]
  BY <1>1, ElementOfSeq
<1>3. b \in Seq(S) /\ Len(b) = Len(q) - i /\ \A j \in 1 .. Len(q) - i : b[j] = q[i + j]
  BY <1>1, ElementOfSeq
<1> HIDE DEF a, b
<1>4. /\ a \o b \in Seq(S) /\ Len(a \o b) = Len(q) - 1
      /\ \A j \in 1 .. Len(a \o b) : (a \o b)[j] = IF j <= Len(a) THEN a[j] ELSE b[j - Len(a)]
  <2>1. /\ a \o b \in Seq(S) /\ Len(a \o b) = Len(a) + Len(b)
        /\ \A j \in 1 .. Len(a) + Len(b) : (a \o b)[j] = IF j <= Len(a) THEN a[j] ELSE b[j - Len(a)]
    BY <1>2, <1>3, ConcatProperties
  <2> QED
    BY <1>1, <1>2, <1>3, <2>1
<1>5. \A j \in 1 .. i - 1 : (a \o b)[j] = q[j]
  BY <1>1, <1>2, <1>4
<1>6. \A j \in i .. Len(q) - 1 : (a \o b)[j] = q[j + 1]
  <2> SUFFICES ASSUME NEW j \in i .. Len(q) - 1 PROVE (a \o b)[j] = q[j + 1]
    OBVIOUS
  <2>1. (a \o b)[j] = b[j - (i - 1)]
    BY <1>1, <1>2, <1>4
  <2>2. j - (i - 1) \in 1 .. Len(q) - i /\ i + (j - (i - 1)) = j + 1
    BY <1>1
  <2> QED
    BY <2>1, <2>2, <1>3
<1>7. RemoveAt(q, i) = a \o b
  BY DEF RemoveAt, a, b
<1> QED
  BY <1>4, <1>5, <1>6, <1>7

\* What an operation in flight leaves behind is a completion of it.
LEMMA AbortedOpType ==
  ASSUME NEW op \in ChainOps \cup {"close"}, NEW ops
  PROVE  AbortedOp(op, ops) \in Seq(Completion)
<1>1. [op |-> op, res |-> "aborted"] \in Completion
  BY DEF Completion, Result
<1> QED
  BY <1>1 DEF AbortedOp

\* Cancelled operations leave completions.
LEMMA AbortedType ==
  ASSUME NEW ops PROVE Aborted(ops) \in Seq(Completion)
<1>1. \A op \in ChainOps \cup {"close"} : AbortedOp(op, ops) \in Seq(Completion)
  BY AbortedOpType
<1> QED
  BY <1>1, ConcatProperties DEF Aborted, ChainOps

\* So does a stream that is destroyed.
LEMMA LeftoverType ==
  ASSUME NEW s \in Source PROVE Leftover(s) \in Seq(Completion)
<1> DEFINE kept == [i \in 1 .. Len(s.ready) |-> Abandon(s.ready[i])]
<1>1. s.ready \in Seq(Completion)
  BY DEF Source
<1>2. \A c \in Completion : Abandon(c) \in Completion
  BY DEF Abandon, Completion, Result
<1>3. kept \in Seq(Completion)
  BY <1>1, <1>2, IsASeq, LenProperties, ElementOfSeq
<1> QED
  BY <1>3, AbortedType, ConcatProperties DEF Leftover

-----------------------------------------------------------------------------
(* What the methods do to the object                                       *)

\* The history fields and the count that most methods leave alone.
Kept(r, s) ==
    /\ r.clash = s.clash /\ r.stray = s.stray
    /\ r.released = s.released

\* reset_stream closes the socket, drops what is in flight and keeps the rest.
LEMMA ResetEffect ==
  ASSUME NEW s \in Source
  PROVE  /\ ResetStream(s) \in Source
         /\ ResetStream(s).state = s.state /\ ResetStream(s).feed = s.feed
         /\ ResetStream(s).timer = s.timer
         /\ ResetStream(s).restart_requested = s.restart_requested
         /\ ResetStream(s).reconnect_attempts = s.reconnect_attempts
         /\ ResetStream(s).failures = s.failures
         /\ ResetStream(s).is_open = FALSE /\ ResetStream(s).live = {}
         /\ ResetStream(s).ready = Leftover(s)
         /\ Kept(ResetStream(s), s)
BY LeftoverType DEF ResetStream, Source, Kept

\* publish_state changes the state and what the feed makes of it.
LEMMA PublishEffect ==
  ASSUME NEW s \in Source, NEW state \in State
  PROVE  /\ PublishState(state, s) \in Source
         /\ PublishState(state, s).state = state
         /\ PublishState(state, s).feed =
              (CASE state = "STOPPED" -> "CLOSED" [] state = "RUNNING" -> "OPEN"
                 [] state = "FAILED" -> "FAILED" [] OTHER -> s.feed)
         /\ PublishState(state, s).timer = s.timer
         /\ PublishState(state, s).restart_requested = s.restart_requested
         /\ PublishState(state, s).reconnect_attempts = s.reconnect_attempts
         /\ PublishState(state, s).failures = s.failures
         /\ PublishState(state, s).is_open = s.is_open
         /\ PublishState(state, s).live = s.live
         /\ PublishState(state, s).ready = s.ready
         /\ Kept(PublishState(state, s), s)
BY DEF PublishState, Source, Kept, State, FeedState

\* schedule_reconnect sets the timer and counts, until the attempts are used up.
LEMMA ScheduleEffect ==
  ASSUME NEW s \in Source, s.state = "FAILED"
  PROVE  /\ ScheduleReconnect(s) \in Source
         /\ ScheduleReconnect(s).state = s.state /\ ScheduleReconnect(s).feed = s.feed
         /\ ScheduleReconnect(s).restart_requested = s.restart_requested
         /\ ScheduleReconnect(s).failures = s.failures
         /\ ScheduleReconnect(s).is_open = s.is_open
         /\ ScheduleReconnect(s).live = s.live
         /\ ScheduleReconnect(s).ready = s.ready
         /\ IF s.reconnect_attempts = MaxAttempts
            THEN /\ ScheduleReconnect(s).timer = s.timer
                 /\ ScheduleReconnect(s).reconnect_attempts = s.reconnect_attempts
            ELSE /\ ScheduleReconnect(s).timer = TRUE
                 /\ ScheduleReconnect(s).reconnect_attempts = s.reconnect_attempts + 1
         /\ Kept(ScheduleReconnect(s), s)
<1>1. MaxAttempts \in Nat /\ s.reconnect_attempts \in 0 .. MaxAttempts
  BY WsConstants DEF Source
<1>2. CASE s.reconnect_attempts = MaxAttempts
  BY <1>1, <1>2 DEF ScheduleReconnect, Kept
<1>3. CASE s.reconnect_attempts # MaxAttempts
  <2>1. s.reconnect_attempts + 1 \in 0 .. MaxAttempts
    BY <1>1, <1>3
  <2>2. ScheduleReconnect(s) = [s EXCEPT !.reconnect_attempts = @ + 1, !.timer = TRUE]
    BY <1>1, <1>3 DEF ScheduleReconnect
  <2> QED
    BY <1>3, <2>1, <2>2 DEF Source, Kept
<1> QED
  BY <1>2, <1>3

\* Fail and a failed close leave the source FAILED, its operations cancelled and,
\* while attempts are left, the timer running.
AfterFailure(r, s) ==
    /\ r \in Source
    /\ r.state = "FAILED" /\ r.feed = "FAILED"
    /\ r.is_open = FALSE /\ r.live = {} /\ r.ready = Leftover(s)
    /\ r.restart_requested = s.restart_requested
    /\ IF s.reconnect_attempts = MaxAttempts
       THEN r.timer = s.timer /\ r.reconnect_attempts = s.reconnect_attempts
       ELSE r.timer = TRUE /\ r.reconnect_attempts = s.reconnect_attempts + 1
    /\ Kept(r, s)

\* What a reset leaves depends on what is in flight and queued only.
LEMMA LeftoverSame ==
  ASSUME NEW s, NEW r, r.live = s.live, r.ready = s.ready
  PROVE  Leftover(r) = Leftover(s)
BY DEF Leftover

\* fail() resets the stream, reports FAILED and schedules a reconnect.
LEMMA FailEffect ==
  ASSUME NEW s \in Source
  PROVE  AfterFailure(Fail(s), s) /\ Fail(s).failures = s.failures + 1
<1> DEFINE a == [s EXCEPT !.failures = @ + 1]
           b == PublishError(a)
           c == PublishState("FAILED", b)
           d == ResetStream(c)
<1>1. /\ b \in Source /\ b.failures = s.failures + 1 /\ Kept(b, s)
      /\ b.reconnect_attempts = s.reconnect_attempts /\ b.timer = s.timer
      /\ b.restart_requested = s.restart_requested
      /\ b.live = s.live /\ b.ready = s.ready
  <2>1. s.failures + 1 \in Nat
    BY DEF Source
  <2>2. b = [s EXCEPT !.failures = s.failures + 1, !.feed = "FAILED"]
    BY DEF Source, PublishError
  <2> QED
    BY <2>1, <2>2 DEF Source, Kept, FeedState
<1>2. "FAILED" \in State
  BY DEF State
<1> HIDE DEF b
<1>3. /\ c \in Source /\ c.failures = s.failures + 1 /\ Kept(c, s)
      /\ c.reconnect_attempts = s.reconnect_attempts /\ c.timer = s.timer
      /\ c.restart_requested = s.restart_requested
      /\ c.live = s.live /\ c.ready = s.ready
      /\ c.state = "FAILED" /\ c.feed = "FAILED"
  BY <1>1, <1>2, PublishEffect DEF Kept
<1> HIDE DEF c
<1>4. /\ d \in Source /\ d.failures = s.failures + 1 /\ Kept(d, s)
      /\ d.reconnect_attempts = s.reconnect_attempts /\ d.timer = s.timer
      /\ d.restart_requested = s.restart_requested
      /\ d.live = {} /\ d.ready = Leftover(s) /\ d.is_open = FALSE
      /\ d.state = "FAILED" /\ d.feed = "FAILED"
  <2>1. Leftover(c) = Leftover(s)
    BY <1>3, LeftoverSame
  <2> QED
    BY <1>3, <2>1, ResetEffect DEF Kept
<1>5. Fail(s) = ScheduleReconnect(d)
  BY DEF Fail, b, c
<1> HIDE DEF d
<1> QED
  BY <1>4, <1>5, ScheduleEffect, ZenonT(40) DEF AfterFailure, Kept

\* An operation is added to those in flight; the histories notice one beside
\* another and one on a socket that is not open.
AfterInitiate(r, op, s) ==
    /\ r \in Source
    /\ r.state = s.state /\ r.feed = s.feed
    /\ r.timer = s.timer /\ r.restart_requested = s.restart_requested
    /\ r.reconnect_attempts = s.reconnect_attempts /\ r.failures = s.failures
    /\ r.is_open = IF op = "connect" THEN TRUE ELSE s.is_open
    /\ r.live = s.live \cup {op} /\ r.ready = s.ready
    /\ s.live \cap ChainOps = {} => r.clash = s.clash
    /\ IF op \in {"resolve", "connect"} \/ s.is_open
       THEN r.stray = s.stray ELSE r.stray = TRUE
    /\ r.released = s.released

\* Starting an operation puts it in flight and leaves the queue.
LEMMA InitiateEffect ==
  ASSUME NEW s \in Source, NEW op \in ChainOps
  PROVE  AfterInitiate(Initiate(op, s), op, s)
BY ZenonT(40) DEF AfterInitiate, Initiate, Source

\* A start that takes effect cancels the timer and whatever is in flight, and
\* holds one operation.
AfterStart(r, s) ==
    /\ r \in Source
    /\ r.state = "STARTING" /\ r.feed = s.feed
    /\ r.is_open = FALSE /\ r.live = {"resolve"} /\ r.ready = Leftover(s)
    /\ r.timer = FALSE /\ r.restart_requested = FALSE
    /\ r.reconnect_attempts = s.reconnect_attempts /\ r.failures = s.failures
    /\ Kept(r, s)

\* start() does nothing while a chain is on its way, and starts one otherwise.
LEMMA StartEffect ==
  ASSUME NEW s \in Source
  PROVE  IF s.state \in {"STARTING", "RUNNING"}
         THEN Start(s) = [s EXCEPT !.timer = FALSE]
         ELSE AfterStart(Start(s), s)
<1>1. CASE s.state \in {"STARTING", "RUNNING"}
  BY <1>1 DEF Start
<1>2. CASE s.state \notin {"STARTING", "RUNNING"}
  <2> DEFINE a == [s EXCEPT !.timer = FALSE, !.restart_requested = FALSE]
             b == ResetStream(a)
             c == PublishState("STARTING", b)
  <2>1. /\ a \in Source /\ Kept(a, s) /\ a.feed = s.feed
        /\ a.timer = FALSE /\ a.restart_requested = FALSE
        /\ a.reconnect_attempts = s.reconnect_attempts /\ a.failures = s.failures
        /\ a.live = s.live /\ a.ready = s.ready
    BY DEF Source, Kept
  <2> HIDE DEF a
  <2>2. Leftover(a) = Leftover(s)
    BY <2>1, LeftoverSame
  <2>3. /\ b \in Source /\ Kept(b, s) /\ b.feed = s.feed
        /\ b.timer = FALSE /\ b.restart_requested = FALSE
        /\ b.reconnect_attempts = s.reconnect_attempts /\ b.failures = s.failures
        /\ b.live = {} /\ b.ready = Leftover(s) /\ b.is_open = FALSE
    BY <2>1, <2>2, ResetEffect DEF Kept
  <2> HIDE DEF b
  <2>4. "STARTING" \in State
    BY DEF State
  <2>5. /\ c \in Source /\ Kept(c, s) /\ c.feed = s.feed /\ c.state = "STARTING"
        /\ c.timer = FALSE /\ c.restart_requested = FALSE
        /\ c.reconnect_attempts = s.reconnect_attempts /\ c.failures = s.failures
        /\ c.live = {} /\ c.ready = Leftover(s) /\ c.is_open = FALSE
    BY <2>3, <2>4, PublishEffect DEF Kept
  <2>6. Start(s) = Initiate("resolve", c)
    BY <1>2 DEF Start, a, b
  <2> HIDE DEF c
  <2>7. "resolve" \in ChainOps
    BY DEF ChainOps
  <2>8. s.clash \in BOOLEAN /\ s.stray \in BOOLEAN
    BY DEF Source
  <2>9. AfterStart(Initiate("resolve", c), s)
    <3> DEFINE r == Initiate("resolve", c)
    <3>1. AfterInitiate(r, "resolve", c)
      BY <2>5, <2>7, InitiateEffect
    <3> HIDE DEF r
    <3>2. /\ r \in Source /\ r.state = "STARTING" /\ r.feed = s.feed
          /\ r.timer = FALSE /\ r.restart_requested = FALSE
          /\ r.reconnect_attempts = s.reconnect_attempts /\ r.failures = s.failures
          /\ r.ready = Leftover(s) /\ r.released = s.released
      BY <2>5, <3>1 DEF AfterInitiate, Kept
    <3>3. r.live = {"resolve"} /\ r.is_open = FALSE
      BY <2>5, <3>1 DEF AfterInitiate
    <3>4. r.clash = s.clash /\ r.stray = s.stray
      BY <2>5, <3>1 DEF AfterInitiate, Kept
    <3>5. AfterStart(r, s)
      BY <3>2, <3>3, <3>4 DEF AfterStart, Kept
    <3> QED
      BY <3>5 DEF r
  <2> QED
    BY <1>2, <2>6, <2>9
<1> QED
  BY <1>1, <1>2

\* A close that ends well leaves the source STOPPED, its operations cancelled.
AfterStop(r, s) ==
    /\ r \in Source
    /\ r.state = "STOPPED" /\ r.feed = "CLOSED"
    /\ r.is_open = FALSE /\ r.live = {} /\ r.ready = Leftover(s)
    /\ r.timer = s.timer /\ r.restart_requested = s.restart_requested
    /\ r.reconnect_attempts = s.reconnect_attempts /\ r.failures = s.failures
    /\ Kept(r, s)

\* The record OnClose has before it looks at m_restart_requested.
Reset(failed, s) ==
    ResetStream(IF failed THEN ScheduleReconnect(PublishState("FAILED", PublishError(s)))
                ELSE PublishState("STOPPED", s))

\* on_close resets the stream like a failure or a stop, then restarts if asked to.
LEMMA OnCloseReset ==
  ASSUME NEW s \in Source, NEW failed \in BOOLEAN
  PROVE  /\ IF failed THEN AfterFailure(Reset(failed, s), s) /\ Reset(failed, s).failures = s.failures
            ELSE AfterStop(Reset(failed, s), s)
         /\ OnClose(failed, s) =
              IF s.restart_requested
              THEN Start([Reset(failed, s) EXCEPT !.restart_requested = FALSE])
              ELSE Reset(failed, s)
<1>1. "STOPPED" \in State /\ "FAILED" \in State
  BY DEF State
<1>2. CASE failed
  <2> DEFINE b == PublishError(s)
             c == PublishState("FAILED", b)
             d == ScheduleReconnect(c)
  <2>1. /\ b \in Source /\ Kept(b, s) /\ b.failures = s.failures
        /\ b.reconnect_attempts = s.reconnect_attempts /\ b.timer = s.timer
        /\ b.restart_requested = s.restart_requested
        /\ b.live = s.live /\ b.ready = s.ready
    BY DEF Source, PublishError, Kept, FeedState
  <2> HIDE DEF b
  <2>2. /\ c \in Source /\ c.failures = s.failures /\ Kept(c, s)
        /\ c.reconnect_attempts = s.reconnect_attempts /\ c.timer = s.timer
        /\ c.restart_requested = s.restart_requested
        /\ c.live = s.live /\ c.ready = s.ready
        /\ c.state = "FAILED" /\ c.feed = "FAILED"
    BY <1>1, <2>1, PublishEffect DEF Kept
  <2> HIDE DEF c
  <2>3. /\ d \in Source /\ d.failures = s.failures /\ Kept(d, s)
        /\ IF s.reconnect_attempts = MaxAttempts
           THEN d.timer = s.timer /\ d.reconnect_attempts = s.reconnect_attempts
           ELSE d.timer = TRUE /\ d.reconnect_attempts = s.reconnect_attempts + 1
        /\ d.restart_requested = s.restart_requested
        /\ d.live = s.live /\ d.ready = s.ready
        /\ d.state = "FAILED" /\ d.feed = "FAILED"
    BY <2>2, ScheduleEffect, ZenonT(40) DEF Kept
  <2>4. Reset(failed, s) = ResetStream(d)
    BY <1>2 DEF Reset, b, c
  <2> HIDE DEF d
  <2>5. Leftover(d) = Leftover(s)
    BY <2>3, LeftoverSame
  <2>6. AfterFailure(ResetStream(d), s) /\ ResetStream(d).failures = s.failures
    BY <2>3, <2>5, ResetEffect DEF AfterFailure, Kept
  <2> QED
    BY <1>2, <2>4, <2>6 DEF AfterFailure, OnClose, Reset
<1>3. CASE ~failed
  <2> DEFINE c == PublishState("STOPPED", s)
  <2>1. /\ c \in Source /\ c.failures = s.failures /\ Kept(c, s)
        /\ c.reconnect_attempts = s.reconnect_attempts /\ c.timer = s.timer
        /\ c.restart_requested = s.restart_requested
        /\ c.live = s.live /\ c.ready = s.ready
        /\ c.state = "STOPPED" /\ c.feed = "CLOSED"
    BY <1>1, PublishEffect DEF Kept
  <2>2. Reset(failed, s) = ResetStream(c)
    BY <1>3 DEF Reset
  <2> HIDE DEF c
  <2>3. Leftover(c) = Leftover(s)
    BY <2>1, LeftoverSame
  <2>4. AfterStop(ResetStream(c), s)
    BY <2>1, <2>3, ResetEffect DEF AfterStop, Kept
  <2> QED
    BY <1>3, <2>2, <2>4 DEF AfterStop, OnClose, Reset
<1> QED
  BY <1>2, <1>3

-----------------------------------------------------------------------------
(* What a completion handler does                                          *)

NextOp(op) ==
    CASE op = "resolve" -> "connect"
      [] op = "connect" -> IF UseTls THEN "tls_handshake" ELSE "ws_handshake"
      [] OTHER -> "ws_handshake"

\* The handshake succeeded: the counts start again and the first read begins.
AfterOpen(r, s) ==
    /\ r \in Source
    /\ r.state = "RUNNING" /\ r.feed = "OPEN"
    /\ r.timer = s.timer /\ r.restart_requested = s.restart_requested
    /\ r.reconnect_attempts = 0 /\ r.failures = 0
    /\ r.is_open = s.is_open
    /\ r.live = s.live \cup {"read"} /\ r.ready = s.ready
    /\ s.live \cap ChainOps = {} => r.clash = s.clash
    /\ IF s.is_open THEN r.stray = s.stray ELSE r.stray = TRUE
    /\ r.released = s.released

FailOutcome(r, c, s) ==
    c.op \in ChainOps /\ c.res # "ok" /\ AfterFailure(r, s) /\ r.failures = s.failures + 1

ChainOutcome(r, c, s) ==
    /\ c.res \in {"ok", "undefined"}
    /\ \/ c.op \in {"resolve", "connect", "tls_handshake"} /\ AfterInitiate(r, NextOp(c.op), s)
       \/ c.op = "ws_handshake" /\ AfterOpen(r, s)
       \/ c.op = "read" /\ s.state = "RUNNING" /\ AfterInitiate(r, "read", s)
       \/ c.op = "read" /\ s.state # "RUNNING" /\ r = s

CloseOutcome(r, c, s) ==
    /\ c.op = "close"
    /\ \/ c.res \in {"ok", "undefined"} /\ r = OnClose(FALSE, s)
       \/ c.res # "ok" /\ r = OnClose(TRUE, s)
       \/ c.res = "aborted" /\ r = s

TimerOutcome(r, c, s) == c.op = "timer" /\ r = OnTimer(s)

\* A successful handshake opens the feed, clears the count and starts to read.
LEMMA WsHandshakeEffect ==
  ASSUME NEW s \in Source PROVE AfterOpen(OnWsHandshake(TRUE, s), s)
<1> DEFINE a == [s EXCEPT !.reconnect_attempts = 0, !.failures = 0]
           b == PublishState("RUNNING", a)
           r == Initiate("read", b)
<1>1. 0 \in 0 .. MaxAttempts
  BY WsConstants
<1>2. /\ a \in Source /\ Kept(a, s)
      /\ a.timer = s.timer /\ a.restart_requested = s.restart_requested
      /\ a.reconnect_attempts = 0 /\ a.failures = 0
      /\ a.is_open = s.is_open /\ a.live = s.live /\ a.ready = s.ready
  BY <1>1 DEF Source, Kept
<1> HIDE DEF a
<1>3. "RUNNING" \in State /\ "read" \in ChainOps
  BY DEF State, ChainOps
<1>4. /\ b \in Source /\ Kept(b, s) /\ b.state = "RUNNING" /\ b.feed = "OPEN"
      /\ b.timer = s.timer /\ b.restart_requested = s.restart_requested
      /\ b.reconnect_attempts = 0 /\ b.failures = 0
      /\ b.is_open = s.is_open /\ b.live = s.live /\ b.ready = s.ready
  BY <1>2, <1>3, PublishEffect DEF Kept
<1>5. OnWsHandshake(TRUE, s) = r
  BY DEF OnWsHandshake, a
<1> HIDE DEF b
<1>6. AfterInitiate(r, "read", b)
  BY <1>3, <1>4, InitiateEffect
<1> HIDE DEF r
<1>7. /\ r \in Source /\ r.state = "RUNNING" /\ r.feed = "OPEN"
      /\ r.timer = s.timer /\ r.restart_requested = s.restart_requested
      /\ r.reconnect_attempts = 0 /\ r.failures = 0
      /\ r.ready = s.ready /\ r.live = s.live \cup {"read"}
      /\ r.is_open = s.is_open /\ r.released = s.released
  BY <1>4, <1>6 DEF AfterInitiate, Kept
<1>8. /\ s.live \cap ChainOps = {} => r.clash = s.clash
      /\ IF s.is_open THEN r.stray = s.stray ELSE r.stray = TRUE
  BY <1>4, <1>6 DEF AfterInitiate, Kept
<1> QED
  BY <1>5, <1>7, <1>8 DEF AfterOpen

\* Every handler fails, goes on with the chain, ends a close or is the timer's.
LEMMA HandleOutcome ==
  ASSUME NEW c \in Completion, NEW s \in Source, NEW r \in Handle(c, s)
  PROVE  \/ FailOutcome(r, c, s) \/ ChainOutcome(r, c, s)
         \/ CloseOutcome(r, c, s) \/ TimerOutcome(r, c, s)
<1> DEFINE oks == CASE c.res = "ok" -> {TRUE} [] c.res = "undefined" -> BOOLEAN
                    [] OTHER -> {FALSE}
<1>1. c.op \in ChainOps \cup {"close", "timer"} /\ c.res \in Result
  BY DEF Completion
<1>2. \A ok \in oks : ok \in BOOLEAN /\ (ok => c.res \in {"ok", "undefined"}) /\ (~ok => c.res # "ok")
  OBVIOUS
<1>3. AfterFailure(Fail(s), s) /\ Fail(s).failures = s.failures + 1
  BY FailEffect
<1>4. \A op \in ChainOps : AfterInitiate(Initiate(op, s), op, s)
  BY InitiateEffect
<1>5. \A op : NextOp(op) \in ChainOps
  BY DEF NextOp, ChainOps
<1> HIDE DEF oks
<1>6. CASE c.op = "resolve"
  <2> PICK ok \in oks : r = OnResolve(ok, s)
    BY <1>6 DEF Handle, oks
  <2>1. CASE ok
    BY <1>2, <1>4, <1>5, <1>6, <2>1 DEF OnResolve, ChainOutcome, NextOp
  <2>2. CASE ~ok
    BY <1>1, <1>2, <1>3, <1>6, <2>2 DEF OnResolve, FailOutcome, ChainOps
  <2> QED
    BY <2>1, <2>2
<1>7. CASE c.op = "connect"
  <2> PICK ok \in oks : r = OnConnect(ok, s)
    BY <1>7 DEF Handle, oks
  <2>1. CASE ok
    <3>1. r = Initiate(NextOp("connect"), s)
      BY <2>1 DEF OnConnect, NextOp
    <3> QED
      BY <1>2, <1>4, <1>5, <1>7, <2>1, <3>1 DEF ChainOutcome
  <2>2. CASE ~ok
    BY <1>1, <1>2, <1>3, <1>7, <2>2 DEF OnConnect, FailOutcome, ChainOps
  <2> QED
    BY <2>1, <2>2
<1>8. CASE c.op = "tls_handshake"
  <2> PICK ok \in oks : r = OnTlsHandshake(ok, s)
    BY <1>8 DEF Handle, oks
  <2>1. CASE ok
    <3>1. r = Initiate(NextOp("tls_handshake"), s)
      BY <2>1 DEF OnTlsHandshake, NextOp
    <3> QED
      BY <1>2, <1>4, <1>5, <1>8, <2>1, <3>1 DEF ChainOutcome
  <2>2. CASE ~ok
    BY <1>1, <1>2, <1>3, <1>8, <2>2 DEF OnTlsHandshake, FailOutcome, ChainOps
  <2> QED
    BY <2>1, <2>2
<1>9. CASE c.op = "ws_handshake"
  <2> PICK ok \in oks : r = OnWsHandshake(ok, s)
    BY <1>9 DEF Handle, oks
  <2>1. CASE ok
    <3>1. r = OnWsHandshake(TRUE, s)
      BY <2>1, <1>2
    <3> QED
      BY <1>2, <1>9, <2>1, <3>1, WsHandshakeEffect DEF ChainOutcome
  <2>2. CASE ~ok
    BY <1>1, <1>2, <1>3, <1>9, <2>2 DEF OnWsHandshake, FailOutcome, ChainOps
  <2> QED
    BY <2>1, <2>2
<1>10. CASE c.op = "read"
  <2> PICK ok \in oks : r = OnRead(ok, s)
    BY <1>10 DEF Handle, oks
  <2>1. CASE ok
    BY <1>2, <1>4, <1>10, <2>1 DEF OnRead, ChainOutcome, ChainOps
  <2>2. CASE ~ok
    BY <1>1, <1>2, <1>3, <1>10, <2>2 DEF OnRead, FailOutcome, ChainOps
  <2> QED
    BY <2>1, <2>2
<1>11. CASE c.op = "close"
  <2>1. \/ \E ok \in oks : r = OnClose(~ok, s)
        \/ c.res = "aborted" /\ r = s
    BY <1>11 DEF Handle, oks
  <2>2. ASSUME NEW ok \in oks, r = OnClose(~ok, s)
        PROVE  CloseOutcome(r, c, s)
    <3>1. CASE ok
      <4>1. ~ok = FALSE
        BY <3>1
      <4> QED
        BY <1>2, <1>11, <2>2, <3>1, <4>1 DEF CloseOutcome
    <3>2. CASE ~ok
      <4>1. ~ok = TRUE
        BY <3>2
      <4> QED
        BY <1>2, <1>11, <2>2, <3>2, <4>1 DEF CloseOutcome
    <3> QED
      BY <3>1, <3>2
  <2> QED
    BY <1>11, <2>1, <2>2 DEF CloseOutcome
<1>12. CASE c.op = "timer"
  BY <1>12 DEF Handle, TimerOutcome
<1> QED
  BY <1>1, <1>6, <1>7, <1>8, <1>9, <1>10, <1>11, <1>12 DEF ChainOps

-----------------------------------------------------------------------------
(* Good is kept by every method                                            *)

\* A stopped, starting, stopping or failed source needs no reader.
LEMMA GoodIdle ==
  ASSUME NEW r \in Source, r.state # "RUNNING", Mirrors(r)
  PROVE  Good(r)
BY DEF Good

\* A failure leaves the feed FAILED as the source.
LEMMA GoodFailure ==
  ASSUME NEW s, NEW r, AfterFailure(r, s) PROVE Good(r)
BY DEF Good, AfterFailure, Mirrors

\* A stop that has ended leaves the feed CLOSED as the source.
LEMMA GoodStop ==
  ASSUME NEW s, NEW r, AfterStop(r, s) PROVE Good(r)
BY DEF Good, AfterStop, Mirrors

\* start() keeps feed and source in step.
LEMMA GoodStart ==
  ASSUME NEW s \in Source, Good(s), s.feed = "OPEN" => s.state # "STOPPING"
  PROVE  Good(Start(s)) /\ Kept(Start(s), s)
<1>1. CASE s.state \in {"STARTING", "RUNNING"}
  <2>1. Start(s) = [s EXCEPT !.timer = FALSE]
    BY <1>1, StartEffect
  <2>2. /\ Start(s) \in Source /\ Kept(Start(s), s)
        /\ Start(s).state = s.state /\ Start(s).feed = s.feed
        /\ Start(s).live = s.live /\ Start(s).ready = s.ready
    BY <2>1 DEF Source, Kept
  <2> QED
    BY <2>2 DEF Good, Mirrors, HasReader
<1>2. CASE s.state \notin {"STARTING", "RUNNING"}
  <2>1. AfterStart(Start(s), s)
    BY <1>2, StartEffect
  <2>2. s.feed \in FeedState /\ s.state \in State
    BY DEF Source
  <2> QED
    BY <1>2, <2>1, <2>2 DEF AfterStart, Good, Mirrors, FeedState, State
<1> QED
  BY <1>1, <1>2

\* So does the handler of a close.
LEMMA GoodOnClose ==
  ASSUME NEW s \in Source, NEW failed \in BOOLEAN
  PROVE  Good(OnClose(failed, s)) /\ Kept(OnClose(failed, s), s)
<1> DEFINE r == Reset(failed, s)
           q == [r EXCEPT !.restart_requested = FALSE]
<1>1. IF failed THEN AfterFailure(r, s) ELSE AfterStop(r, s)
  BY OnCloseReset
<1>2. OnClose(failed, s) = IF s.restart_requested THEN Start(q) ELSE r
  BY OnCloseReset
<1> HIDE DEF r
<1>3. Good(r) /\ Kept(r, s) /\ r \in Source /\ r.feed # "OPEN" /\ r.state \in {"STOPPED", "FAILED"}
  BY <1>1, GoodFailure, GoodStop DEF AfterFailure, AfterStop
<1>4. q \in Source /\ Kept(q, s) /\ q.feed = r.feed /\ q.state = r.state
  BY <1>3 DEF Source, Kept
<1>5. Good(q)
  BY <1>3, <1>4 DEF Good, Mirrors
<1>6. Good(Start(q)) /\ Kept(Start(q), q)
  BY <1>3, <1>4, <1>5, GoodStart
<1> QED
  BY <1>2, <1>3, <1>4, <1>6 DEF Kept

\* So does do_close, whether it closes or resets at once.
LEMMA GoodDoClose ==
  ASSUME NEW s \in Source, Good(s)
  PROVE  Good(DoClose(s)) /\ Kept(DoClose(s), s)
<1>1. CASE s.is_open
  <2> DEFINE r == [s EXCEPT !.live = @ \cup {"close"}]
  <2>1. /\ r \in Source /\ Kept(r, s) /\ r.state = s.state /\ r.feed = s.feed
        /\ r.ready = s.ready /\ s.live \subseteq r.live
    BY DEF Source, Kept
  <2>2. Good(r)
    BY <2>1 DEF Good, Mirrors, HasReader
  <2> QED
    BY <1>1, <2>1, <2>2 DEF DoClose
<1>2. CASE ~s.is_open
  BY <1>2, GoodOnClose DEF DoClose
<1> QED
  BY <1>1, <1>2

\* So does stop(); it takes effect unless the source is stopped or stopping.
LEMMA GoodBeginStop ==
  ASSUME NEW s \in Source, Good(s)
  PROVE  /\ Good(BeginStop(s))
         /\ BeginStop(s).clash = s.clash /\ BeginStop(s).stray = s.stray
         /\ IF s.state \in {"STOPPED", "STOPPING"}
            THEN BeginStop(s) = [s EXCEPT !.restart_requested = FALSE, !.timer = FALSE]
            ELSE BeginStop(s).released = TRUE
<1> DEFINE quiet == [s EXCEPT !.restart_requested = FALSE, !.timer = FALSE]
           q == [quiet EXCEPT !.released = TRUE]
<1>1. CASE s.state \in {"STOPPED", "STOPPING"}
  <2>1. /\ quiet \in Source /\ quiet.state = s.state /\ quiet.feed = s.feed
        /\ quiet.clash = s.clash /\ quiet.stray = s.stray
    BY DEF Source
  <2>2. BeginStop(s) = quiet
    BY <1>1 DEF BeginStop
  <2> QED
    BY <1>1, <2>1, <2>2 DEF Good, Mirrors
<1>2. CASE s.state \notin {"STOPPED", "STOPPING"}
  <2>1. /\ q \in Source /\ q.feed = s.feed /\ q.released = TRUE
        /\ q.clash = s.clash /\ q.stray = s.stray
    BY DEF Source
  <2>2. BeginStop(s) = PublishState("STOPPING", q)
    BY <1>2 DEF BeginStop
  <2> HIDE DEF q
  <2>3. "STOPPING" \in State
    BY DEF State
  <2>4. /\ BeginStop(s) \in Source /\ BeginStop(s).state = "STOPPING"
        /\ Kept(BeginStop(s), q)
    BY <2>1, <2>2, <2>3, PublishEffect
  <2>5. Good(BeginStop(s))
    BY <2>4 DEF Good, Mirrors
  <2> QED
    BY <1>2, <2>1, <2>4, <2>5 DEF Kept
<1> QED
  BY <1>1, <1>2

\* So does restart(), which always takes effect.
LEMMA GoodRestart ==
  ASSUME NEW s \in Source, Good(s)
  PROVE  Good(Restart(s)) /\ Restart(s).released = TRUE
<1> DEFINE asked == [s EXCEPT !.restart_requested = TRUE, !.released = TRUE]
<1>1. /\ asked \in Source /\ asked.released = TRUE
      /\ asked.state = s.state /\ asked.feed = s.feed
      /\ asked.live = s.live /\ asked.ready = s.ready
  BY DEF Source
<1>2. Restart(s) = (CASE s.state \in {"STOPPED", "FAILED"} -> Start(ResetStream(asked))
                      [] s.state = "STOPPING" -> asked
                      [] OTHER -> DoClose(PublishState("STOPPING", asked)))
  BY DEF Restart
<1> HIDE DEF asked
<1>3. CASE s.state \in {"STOPPED", "FAILED"}
  <2>1. /\ ResetStream(asked) \in Source /\ Kept(ResetStream(asked), asked)
        /\ ResetStream(asked).state = s.state /\ ResetStream(asked).feed = s.feed
    BY <1>1, ResetEffect
  <2>2. Good(ResetStream(asked))
    BY <1>3, <2>1 DEF Good, Mirrors
  <2>3. Good(Start(ResetStream(asked))) /\ Kept(Start(ResetStream(asked)), ResetStream(asked))
    BY <1>3, <2>1, <2>2, GoodStart
  <2> QED
    BY <1>1, <1>2, <1>3, <2>1, <2>3 DEF Kept
<1>4. CASE s.state = "STOPPING"
  <2>1. Good(asked)
    BY <1>1, <1>4 DEF Good, Mirrors
  <2> QED
    BY <1>1, <1>2, <1>4, <2>1
<1>5. CASE s.state \notin {"STOPPED", "FAILED", "STOPPING"}
  <2> DEFINE p == PublishState("STOPPING", asked)
  <2>1. "STOPPING" \in State
    BY DEF State
  <2>2. p \in Source /\ Kept(p, asked) /\ p.state = "STOPPING"
    BY <1>1, <2>1, PublishEffect
  <2>3. Restart(s) = DoClose(p)
    BY <1>2, <1>5
  <2> HIDE DEF p
  <2>4. Good(p)
    BY <2>2 DEF Good, Mirrors
  <2> QED
    BY <1>1, <2>2, <2>3, <2>4, GoodDoClose DEF Kept
<1> QED
  BY <1>3, <1>4, <1>5

\* The record a handler starts from: the object without the completion it takes.
Taken(s, i) == [s EXCEPT !.ready = RemoveAt(s.ready, i)]

\* Taking a handler from the queue changes nothing else.
LEMMA TakenEffect ==
  ASSUME NEW s \in Source, NEW i \in 1 .. Len(s.ready)
  PROVE  /\ Taken(s, i) \in Source /\ Kept(Taken(s, i), s)
         /\ Taken(s, i).state = s.state /\ Taken(s, i).feed = s.feed
         /\ Taken(s, i).timer = s.timer
         /\ Taken(s, i).restart_requested = s.restart_requested
         /\ Taken(s, i).reconnect_attempts = s.reconnect_attempts
         /\ Taken(s, i).failures = s.failures
         /\ Taken(s, i).is_open = s.is_open /\ Taken(s, i).live = s.live
         /\ Taken(s, i).ready = RemoveAt(s.ready, i)
         /\ s.ready[i] \in Completion
<1>1. s.ready \in Seq(Completion)
  BY DEF Source
<1>2. RemoveAt(s.ready, i) \in Seq(Completion)
  BY <1>1, RemoveAtProperties
<1>3. s.ready[i] \in Completion
  BY <1>1, ElementOfSeq
<1> QED
  BY <1>2, <1>3 DEF Taken, Source, Kept

\* Taking another handler than the reader's leaves the reader.
LEMMA TakenReader ==
  ASSUME NEW s \in Source, NEW i \in 1 .. Len(s.ready),
         HasReader(s), s.ready[i].op # "read"
  PROVE  HasReader(Taken(s, i))
<1> DEFINE q == RemoveAt(s.ready, i)
<1>1. s.ready \in Seq(Completion) /\ Len(s.ready) \in Nat
  BY LenProperties DEF Source
<1>2. /\ Len(q) = Len(s.ready) - 1
      /\ \A j \in 1 .. i - 1 : q[j] = s.ready[j]
      /\ \A j \in i .. Len(s.ready) - 1 : q[j] = s.ready[j + 1]
  BY <1>1, RemoveAtProperties
<1>3. Taken(s, i).live = s.live /\ Taken(s, i).ready = q
  BY TakenEffect
<1> HIDE DEF q
<1>4. CASE "read" \in s.live
  BY <1>3, <1>4 DEF HasReader
<1>5. ASSUME NEW j \in 1 .. Len(s.ready), s.ready[j].op = "read"
      PROVE  HasReader(Taken(s, i))
  <2>1. CASE j < i
    <3>1. j \in 1 .. Len(q) /\ q[j] = s.ready[j]
      BY <1>1, <1>2, <2>1
    <3> QED
      BY <1>3, <1>5, <3>1 DEF HasReader
  <2>2. CASE j > i
    <3>1. j - 1 \in 1 .. Len(q) /\ j - 1 \in i .. Len(s.ready) - 1 /\ (j - 1) + 1 = j
      BY <1>1, <1>2, <2>2
    <3>2. q[j - 1] = s.ready[j]
      BY <1>2, <3>1
    <3> QED
      BY <1>3, <1>5, <3>1, <3>2 DEF HasReader
  <2> QED
    BY <1>5, <2>1, <2>2
<1> QED
  BY <1>4, <1>5 DEF HasReader

\* The timer's handler keeps feed and source in step.
LEMMA GoodTimer ==
  ASSUME NEW s \in Source, Good(s)
  PROVE  Good(OnTimer(s)) /\ Kept(OnTimer(s), s)
BY GoodStart DEF OnTimer, Kept

\* So does every handler, and none of them is a stop() or restart().
LEMMA GoodHandle ==
  ASSUME NEW s \in Source, Good(s), NEW i \in 1 .. Len(s.ready),
         NEW r \in Handle(s.ready[i], Taken(s, i))
  PROVE  Good(r) /\ r.released = s.released
<1> DEFINE c == s.ready[i]
           q == Taken(s, i)
<1>1. /\ q \in Source /\ Kept(q, s) /\ q.state = s.state /\ q.feed = s.feed
      /\ c \in Completion
  BY TakenEffect
<1>2. Mirrors(q)
  BY <1>1 DEF Good, Mirrors
<1>3. c.op # "read" => Good(q)
  BY <1>1, <1>2, TakenReader DEF Good
<1>4. q.released = s.released
  BY <1>1 DEF Kept
<1>5. \/ FailOutcome(r, c, q) \/ ChainOutcome(r, c, q)
      \/ CloseOutcome(r, c, q) \/ TimerOutcome(r, c, q)
  BY <1>1, HandleOutcome
<1> HIDE DEF c, q
<1>6. CASE FailOutcome(r, c, q)
  BY <1>4, <1>6, GoodFailure DEF FailOutcome, AfterFailure, Kept
<1>7. CASE ChainOutcome(r, c, q)
  <2>1. CASE c.op \in {"resolve", "connect", "tls_handshake"} /\ AfterInitiate(r, NextOp(c.op), q)
    <3>1. /\ r \in Source /\ r.state = q.state /\ r.feed = q.feed /\ q.live \subseteq r.live
          /\ r.ready = q.ready /\ r.released = q.released
      BY <2>1 DEF AfterInitiate
    <3>2. Good(q)
      BY <1>3, <2>1
    <3> QED
      BY <1>4, <3>1, <3>2 DEF Good, Mirrors, HasReader
  <2>2. CASE AfterOpen(r, q)
    <3>1. HasReader(r)
      BY <2>2 DEF AfterOpen, HasReader
    <3> QED
      BY <1>4, <2>2, <3>1 DEF AfterOpen, Good, Mirrors
  <2>3. CASE AfterInitiate(r, "read", q)
    <3>1. /\ r \in Source /\ r.state = q.state /\ r.feed = q.feed /\ "read" \in r.live
          /\ r.released = q.released
      BY <2>3 DEF AfterInitiate
    <3> QED
      BY <1>2, <1>4, <3>1 DEF Good, Mirrors, HasReader
  <2>4. CASE q.state # "RUNNING" /\ r = q
    BY <1>1, <1>2, <1>4, <2>4, GoodIdle
  <2> QED
    BY <1>7, <2>1, <2>2, <2>3, <2>4 DEF ChainOutcome
<1>8. CASE CloseOutcome(r, c, q)
  <2>1. c.op # "read"
    BY <1>8 DEF CloseOutcome
  <2>2. Good(OnClose(TRUE, q)) /\ Kept(OnClose(TRUE, q), q)
    BY <1>1, GoodOnClose
  <2>3. Good(OnClose(FALSE, q)) /\ Kept(OnClose(FALSE, q), q)
    BY <1>1, GoodOnClose
  <2> QED
    BY <1>3, <1>4, <1>8, <2>1, <2>2, <2>3 DEF CloseOutcome, Kept
<1>9. CASE TimerOutcome(r, c, q)
  BY <1>1, <1>3, <1>4, <1>9, GoodTimer DEF TimerOutcome, Kept
<1> QED
  BY <1>5, <1>6, <1>7, <1>8, <1>9

\* An operation completes: its handler takes its place.
LEMMA GoodQueue ==
  ASSUME NEW s \in Source, Good(s), NEW op \in ChainOps \cup {"close", "timer"}, NEW res \in Result,
         NEW timer \in BOOLEAN
  PROVE  LET r == [s EXCEPT !.live = s.live \ {op}, !.timer = timer,
                            !.ready = Append(s.ready, [op |-> op, res |-> res])]
         IN  Good(r) /\ Kept(r, s)
<1> DEFINE c == [op |-> op, res |-> res]
           q == Append(s.ready, c)
           r == [s EXCEPT !.live = s.live \ {op}, !.timer = timer, !.ready = q]
<1>1. c \in Completion /\ s.ready \in Seq(Completion)
  BY DEF Completion, Source
<1>2. /\ q \in Seq(Completion) /\ Len(q) = Len(s.ready) + 1 /\ q[Len(q)] = c
      /\ \A i \in 1 .. Len(s.ready) : q[i] = s.ready[i]
  BY <1>1, AppendProperties
<1>3. Len(s.ready) \in Nat
  BY <1>1, LenProperties
<1> HIDE DEF q
<1>4. /\ r \in Source /\ Kept(r, s) /\ r.state = s.state /\ r.feed = s.feed
      /\ r.live = s.live \ {op} /\ r.ready = q
  BY <1>2 DEF Source, Kept
<1>5. HasReader(s) => HasReader(r)
  <2>1. CASE op = "read"
    <3>1. Len(q) \in 1 .. Len(q) /\ q[Len(q)].op = "read"
      BY <1>2, <1>3, <2>1
    <3> QED
      BY <1>4, <3>1 DEF HasReader
  <2>2. CASE op # "read" /\ "read" \in s.live
    BY <1>4, <2>2 DEF HasReader
  <2>3. ASSUME NEW i \in 1 .. Len(s.ready), s.ready[i].op = "read" PROVE HasReader(r)
    <3>1. i \in 1 .. Len(q) /\ q[i].op = "read"
      BY <1>2, <1>3, <2>3
    <3> QED
      BY <1>4, <3>1 DEF HasReader
  <2> QED
    BY <2>1, <2>2, <2>3 DEF HasReader
<1>6. Good(r)
  BY <1>4, <1>5 DEF Good, Mirrors
<1> QED
  BY <1>4, <1>6 DEF q

-----------------------------------------------------------------------------
(* Good and the type are invariant                                         *)

Threads == {"worker", "stopper"}

\* A source that was not started is stopped, its feed closed.
LEMMA GoodInit == Init => WsType /\ Good(src)
<1> SUFFICES ASSUME Init PROVE WsType /\ Good(src)
  OBVIOUS
<1>1. <<>> \in Seq(Completion) /\ 0 \in 0 .. MaxAttempts
  BY WsConstants
<1>2. src \in Source
  BY <1>1 DEF Init, Source, State, FeedState
<1> QED
  BY <1>2 DEF Init, WsType, Place, Good, Mirrors

\* No step leaves the type, loses a reader, lets the feed's state stray from
\* the source's, or takes a release back.
LEMMA GoodStep ==
  ASSUME WsType, Good(src), [Next]_vars
  PROVE  WsType' /\ Good(src') /\ (src.released => src'.released)
<1>1. src \in Source /\ reopens \in Nat /\ faults \in Nat
  BY DEF WsType
<1>2. CASE RunHandler
  <2>1. PICK i \in 1 .. Len(src.ready) : src' \in Handle(src.ready[i], Taken(src, i))
    BY <1>2 DEF RunHandler, Taken
  <2>2. Good(src') /\ src'.released = src.released
    BY <1>1, <2>1, GoodHandle
  <2> QED
    BY <1>2, <2>2 DEF RunHandler, WsType, Good
<1>3. ASSUME NEW op \in ChainOps \cup {"close"}, CompleteOk(op) \/ CompleteError(op)
      PROVE  WsType' /\ Good(src') /\ (src.released => src'.released)
  <2>1. PICK res \in {"ok", "error"} : Queue(op, res)
    BY <1>3 DEF CompleteOk, CompleteError
  <2> DEFINE r == [src EXCEPT !.live = src.live \ {op}, !.timer = src.timer,
                              !.ready = Append(src.ready, [op |-> op, res |-> res])]
  <2>2. src' = r
    BY <1>1, <2>1 DEF Queue, Source
  <2>3. src.timer \in BOOLEAN /\ res \in Result
    BY <1>1 DEF Source, Result
  <2>4. Good(r) /\ Kept(r, src)
    BY <1>1, <2>3, GoodQueue
  <2> HIDE DEF r
  <2>5. Good(src') /\ src'.released = src.released
    BY <2>2, <2>4 DEF Kept
  <2>6. UNCHANGED <<at, io, reopens>> /\ faults' \in Nat
    BY <1>1, <1>3 DEF CompleteOk, CompleteError
  <2> QED
    BY <2>5, <2>6 DEF WsType, Good
<1>4. CASE TimerExpires
  <2> DEFINE r == [src EXCEPT !.live = src.live \ {"timer"}, !.timer = FALSE,
                              !.ready = Append(src.ready, [op |-> "timer", res |-> "ok"])]
  <2>1. src.live \ {"timer"} = src.live
    BY <1>1 DEF Source, ChainOps
  <2>2. src' = r
    BY <1>1, <1>4, <2>1 DEF TimerExpires, Source
  <2>3. "ok" \in Result
    BY DEF Result
  <2>4. Good(r) /\ Kept(r, src)
    BY <1>1, <2>3, GoodQueue
  <2> HIDE DEF r
  <2>5. Good(src') /\ src'.released = src.released
    BY <2>2, <2>4 DEF Kept
  <2> QED
    BY <1>4, <2>5 DEF TimerExpires, WsType, Good
<1>5. CASE Open
  <2>1. Good(src') /\ src'.released = src.released
    BY <1>1, <1>5, GoodStart DEF Open, Kept
  <2> QED
    BY <1>5, <2>1 DEF Open, WsType, Good, Place
<1>6. CASE WaitUntilReady
  BY <1>6 DEF WaitUntilReady, WsType, Place
<1>7. ASSUME NEW t \in Threads, Close(t)
      PROVE  WsType' /\ Good(src') /\ (src.released => src'.released)
  <2>1. Good(BeginStop(src)) /\ (src.released => BeginStop(src).released)
    <3>1. CASE src.state \in {"STOPPED", "STOPPING"}
      <4>1. BeginStop(src) = [src EXCEPT !.restart_requested = FALSE, !.timer = FALSE]
        BY <1>1, <3>1, GoodBeginStop
      <4>2. BeginStop(src).released = src.released
        BY <1>1, <4>1 DEF Source
      <4> QED
        BY <1>1, <4>2, GoodBeginStop
    <3>2. CASE src.state \notin {"STOPPED", "STOPPING"}
      BY <1>1, <3>2, GoodBeginStop
    <3> QED
      BY <3>1, <3>2
  <2>2. Good(src') /\ (src.released => src'.released)
    BY <1>7, <2>1 DEF Close
  <2>3. at' \in [worker : Place, stopper : Place] /\ UNCHANGED <<io, faults, reopens>>
    BY <1>7 DEF Close, WsType, Place, Threads
  <2> QED
    BY <2>2, <2>3 DEF WsType, Good
<1>8. ASSUME NEW t \in Threads, FinishClose(t)
      PROVE  WsType' /\ Good(src') /\ (src.released => src'.released)
  <2>1. Good(src') /\ src'.released = src.released
    BY <1>1, <1>8, GoodDoClose DEF FinishClose, Kept
  <2>2. at' \in [worker : Place, stopper : Place] /\ UNCHANGED <<io, faults, reopens>>
    BY <1>8 DEF FinishClose, WsType, Place, Threads
  <2> QED
    BY <2>1, <2>2 DEF WsType, Good
<1>9. CASE Reopen
  <2>1. Good(src') /\ src'.released
    BY <1>1, <1>9, GoodRestart DEF Reopen
  <2> QED
    BY <1>1, <1>9, <2>1 DEF Reopen, WsType, Good
<1>10. CASE StopIo
  BY <1>10 DEF StopIo, WsType
<1>11. CASE UNCHANGED vars
  BY <1>11 DEF vars, WsType
<1> QED
  BY <1>2, <1>3, <1>4, <1>5, <1>6, <1>7, <1>8, <1>9, <1>10, <1>11
  DEF Next, Network, Threads

\* The type of the object and of the threads' positions, and Good.
LEMMA AlwaysGood == Spec => [](WsType /\ Good(src))
<1>1. WsType /\ Good(src) /\ [Next]_vars => (WsType /\ Good(src))'
  BY GoodStep
<1> QED
  BY <1>1, GoodInit, PTL DEF Spec

\* The feed's state never contradicts the source's.
THEOREM FeedFollowsSource == Spec => []FeedMirrorsSource
<1>1. Good(src) => FeedMirrorsSource
  BY DEF Good, Mirrors, FeedMirrorsSource
<1> QED
  BY <1>1, AlwaysGood, PTL

\* A source that reports RUNNING is reading, or a read's handler is about to run.
THEOREM RunningReads == Spec => []ReaderPresent
<1>1. Good(src) => ReaderPresent
  BY DEF Good, HasReader, ReaderPresent, Queued
<1> QED
  BY <1>1, AlwaysGood, PTL

-----------------------------------------------------------------------------
(* The first life: one token                                               *)

\* Resetting a stream with nothing in flight or queued leaves nothing.
LEMMA LeftoverNothing ==
  ASSUME NEW s, s.live = {}, s.ready = <<>>
  PROVE  Leftover(s) = <<>>
<1>1. \A op : AbortedOp(op, {}) = <<>>
  BY DEF AbortedOp
<1>2. <<>> \o <<>> = <<>>
  OBVIOUS
<1>3. Aborted({}) = <<>>
  BY <1>1, <1>2 DEF Aborted
<1>4. [i \in 1 .. Len(s.ready) |-> Abandon(s.ready[i])] = <<>>
  OBVIOUS
<1> QED
  BY <1>2, <1>3, <1>4 DEF Leftover

\* Taking the only handler leaves the queue empty.
LEMMA TakenOnly ==
  ASSUME NEW s \in Source, NEW c, s.ready = <<c>>, NEW i \in 1 .. Len(s.ready)
  PROVE  i = 1 /\ s.ready[i] = c /\ Taken(s, i).ready = <<>>
<1>1. Len(s.ready) = 1 /\ i = 1 /\ s.ready[1] = c
  OBVIOUS
<1>2. s.ready \in Seq(Completion)
  BY DEF Source
<1>3. RemoveAt(s.ready, i) \in Seq(Completion) /\ Len(RemoveAt(s.ready, i)) = 0
  <2> DEFINE q == s.ready
             rest == RemoveAt(q, i)
  <2>1. q \in Seq(Completion) /\ i \in 1 .. Len(q)
    BY <1>2
  <2>2. rest \in Seq(Completion) /\ Len(rest) = Len(q) - 1
    BY <2>1, RemoveAtProperties
  <2> HIDE DEF rest
  <2>3. Len(rest) = 0
    BY <1>1, <2>2
  <2> QED
    BY <2>2, <2>3 DEF rest
<1>4. RemoveAt(s.ready, i) = <<>>
  BY <1>3, EmptySeq
<1> QED
  BY <1>1, <1>4, TakenEffect

\* The handler of the one token hands it on.
LEMMA TokenHandled ==
  ASSUME NEW s \in Source, OneToken(s), NEW i \in 1 .. Len(s.ready),
         NEW r \in Handle(s.ready[i], Taken(s, i))
  PROVE  OneToken(r)
<1> DEFINE c == s.ready[i]
           q == Taken(s, i)
<1>1. /\ q \in Source /\ Kept(q, s) /\ q.state = s.state /\ q.timer = s.timer
      /\ q.restart_requested = s.restart_requested
      /\ q.reconnect_attempts = s.reconnect_attempts /\ q.failures = s.failures
      /\ q.live = s.live /\ c \in Completion
  BY TakenEffect
<1>2. \/ FailOutcome(r, c, q) \/ ChainOutcome(r, c, q)
      \/ CloseOutcome(r, c, q) \/ TimerOutcome(r, c, q)
  BY <1>1, HandleOutcome
<1>3. Len(s.ready) # 0
  OBVIOUS
<1>4. MaxAttempts \in Nat /\ q.failures \in Nat /\ q.reconnect_attempts \in 0 .. MaxAttempts
  BY <1>1, WsConstants DEF Source
<1>5. q.clash = s.clash /\ ~s.clash /\ ~s.restart_requested /\ ~q.clash /\ ~q.restart_requested
  BY <1>1 DEF Kept, OneToken
<1>6. ASSUME NEW op \in ChainOps, NEW res \in {"ok", "error"}, Completed(s, op, res)
      PROVE  OneToken(r)
  <2>1. c = [op |-> op, res |-> res] /\ q.ready = <<>>
    BY <1>6, TakenOnly DEF Completed, Holds
  <2>2. /\ c.op = op /\ c.res = res /\ q.live = {} /\ q.timer = FALSE
        /\ q.state = StateOf(op) /\ Attempting(q)
    BY <1>1, <1>6, <2>1 DEF Completed, Holds, Attempting
  <2>3. Leftover(q) = <<>>
    BY <2>1, <2>2, LeftoverNothing
  <2> HIDE DEF c, q
  <2>4. CASE FailOutcome(r, c, q)
    <3>1. /\ r.state = "FAILED" /\ r.live = {} /\ r.ready = <<>> /\ r.failures = q.failures + 1
          /\ ~r.clash /\ ~r.restart_requested
      BY <1>5, <2>3, <2>4 DEF FailOutcome, AfterFailure, Kept
    <3>2. CASE q.reconnect_attempts = MaxAttempts
      <4>1. r.timer = FALSE /\ r.failures = MaxAttempts + 1
        BY <1>4, <2>2, <2>4, <3>1, <3>2 DEF FailOutcome, AfterFailure, Attempting
      <4> QED
        BY <3>1, <4>1 DEF OneToken, GaveUp, Holds
    <3>3. CASE q.reconnect_attempts # MaxAttempts
      <4>1. r.timer = TRUE /\ r.reconnect_attempts = q.reconnect_attempts + 1
        BY <2>4, <3>3 DEF FailOutcome, AfterFailure
      <4>2. Attempting(r)
        BY <1>4, <2>2, <3>1, <3>3, <4>1 DEF Attempting
      <4> QED
        BY <3>1, <4>1, <4>2 DEF OneToken, Waiting, Holds
    <3> QED
      BY <3>2, <3>3
  <2>5. ASSUME NEW next \in ChainOps, AfterInitiate(r, next, q), q.state = StateOf(next)
        PROVE  OneToken(r)
    <3>1. r.live = {next} /\ r.ready = <<>> /\ r.timer = FALSE /\ r.state = StateOf(next)
      BY <2>1, <2>2, <2>5 DEF AfterInitiate
    <3>2. Attempting(r) /\ ~r.restart_requested
      BY <1>5, <2>2, <2>5 DEF AfterInitiate, Attempting
    <3>3. ~r.clash
      BY <1>5, <2>2, <2>5 DEF AfterInitiate
    <3> QED
      BY <3>1, <3>2, <3>3 DEF OneToken, InFlight, Holds
  <2>6. CASE ChainOutcome(r, c, q)
    <3>1. CASE c.op \in {"resolve", "connect", "tls_handshake"} /\ AfterInitiate(r, NextOp(c.op), q)
      <4>1. NextOp(c.op) \in ChainOps /\ q.state = StateOf(NextOp(c.op))
        BY <2>2, <3>1 DEF NextOp, ChainOps, StateOf
      <4> QED
        BY <2>5, <3>1, <4>1
    <3>2. CASE c.op = "ws_handshake" /\ AfterOpen(r, q)
      <4>1. /\ r.live = {"read"} /\ r.ready = <<>> /\ r.timer = FALSE
            /\ r.state = StateOf("read") /\ ~r.restart_requested
        BY <1>5, <2>1, <2>2, <3>2 DEF AfterOpen, StateOf
      <4>2. Attempting(r)
        BY <1>4, <3>2 DEF AfterOpen, Attempting
      <4>3. ~r.clash
        BY <1>5, <2>2, <3>2 DEF AfterOpen
      <4>4. "read" \in ChainOps
        BY DEF ChainOps
      <4> QED
        BY <4>1, <4>2, <4>3, <4>4 DEF OneToken, InFlight, Holds
    <3>3. CASE c.op = "read"
      <4>1. q.state = "RUNNING" /\ q.state = StateOf("read") /\ "read" \in ChainOps
        BY <2>2, <3>3 DEF StateOf, ChainOps
      <4>2. AfterInitiate(r, "read", q)
        BY <2>6, <3>3, <4>1 DEF ChainOutcome
      <4> QED
        BY <2>5, <4>1, <4>2
    <3> QED
      BY <2>6, <3>1, <3>2, <3>3 DEF ChainOutcome
  <2>7. c.op \notin {"close", "timer"}
    BY <2>2 DEF ChainOps
  <2> QED
    BY <1>2, <2>4, <2>6, <2>7 DEF CloseOutcome, TimerOutcome, c, q
<1>7. CASE Expired(s)
  <2>1. c = [op |-> "timer", res |-> "ok"] /\ q.ready = <<>>
    BY <1>7, TakenOnly DEF Expired, Holds
  <2>2. q.live = {} /\ q.timer = FALSE /\ q.state = "FAILED" /\ Attempting(q) /\ c.op = "timer"
    BY <1>1, <1>7, <2>1 DEF Expired, Holds, Attempting
  <2>3. Leftover(q) = <<>>
    BY <2>1, <2>2, LeftoverNothing
  <2> HIDE DEF c, q
  <2>4. r = OnTimer(q)
    BY <1>2, <2>2 DEF FailOutcome, ChainOutcome, CloseOutcome, TimerOutcome, ChainOps
  <2>5. r = Start(q)
    BY <2>2, <2>4 DEF OnTimer
  <2>6. AfterStart(r, q)
    BY <1>1, <2>2, <2>5, StartEffect
  <2>7. /\ Holds(r, {"resolve"}, <<>>, FALSE) /\ r.state = StateOf("resolve") /\ Attempting(r)
        /\ ~r.clash /\ ~r.restart_requested /\ "resolve" \in ChainOps
    BY <1>5, <2>2, <2>3, <2>6 DEF AfterStart, Holds, StateOf, Attempting, Kept, ChainOps
  <2> QED
    BY <2>7 DEF OneToken, InFlight
<1>8. ~(\E op \in ChainOps : InFlight(s, op)) /\ ~Waiting(s) /\ ~GaveUp(s)
  BY <1>3 DEF InFlight, Waiting, GaveUp, Holds
<1> QED
  BY <1>6, <1>7, <1>8 DEF OneToken

\* The source starts without a token, unopened.
LEMMA FirstLifeInit == Init => FirstLife
BY DEF Init, FirstLife, Unopened, Holds

\* A source that has been released stays so, and only a release lets a thread
\* be in the middle of close().
LEMMA ClosingReleased ==
  ASSUME WsInv, [Next]_vars, NEW t \in Threads, at'[t] = "closing"
  PROVE  src'.released
<1>1. src \in Source /\ at \in [worker : Place, stopper : Place]
  BY DEF WsInv, WsType
<1>2. src.released => src'.released
  BY GoodStep DEF WsInv
<1>3. CASE at[t] = "closing"
  BY <1>2, <1>3 DEF WsInv, FirstLife, Threads
<1>4. CASE at[t] # "closing"
  <2>1. Close(t)
    <3>1. at' # at
      BY <1>4
    <3>2. ~RunHandler /\ ~Network /\ ~TimerExpires /\ ~Reopen /\ ~StopIo /\ ~UNCHANGED vars
      BY <3>1 DEF RunHandler, Network, CompleteOk, CompleteError, TimerExpires, Reopen, StopIo, vars
    <3>3. ~Open
      BY <1>1, <1>4 DEF Open, Threads
    <3>4. ~WaitUntilReady
      BY <1>1, <1>4 DEF WaitUntilReady, Threads
    <3>5. ASSUME NEW u \in Threads, FinishClose(u) PROVE FALSE
      BY <1>1, <1>4, <3>5 DEF FinishClose, Threads
    <3>6. PICK u \in Threads : Close(u)
      BY <3>2, <3>3, <3>4, <3>5 DEF Next, Threads
    <3>7. u = t
      BY <1>1, <1>4, <3>6 DEF Close, Threads
    <3> QED
      BY <3>6, <3>7
  <2>2. src.feed # "CLOSED" /\ src.state \notin {"STOPPED", "STOPPING"}
    BY <1>1, <2>1 DEF Close, Threads
  <2>3. src' = BeginStop(src)
    BY <2>1, <2>2 DEF Close
  <2> QED
    BY <1>1, <2>2, <2>3, GoodBeginStop DEF WsInv
<1> QED
  BY <1>3, <1>4

\* close() and reopen() change a source that nobody has released only by
\* releasing it.
LEMMA CloseReleases ==
  ASSUME WsInv, ~src'.released, NEW t \in Threads, Close(t) \/ FinishClose(t)
  PROVE  Close(t) /\ src' = src
<1>1. src \in Source /\ Good(src)
  BY DEF WsInv, WsType
<1>2. CASE FinishClose(t)
  <2>1. src.released
    BY <1>2 DEF FinishClose, WsInv, FirstLife, Threads
  <2>2. src'.released = src.released
    BY <1>1, <1>2, GoodDoClose DEF FinishClose, Kept
  <2> QED
    BY <2>1, <2>2
<1>3. CASE Close(t)
  <2>1. CASE src.feed = "CLOSED"
    BY <1>3, <2>1 DEF Close
  <2>2. CASE src.feed # "CLOSED" /\ src.state \in {"STOPPED", "STOPPING"}
    <3>1. src' = [src EXCEPT !.restart_requested = FALSE, !.timer = FALSE]
      BY <1>1, <1>3, <2>2, GoodBeginStop DEF Close
    <3>2. ~src.released
      BY <1>1, <3>1 DEF Source
    <3>3. CASE at.worker = "init"
      BY <2>2, <3>2, <3>3 DEF WsInv, FirstLife, Unopened
    <3>4. CASE at.worker # "init"
      <4>1. OneToken(src)
        BY <3>2, <3>4 DEF WsInv, FirstLife
      <4>2. src.state \in {"STARTING", "RUNNING", "FAILED"}
        BY <4>1 DEF OneToken, InFlight, Completed, Waiting, Expired, GaveUp, StateOf
      <4> QED
        BY <2>2, <4>2
    <3> QED
      BY <3>3, <3>4
  <2>3. CASE src.feed # "CLOSED" /\ src.state \notin {"STOPPED", "STOPPING"}
    BY <1>1, <1>3, <2>3, GoodBeginStop DEF Close
  <2> QED
    BY <1>3, <2>1, <2>2, <2>3
<1> QED
  BY <1>2, <1>3

\* Before open() nothing is queued, in flight or timed, so open() creates the token.
LEMMA TokenOpened ==
  ASSUME NEW s \in Source, Unopened(s), ~s.clash, ~s.restart_requested
  PROVE  OneToken(Start(s)) /\ InFlight(Start(s), "resolve") /\ AfterStart(Start(s), s)
<1>1. s.live = {} /\ s.ready = <<>> /\ s.failures = 0 /\ s.reconnect_attempts = 0
  BY DEF Unopened, Holds
<1>2. AfterStart(Start(s), s)
  BY StartEffect DEF Unopened
<1>3. Leftover(s) = <<>>
  BY <1>1, LeftoverNothing
<1> DEFINE r == Start(s)
<1> HIDE DEF r
<1>4. /\ Holds(r, {"resolve"}, <<>>, FALSE) /\ r.state = StateOf("resolve")
      /\ ~r.clash /\ ~r.restart_requested
  BY <1>2, <1>3 DEF AfterStart, Holds, StateOf, Kept, r
<1>5. Attempting(r)
  BY <1>1, <1>2, WsConstants DEF AfterStart, Attempting, r
<1>6. OneToken(r) /\ InFlight(r, "resolve")
  BY <1>4, <1>5 DEF OneToken, InFlight, ChainOps
<1> QED
  BY <1>2, <1>6 DEF r

\* The operation in flight completes: its handler is the token.
LEMMA TokenCompleted ==
  ASSUME NEW s \in Source, OneToken(s), NEW op \in s.live, NEW res \in {"ok", "error"},
         NEW r, r = [s EXCEPT !.live = @ \ {op}, !.ready = Append(@, [op |-> op, res |-> res])]
  PROVE  OneToken(r) /\ r.state = s.state /\ r.feed = s.feed
<1>1. PICK o \in ChainOps : InFlight(s, o)
  BY DEF OneToken, InFlight, Completed, Waiting, Expired, GaveUp, Holds
<1>2. o = op /\ s.live \ {op} = {} /\ s.ready = <<>>
  BY <1>1 DEF InFlight, Holds
<1>3. Append(<<>>, [op |-> op, res |-> res]) = <<[op |-> op, res |-> res]>>
  OBVIOUS
<1>4. /\ r.live = {} /\ r.ready = <<[op |-> op, res |-> res]>> /\ r.timer = s.timer
      /\ r.state = s.state /\ r.feed = s.feed /\ r.failures = s.failures
      /\ r.reconnect_attempts = s.reconnect_attempts
      /\ r.clash = s.clash /\ r.restart_requested = s.restart_requested
  BY <1>2, <1>3 DEF Source
<1>5. Completed(r, op, res)
  BY <1>1, <1>2, <1>4 DEF InFlight, Completed, Holds, Attempting
<1> QED
  BY <1>2, <1>4, <1>5 DEF OneToken

\* The timer expires: its handler is the token.
LEMMA TokenExpired ==
  ASSUME NEW s \in Source, OneToken(s), s.timer,
         NEW r, r = [s EXCEPT !.timer = FALSE, !.ready = Append(@, [op |-> "timer", res |-> "ok"])]
  PROVE  OneToken(r) /\ r.state = s.state /\ r.feed = s.feed
<1>1. Waiting(s)
  BY DEF OneToken, InFlight, Completed, Waiting, Expired, GaveUp, Holds
<1>2. Append(<<>>, [op |-> "timer", res |-> "ok"]) = <<[op |-> "timer", res |-> "ok"]>>
  OBVIOUS
<1>3. /\ r.live = {} /\ r.ready = <<[op |-> "timer", res |-> "ok"]>> /\ r.timer = FALSE
      /\ r.state = s.state /\ r.feed = s.feed /\ r.failures = s.failures
      /\ r.reconnect_attempts = s.reconnect_attempts
      /\ r.clash = s.clash /\ r.restart_requested = s.restart_requested
  BY <1>1, <1>2 DEF Source, Waiting, Holds
<1>4. Expired(r)
  BY <1>1, <1>3 DEF Waiting, Expired, Holds, Attempting
<1> QED
  BY <1>3, <1>4 DEF OneToken

\* Every step hands the one token on, until a stop or restart takes effect.
LEMMA FirstLifeStep ==
  ASSUME WsInv, [Next]_vars PROVE FirstLife'
<1>1. src \in Source /\ at \in [worker : Place, stopper : Place]
  BY DEF WsInv, WsType
<1>2. Good(src) /\ Good(src') /\ src' \in Source /\ (src.released => src'.released)
  BY GoodStep DEF WsInv, Good
<1>3. \A t \in Threads : at'[t] = "closing" => src'.released
  BY ClosingReleased
<1> DEFINE Alone == IF at.worker = "init" THEN Unopened(src) /\ ~src.clash /\ ~src.restart_requested
                    ELSE OneToken(src)
<1>4. ASSUME ~src'.released PROVE Alone'
  <2>1. Alone
    BY <1>2, <1>4 DEF WsInv, FirstLife
  <2>2. CASE RunHandler
    <3>1. PICK i \in 1 .. Len(src.ready) : src' \in Handle(src.ready[i], Taken(src, i))
      BY <2>2 DEF RunHandler, Taken
    <3>2. at' = at
      BY <2>2 DEF RunHandler
    <3>3. at.worker # "init"
      BY <2>1, <3>1 DEF Unopened, Holds
    <3>4. OneToken(src')
      BY <1>1, <2>1, <3>1, <3>3, TokenHandled
    <3> QED
      BY <3>2, <3>3, <3>4
  <2>3. ASSUME NEW op \in ChainOps \cup {"close"}, CompleteOk(op) \/ CompleteError(op)
        PROVE  Alone'
    <3>1. op \in src.live /\ at' = at /\ \E res \in {"ok", "error"} : Queue(op, res)
      BY <2>3 DEF CompleteOk, CompleteError
    <3>2. at.worker # "init"
      BY <2>1, <3>1 DEF Unopened, Holds
    <3>3. OneToken(src')
      BY <1>1, <2>1, <3>1, <3>2, TokenCompleted, ZenonT(40) DEF Queue
    <3> QED
      BY <3>1, <3>2, <3>3
  <2>4. CASE TimerExpires
    <3>1. src.timer /\ at' = at
      BY <2>4 DEF TimerExpires
    <3>2. at.worker # "init"
      BY <2>1, <3>1 DEF Unopened, Holds
    <3>3. OneToken(src')
      BY <1>1, <2>1, <2>4, <3>2, TokenExpired DEF TimerExpires
    <3> QED
      BY <3>1, <3>2, <3>3
  <2>5. CASE Open
    <3>1. Unopened(src) /\ ~src.clash /\ ~src.restart_requested
      BY <2>1, <2>5 DEF Open
    <3>2. src' = Start(src)
      BY <2>5, <3>1 DEF Open, Unopened
    <3>3. OneToken(src')
      BY <1>1, <3>1, <3>2, TokenOpened
    <3>4. at'.worker # "init"
      BY <1>1, <2>5 DEF Open
    <3> QED
      BY <3>3, <3>4
  <2>6. CASE WaitUntilReady
    <3>1. at.worker # "init" /\ at'.worker # "init" /\ src' = src
      BY <1>1, <2>6 DEF WaitUntilReady
    <3> QED
      BY <2>1, <3>1
  <2>7. ASSUME NEW t \in Threads, Close(t) \/ FinishClose(t)
        PROVE  Alone'
    <3>1. Close(t) /\ src' = src
      BY <1>4, <2>7, CloseReleases
    <3>2. (at'.worker = "init") <=> (at.worker = "init")
      BY <1>1, <3>1 DEF Close, Threads
    <3> QED
      BY <2>1, <3>1, <3>2
  <2>8. ~Reopen
    BY <1>1, <1>2, <1>4, GoodRestart DEF Reopen
  <2>9. CASE StopIo \/ UNCHANGED vars
    BY <2>1, <2>9 DEF StopIo, vars
  <2> QED
    BY <2>2, <2>3, <2>4, <2>5, <2>6, <2>7, <2>8, <2>9 DEF Next, Network, Threads
<1> QED
  BY <1>3, <1>4 DEF FirstLife, Threads

\* The whole invariant.
THEOREM OneTokenUntilReleased == Spec => []WsInv
<1>1. Init => WsInv
  BY GoodInit, FirstLifeInit DEF WsInv
<1>2. WsInv /\ [Next]_vars => WsInv'
  BY GoodStep, FirstLifeStep DEF WsInv
<1> QED
  BY <1>1, <1>2, PTL DEF Spec

\* An opened source that nobody has closed is always on its way until it has
\* failed more often in a row than it may retry, and it never fails oftener.
THEOREM GivesUpOnlyThen == Spec => []GivesUpAfterMaxAttempts
<1>1. ASSUME WsInv PROVE GivesUpAfterMaxAttempts
  <2> SUFFICES ASSUME ~src.released
               PROVE  /\ at.worker # "init" /\ ~Busy => src.failures > MaxAttempts
                      /\ src.failures <= MaxAttempts + 1
    BY DEF GivesUpAfterMaxAttempts
  <2>1. MaxAttempts \in Nat /\ src.failures \in Nat
    BY <1>1, WsConstants DEF WsInv, WsType, Source
  <2>2. CASE at.worker = "init"
    <3>1. src.failures = 0
      BY <1>1, <2>2 DEF WsInv, FirstLife, Unopened
    <3> QED
      BY <2>1, <2>2, <3>1
  <2>3. CASE at.worker # "init"
    <3>1. OneToken(src)
      BY <1>1, <2>3 DEF WsInv, FirstLife
    <3>2. ASSUME NEW op \in ChainOps, InFlight(src, op) PROVE Busy /\ Attempting(src)
      BY <3>2 DEF InFlight, Holds, Busy
    <3>3. ASSUME NEW op, NEW res, Completed(src, op, res) PROVE Busy /\ Attempting(src)
      BY <3>3 DEF Completed, Holds, Busy
    <3>4. Waiting(src) \/ Expired(src) => Busy /\ Attempting(src)
      BY DEF Waiting, Expired, Holds, Busy
    <3>5. Attempting(src) \/ src.failures = MaxAttempts + 1
      BY <3>1, <3>2, <3>3, <3>4 DEF OneToken, GaveUp
    <3>6. ~Busy => GaveUp(src)
      BY <3>1, <3>2, <3>3, <3>4 DEF OneToken
    <3>7. ~Busy => src.failures = MaxAttempts + 1
      BY <3>6 DEF GaveUp
    <3>8. src.failures <= MaxAttempts \/ src.failures = MaxAttempts + 1
      BY <3>5 DEF Attempting
    <3> HIDE DEF Busy
    <3> QED
      BY <2>1, <3>7, <3>8
  <2> QED
    BY <2>2, <2>3
<1> QED
  BY <1>1, OneTokenUntilReleased, PTL

-----------------------------------------------------------------------------
(* The stream the rest of the bot assumes                                  *)

\* Conn of any record.
ConnOf(s) ==
    IF s.released THEN "released"
    ELSE IF s.state = "STOPPED" THEN "closed"
    ELSE IF s.state = "RUNNING" THEN "open"
    ELSE IF s.feed = "CLOSED" THEN "connecting"
    ELSE "reconnecting"

\* The stream stutters, accepts or loses the connection.
Moves(a, b) ==
    \/ b = a
    \/ a \in {"connecting", "reconnecting"} /\ b = "open"
    \/ a \in {"connecting", "open"} /\ b = "reconnecting"

\* A step that keeps state and feed is a stutter of the abstract stream.
LEMMA ConnSame ==
  ASSUME NEW s, NEW r, r.released = s.released, r.state = s.state, r.feed = s.feed
  PROVE  Moves(ConnOf(s), ConnOf(r))
BY DEF Moves, ConnOf

\* What the abstract stream sees of the source's states.
LEMMA ConnValues ==
  ASSUME NEW s
  PROVE  /\ s.released => ConnOf(s) = "released"
         /\ ~s.released /\ s.state = "STOPPED" => ConnOf(s) = "closed"
         /\ ~s.released /\ s.state = "STARTING" /\ s.feed = "CLOSED" => ConnOf(s) = "connecting"
<1>1. ASSUME s.released PROVE ConnOf(s) = "released"
  BY <1>1 DEF ConnOf
<1>2. ASSUME ~s.released, s.state = "STOPPED" PROVE ConnOf(s) = "closed"
  BY <1>2 DEF ConnOf
<1>3. ASSUME ~s.released, s.state = "STARTING", s.feed = "CLOSED" PROVE ConnOf(s) = "connecting"
  BY <1>3 DEF ConnOf
<1> QED
  BY <1>1, <1>2, <1>3

\* What the handler of the one token does to the stream.
LEMMA ConnHandled ==
  ASSUME NEW s \in Source, Good(s), OneToken(s), ~s.released, NEW i \in 1 .. Len(s.ready),
         NEW r \in Handle(s.ready[i], Taken(s, i)), ~r.released
  PROVE  Moves(ConnOf(s), ConnOf(r))
<1> DEFINE c == s.ready[i]
           q == Taken(s, i)
<1>1. /\ q \in Source /\ q.state = s.state /\ q.feed = s.feed /\ q.released = s.released
      /\ c \in Completion
  BY TakenEffect DEF Kept
<1>2. \/ FailOutcome(r, c, q) \/ ChainOutcome(r, c, q)
      \/ CloseOutcome(r, c, q) \/ TimerOutcome(r, c, q)
  BY <1>1, HandleOutcome
<1>3. s.state \in {"STARTING", "RUNNING", "FAILED"}
  BY DEF OneToken, InFlight, Completed, Waiting, Expired, GaveUp, StateOf
<1>4. ConnOf(s) \in {"open", "connecting", "reconnecting"}
  BY <1>3 DEF ConnOf
<1>5. ASSUME NEW op \in ChainOps, NEW res \in {"ok", "error"}, Completed(s, op, res)
      PROVE  c.op = op /\ s.state = StateOf(op)
  BY <1>5, TakenOnly DEF Completed, Holds
<1>6. CASE Expired(s)
  <2>1. c.op = "timer" /\ s.state = "FAILED"
    BY <1>6, TakenOnly DEF Expired, Holds
  <2>2. r = Start(q)
    BY <1>1, <1>2, <2>1 DEF FailOutcome, ChainOutcome, CloseOutcome, TimerOutcome, ChainOps, OnTimer
  <2>3. r.state = "STARTING" /\ r.feed = s.feed
    BY <1>1, <2>1, <2>2, StartEffect DEF AfterStart
  <2>4. s.feed # "CLOSED"
    BY <2>1 DEF Good, Mirrors
  <2> QED
    BY <2>1, <2>3, <2>4 DEF ConnOf, Moves
<1>7. ASSUME NEW op \in ChainOps, c.op = op, s.state = StateOf(op)
      PROVE  Moves(ConnOf(s), ConnOf(r))
  <2> HIDE DEF c, q
  <2>1. CASE FailOutcome(r, c, q)
    <3>1. ConnOf(r) = "reconnecting"
      BY <2>1 DEF FailOutcome, AfterFailure, ConnOf
    <3> QED
      BY <1>4, <3>1 DEF Moves
  <2>2. CASE ChainOutcome(r, c, q)
    <3>1. CASE c.op = "ws_handshake" /\ AfterOpen(r, q)
      <4>1. ConnOf(r) = "open"
        BY <3>1 DEF AfterOpen, ConnOf
      <4>2. s.state = "STARTING"
        BY <1>7, <3>1 DEF StateOf
      <4>3. ConnOf(s) \in {"connecting", "reconnecting"}
        BY <4>2 DEF ConnOf
      <4> QED
        BY <4>1, <4>3 DEF Moves
    <3>2. CASE r = q \/ \E next : AfterInitiate(r, next, q)
      <4>1. r.state = s.state /\ r.feed = s.feed /\ r.released = s.released
        BY <1>1, <3>2 DEF AfterInitiate
      <4> QED
        BY <4>1, ConnSame
    <3> QED
      BY <2>2, <3>1, <3>2 DEF ChainOutcome
  <2>3. c.op \notin {"close", "timer"}
    BY <1>7 DEF ChainOps
  <2> QED
    BY <1>2, <2>1, <2>2, <2>3 DEF CloseOutcome, TimerOutcome, c, q
<1>8. ~(\E op \in ChainOps : InFlight(s, op)) /\ ~Waiting(s) /\ ~GaveUp(s)
  BY DEF InFlight, Waiting, GaveUp, Holds
<1> QED
  BY <1>5, <1>6, <1>7, <1>8 DEF OneToken

\* Every step of the source is a step of the stream or leaves it alone.
LEMMA StreamStep ==
  ASSUME WsInv, [Next]_vars
  PROVE  [Stream!StreamNext]_Conn
<1>1. src \in Source /\ at \in [worker : Place, stopper : Place] /\ Good(src)
  BY DEF WsInv, WsType
<1>2. src' \in Source /\ (src.released => src'.released)
  BY GoodStep DEF WsInv, WsType
<1>3. Conn = ConnOf(src) /\ Conn' = ConnOf(src')
  BY DEF Conn, ConnOf
<1>4. CASE src'.released
  <2>1. ConnOf(src') = "released"
    BY <1>4, ConnValues
  <2> QED
    BY <1>3, <2>1 DEF Stream!StreamNext, Stream!Release
<1>5. CASE ~src'.released
  <2>1. ~src.released
    BY <1>2, <1>5
  <2>2. IF at.worker = "init" THEN Unopened(src) /\ ~src.clash /\ ~src.restart_requested
        ELSE OneToken(src)
    BY <2>1 DEF WsInv, FirstLife
  <2>3. CASE Open
    <3>1. Unopened(src) /\ ~src.clash /\ ~src.restart_requested
      BY <2>2, <2>3 DEF Open
    <3>2. src' = Start(src)
      BY <2>3, <3>1 DEF Open, Unopened
    <3>3. AfterStart(Start(src), src)
      BY <1>1, <3>1, TokenOpened
    <3>4. src'.state = "STARTING" /\ src'.feed = "CLOSED"
      BY <3>1, <3>2, <3>3 DEF AfterStart, Unopened
    <3>5. ConnOf(src') = "connecting" /\ ConnOf(src) = "closed"
      BY <1>5, <2>1, <3>1, <3>4, ConnValues DEF Unopened
    <3> QED
      BY <1>3, <3>5 DEF Stream!StreamNext, Stream!Open
  <2>4. ASSUME ~Open PROVE Moves(ConnOf(src), ConnOf(src'))
    <3>1. CASE src' = src
      BY <3>1 DEF Moves
    <3>2. CASE RunHandler
      <4>1. PICK i \in 1 .. Len(src.ready) : src' \in Handle(src.ready[i], Taken(src, i))
        BY <3>2 DEF RunHandler, Taken
      <4>2. OneToken(src)
        BY <2>2, <4>1 DEF Unopened, Holds
      <4> QED
        BY <1>1, <1>5, <2>1, <4>1, <4>2, ConnHandled
    <3>3. ASSUME NEW op \in ChainOps \cup {"close"}, CompleteOk(op) \/ CompleteError(op)
          PROVE  Moves(ConnOf(src), ConnOf(src'))
      <4>1. \E res : Queue(op, res)
        BY <3>3 DEF CompleteOk, CompleteError
      <4>2. src'.released = src.released /\ src'.state = src.state /\ src'.feed = src.feed
        BY <1>1, <4>1 DEF Queue, Source
      <4> QED
        BY <4>2, ConnSame
    <3>4. CASE TimerExpires
      <4>1. src'.released = src.released /\ src'.state = src.state /\ src'.feed = src.feed
        BY <1>1, <3>4 DEF TimerExpires, Source
      <4> QED
        BY <4>1, ConnSame
    <3>5. ASSUME NEW t \in Threads, Close(t) \/ FinishClose(t) PROVE src' = src
      BY <1>5, <3>5, CloseReleases
    <3>6. ~Reopen
      BY <1>1, <1>5, GoodRestart DEF Reopen
    <3>7. WaitUntilReady \/ StopIo \/ UNCHANGED vars => src' = src
      BY DEF WaitUntilReady, StopIo, vars
    <3> QED
      BY <2>4, <3>1, <3>2, <3>3, <3>4, <3>5, <3>6, <3>7 DEF Next, Network, Threads
  <2>5. ASSUME Moves(ConnOf(src), ConnOf(src')) PROVE [Stream!StreamNext]_Conn
    BY <1>3, <2>5 DEF Moves, Stream!StreamNext, Stream!Accept, Stream!Lose
  <2> QED
    BY <2>3, <2>4, <2>5
<1> QED
  BY <1>4, <1>5

\* Until it is closed the source is the stream the rest of the bot assumes.
THEOREM SourceImplementsStream == Spec => ImplementsStream
<1>1. Init => Stream!StreamInit
  <2>1. Init => ConnOf(src) = "closed"
    BY ConnValues DEF Init
  <2>2. Conn = ConnOf(src)
    BY DEF Conn, ConnOf
  <2> QED
    BY <2>1, <2>2 DEF Stream!StreamInit
<1>2. WsInv /\ [Next]_vars => [Stream!StreamNext]_Conn
  BY StreamStep
<1> QED
  BY <1>1, <1>2, OneTokenUntilReleased, PTL DEF Spec, ImplementsStream, Stream!StreamSpec

-----------------------------------------------------------------------------
(* One chain of operations                                                 *)

\* Handlers that go on with the chain, and handlers that end in a reset.
Continues(c) == c.op \in ChainOps /\ c.res = "ok"
Resets(c) == c.op # "timer" /\ ~Continues(c)

Indices(s) == 1 .. Len(s.ready)

NoneContinues(s) == \A i \in Indices(s) : ~Continues(s.ready[i])

\* A reset leaves nothing that goes on: only a finished resolve survives one.
Resettable(s) ==
    /\ "resolve" \notin s.live
    /\ \A i \in Indices(s) : Continues(s.ready[i]) => s.ready[i].op # "resolve"

\* At most one operation or handler goes on with the chain.
OneContinues(s) ==
    /\ \A a, b \in s.live \cap ChainOps : a = b
    /\ s.live \cap ChainOps # {} => NoneContinues(s)
    /\ \A i, j \in Indices(s) : Continues(s.ready[i]) /\ Continues(s.ready[j]) => i = j

\* The timer runs only when nothing goes on.
TimerRests(s) == s.timer => s.live = {} /\ NoneContinues(s)

\* A connect whose socket was destroyed finds no other socket open.
SocketGone(s) ==
    \A i \in Indices(s) : s.ready[i].res = "undefined" => s.ready[i].op = "connect" /\ ~s.is_open

\* Whoever will reset the stream meets no resolve on its way.
ResetsSafely(s) ==
    "close" \in s.live \/ (\E i \in Indices(s) : Resets(s.ready[i])) => Resettable(s)

\* A timer's handler has only timers behind it, and will start the one chain; or
\* that chain was started by a timer before it, and it will do nothing.
TimersLast(s) ==
    \A i \in Indices(s) : s.ready[i].op = "timer" =>
        \/ s.live = {} /\ NoneContinues(s) /\ \A j \in i .. Len(s.ready) : s.ready[j].op = "timer"
        \/ s.state = "STARTING" /\ \A j \in 1 .. i : s.ready[j].op = "timer"

Settling(s) ==
    OneContinues(s) /\ TimerRests(s) /\ SocketGone(s) /\ ResetsSafely(s) /\ TimersLast(s)

\* One token at most, and the socket is open only from connect on.
Alone(s) ==
    /\ s.live \subseteq ChainOps /\ \A a, b \in s.live : a = b
    /\ s.ready # <<>> => /\ Len(s.ready) = 1 /\ s.live = {} /\ ~s.timer
                         /\ s.ready[1].op # "close" /\ s.ready[1].res \in {"ok", "error"}
    /\ s.timer => s.live = {}
    /\ s.is_open => /\ ~s.timer /\ "resolve" \notin s.live
                    /\ s.ready # <<>> => s.ready[1].op \notin {"timer", "resolve"}

\* What OneChain excepts.
Excused == (Closed("worker") /\ Closed("stopper")) \/ reopens > 0 \/ src.stray

\* No two chains have met, and none will.
Chain(s) == ~s.clash /\ ~s.restart_requested /\ Settling(s)

\* The invariant of OneChain.
ChainInv ==
    Excused \/ /\ Chain(src)
               /\ (\A t \in Threads : at[t] # "done") => Alone(src)
               /\ at.worker = "init" => Holds(src, {}, <<>>, FALSE) /\ ~src.is_open

-----------------------------------------------------------------------------
(* What is queued after a reset or without one handler                     *)

\* A handler of an operation that was cancelled.
Cancelled == [op : ChainOps \cup {"close"}, res : {"aborted"}]

\* The handlers cancel() queues are of cancelled operations.
LEMMA AbortedCancelled ==
  ASSUME NEW ops PROVE Aborted(ops) \in Seq(Cancelled) /\ (ops = {} => Aborted(ops) = <<>>)
<1>1. ASSUME NEW op \in ChainOps \cup {"close"} PROVE AbortedOp(op, ops) \in Seq(Cancelled)
  <2>1. [op |-> op, res |-> "aborted"] \in Cancelled
    BY DEF Cancelled
  <2> QED
    BY <2>1 DEF AbortedOp
<1>2. Aborted(ops) \in Seq(Cancelled)
  BY <1>1, ConcatProperties DEF Aborted, ChainOps
<1>3. ASSUME ops = {} PROVE Aborted(ops) = <<>>
  <2>1. \A op : AbortedOp(op, ops) = <<>>
    BY <1>3 DEF AbortedOp
  <2>2. <<>> \o <<>> = <<>>
    BY ConcatEmptySeq, EmptySeq
  <2> QED
    BY <2>1, <2>2 DEF Aborted
<1> QED
  BY <1>2, <1>3

\* What a reset leaves queued: the handlers that were, abandoned, and behind them
\* those of the operations it cancelled.
LEMMA LeftoverEntries ==
  ASSUME NEW s \in Source
  PROVE  /\ Leftover(s) \in Seq(Completion) /\ Len(s.ready) \in Nat
         /\ Len(s.ready) <= Len(Leftover(s))
         /\ s.live = {} => Len(Leftover(s)) = Len(s.ready)
         /\ \A i \in 1 .. Len(s.ready) : Leftover(s)[i] = Abandon(s.ready[i]) /\ s.ready[i] \in Completion
         /\ \A i \in 1 .. Len(Leftover(s)) : i > Len(s.ready) => Leftover(s)[i] \in Cancelled
<1> DEFINE kept == [i \in 1 .. Len(s.ready) |-> Abandon(s.ready[i])]
           new == Aborted(s.live)
<1>1. s.ready \in Seq(Completion) /\ Len(s.ready) \in Nat
  BY LenProperties DEF Source
<1>2. \A i \in 1 .. Len(s.ready) : s.ready[i] \in Completion
  BY <1>1, ElementOfSeq
<1>3. \A c \in Completion : Abandon(c) \in Completion
  BY DEF Abandon, Completion, Result
<1>4. kept \in Seq(Completion) /\ Len(kept) = Len(s.ready)
  BY <1>1, <1>2, <1>3, IsASeq, LenProperties
<1>5. \A i \in 1 .. Len(s.ready) : kept[i] = Abandon(s.ready[i])
  OBVIOUS
<1>6. new \in Seq(Cancelled) /\ new \in Seq(Completion) /\ (s.live = {} => new = <<>>)
  BY AbortedCancelled, AbortedType
<1>7. Leftover(s) = kept \o new
  BY DEF Leftover
<1> HIDE DEF kept, new
<1>8. /\ Leftover(s) \in Seq(Completion) /\ Len(Leftover(s)) = Len(kept) + Len(new)
      /\ \A i \in 1 .. Len(kept) + Len(new) :
            Leftover(s)[i] = IF i <= Len(kept) THEN kept[i] ELSE new[i - Len(kept)]
  <2>1. /\ kept \o new \in Seq(Completion) /\ Len(kept \o new) = Len(kept) + Len(new)
        /\ \A i \in 1 .. Len(kept) + Len(new) :
              (kept \o new)[i] = IF i <= Len(kept) THEN kept[i] ELSE new[i - Len(kept)]
    <3>1. kept \in Seq(Completion) /\ new \in Seq(Completion)
      BY <1>4, <1>6
    <3> QED
      BY <3>1, ConcatProperties, Zenon
  <2> QED
    BY <1>7, <2>1
<1>9. Len(new) \in Nat /\ (s.live = {} => Len(new) = 0) /\ \A i \in 1 .. Len(new) : new[i] \in Cancelled
  BY <1>6, LenProperties, ElementOfSeq, EmptySeq
<1>10. ASSUME NEW i \in 1 .. Len(Leftover(s)), i > Len(s.ready) PROVE Leftover(s)[i] \in Cancelled
  <2>1. i - Len(kept) \in 1 .. Len(new)
    BY <1>1, <1>4, <1>8, <1>9, <1>10
  <2>2. Leftover(s)[i] = new[i - Len(kept)]
    BY <1>1, <1>4, <1>8, <1>9, <1>10
  <2> QED
    BY <1>9, <2>1, <2>2
<1>11. ASSUME NEW i \in 1 .. Len(s.ready) PROVE Leftover(s)[i] = Abandon(s.ready[i])
  <2>1. i \in 1 .. Len(kept) + Len(new) /\ i <= Len(kept)
    BY <1>1, <1>4, <1>9
  <2>2. Leftover(s)[i] = kept[i]
    BY <1>8, <2>1
  <2> QED
    BY <1>5, <2>2
<1> QED
  BY <1>1, <1>2, <1>4, <1>8, <1>9, <1>10, <1>11

\* Where the j-th of the others was when the i-th handler is taken.
Was(i, j) == IF j < i THEN j ELSE j + 1

\* The handlers left when the i-th is taken, and where they were.
LEMMA TakenEntries ==
  ASSUME NEW s \in Source, NEW i \in Indices(s)
  PROVE  /\ Len(Taken(s, i).ready) = Len(s.ready) - 1 /\ Len(s.ready) \in Nat
         /\ \A j \in Indices(Taken(s, i)) :
               /\ Was(i, j) \in Indices(s) /\ Was(i, j) # i
               /\ Taken(s, i).ready[j] = s.ready[Was(i, j)]
<1>1. s.ready \in Seq(Completion) /\ Len(s.ready) \in Nat
  BY LenProperties DEF Source
<1>2. Taken(s, i).ready = RemoveAt(s.ready, i)
  BY TakenEffect DEF Indices
<1>3. /\ Len(RemoveAt(s.ready, i)) = Len(s.ready) - 1
      /\ \A j \in 1 .. i - 1 : RemoveAt(s.ready, i)[j] = s.ready[j]
      /\ \A j \in i .. Len(s.ready) - 1 : RemoveAt(s.ready, i)[j] = s.ready[j + 1]
  BY <1>1, RemoveAtProperties DEF Indices
<1> QED
  BY <1>1, <1>2, <1>3 DEF Was, Indices

\* A reset that finds nothing it would leave behind, and no timer it would
\* overtake, leaves handlers that end in a reset, and timers behind them.
LEMMA SettledReset ==
  ASSUME NEW s \in Source, NEW r \in Source, Resettable(s),
         r.live = {}, r.ready = Leftover(s), r.is_open = FALSE,
         \A i \in Indices(s) : s.ready[i].res = "undefined" => s.ready[i].op = "connect",
         \A i \in Indices(s) : s.ready[i].op = "timer" =>
            s.live = {} /\ \A j \in i .. Len(s.ready) : s.ready[j].op = "timer"
  PROVE  Settling(r)
<1> DEFINE n == Len(s.ready)
           q == Leftover(s)
<1>1. /\ n \in Nat /\ n <= Len(q) /\ Len(q) \in Nat /\ (s.live = {} => Len(q) = n)
      /\ \A i \in 1 .. n : q[i] = Abandon(s.ready[i]) /\ s.ready[i] \in Completion
      /\ \A i \in 1 .. Len(q) : i > n => q[i] \in Cancelled
  BY LeftoverEntries, LenProperties
<1>2. \A c \in Completion :
         /\ Abandon(c).op = c.op
         /\ Continues(Abandon(c)) => Continues(c) /\ c.op = "resolve"
  BY DEF Abandon, Continues, Completion, ChainOps
<1>3. \A c \in Cancelled : c.op # "timer" /\ ~Continues(c)
  BY DEF Cancelled, Continues, ChainOps
<1>4. r.ready = q
  OBVIOUS
<1> HIDE DEF q
<1>5. NoneContinues(r)
  <2> SUFFICES ASSUME NEW i \in 1 .. Len(q) PROVE ~Continues(q[i])
    BY <1>4 DEF NoneContinues, Indices
  <2>1. CASE i <= n
    <3>1. i \in 1 .. n
      BY <1>1, <2>1
    <3> QED
      BY <1>1, <1>2, <3>1 DEF Resettable, Indices
  <2>2. CASE i > n
    BY <1>1, <1>3, <2>2
  <2> QED
    BY <1>1, <2>1, <2>2
<1>6. TimersLast(r)
  <2> SUFFICES ASSUME NEW i \in 1 .. Len(q), q[i].op = "timer"
               PROVE  \A j \in i .. Len(q) : q[j].op = "timer"
    BY <1>4, <1>5 DEF TimersLast, Indices
  <2>1. i \in 1 .. n /\ s.ready[i].op = "timer"
    BY <1>1, <1>2, <1>3
  <2>2. s.live = {} /\ \A j \in i .. n : s.ready[j].op = "timer"
    BY <2>1 DEF Indices
  <2> QED
    BY <1>1, <1>2, <2>1, <2>2
<1>7. SocketGone(r)
  <2> SUFFICES ASSUME NEW i \in 1 .. Len(q), q[i].res = "undefined" PROVE q[i].op = "connect"
    BY <1>4 DEF SocketGone, Indices
  <2>1. \A c \in Completion : Abandon(c).res = "undefined" => c.res = "undefined" \/ c.op = "connect"
    BY DEF Abandon, Completion
  <2>2. i \in 1 .. n
    BY <1>1 DEF Cancelled
  <2> QED
    BY <1>1, <1>2, <2>1, <2>2 DEF Indices
<1> QED
  BY <1>5, <1>6, <1>7 DEF Settling, OneContinues, TimerRests, ResetsSafely, Resettable,
       NoneContinues

\* The others keep their order when a handler is taken.
LEMMA SettledTaken ==
  ASSUME NEW s \in Source, Settling(s), NEW i \in Indices(s)
  PROVE  Settling(Taken(s, i))
<1> DEFINE r == Taken(s, i)
<1>1. /\ r.state = s.state /\ r.timer = s.timer /\ r.is_open = s.is_open /\ r.live = s.live
  BY TakenEffect DEF Indices
<1>2. /\ Len(r.ready) = Len(s.ready) - 1 /\ Len(s.ready) \in Nat
      /\ \A j \in Indices(r) : /\ Was(i, j) \in Indices(s) /\ Was(i, j) # i
                              /\ r.ready[j] = s.ready[Was(i, j)]
  BY TakenEntries
<1>3. \A j, k \in Indices(r) : /\ Was(i, j) = Was(i, k) => j = k
                               /\ j <= k => Was(i, j) <= Was(i, k)
  BY <1>2 DEF Was, Indices
<1> HIDE DEF r
<1>4. NoneContinues(s) => NoneContinues(r)
  BY <1>2 DEF NoneContinues
<1>5. Resettable(s) => Resettable(r)
  BY <1>1, <1>2 DEF Resettable
<1>6. OneContinues(r)
  BY <1>1, <1>2, <1>3, <1>4 DEF Settling, OneContinues
<1>7. TimerRests(r) /\ SocketGone(r)
  BY <1>1, <1>2, <1>4 DEF Settling, TimerRests, SocketGone
<1>8. ResetsSafely(r)
  BY <1>1, <1>2, <1>5 DEF Settling, ResetsSafely
<1>9. TimersLast(r)
  <2> SUFFICES ASSUME NEW k \in Indices(r), r.ready[k].op = "timer"
               PROVE  \/ r.live = {} /\ NoneContinues(r) /\ \A j \in k .. Len(r.ready) : r.ready[j].op = "timer"
                      \/ r.state = "STARTING" /\ \A j \in 1 .. k : r.ready[j].op = "timer"
    BY DEF TimersLast
  <2>1. Was(i, k) \in Indices(s) /\ s.ready[Was(i, k)].op = "timer"
    BY <1>2
  <2>2. CASE s.live = {} /\ NoneContinues(s) /\ \A j \in Was(i, k) .. Len(s.ready) : s.ready[j].op = "timer"
    <3>1. ASSUME NEW j \in k .. Len(r.ready) PROVE r.ready[j].op = "timer"
      <4>1. j \in Indices(r) /\ k <= j
        BY <1>2 DEF Indices
      <4>2. Was(i, j) \in Was(i, k) .. Len(s.ready)
        BY <1>2, <1>3, <4>1 DEF Indices
      <4> QED
        BY <1>2, <2>2, <4>1, <4>2
    <3> QED
      BY <1>1, <1>4, <2>2, <3>1
  <2>3. CASE s.state = "STARTING" /\ \A j \in 1 .. Was(i, k) : s.ready[j].op = "timer"
    <3>1. ASSUME NEW j \in 1 .. k PROVE r.ready[j].op = "timer"
      <4>1. j \in Indices(r) /\ j <= k
        BY <1>2 DEF Indices
      <4>2. Was(i, j) \in 1 .. Was(i, k)
        BY <1>2, <1>3, <4>1 DEF Indices
      <4> QED
        BY <1>2, <2>3, <4>1, <4>2
    <3> QED
      BY <1>1, <2>3, <3>1
  <2> QED
    BY <2>1, <2>2, <2>3 DEF Settling, TimersLast
<1> QED
  BY <1>6, <1>7, <1>8, <1>9 DEF Settling, r

-----------------------------------------------------------------------------
(* A handler keeps the chain one                                           *)

\* The handler at i may run.
May(s, i) == \A j \in 1 .. i - 1 : "timer" \notin {s.ready[j].op, s.ready[i].op}

\* Behind a handler that is not a timer's there are timers only at the end, and
\* only when nothing goes on.
LEMMA TimersBehind ==
  ASSUME NEW s \in Source, Settling(s), NEW i \in Indices(s), May(s, i),
         s.ready[i].op # "timer",
         NEW k \in Indices(Taken(s, i)), Taken(s, i).ready[k].op = "timer"
  PROVE  /\ s.live = {} /\ NoneContinues(s)
         /\ \A j \in k .. Len(Taken(s, i).ready) : Taken(s, i).ready[j].op = "timer"
<1> DEFINE r == Taken(s, i)
<1>1. /\ Len(r.ready) = Len(s.ready) - 1 /\ Len(s.ready) \in Nat
      /\ \A j \in Indices(r) : /\ Was(i, j) \in Indices(s) /\ Was(i, j) # i
                              /\ r.ready[j] = s.ready[Was(i, j)]
  BY TakenEntries
<1>2. r.ready[k].op = "timer" /\ k \in Indices(r)
  OBVIOUS
<1> HIDE DEF r
<1>3. Was(i, k) \in Indices(s) /\ s.ready[Was(i, k)].op = "timer" /\ Was(i, k) # i
  BY <1>1, <1>2
<1>4. ~(Was(i, k) < i)
  BY <1>1, <1>3 DEF May, Indices
<1>5. i \in 1 .. Was(i, k)
  BY <1>1, <1>3, <1>4 DEF Indices
<1>6. /\ s.live = {} /\ NoneContinues(s)
      /\ \A j \in Was(i, k) .. Len(s.ready) : s.ready[j].op = "timer"
  BY <1>3, <1>5 DEF Settling, TimersLast
<1>7. ASSUME NEW j \in k .. Len(r.ready) PROVE r.ready[j].op = "timer"
  <2>1. j \in Indices(r) /\ Was(i, j) \in Was(i, k) .. Len(s.ready)
    BY <1>1, <1>2 DEF Was, Indices
  <2> QED
    BY <1>1, <1>6, <2>1
<1> QED
  BY <1>6, <1>7 DEF r

\* A handler that resets the stream.
LEMMA SettledByReset ==
  ASSUME NEW s \in Source, Settling(s), NEW i \in Indices(s), May(s, i),
         Resets(s.ready[i]),
         NEW r \in Source, r.live = {}, r.ready = Leftover(Taken(s, i)), r.is_open = FALSE
  PROVE  Settling(r)
<1> DEFINE q == Taken(s, i)
<1>1. q \in Source /\ q.live = s.live
  BY TakenEffect DEF Indices
<1>2. \A j \in Indices(q) : Was(i, j) \in Indices(s) /\ q.ready[j] = s.ready[Was(i, j)]
  BY TakenEntries
<1>3. Resettable(s)
  BY DEF Settling, ResetsSafely
<1>4. \A k \in Indices(q) : q.ready[k].op = "timer" =>
         q.live = {} /\ \A j \in k .. Len(q.ready) : q.ready[j].op = "timer"
  BY <1>1, TimersBehind DEF Resets
<1>5. r.ready = Leftover(q)
  OBVIOUS
<1> HIDE DEF q
<1>6. Resettable(q)
  BY <1>1, <1>2, <1>3 DEF Resettable
<1>7. \A j \in Indices(q) : q.ready[j].res = "undefined" => q.ready[j].op = "connect"
  BY <1>2 DEF Settling, SocketGone
<1> QED
  BY <1>1, <1>4, <1>5, <1>6, <1>7, SettledReset

\* The next operation of a chain that nothing else goes on with.
LEMMA SettledByNext ==
  ASSUME NEW q \in Source, Settling(q), q.live \cap ChainOps = {}, NoneContinues(q), ~q.timer,
         \A k \in Indices(q) : q.ready[k].op # "timer",
         NEW op \in ChainOps \ {"resolve"}, NEW r \in Source,
         r.live = q.live \cup {op}, r.ready = q.ready, r.timer = q.timer,
         \/ r.is_open = q.is_open
         \/ \A k \in Indices(q) : q.ready[k].res # "undefined"
  PROVE  Settling(r)
<1>1. Indices(r) = Indices(q)
  BY DEF Indices
<1>2. NoneContinues(r)
  BY <1>1 DEF NoneContinues
<1>3. OneContinues(r)
  BY <1>2 DEF OneContinues, NoneContinues
<1>4. SocketGone(r)
  BY <1>1 DEF Settling, SocketGone
<1>5. ResetsSafely(r)
  BY <1>1, <1>2 DEF Settling, ResetsSafely, Resettable, ChainOps, NoneContinues
<1>6. TimerRests(r) /\ TimersLast(r)
  BY <1>1 DEF TimerRests, TimersLast
<1> QED
  BY <1>3, <1>4, <1>5, <1>6 DEF Settling

\* A handler that goes on with the chain.
LEMMA ChainGoesOn ==
  ASSUME NEW s \in Source, Chain(s), NEW i \in Indices(s), May(s, i),
         NEW r, ChainOutcome(r, s.ready[i], Taken(s, i))
  PROVE  r.stray \/ Chain(r)
<1> DEFINE c == s.ready[i]
           q == Taken(s, i)
<1>1. /\ q \in Source /\ Kept(q, s) /\ c \in Completion
      /\ q.state = s.state /\ q.timer = s.timer /\ q.restart_requested = s.restart_requested
      /\ q.is_open = s.is_open /\ q.live = s.live
  BY TakenEffect DEF Indices
<1>2. \A j \in Indices(q) : /\ Was(i, j) \in Indices(s) /\ Was(i, j) # i
                           /\ q.ready[j] = s.ready[Was(i, j)]
  BY TakenEntries
<1>3. Settling(s) /\ Settling(q) /\ ~q.clash /\ ~q.restart_requested
  BY <1>1, SettledTaken DEF Chain, Kept
<1>4. \A k \in Indices(q) : c.op # "timer" /\ q.ready[k].op = "timer" => NoneContinues(s)
  BY <1>3, TimersBehind
<1>5. ChainOutcome(r, c, q)
  OBVIOUS
<1> HIDE DEF c, q
<1>6. CASE c.res = "undefined"
  <2>1. c.op = "connect" /\ ~q.is_open
    BY <1>1, <1>3, <1>6 DEF Settling, SocketGone, c
  <2>2. AfterInitiate(r, NextOp("connect"), q)
    BY <1>5, <2>1 DEF ChainOutcome
  <2>3. NextOp("connect") \notin {"resolve", "connect"}
    BY DEF NextOp
  <2> QED
    BY <2>1, <2>2, <2>3 DEF AfterInitiate
<1>7. CASE c.res = "ok"
  <2>1. c.op \in {"resolve", "connect", "tls_handshake", "ws_handshake", "read"}
    BY <1>5 DEF ChainOutcome
  <2>2. Continues(c)
    BY <1>7, <2>1 DEF Continues, ChainOps
  <2>3. ~NoneContinues(s)
    BY <2>2 DEF NoneContinues, c
  <2>4. q.live \cap ChainOps = {} /\ ~q.timer
    BY <1>1, <1>3, <2>3 DEF Settling, OneContinues, TimerRests
  <2>5. NoneContinues(q)
    BY <1>2, <1>3, <2>2 DEF Settling, OneContinues, NoneContinues, c
  <2>6. \A k \in Indices(q) : q.ready[k].op # "timer"
    BY <1>4, <2>1, <2>3
  <2>7. c.op = "resolve" => \A k \in Indices(q) : q.ready[k].res # "undefined"
    <3> SUFFICES ASSUME c.op = "resolve", NEW k \in Indices(q), q.ready[k].res = "undefined" PROVE FALSE
      OBVIOUS
    <3>1. Resets(q.ready[k])
      BY <2>6 DEF Resets, Continues
    <3>2. Resettable(s)
      BY <1>2, <1>3, <3>1 DEF Settling, ResetsSafely
    <3> QED
      BY <2>2, <3>2 DEF Resettable, c
  <2>8. ASSUME c.op \in {"resolve", "connect", "tls_handshake"}, AfterInitiate(r, NextOp(c.op), q)
        PROVE  Chain(r)
    <3>1. NextOp(c.op) \in ChainOps \ {"resolve"} /\ (NextOp(c.op) = "connect" => c.op = "resolve")
      BY <2>8 DEF NextOp, ChainOps
    <3>2. /\ r \in Source /\ r.live = q.live \cup {NextOp(c.op)} /\ r.ready = q.ready
          /\ r.timer = q.timer /\ r.clash = q.clash /\ r.restart_requested = q.restart_requested
          /\ NextOp(c.op) # "connect" => r.is_open = q.is_open
      BY <2>4, <2>8 DEF AfterInitiate
    <3>3. \/ r.is_open = q.is_open
          \/ \A k \in Indices(q) : q.ready[k].res # "undefined"
      BY <2>7, <3>1, <3>2
    <3>4. Settling(r)
      BY <1>1, <1>3, <2>4, <2>5, <2>6, <3>1, <3>2, <3>3, SettledByNext
    <3> QED
      BY <1>3, <3>2, <3>4 DEF Chain
  <2>9. ASSUME AfterOpen(r, q) \/ AfterInitiate(r, "read", q)
        PROVE  Chain(r)
    <3>1. "read" \in ChainOps \ {"resolve"}
      BY DEF ChainOps
    <3>2. /\ r \in Source /\ r.live = q.live \cup {"read"} /\ r.ready = q.ready
          /\ r.timer = q.timer /\ r.clash = q.clash /\ r.restart_requested = q.restart_requested
          /\ r.is_open = q.is_open
      BY <2>4, <2>9 DEF AfterInitiate, AfterOpen
    <3>3. Settling(r)
      BY <1>1, <1>3, <2>4, <2>5, <2>6, <3>1, <3>2, SettledByNext
    <3> QED
      BY <1>3, <3>2, <3>3 DEF Chain
  <2>10. r = q => Chain(r)
    BY <1>3 DEF Chain
  <2> QED
    BY <1>5, <2>8, <2>9, <2>10 DEF ChainOutcome
<1> QED
  BY <1>5, <1>6, <1>7 DEF ChainOutcome

\* Start() by the timer at the head of the queue.
LEMMA ChainStarts ==
  ASSUME NEW s \in Source, Chain(s), NEW i \in Indices(s), May(s, i), s.ready[i].op = "timer"
  PROVE  Chain(OnTimer(Taken(s, i)))
<1> DEFINE q == Taken(s, i)
           r == Start(q)
<1>1. /\ q \in Source /\ Kept(q, s)
      /\ q.state = s.state /\ q.timer = s.timer /\ q.restart_requested = s.restart_requested
      /\ q.is_open = s.is_open /\ q.live = s.live
  BY TakenEffect DEF Indices
<1>2. /\ Len(q.ready) = Len(s.ready) - 1 /\ Len(s.ready) \in Nat
      /\ \A j \in Indices(q) : Was(i, j) \in Indices(s) /\ q.ready[j] = s.ready[Was(i, j)]
  BY TakenEntries
<1>3. Settling(s) /\ Settling(q) /\ ~q.clash /\ ~q.restart_requested
  BY <1>1, SettledTaken DEF Chain, Kept
<1>4. OnTimer(q) = IF q.state \in {"STOPPING", "RUNNING"} THEN q ELSE r
  BY DEF OnTimer
<1>5. IF q.state \in {"STARTING", "RUNNING"} THEN r = [q EXCEPT !.timer = FALSE]
      ELSE AfterStart(r, q)
  BY <1>1, StartEffect
<1> HIDE DEF q, r
<1>6. CASE q.state \in {"STARTING", "RUNNING"}
  <2> DEFINE p == [q EXCEPT !.timer = FALSE]
  <2>1. /\ p.clash = q.clash /\ p.restart_requested = q.restart_requested /\ p.timer = FALSE
        /\ p.state = q.state /\ p.is_open = q.is_open /\ p.live = q.live /\ p.ready = q.ready
    BY <1>1 DEF Source
  <2> HIDE DEF p
  <2>2. Settling(p)
    BY <1>3, <2>1 DEF Settling, OneContinues, TimerRests, SocketGone, ResetsSafely, Resettable,
         TimersLast, NoneContinues, Indices
  <2>3. Chain(p) /\ Chain(q)
    BY <1>3, <2>1, <2>2 DEF Chain
  <2> QED
    BY <1>4, <1>5, <1>6, <2>3 DEF p, q
<1>7. CASE q.state \notin {"STARTING", "RUNNING"}
  <2>1. i = 1
    <3>1. i \in Nat /\ i >= 1
      BY <1>2 DEF Indices
    <3>2. ASSUME i > 1 PROVE FALSE
      <4>1. 1 \in 1 .. i - 1
        BY <3>1, <3>2
      <4> QED
        BY <4>1 DEF May
    <3> QED
      BY <3>1, <3>2
  <2>2. s.live = {} /\ NoneContinues(s) /\ \A j \in 1 .. Len(s.ready) : s.ready[j].op = "timer"
    BY <1>1, <1>3, <1>7, <2>1 DEF Settling, TimersLast
  <2>3. \A j \in Indices(q) : q.ready[j].op = "timer"
    BY <1>2, <2>2 DEF Indices
  <2>4. /\ Len(Leftover(q)) = Len(q.ready)
        /\ \A j \in Indices(q) : Leftover(q)[j] = Abandon(q.ready[j])
    BY <1>1, <2>2, LeftoverEntries DEF Indices
  <2>5. \A c : c.op = "timer" => Abandon(c) = c
    BY DEF Abandon
  <2>6. \A j \in 1 .. Len(Leftover(q)) : Leftover(q)[j].op = "timer" /\ Leftover(q)[j] = q.ready[j]
    BY <2>3, <2>4, <2>5 DEF Indices
  <2>7. AfterStart(r, q)
    BY <1>5, <1>7
  <2>8. /\ \A j \in Indices(r) : r.ready[j].op = "timer" /\ j \in Indices(q) /\ r.ready[j] = q.ready[j]
        /\ r.live = {"resolve"} /\ r.timer = FALSE /\ r.state = "STARTING" /\ r.is_open = FALSE
        /\ ~r.clash /\ ~r.restart_requested
    BY <1>3, <2>4, <2>6, <2>7 DEF AfterStart, Kept, Indices
  <2>9. NoneContinues(r)
    BY <2>8 DEF NoneContinues, Continues, ChainOps
  <2>10. OneContinues(r)
    BY <2>8, <2>9 DEF OneContinues, NoneContinues
  <2>11. SocketGone(r)
    BY <1>3, <2>8 DEF Settling, SocketGone
  <2>12. ResetsSafely(r)
    BY <2>8 DEF ResetsSafely, Resets
  <2>13. TimerRests(r)
    BY <2>8 DEF TimerRests
  <2>14. TimersLast(r)
    BY <1>2, <2>8 DEF TimersLast, Indices
  <2>15. Chain(r)
    BY <2>8, <2>10, <2>11, <2>12, <2>13, <2>14 DEF Chain, Settling
  <2>16. Chain(q)
    BY <1>3 DEF Chain
  <2> QED
    BY <1>4, <2>15, <2>16 DEF q
<1> QED
  BY <1>6, <1>7

\* Whatever handler runs.
LEMMA ChainHandled ==
  ASSUME NEW s \in Source, Chain(s), NEW i \in Indices(s), May(s, i),
         NEW r \in Handle(s.ready[i], Taken(s, i))
  PROVE  r.stray \/ Chain(r)
<1> DEFINE c == s.ready[i]
           q == Taken(s, i)
<1>1. q \in Source /\ Kept(q, s) /\ c \in Completion /\ q.restart_requested = s.restart_requested
  BY TakenEffect DEF Indices
<1>2. \/ FailOutcome(r, c, q) \/ ChainOutcome(r, c, q)
      \/ CloseOutcome(r, c, q) \/ TimerOutcome(r, c, q)
  BY <1>1, HandleOutcome
<1>3. Settling(s) /\ ~q.clash /\ ~q.restart_requested
  BY <1>1 DEF Chain, Kept
<1>4. ASSUME NEW p, AfterFailure(p, q) \/ AfterStop(p, q), c.op # "timer", ~Continues(c)
      PROVE  Chain(p)
  <2>1. /\ p \in Source /\ p.live = {} /\ p.ready = Leftover(q) /\ p.is_open = FALSE
        /\ ~p.clash /\ ~p.restart_requested
    BY <1>3, <1>4 DEF AfterFailure, AfterStop, Kept
  <2>2. Resets(s.ready[i])
    BY <1>4 DEF Resets
  <2>3. Settling(p)
    BY <1>3, <2>1, <2>2, SettledByReset
  <2> QED
    BY <2>1, <2>3 DEF Chain
<1>5. CASE FailOutcome(r, c, q)
  BY <1>4, <1>5 DEF FailOutcome, ChainOps, Continues
<1>6. CASE ChainOutcome(r, c, q)
  BY <1>6, ChainGoesOn
<1>7. CASE CloseOutcome(r, c, q)
  <2>1. c.op # "timer" /\ ~Continues(c)
    BY <1>7 DEF CloseOutcome, Continues, ChainOps
  <2>2. ASSUME NEW failed \in BOOLEAN PROVE Chain(OnClose(failed, q))
    <3>1. /\ OnClose(failed, q) = Reset(failed, q)
          /\ AfterFailure(Reset(failed, q), q) \/ AfterStop(Reset(failed, q), q)
      BY <1>1, <1>3, OnCloseReset
    <3> QED
      BY <1>4, <2>1, <3>1
  <2>3. Chain(q)
    BY <1>3, SettledTaken DEF Chain
  <2> QED
    BY <1>7, <2>2, <2>3 DEF CloseOutcome
<1>8. CASE TimerOutcome(r, c, q)
  BY <1>8, ChainStarts DEF TimerOutcome
<1> QED
  BY <1>2, <1>5, <1>6, <1>7, <1>8

-----------------------------------------------------------------------------
(* So do the network, the timer and the threads                            *)

\* What is queued when op completes or the timer expires.
LEMMA QueuedEntries ==
  ASSUME NEW s \in Source, NEW c \in Completion
  PROVE  LET q == Append(s.ready, c)
         IN  /\ q \in Seq(Completion) /\ Len(q) = Len(s.ready) + 1 /\ Len(s.ready) \in Nat
             /\ q[Len(s.ready) + 1] = c /\ \A i \in Indices(s) : q[i] = s.ready[i]
<1>1. s.ready \in Seq(Completion)
  BY DEF Source
<1> QED
  BY <1>1, AppendProperties, LenProperties DEF Indices

\* An operation that completes hands what it carried to its handler.
LEMMA ChainCompletes ==
  ASSUME NEW s \in Source, Chain(s), NEW op \in s.live, NEW res \in {"ok", "error"},
         NEW r, r.live = s.live \ {op}, r.ready = Append(s.ready, [op |-> op, res |-> res]),
         r.timer = s.timer, r.state = s.state, r.is_open = s.is_open,
         r.clash = s.clash, r.restart_requested = s.restart_requested
  PROVE  Chain(r)
<1> DEFINE c == [op |-> op, res |-> res]
           n == Len(s.ready)
<1>1. op \in ChainOps \cup {"close"} /\ op # "timer"
  BY DEF Source, ChainOps
<1>2. c \in Completion /\ c.op = op /\ c.res = res
  BY <1>1 DEF Completion, Result
<1> HIDE DEF c
<1>3. /\ Indices(r) = Indices(s) \cup {n + 1} /\ Indices(s) = 1 .. n /\ n \in Nat /\ Len(r.ready) = n + 1
      /\ r.ready[n + 1] = c /\ \A i \in Indices(s) : r.ready[i] = s.ready[i]
  BY <1>2, QueuedEntries DEF Indices, c
<1> HIDE DEF n
<1>4. Settling(s) /\ ~s.timer
  BY DEF Chain, Settling, TimerRests
<1>5. Continues(c) => op \in ChainOps /\ NoneContinues(s) /\ r.live \cap ChainOps = {}
  BY <1>2, <1>4 DEF Continues, Settling, OneContinues
<1>6. OneContinues(r)
  <2>1. \A a, b \in r.live \cap ChainOps : a = b
    BY <1>4 DEF Settling, OneContinues
  <2>2. r.live \cap ChainOps # {} => NoneContinues(r)
    BY <1>3, <1>4, <1>5 DEF Settling, OneContinues, NoneContinues
  <2>3. \A i, j \in Indices(r) : Continues(r.ready[i]) /\ Continues(r.ready[j]) => i = j
    BY <1>3, <1>4, <1>5 DEF Settling, OneContinues, NoneContinues
  <2> QED
    BY <2>1, <2>2, <2>3 DEF OneContinues
<1>7. SocketGone(r)
  BY <1>2, <1>3, <1>4 DEF Settling, SocketGone
<1>8. ResetsSafely(r)
  <2>1. CASE "close" \in s.live \/ \E i \in Indices(s) : Resets(s.ready[i])
    <3>1. Resettable(s)
      BY <1>4, <2>1 DEF Settling, ResetsSafely
    <3>2. op # "resolve"
      BY <3>1 DEF Resettable
    <3> QED
      BY <1>2, <1>3, <3>1, <3>2 DEF Resettable, ResetsSafely
  <2>2. CASE ~("close" \in s.live \/ \E i \in Indices(s) : Resets(s.ready[i])) /\ Resets(c)
    <3>1. op \in ChainOps /\ ~Continues(c)
      BY <1>1, <2>2 DEF Resets
    <3>2. NoneContinues(r)
      BY <1>3, <1>4, <3>1 DEF Settling, OneContinues, NoneContinues
    <3>3. "resolve" \notin r.live
      BY <1>4, <3>1 DEF Settling, OneContinues, ChainOps
    <3> QED
      BY <3>2, <3>3 DEF ResetsSafely, Resettable, NoneContinues
  <2>3. CASE ~("close" \in s.live \/ \E i \in Indices(s) : Resets(s.ready[i])) /\ ~Resets(c)
    BY <1>3, <2>3 DEF ResetsSafely
  <2> QED
    BY <2>1, <2>2, <2>3
<1>9. TimersLast(r)
  <2> SUFFICES ASSUME NEW i \in Indices(r), r.ready[i].op = "timer"
               PROVE  r.state = "STARTING" /\ \A j \in 1 .. i : r.ready[j].op = "timer"
    BY DEF TimersLast
  <2>1. i \in Indices(s) /\ s.ready[i].op = "timer"
    BY <1>1, <1>2, <1>3
  <2>2. s.state = "STARTING" /\ \A j \in 1 .. i : s.ready[j].op = "timer"
    BY <1>4, <2>1 DEF Settling, TimersLast
  <2> QED
    BY <1>3, <2>1, <2>2
<1> QED
  BY <1>4, <1>6, <1>7, <1>8, <1>9 DEF Chain, Settling, TimerRests

\* A timer runs when nothing goes on, so its handler may be queued behind others.
LEMMA ChainTimerExpires ==
  ASSUME NEW s \in Source, Chain(s), s.timer,
         NEW r, r.live = s.live, r.ready = Append(s.ready, [op |-> "timer", res |-> "ok"]),
         r.timer = FALSE, r.state = s.state, r.is_open = s.is_open,
         r.clash = s.clash, r.restart_requested = s.restart_requested
  PROVE  Chain(r)
<1> DEFINE c == [op |-> "timer", res |-> "ok"]
           n == Len(s.ready)
<1>1. c \in Completion /\ c.op = "timer" /\ c.res = "ok" /\ ~Continues(c) /\ ~Resets(c)
  BY DEF Completion, Result, Continues, Resets, ChainOps
<1> HIDE DEF c
<1>2. /\ Indices(r) = Indices(s) \cup {n + 1} /\ Indices(s) = 1 .. n /\ n \in Nat /\ Len(r.ready) = n + 1
      /\ r.ready[n + 1] = c /\ \A i \in Indices(s) : r.ready[i] = s.ready[i]
  BY <1>1, QueuedEntries DEF Indices, c
<1>3. Len(s.ready) = n
  OBVIOUS
<1> HIDE DEF n
<1>4. Settling(s) /\ s.live = {} /\ NoneContinues(s)
  BY DEF Chain, Settling, TimerRests
<1>5. NoneContinues(r)
  BY <1>1, <1>2, <1>4 DEF NoneContinues
<1>6. OneContinues(r) /\ ResetsSafely(r)
  BY <1>4, <1>5 DEF OneContinues, ResetsSafely, Resettable, NoneContinues
<1>7. SocketGone(r)
  BY <1>1, <1>2, <1>4 DEF Settling, SocketGone
<1>8. TimersLast(r)
  <2> SUFFICES ASSUME NEW i \in Indices(r), r.ready[i].op = "timer"
               PROVE  \/ \A j \in i .. n + 1 : r.ready[j].op = "timer"
                      \/ r.state = "STARTING" /\ \A j \in 1 .. i : r.ready[j].op = "timer"
    BY <1>2, <1>4, <1>5 DEF TimersLast
  <2>1. CASE i = n + 1
    BY <1>1, <1>2, <2>1
  <2>2. CASE i \in Indices(s)
    <3>1. s.ready[i].op = "timer"
      BY <1>2, <2>2
    <3>2. \/ \A j \in i .. n : s.ready[j].op = "timer"
          \/ s.state = "STARTING" /\ \A j \in 1 .. i : s.ready[j].op = "timer"
      BY <1>3, <1>4, <2>2, <3>1 DEF Settling, TimersLast
    <3>3. CASE \A j \in i .. n : s.ready[j].op = "timer"
      <4>1. \A j \in i .. n + 1 : (j \in i .. n /\ j \in Indices(s)) \/ j = n + 1
        BY <1>2, <2>2
      <4> QED
        BY <1>1, <1>2, <3>3, <4>1
    <3>4. CASE s.state = "STARTING" /\ \A j \in 1 .. i : s.ready[j].op = "timer"
      <4>1. \A j \in 1 .. i : j \in Indices(s)
        BY <1>2, <2>2
      <4> QED
        BY <1>2, <3>4, <4>1
    <3> QED
      BY <3>2, <3>3, <3>4
  <2> QED
    BY <1>2, <2>1, <2>2
<1> QED
  BY <1>4, <1>6, <1>7, <1>8 DEF Chain, Settling, TimerRests

-----------------------------------------------------------------------------
(* One token until a close has gone through                                *)

\* A source with one token and a handler queued has nothing else.
LEMMA AloneOnly ==
  ASSUME NEW s \in Source, Alone(s), s.ready # <<>>
  PROVE  /\ Indices(s) = {1} /\ s.ready = <<s.ready[1]>> /\ s.ready[1] \in Completion
         /\ s.live = {} /\ ~s.timer
         /\ s.ready[1].op # "close" /\ s.ready[1].res \in {"ok", "error"}
<1>1. s.ready \in Seq(Completion) /\ Len(s.ready) = 1
  BY DEF Source, Alone
<1>2. s.ready[1] \in Completion
  BY <1>1, ElementOfSeq
<1> QED
  BY <1>1, <1>2 DEF Alone, Indices

\* One token is a chain that nothing meets.
LEMMA AloneSettles ==
  ASSUME NEW s \in Source, Alone(s), ~s.clash, ~s.restart_requested
  PROVE  Chain(s)
<1>1. CASE s.ready = <<>>
  <2>1. Indices(s) = {}
    BY <1>1 DEF Indices
  <2> QED
    BY <2>1 DEF Alone, Chain, Settling, OneContinues, TimerRests, SocketGone, ResetsSafely,
         TimersLast, NoneContinues, ChainOps
<1>2. CASE s.ready # <<>>
  <2>1. /\ Indices(s) = {1} /\ Len(s.ready) = 1 /\ s.live = {} /\ ~s.timer
        /\ s.ready[1].op # "close" /\ s.ready[1].res \in {"ok", "error"}
    BY <1>2, AloneOnly DEF Alone
  <2>2. OneContinues(s) /\ TimerRests(s) /\ SocketGone(s)
    BY <2>1 DEF OneContinues, TimerRests, SocketGone, NoneContinues
  <2>3. ResetsSafely(s)
    BY <2>1 DEF ResetsSafely, Resettable, Resets
  <2>4. TimersLast(s)
    BY <2>1 DEF TimersLast, NoneContinues, Continues, ChainOps
  <2> QED
    BY <2>2, <2>3, <2>4 DEF Chain, Settling
<1> QED
  BY <1>1, <1>2

\* Nothing is held.
LEMMA NothingAlone ==
  ASSUME NEW r, r.live = {}, r.ready = <<>>, ~r.is_open \/ ~r.timer
  PROVE  Alone(r)
BY DEF Alone, ChainOps

\* One operation is held.
LEMMA OperationAlone ==
  ASSUME NEW r, NEW op \in ChainOps, r.live = {op}, r.ready = <<>>, ~r.timer,
         r.is_open => op # "resolve"
  PROVE  Alone(r)
BY DEF Alone

\* The handler of the only token leaves at most one.
LEMMA AloneHandled ==
  ASSUME NEW s \in Source, Alone(s), NEW i \in Indices(s),
         NEW r \in Handle(s.ready[i], Taken(s, i))
  PROVE  Alone(r)
<1> DEFINE c == s.ready[i]
           q == Taken(s, i)
<1>1. s.ready # <<>>
  BY DEF Indices
<1>2. /\ i = 1 /\ s.ready = <<s.ready[1]>> /\ s.live = {} /\ ~s.timer
      /\ c.op # "close" /\ c.res \in {"ok", "error"}
  BY <1>1, AloneOnly
<1>3. q.ready = <<>>
  BY <1>2, TakenOnly DEF Indices
<1>4. /\ q \in Source /\ c \in Completion /\ q.live = {} /\ ~q.timer /\ q.is_open = s.is_open
  BY <1>2, TakenEffect DEF Indices
<1>5. \/ FailOutcome(r, c, q) \/ ChainOutcome(r, c, q)
      \/ CloseOutcome(r, c, q) \/ TimerOutcome(r, c, q)
  BY <1>4, HandleOutcome
<1>6. c.op \in {"timer", "resolve"} => ~q.is_open
  BY <1>1, <1>2, <1>4 DEF Alone
<1>7. Leftover(q) = <<>>
  BY <1>3, <1>4, LeftoverNothing
<1> HIDE DEF c, q
<1>8. CASE FailOutcome(r, c, q)
  <2>1. r.live = {} /\ r.ready = <<>> /\ r.is_open = FALSE
    BY <1>7, <1>8 DEF FailOutcome, AfterFailure
  <2> QED
    BY <2>1, NothingAlone
<1>9. CASE ChainOutcome(r, c, q)
  <2>1. ASSUME NEW op \in ChainOps \ {"resolve"}, AfterInitiate(r, op, q) PROVE Alone(r)
    <3>1. r.live = {op} /\ r.ready = <<>> /\ ~r.timer
      BY <1>3, <1>4, <2>1 DEF AfterInitiate
    <3> QED
      BY <3>1, OperationAlone
  <2>2. ASSUME AfterOpen(r, q) PROVE Alone(r)
    <3>1. r.live = {"read"} /\ r.ready = <<>> /\ ~r.timer /\ "read" \in ChainOps
      BY <1>3, <1>4, <2>2 DEF AfterOpen, ChainOps
    <3> QED
      BY <3>1, OperationAlone
  <2>3. NextOp(c.op) \in ChainOps \ {"resolve"} /\ "read" \in ChainOps \ {"resolve"}
    BY DEF NextOp, ChainOps
  <2>4. Alone(q)
    BY <1>3, <1>4, NothingAlone
  <2> QED
    BY <1>9, <2>1, <2>2, <2>3, <2>4 DEF ChainOutcome
<1>10. CASE TimerOutcome(r, c, q)
  <2>1. Alone(q)
    BY <1>3, <1>4, NothingAlone
  <2>2. Alone(Start(q))
    <3>1. CASE q.state \in {"STARTING", "RUNNING"}
      <4>1. Start(q) = [q EXCEPT !.timer = FALSE]
        BY <1>4, <3>1, StartEffect
      <4>2. Start(q).live = {} /\ Start(q).ready = <<>> /\ ~Start(q).timer
        BY <1>3, <1>4, <4>1 DEF Source
      <4> QED
        BY <4>2, NothingAlone
    <3>2. CASE q.state \notin {"STARTING", "RUNNING"}
      <4>1. AfterStart(Start(q), q)
        BY <1>4, <3>2, StartEffect
      <4>2. /\ Start(q).live = {"resolve"} /\ Start(q).ready = <<>> /\ ~Start(q).timer
            /\ ~Start(q).is_open /\ "resolve" \in ChainOps
        BY <1>7, <4>1 DEF AfterStart, ChainOps
      <4> QED
        BY <4>2, OperationAlone
    <3> QED
      BY <3>1, <3>2
  <2> QED
    BY <1>10, <2>1, <2>2 DEF TimerOutcome, OnTimer
<1> QED
  BY <1>2, <1>5, <1>8, <1>9, <1>10 DEF CloseOutcome

\* The only operation completes.
LEMMA AloneCompletes ==
  ASSUME NEW s \in Source, Alone(s), NEW op \in s.live, NEW res \in {"ok", "error"},
         NEW r, r.live = s.live \ {op}, r.ready = Append(s.ready, [op |-> op, res |-> res]),
         r.timer = s.timer, r.is_open = s.is_open
  PROVE  Alone(r)
<1>1. s.ready = <<>> /\ ~s.timer /\ op \in ChainOps /\ r.live = {}
  BY DEF Alone
<1>2. r.ready = <<[op |-> op, res |-> res]>>
  BY <1>1
<1>3. Len(r.ready) = 1 /\ r.ready[1].op = op /\ r.ready[1].res = res /\ op \notin {"close", "timer"}
  BY <1>1, <1>2 DEF ChainOps
<1>4. s.is_open => op # "resolve"
  BY DEF Alone
<1> QED
  BY <1>1, <1>3, <1>4 DEF Alone

\* The only token is the timer, and it expires.
LEMMA AloneTimerExpires ==
  ASSUME NEW s \in Source, Alone(s), s.timer,
         NEW r, r.live = s.live, r.ready = Append(s.ready, [op |-> "timer", res |-> "ok"]),
         r.timer = FALSE, r.is_open = s.is_open
  PROVE  Alone(r)
<1>1. s.ready = <<>> /\ s.live = {} /\ ~s.is_open
  BY DEF Alone
<1>2. r.ready = <<[op |-> "timer", res |-> "ok"]>>
  BY <1>1
<1>3. Len(r.ready) = 1 /\ r.ready[1].op = "timer" /\ r.ready[1].res = "ok"
  BY <1>2
<1> QED
  BY <1>1, <1>3 DEF Alone

\* The rest of stop() on a source with one token at most.
LEMMA AloneCloses ==
  ASSUME NEW s \in Source, Alone(s), ~s.clash, ~s.restart_requested
  PROVE  Chain(DoClose(s))
<1>1. Chain(s) /\ Settling(s)
  BY AloneSettles DEF Chain
<1>2. CASE s.is_open
  <2> DEFINE r == [s EXCEPT !.live = s.live \cup {"close"}]
  <2>1. /\ r.live = s.live \cup {"close"} /\ r.ready = s.ready /\ r.timer = s.timer
        /\ r.state = s.state /\ r.is_open = s.is_open
        /\ r.clash = s.clash /\ r.restart_requested = s.restart_requested
    BY DEF Source
  <2>2. DoClose(s) = r
    BY <1>2 DEF DoClose
  <2> HIDE DEF r
  <2>3. Indices(r) = Indices(s) /\ r.live \cap ChainOps = s.live \cap ChainOps /\ ~r.timer
    BY <1>2, <2>1 DEF Indices, ChainOps, Alone
  <2>4. NoneContinues(s) <=> NoneContinues(r)
    BY <2>1, <2>3 DEF NoneContinues
  <2>5. \A i \in Indices(s) : s.ready[i].op \notin {"timer", "resolve"}
    <3>1. ASSUME NEW i \in Indices(s) PROVE s.ready[i].op \notin {"timer", "resolve"}
      <4>1. s.ready # <<>>
        BY DEF Indices
      <4> QED
        BY <1>2, <4>1, AloneOnly DEF Alone
    <3> QED
      BY <3>1
  <2>6. Resettable(r)
    BY <1>2, <2>1, <2>3, <2>5 DEF Resettable, Alone
  <2>7. OneContinues(r) /\ SocketGone(r)
    BY <1>1, <2>1, <2>3, <2>4 DEF Settling, OneContinues, SocketGone
  <2>8. TimerRests(r) /\ ResetsSafely(r) /\ TimersLast(r)
    BY <2>1, <2>3, <2>5, <2>6 DEF TimerRests, ResetsSafely, TimersLast
  <2> QED
    BY <1>1, <2>1, <2>2, <2>7, <2>8 DEF Chain, Settling
<1>3. CASE ~s.is_open
  <2> DEFINE r == Reset(FALSE, s)
  <2>1. DoClose(s) = r /\ AfterStop(r, s)
    BY <1>3, OnCloseReset DEF DoClose
  <2> HIDE DEF r
  <2>2. /\ r \in Source /\ r.live = {} /\ r.ready = Leftover(s) /\ r.is_open = FALSE
        /\ r.timer = s.timer /\ ~r.clash /\ ~r.restart_requested
    BY <2>1 DEF AfterStop, Kept
  <2>3. CASE Resettable(s)
    <3>1. \A i \in Indices(s) : s.ready[i].res = "undefined" => s.ready[i].op = "connect"
      BY <1>1 DEF Settling, SocketGone
    <3>2. \A i \in Indices(s) : s.ready[i].op = "timer" =>
             s.live = {} /\ \A j \in i .. Len(s.ready) : s.ready[j].op = "timer"
      <4>1. ASSUME NEW i \in Indices(s) PROVE s.live = {} /\ i = 1 /\ Len(s.ready) = 1
        <5>1. s.ready # <<>>
          BY DEF Indices
        <5> QED
          BY <5>1, AloneOnly DEF Alone
      <4> QED
        BY <4>1
    <3>3. Settling(r)
      BY <2>2, <2>3, <3>1, <3>2, SettledReset
    <3> QED
      BY <2>1, <2>2, <3>3 DEF Chain
  <2>4. CASE ~Resettable(s) /\ "resolve" \in s.live
    <3>1. s.live = {"resolve"} /\ s.ready = <<>> /\ ~s.timer
      BY <2>4 DEF Alone
    <3>2. Indices(s) = {} /\ Len(s.ready) = 0
      BY <3>1 DEF Indices
    <3>3. \A i \in Indices(r) : r.ready[i] \in Cancelled
      BY <2>2, <3>2, LeftoverEntries DEF Indices
    <3>4. \A c \in Cancelled : ~Continues(c) /\ c.op # "timer" /\ c.res # "undefined"
      BY DEF Cancelled, Continues, ChainOps
    <3>5. NoneContinues(r)
      BY <3>3, <3>4 DEF NoneContinues
    <3> QED
      BY <2>1, <2>2, <3>3, <3>4, <3>5 DEF Chain, Settling, OneContinues, TimerRests, SocketGone,
           ResetsSafely, Resettable, TimersLast, NoneContinues
  <2>5. CASE ~Resettable(s) /\ "resolve" \notin s.live
    <3>1. PICK i \in Indices(s) : Continues(s.ready[i]) /\ s.ready[i].op = "resolve"
      BY <2>5 DEF Resettable
    <3>2. s.ready # <<>>
      BY <3>1 DEF Indices
    <3>3. Indices(s) = {1} /\ i = 1 /\ s.live = {} /\ ~s.timer /\ Len(s.ready) = 1
      BY <3>1, <3>2, AloneOnly DEF Alone
    <3>4. Len(r.ready) = 1 /\ r.ready[1] = Abandon(s.ready[1])
      BY <2>2, <3>3, LeftoverEntries
    <3>5. r.ready[1] = s.ready[1] /\ Indices(r) = {1}
      BY <3>1, <3>3, <3>4 DEF Abandon, Indices
    <3>6. r.ready[1].op = "resolve" /\ r.ready[1].res = "ok" /\ Continues(r.ready[1])
      BY <3>1, <3>3, <3>5 DEF Continues
    <3> QED
      BY <2>1, <2>2, <3>3, <3>5, <3>6 DEF Chain, Settling, OneContinues, TimerRests, SocketGone,
           ResetsSafely, Resets, TimersLast, NoneContinues
  <2> QED
    BY <2>3, <2>4, <2>5
<1> QED
  BY <1>2, <1>3

-----------------------------------------------------------------------------
(* The invariant                                                           *)

\* stop() up to its close: the timer is cancelled, and what is in flight or queued
\* stays.
LEMMA BeginStopKeeps ==
  ASSUME NEW s \in Source
  PROVE  /\ BeginStop(s) \in Source
         /\ BeginStop(s).live = s.live /\ BeginStop(s).ready = s.ready
         /\ BeginStop(s).is_open = s.is_open /\ BeginStop(s).timer = FALSE
         /\ BeginStop(s).restart_requested = FALSE
         /\ BeginStop(s).clash = s.clash /\ BeginStop(s).stray = s.stray
<1> DEFINE quiet == [s EXCEPT !.restart_requested = FALSE, !.timer = FALSE]
           q == [quiet EXCEPT !.released = TRUE]
<1>1. /\ quiet \in Source /\ quiet.live = s.live /\ quiet.ready = s.ready
      /\ quiet.is_open = s.is_open /\ quiet.timer = FALSE /\ quiet.restart_requested = FALSE
      /\ quiet.clash = s.clash /\ quiet.stray = s.stray
  BY DEF Source
<1>2. /\ q \in Source /\ q.live = s.live /\ q.ready = s.ready
      /\ q.is_open = s.is_open /\ q.timer = FALSE /\ q.restart_requested = FALSE
      /\ q.clash = s.clash /\ q.stray = s.stray
  BY DEF Source
<1>3. BeginStop(s) = IF s.state \in {"STOPPED", "STOPPING"} THEN quiet ELSE PublishState("STOPPING", q)
  BY DEF BeginStop
<1> HIDE DEF quiet, q
<1>4. "STOPPING" \in State
  BY DEF State
<1>5. CASE s.state \in {"STOPPED", "STOPPING"}
  BY <1>1, <1>3, <1>5
<1>6. CASE s.state \notin {"STOPPED", "STOPPING"}
  <2> DEFINE r == PublishState("STOPPING", q)
  <2>1. /\ r \in Source /\ r.live = q.live /\ r.ready = q.ready /\ r.is_open = q.is_open
        /\ r.timer = q.timer /\ r.restart_requested = q.restart_requested /\ Kept(r, q)
    BY <1>2, <1>4, PublishEffect
  <2>2. BeginStop(s) = r
    BY <1>3, <1>6
  <2> HIDE DEF r
  <2> QED
    BY <1>2, <2>1, <2>2 DEF Kept
<1> QED
  BY <1>5, <1>6

\* A stray operation is remembered by every handler.
LEMMA StrayHandled ==
  ASSUME NEW s \in Source, Good(s), s.stray, NEW i \in Indices(s),
         NEW r \in Handle(s.ready[i], Taken(s, i))
  PROVE  r.stray
<1> DEFINE c == s.ready[i]
           q == Taken(s, i)
<1>1. q \in Source /\ Kept(q, s) /\ c \in Completion
  BY TakenEffect DEF Indices
<1>2. \/ FailOutcome(r, c, q) \/ ChainOutcome(r, c, q)
      \/ CloseOutcome(r, c, q) \/ TimerOutcome(r, c, q)
  BY <1>1, HandleOutcome
<1>3. q.stray
  BY <1>1 DEF Kept
<1> HIDE DEF c, q
<1>4. CASE FailOutcome(r, c, q)
  BY <1>3, <1>4 DEF FailOutcome, AfterFailure, Kept
<1>5. CASE ChainOutcome(r, c, q)
  BY <1>3, <1>5 DEF ChainOutcome, AfterInitiate, AfterOpen
<1>6. CASE CloseOutcome(r, c, q)
  BY <1>1, <1>3, <1>6, GoodOnClose DEF CloseOutcome, Kept
<1>7. CASE TimerOutcome(r, c, q)
  <2>1. Start(q).stray
    <3>1. CASE q.state \in {"STARTING", "RUNNING"}
      <4>1. Start(q) = [q EXCEPT !.timer = FALSE]
        BY <1>1, <3>1, StartEffect
      <4> QED
        BY <1>1, <1>3, <4>1 DEF Source
    <3>2. CASE q.state \notin {"STARTING", "RUNNING"}
      BY <1>1, <1>3, <3>2, StartEffect DEF AfterStart, Kept
    <3> QED
      BY <3>1, <3>2
  <2> QED
    BY <1>3, <1>7, <2>1 DEF TimerOutcome, OnTimer
<1> QED
  BY <1>2, <1>4, <1>5, <1>6, <1>7

\* What excuses a second chain stays.
LEMMA ExcusedStays ==
  ASSUME WsType, Good(src), Excused, [Next]_vars
  PROVE  Excused'
<1>1. src \in Source /\ reopens \in Nat /\ at \in [worker : Place, stopper : Place]
  BY DEF WsType
<1>2. ASSUME NEW t \in Threads, Closed(t) PROVE Closed(t)'
  <2>1. at[t] \in {"closing", "done"}
    BY <1>2 DEF Closed
  <2>2. ASSUME NEW u \in Threads, Close(u) \/ FinishClose(u) PROVE at'[t] \in {"closing", "done"}
    BY <1>1, <2>1, <2>2 DEF Close, FinishClose, Threads
  <2>3. at' = at \/ Open \/ WaitUntilReady \/ \E u \in Threads : Close(u) \/ FinishClose(u)
    BY DEF Next, RunHandler, Network, CompleteOk, CompleteError, TimerExpires, Reopen, StopIo, Threads, vars
  <2>4. ASSUME Open \/ WaitUntilReady PROVE at'[t] \in {"closing", "done"}
    BY <1>1, <2>1, <2>4 DEF Open, WaitUntilReady, Threads
  <2> QED
    BY <2>1, <2>2, <2>3, <2>4 DEF Closed
<1>3. reopens > 0 => reopens' > 0
  BY <1>1 DEF Next, RunHandler, Network, CompleteOk, CompleteError, TimerExpires, Reopen, StopIo, vars,
       Open, WaitUntilReady, Close, FinishClose
<1>4. ASSUME src.stray PROVE src'.stray \/ reopens' > 0
  <2>1. CASE RunHandler
    <3>1. PICK i \in Indices(src) : src' \in Handle(src.ready[i], Taken(src, i))
      BY <2>1 DEF RunHandler, Taken, Indices
    <3> QED
      BY <1>1, <1>4, <3>1, StrayHandled
  <2>2. ASSUME NEW op, CompleteOk(op) \/ CompleteError(op) PROVE src'.stray
    BY <1>1, <1>4, <2>2 DEF CompleteOk, CompleteError, Queue, Source
  <2>3. CASE TimerExpires
    BY <1>1, <1>4, <2>3 DEF TimerExpires, Source
  <2>4. CASE Open
    BY <1>1, <1>4, <2>4, GoodStart DEF Open, Kept, Good, Mirrors
  <2>5. ASSUME NEW t \in Threads, Close(t) \/ FinishClose(t) PROVE src'.stray
    <3>1. BeginStop(src).stray /\ DoClose(src).stray
      BY <1>1, <1>4, BeginStopKeeps, GoodDoClose DEF Kept
    <3> QED
      BY <1>4, <2>5, <3>1 DEF Close, FinishClose
  <2>6. CASE Reopen
    BY <1>1, <2>6 DEF Reopen
  <2>7. CASE WaitUntilReady \/ StopIo \/ UNCHANGED vars
    BY <1>4, <2>7 DEF WaitUntilReady, StopIo, vars
  <2> QED
    BY <2>1, <2>2, <2>3, <2>4, <2>5, <2>6, <2>7 DEF Next, Network, Threads
<1> QED
  BY <1>2, <1>3, <1>4 DEF Excused, Threads

\* A source that was not started carries nothing.
LEMMA ChainInit == Init => ChainInv
<1> SUFFICES ASSUME Init PROVE ChainInv
  OBVIOUS
<1>1. src \in Source
  BY GoodInit DEF WsType
<1>2. /\ Holds(src, {}, <<>>, FALSE) /\ ~src.is_open /\ ~src.clash /\ ~src.restart_requested
  BY DEF Init, Holds
<1>3. Alone(src)
  BY <1>2, NothingAlone DEF Holds
<1> QED
  BY <1>1, <1>2, <1>3, AloneSettles DEF ChainInv

\* Open() and close() on a source that holds nothing.
LEMMA NothingStarts ==
  ASSUME NEW s \in Source, Holds(s, {}, <<>>, FALSE), ~s.is_open, ~s.clash, ~s.restart_requested
  PROVE  /\ Alone(Start(s)) /\ Start(s) \in Source /\ ~Start(s).clash /\ ~Start(s).restart_requested
         /\ Holds(DoClose(s), {}, <<>>, FALSE) /\ ~DoClose(s).is_open
<1>1. Leftover(s) = <<>>
  BY LeftoverNothing DEF Holds
<1>2. /\ Alone(Start(s)) /\ Start(s) \in Source /\ ~Start(s).clash /\ ~Start(s).restart_requested
  <2>1. CASE s.state \in {"STARTING", "RUNNING"}
    <3>1. Start(s) = [s EXCEPT !.timer = FALSE]
      BY <2>1, StartEffect
    <3>2. /\ Start(s) \in Source /\ Start(s).live = {} /\ Start(s).ready = <<>> /\ ~Start(s).timer
          /\ ~Start(s).clash /\ ~Start(s).restart_requested
      BY <3>1 DEF Source, Holds
    <3> QED
      BY <3>2, NothingAlone
  <2>2. CASE s.state \notin {"STARTING", "RUNNING"}
    <3>1. AfterStart(Start(s), s)
      BY <2>2, StartEffect
    <3>2. /\ Start(s) \in Source /\ Start(s).live = {"resolve"} /\ Start(s).ready = <<>> /\ ~Start(s).timer
          /\ ~Start(s).is_open /\ ~Start(s).clash /\ ~Start(s).restart_requested
          /\ "resolve" \in ChainOps
      BY <1>1, <3>1 DEF AfterStart, Kept, ChainOps
    <3> QED
      BY <3>2, OperationAlone
  <2> QED
    BY <2>1, <2>2
<1>3. Holds(DoClose(s), {}, <<>>, FALSE) /\ ~DoClose(s).is_open
  <2>1. DoClose(s) = Reset(FALSE, s) /\ AfterStop(Reset(FALSE, s), s)
    BY OnCloseReset DEF DoClose
  <2> QED
    BY <1>1, <2>1 DEF AfterStop, Holds
<1> QED
  BY <1>2, <1>3

\* No step adds a chain, as long as one of the threads has not closed.
LEMMA ChainStep ==
  ASSUME WsType, Good(src), ChainInv, [Next]_vars
  PROVE  ChainInv'
<1> DEFINE none == \A t \in Threads : at[t] # "done"
           after == \/ src'.stray
                    \/ /\ Chain(src')
                       /\ (\A t \in Threads : at'[t] # "done") => Alone(src')
                       /\ at'.worker = "init" => Holds(src', {}, <<>>, FALSE) /\ ~src'.is_open
<1>1. src \in Source /\ reopens \in Nat /\ at \in [worker : Place, stopper : Place]
  BY DEF WsType
<1>2. CASE Excused
  BY <1>2, ExcusedStays DEF ChainInv
<1>3. CASE ~Excused
  <2>1. /\ Chain(src) /\ (none => Alone(src))
        /\ at.worker = "init" => Holds(src, {}, <<>>, FALSE) /\ ~src.is_open
        /\ ~src.clash /\ ~src.restart_requested
    BY <1>3 DEF ChainInv, Chain
  <2>2. ~Closed("worker") \/ ~Closed("stopper")
    BY <1>3 DEF Excused
  <2>3. SUFFICES after \/ Excused'
    BY DEF ChainInv, Excused
  <2>4. CASE RunHandler
    <3>1. PICK i \in Indices(src) : May(src, i) /\ src' \in Handle(src.ready[i], Taken(src, i))
      BY <2>4 DEF RunHandler, Taken, Indices, May
    <3>2. at' = at
      BY <2>4 DEF RunHandler
    <3>3. src'.stray \/ Chain(src')
      BY <1>1, <2>1, <3>1, ChainHandled
    <3>4. Alone(src) => Alone(src')
      BY <1>1, <3>1, AloneHandled
    <3>5. src.ready # <<>>
      BY <3>1 DEF Indices
    <3> QED
      BY <2>1, <3>2, <3>3, <3>4, <3>5 DEF Holds
  <2>5. ASSUME NEW op \in ChainOps \cup {"close"}, CompleteOk(op) \/ CompleteError(op)
        PROVE  after
    <3>1. PICK res \in {"ok", "error"} : Queue(op, res)
      BY <2>5 DEF CompleteOk, CompleteError
    <3>2. at' = at /\ op \in src.live
      BY <2>5 DEF CompleteOk, CompleteError
    <3>3. /\ src'.live = src.live \ {op} /\ src'.ready = Append(src.ready, [op |-> op, res |-> res])
          /\ src'.timer = src.timer /\ src'.state = src.state /\ src'.is_open = src.is_open
          /\ src'.clash = src.clash /\ src'.restart_requested = src.restart_requested
      BY <1>1, <3>1 DEF Queue, Source
    <3>4. Chain(src')
      BY <1>1, <2>1, <3>2, <3>3, ChainCompletes
    <3>5. Alone(src) => Alone(src')
      BY <1>1, <3>2, <3>3, AloneCompletes
    <3> QED
      BY <2>1, <3>2, <3>4, <3>5 DEF Holds
  <2>6. CASE TimerExpires
    <3>1. at' = at /\ src.timer
      BY <2>6 DEF TimerExpires
    <3>2. /\ src'.live = src.live /\ src'.ready = Append(src.ready, [op |-> "timer", res |-> "ok"])
          /\ src'.timer = FALSE /\ src'.state = src.state /\ src'.is_open = src.is_open
          /\ src'.clash = src.clash /\ src'.restart_requested = src.restart_requested
      BY <1>1, <2>6 DEF TimerExpires, Source
    <3>3. Chain(src')
      BY <1>1, <2>1, <3>1, <3>2, ChainTimerExpires
    <3>4. Alone(src) => Alone(src')
      BY <1>1, <3>1, <3>2, AloneTimerExpires
    <3> QED
      BY <2>1, <3>1, <3>3, <3>4 DEF Holds
  <2>7. CASE Open
    <3>1. at.worker = "init" /\ at'.worker = "waiting" /\ (src' = src \/ src' = Start(src))
      BY <1>1, <2>7 DEF Open
    <3>2. Alone(src)
      BY <2>1, <3>1, NothingAlone DEF Holds
    <3>3. Alone(src') /\ src' \in Source /\ ~src'.clash /\ ~src'.restart_requested
      BY <1>1, <2>1, <3>1, <3>2, NothingStarts
    <3> QED
      BY <3>1, <3>3, AloneSettles
  <2>8. CASE WaitUntilReady
    <3>1. /\ src' = src /\ at.worker = "waiting" /\ at'.stopper = at.stopper
          /\ at'.worker \in {"loop", "close"}
      BY <1>1, <2>8 DEF WaitUntilReady
    <3> QED
      BY <2>1, <3>1 DEF Threads
  <2>9. ASSUME NEW t \in Threads, Close(t) PROVE after \/ Excused'
    <3>1. /\ at[t] \in {"close", "away"} /\ at'[t] \in {"closing", "done"}
          /\ \A u \in Threads \ {t} : at'[u] = at[u]
          /\ src' = src \/ src' = BeginStop(src)
      BY <1>1, <2>9 DEF Close, Threads
    <3>2. CASE \A u \in Threads \ {t} : Closed(u)
      <4>1. \A u \in Threads : at'[u] \in {"closing", "done"}
        BY <3>1, <3>2 DEF Closed
      <4> QED
        BY <4>1 DEF Excused, Closed, Threads
    <3>3. CASE ~\A u \in Threads \ {t} : Closed(u)
      <4>1. none
        BY <3>1, <3>3 DEF Threads, Closed
      <4>2. Alone(src)
        BY <2>1, <4>1
      <4>3. /\ BeginStop(src) \in Source
            /\ BeginStop(src).live = src.live /\ BeginStop(src).ready = src.ready
            /\ BeginStop(src).is_open = src.is_open /\ BeginStop(src).timer = FALSE
            /\ BeginStop(src).restart_requested = FALSE /\ BeginStop(src).clash = src.clash
        BY <1>1, BeginStopKeeps
      <4>4. Alone(BeginStop(src))
        BY <4>2, <4>3 DEF Alone
      <4>5. Alone(src') /\ src' \in Source /\ ~src'.clash /\ ~src'.restart_requested
        BY <1>1, <2>1, <3>1, <4>2, <4>3, <4>4
      <4>6. Chain(src')
        BY <4>5, AloneSettles
      <4>7. at'.worker = "init" => Holds(src', {}, <<>>, FALSE) /\ ~src'.is_open
        <5>1. at'.worker = "init" => at.worker = "init"
          BY <3>1 DEF Threads
        <5> QED
          BY <2>1, <3>1, <4>3, <5>1 DEF Holds
      <4> QED
        BY <4>5, <4>6, <4>7
    <3> QED
      BY <3>2, <3>3
  <2>10. ASSUME NEW t \in Threads, FinishClose(t) PROVE after
    <3>1. /\ at[t] = "closing" /\ at'[t] = "done" /\ src' = DoClose(src)
          /\ \A u \in Threads \ {t} : at'[u] = at[u]
      BY <1>1, <2>10 DEF FinishClose, Threads
    <3>2. none
      BY <2>2, <3>1 DEF Threads, Closed
    <3>3. Alone(src)
      BY <2>1, <3>2
    <3>4. Chain(src')
      BY <1>1, <2>1, <3>1, <3>3, AloneCloses
    <3>5. at'.worker = "init" => Holds(src', {}, <<>>, FALSE) /\ ~src'.is_open
      <4>1. at'.worker = "init" => at.worker = "init"
        BY <3>1 DEF Threads
      <4> QED
        BY <1>1, <2>1, <3>1, <4>1, NothingStarts
    <3> QED
      BY <3>1, <3>4, <3>5
  <2>11. CASE Reopen
    <3>1. reopens' = reopens + 1 /\ reopens \in Nat
      BY <1>1, <2>11 DEF Reopen, WsType
    <3>2. Excused'
      BY <3>1 DEF Excused
    <3> HIDE DEF after
    <3> QED
      BY <3>2
  <2>12. CASE StopIo \/ UNCHANGED vars
    <3>1. src' = src /\ at' = at
      BY <2>12 DEF StopIo, vars
    <3> QED
      BY <2>1, <3>1
  <2> HIDE DEF after
  <2> QED
    BY <2>4, <2>5, <2>6, <2>7, <2>8, <2>9, <2>10, <2>11, <2>12 DEF Next, Network, Threads
<1> QED
  BY <1>2, <1>3

\* The invariant of the handlers' order holds in every reachable state.
LEMMA AlwaysChain == Spec => []ChainInv
<1>1. ChainInv /\ WsType /\ Good(src) /\ [Next]_vars => ChainInv'
  BY ChainStep
<1> QED
  BY <1>1, ChainInit, AlwaysGood, PTL DEF Spec

\* However late handlers arrive, two chains of operations on one stream take a
\* close by both threads, reopen(), or a connect that reports success for a socket
\* already destroyed; for any number of attempts and faults.
THEOREM ChainsNeverMeet == Spec => []OneChain
<1>1. ChainInv => OneChain
  BY DEF ChainInv, Chain, Excused, OneChain
<1> QED
  BY <1>1, AlwaysChain, PTL
=============================================================================
