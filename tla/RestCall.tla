------------------------------- MODULE RestCall -------------------------------
(***************************************************************************)
(* One call of builder::RestClient: up to kMaxAttempts attempts, each of   *)
(* them a blocking network::RestClient request on a connection of its own  *)
(* (resolve, connect, TLS handshake, write, read). An attempt given up by  *)
(* the client lives on: its request may reach the builder and be served    *)
(* after later attempts, or after the call has returned.                   *)
(***************************************************************************)
EXTENDS Integers

CONSTANTS
    UseTls,         \* m_use_tls
    MaxAttempts     \* kMaxAttempts (3 in the code)

ASSUME RestConstants == UseTls \in BOOLEAN /\ MaxAttempts \in Nat \ {0}

VARIABLES
    op,             \* the request: a GET (or a chain call, a POST that is never answered
                    \* 409), POST of a bundle to simulate, or to submit
    phase,          \* where the calling thread is
    attempt,        \* number of the attempt
    conn,           \* the request of each attempt, as the network and the
                    \* builder know it
    record,         \* the candidate's record in the builder's mempool
    mined,          \* the bundle is on the chain
    result          \* what the call returned

vars == <<op, phase, attempt, conn, record, mined, result>>

Submission == INSTANCE BundleSubmission

Attempt == 1 .. MaxAttempts
Phase == {"resolve", "connect", "handshake", "write", "read", "ok", "conflict",
          "failed", "done"}

\* The status of an answer: 200, 409, any other.
Status == {"ok", "conflict", "bad"}

Init ==
    /\ op \in Submission!Op
    /\ phase = "resolve"
    /\ attempt = 1
    /\ conn = [i \in Attempt |-> "none"]
    /\ record = "pending"
    /\ mined = FALSE
    /\ result = "none"

-----------------------------------------------------------------------------
(* network::RestClient: get and post, plain and TLS                        *)

\* A step of the connection succeeds, or the attempt ends with its error.
Step(from, next) ==
    /\ phase = from
    /\ phase' \in {next, "failed"}
    /\ UNCHANGED <<op, attempt, conn, record, mined, result>>

\* With TLS the host name is set up first, and may fail.
Resolve == Step("resolve", "connect")

Connect == Step("connect", IF UseTls THEN "handshake" ELSE "write")

Handshake == Step("handshake", "write")

\* http::write. When it fails the request may have gone out all the same.
Write ==
    /\ phase = "write"
    /\ \/ phase' = "read" /\ conn' = [conn EXCEPT ![attempt] = "sent"]
       \/ phase' = "failed" /\ conn' \in {conn, [conn EXCEPT ![attempt] = "sent"]}
    /\ UNCHANGED <<op, attempt, record, mined, result>>

\* http::read returns an answer; only a POST tells 409 from other errors. A
\* failing shutdown is logged.
Read ==
    /\ phase = "read"
    /\ conn[attempt] \in Status
    /\ phase' = IF conn[attempt] = "ok" \/ (conn[attempt] = "conflict" /\ op # "get")
                THEN conn[attempt] ELSE "failed"
    /\ UNCHANGED <<op, attempt, conn, record, mined, result>>

\* http::read fails: the connection broke before or after the builder served it.
ReadError ==
    /\ phase = "read"
    /\ phase' = "failed"
    /\ UNCHANGED <<op, attempt, conn, record, mined, result>>

-----------------------------------------------------------------------------
(* builder::RestClient: get_with_retry and post_with_retry                 *)

Finish(r) ==
    /\ phase' = "done"
    /\ result' = r
    /\ UNCHANGED <<op, attempt, conn, record, mined>>

ReturnBody == phase = "ok" /\ Finish("ok")

ReturnConflictAsError == phase = "conflict" /\ Finish("ok")

\* post_with_retry does not retry a conflict.
ReturnConflict == phase = "conflict" /\ Finish("CANDIDATE_NOT_PENDING")

RetryUncounted ==
    /\ phase = "failed"
    /\ phase' = "resolve"
    /\ UNCHANGED <<op, attempt, conn, record, mined, result>>

RetryOneMore ==
    /\ phase = "failed"
    /\ attempt <= MaxAttempts
    /\ attempt' = attempt + 1
    /\ phase' = "resolve"
    /\ UNCHANGED <<op, conn, record, mined, result>>

\* After the backoff, another attempt.
Retry ==
    /\ phase = "failed"
    /\ attempt < MaxAttempts
    /\ attempt' = attempt + 1
    /\ phase' = "resolve"
    /\ UNCHANGED <<op, conn, record, mined, result>>

GiveUp == phase = "failed" /\ attempt = MaxAttempts /\ Finish("REQUEST_ERROR")

-----------------------------------------------------------------------------
(* The builder                                                             *)

Answer(i, status) ==
    /\ conn' = [conn EXCEPT ![i] = status]
    /\ UNCHANGED <<op, phase, attempt, result>>

ServeUnmarked(i) ==
    /\ conn[i] = "sent"
    /\ \/ Answer(i, "bad") /\ UNCHANGED <<record, mined>>
       \/ op # "get" /\ record = "final" /\ Answer(i, "conflict") /\ UNCHANGED <<record, mined>>
       \/ op # "submit" /\ Answer(i, "ok") /\ UNCHANGED <<record, mined>>
       \/ /\ op = "submit" /\ record = "pending" /\ ~mined
          /\ mined' = TRUE
          /\ UNCHANGED record
          /\ Answer(i, "ok")

\* One request is served, in whatever order they arrive. 409 for a candidate
\* that is not pending; an error for one that is unknown, for a bundle that does
\* not fit the head, and for a backrun whose nonce is used. mineBundle may fail
\* after evm_mine, before it marks the record.
Serve(i) ==
    /\ conn[i] = "sent"
    /\ \/ Answer(i, "bad") /\ UNCHANGED <<record, mined>>
       \/ op = "get" /\ Answer(i, "ok") /\ UNCHANGED <<record, mined>>
       \/ op # "get" /\ record = "final" /\ Answer(i, "conflict") /\ UNCHANGED <<record, mined>>
       \/ op = "simulate" /\ record = "pending" /\ Answer(i, "ok") /\ UNCHANGED <<record, mined>>
       \/ /\ op = "submit" /\ record = "pending" /\ ~mined
          /\ mined' = TRUE
          /\ \/ record' = "final" /\ Answer(i, "ok")
             \/ UNCHANGED record /\ Answer(i, "bad")

\* The builder restarts with an empty mempool; requests that wait are gone.
RestartBuilder ==
    /\ record' = "absent"
    /\ conn' = [i \in Attempt |-> IF conn[i] = "sent" THEN "lost" ELSE conn[i]]
    /\ UNCHANGED <<op, phase, attempt, mined, result>>

\* Another client's bundle takes the candidate.
OtherBundle ==
    /\ record = "pending"
    /\ record' = "final"
    /\ UNCHANGED <<op, phase, attempt, conn, mined, result>>

Client ==
    \/ Resolve \/ Connect \/ Handshake \/ Write \/ Read
    \/ ReturnBody \/ ReturnConflict \/ Retry \/ GiveUp

Next ==
    \/ Client \/ ReadError
    \/ \E i \in Attempt : Serve(i)
    \/ RestartBuilder \/ OtherBundle

Spec == Init /\ [][Next]_vars

\* The calling thread runs, a connection of a builder that is gone breaks, and
\* the builder's loop gets round to every request. The client sets no timeout,
\* so without the last the call would wait for ever.
FairSpec ==
    /\ Spec
    /\ WF_vars(Client)
    /\ WF_vars(conn[attempt] = "lost" /\ ReadError)
    /\ \A i \in Attempt : WF_vars(Serve(i))

-----------------------------------------------------------------------------
(* Properties                                                              *)

\* Every variable keeps its type: attempts stop at the limit of the loops in
\* get_with_retry and post_with_retry.
TypeOK ==
    /\ op \in Submission!Op
    /\ phase \in Phase
    /\ attempt \in Attempt
    /\ conn \in [Attempt -> Status \cup {"none", "sent", "lost"}]
    /\ record \in {"pending", "final", "absent"}
    /\ mined \in BOOLEAN
    /\ result \in Submission!Result

\* A 200 for a submission, even one the client never saw, means that the bundle
\* is on the chain and its candidate out of play, and a 409 that the candidate is
\* out of play. So no attempt left behind, served after the call has returned,
\* contradicts what it returned.
AnswersAreFinal ==
    /\ \A i \in Attempt : conn[i] = "conflict" => record # "pending"
    /\ \A i \in Attempt : conn[i] = "ok" /\ op = "submit" => mined /\ record # "pending"
    /\ result \in {"ok", "CANDIDATE_NOT_PENDING"} /\ op = "submit" => record # "pending"
    /\ result = "ok" /\ op = "submit" => mined

\* The attempts together behave as one submission that takes effect at most
\* once, and whose success and CANDIDATE_NOT_PENDING are final.
ImplementsSubmission == Submission!SubmissionSpec

\* A call returns, whatever fails, if the builder serves its requests.
EveryCallReturns == <>(result # "none")
=============================================================================
