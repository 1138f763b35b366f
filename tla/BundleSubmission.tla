--------------------------- MODULE BundleSubmission ---------------------------
(***************************************************************************)
(* What builder::RestClient promises of one request, without connections   *)
(* and attempts: the builder acts on a submission at most once; a success  *)
(* means that it has; and a success or CANDIDATE_NOT_PENDING is final. A   *)
(* REQUEST_ERROR says nothing: the bundle may be mined before or after it. *)
(***************************************************************************)
VARIABLES
    op,         \* the request
    mined,      \* the submitted bundle is on the chain
    result      \* what the call returned

submissionVars == <<op, mined, result>>

Op == {"get", "simulate", "submit"}
Result == {"none", "ok", "CANDIDATE_NOT_PENDING", "REQUEST_ERROR"}

SubmissionInit == op \in Op /\ mined = FALSE /\ result = "none"

Execute ==
    /\ op = "submit"
    /\ ~mined
    /\ result \in {"none", "REQUEST_ERROR"}
    /\ mined' = TRUE
    /\ UNCHANGED <<op, result>>

Return(r) ==
    /\ result = "none"
    /\ r = "ok" => mined \/ op # "submit"
    /\ r = "CANDIDATE_NOT_PENDING" => op # "get"
    /\ result' = r
    /\ UNCHANGED <<op, mined>>

SubmissionNext == Execute \/ \E r \in Result \ {"none"} : Return(r)

SubmissionSpec == SubmissionInit /\ [][SubmissionNext]_submissionVars
=============================================================================
