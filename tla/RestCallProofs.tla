---------------------------- MODULE RestCallProofs ----------------------------
(***************************************************************************)
(* For any number of attempts, with and without TLS: what a call returns   *)
(* is final, and its attempts together are one submission.                 *)
(***************************************************************************)
EXTENDS RestCall, TLAPS

\* The types are kept by every step.
LEMMA TypeStep == TypeOK /\ [Next]_vars => TypeOK'
<1> SUFFICES ASSUME TypeOK, [Next]_vars PROVE TypeOK'
  OBVIOUS
<1> USE RestConstants DEF TypeOK, Attempt, Phase, Status, Submission!Op, Submission!Result
<1>1. CASE UNCHANGED vars
  BY <1>1 DEF vars
<1>2. CASE Resolve \/ Connect \/ Handshake
  BY <1>2 DEF Resolve, Connect, Handshake, Step
<1>3. CASE Write
  BY <1>3 DEF Write
<1>4. CASE Read \/ ReadError
  BY <1>4 DEF Read, ReadError
<1>5. CASE ReturnBody \/ ReturnConflict \/ GiveUp
  BY <1>5 DEF ReturnBody, ReturnConflict, GiveUp, Finish
<1>6. CASE Retry
  BY <1>6 DEF Retry
<1>7. ASSUME NEW i \in Attempt, Serve(i) PROVE TypeOK'
  BY <1>7, ZenonT(40) DEF Serve, Answer
<1>8. CASE RestartBuilder \/ OtherBundle
  BY <1>8 DEF RestartBuilder, OtherBundle
<1> QED
  BY <1>1, <1>2, <1>3, <1>4, <1>5, <1>6, <1>7, <1>8 DEF Next, Client

\* The call starts with its first attempt and nothing sent.
LEMMA TypeInit == Init => TypeOK
<1> SUFFICES ASSUME Init PROVE TypeOK
  OBVIOUS
<1>1. attempt \in Attempt
  BY RestConstants DEF Init, Attempt
<1>2. mined \in BOOLEAN
  BY DEF Init
<1>3. conn \in [Attempt -> Status \cup {"none", "sent", "lost"}]
  BY DEF Init
<1> QED
  BY <1>1, <1>2, <1>3 DEF Init, TypeOK, Phase, Submission!Op, Submission!Result

\* Type correctness; in particular the loops of get_with_retry and
\* post_with_retry stop at kMaxAttempts.
THEOREM TypeCorrect == Spec => []TypeOK
  BY TypeInit, TypeStep, PTL DEF Spec

\* AnswersAreFinal is not inductive: what the thread has read and is about to
\* return must be what the builder answered to its current attempt, and before
\* it returns nothing has been returned.
PhaseInv ==
    /\ phase = "ok" => conn[attempt] = "ok"
    /\ phase = "conflict" => conn[attempt] = "conflict" /\ op # "get"
    /\ phase # "done" => result = "none"

IInv == TypeOK /\ PhaseInv /\ AnswersAreFinal

\* No step of the caller, the network or the builder breaks the invariant.
LEMMA InvStep == IInv /\ [Next]_vars => IInv'
<1> SUFFICES ASSUME IInv, [Next]_vars PROVE IInv'
  OBVIOUS
<1>0. TypeOK'
  BY TypeStep DEF IInv
<1> USE DEF IInv, PhaseInv, AnswersAreFinal
<1>1. CASE UNCHANGED vars
  BY <1>0, <1>1 DEF vars
<1>2. CASE Resolve \/ Connect \/ Handshake
  BY <1>0, <1>2 DEF Resolve, Connect, Handshake, Step
<1>3. CASE Write
  BY <1>0, <1>3 DEF Write, TypeOK
<1>4. CASE Read \/ ReadError
  BY <1>0, <1>4 DEF Read, ReadError, Status
<1>5. CASE ReturnBody \/ ReturnConflict \/ GiveUp
  BY <1>0, <1>5 DEF ReturnBody, ReturnConflict, GiveUp, Finish, TypeOK
<1>6. CASE Retry
  BY <1>0, <1>6 DEF Retry
<1>7. ASSUME NEW i \in Attempt, Serve(i) PROVE IInv'
  BY <1>0, <1>7 DEF Serve, Answer, TypeOK
<1>8. CASE RestartBuilder
  BY <1>0, <1>8 DEF RestartBuilder, TypeOK
<1>9. CASE OtherBundle
  BY <1>0, <1>9 DEF OtherBundle
<1> QED
  BY <1>1, <1>2, <1>3, <1>4, <1>5, <1>6, <1>7, <1>8, <1>9 DEF Next, Client

\* The invariant of the call holds in every reachable state.
LEMMA InvHolds == Spec => []IInv
<1>2. Init => PhaseInv
  BY DEF Init, PhaseInv
<1>3. Init => AnswersAreFinal
  BY DEF Init, AnswersAreFinal
<1> QED
  BY TypeInit, <1>2, <1>3, InvStep, PTL DEF Spec, IInv

\* What the call returns stays true, whatever becomes of the attempts it left
\* behind.
THEOREM AnswersFinal == Spec => []AnswersAreFinal
  BY InvHolds, PTL DEF IInv

\* Every step of the attempts, the network and the builder is a step of one
\* submission or none: it takes effect at most once, a success means it has, and
\* neither a success nor CANDIDATE_NOT_PENDING is overtaken by a late attempt.
THEOREM SubmissionImplemented == Spec => Submission!SubmissionSpec
<1>1. Init => Submission!SubmissionInit
  BY DEF Init, Submission!SubmissionInit
<1>2. IInv /\ [Next]_vars => [Submission!SubmissionNext]_(Submission!submissionVars)
  <2> SUFFICES ASSUME IInv, [Next]_vars
               PROVE Submission!SubmissionNext \/ UNCHANGED Submission!submissionVars
    OBVIOUS
  <2> USE DEF Submission!submissionVars
  <2>1. CASE UNCHANGED vars
    BY <2>1 DEF vars
  <2>2. CASE Resolve \/ Connect \/ Handshake \/ Write \/ Read \/ ReadError \/ Retry
    BY <2>2 DEF Resolve, Connect, Handshake, Step, Write, Read, ReadError, Retry
  <2>3. CASE ReturnBody
    <3>1. Submission!Return("ok")
      BY <2>3 DEF ReturnBody, Finish, Submission!Return, IInv, PhaseInv, AnswersAreFinal, TypeOK
    <3> QED
      BY <3>1 DEF Submission!SubmissionNext, Submission!Result
  <2>4. CASE ReturnConflict
    <3>1. Submission!Return("CANDIDATE_NOT_PENDING")
      BY <2>4 DEF ReturnConflict, Finish, Submission!Return, IInv, PhaseInv
    <3> QED
      BY <3>1 DEF Submission!SubmissionNext, Submission!Result
  <2>5. CASE GiveUp
    <3>1. Submission!Return("REQUEST_ERROR")
      BY <2>5 DEF GiveUp, Finish, Submission!Return, IInv, PhaseInv
    <3> QED
      BY <3>1 DEF Submission!SubmissionNext, Submission!Result
  <2>6. ASSUME NEW i \in Attempt, Serve(i)
        PROVE Submission!Execute \/ UNCHANGED Submission!submissionVars
    BY <2>6 DEF Serve, Answer, Submission!Execute, IInv, AnswersAreFinal, TypeOK,
       Submission!Result
  <2>7. CASE RestartBuilder \/ OtherBundle
    BY <2>7 DEF RestartBuilder, OtherBundle
  <2> QED
    BY <2>1, <2>2, <2>3, <2>4, <2>5, <2>6, <2>7 DEF Next, Client, Submission!SubmissionNext
<1> QED
  BY <1>1, <1>2, InvHolds, PTL DEF Spec, Submission!SubmissionSpec

\* The same, as the run states it.
THEOREM SubmissionRefined == Spec => ImplementsSubmission
  BY SubmissionImplemented DEF ImplementsSubmission
=============================================================================
