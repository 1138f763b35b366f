---------------------------- MODULE CandidateFeed ----------------------------
(***************************************************************************)
(* What CandidateSource::wait_pop_state promises its caller, without       *)
(* queues, threads, requests or a builder: a sequence of views whose block *)
(* number never decreases. A valid view carries a candidate that was not   *)
(* handed out for that block before; an invalid view carries none; after   *)
(* CLOSED, or once the caller's loop was stopped, nothing more comes.      *)
(***************************************************************************)
EXTENDS Common

VARIABLES
    view,       \* the last view returned
    seen,       \* candidates handed out, with their block
    ended       \* the caller's loop has ended

feedVars == <<view, seen, ended>>

NoCandidate == [epoch |-> 0, seq |-> 0]

FeedInit ==
    /\ view = [valid |-> FALSE, block |-> NoBlock, candidate |-> NoCandidate]
    /\ seen = {}
    /\ ended = FALSE

Deliver(b, c) ==
    /\ ~ended
    /\ b >= view.block
    /\ [tx |-> c, block |-> b] \notin seen
    /\ view' = [valid |-> TRUE, block |-> b, candidate |-> c]
    /\ seen' = seen \cup {[tx |-> c, block |-> b]}
    /\ UNCHANGED ended

Invalidate(b) ==
    /\ ~ended
    /\ b >= view.block
    /\ view' = [valid |-> FALSE, block |-> b, candidate |-> NoCandidate]
    /\ UNCHANGED <<seen, ended>>

End ==
    /\ ~ended
    /\ ended' = TRUE
    /\ UNCHANGED <<view, seen>>

FeedNext ==
    \/ \E b \in Block, c \in Tx : Deliver(b, c)
    \/ \E b \in Block : Invalidate(b)
    \/ End

FeedSpec == FeedInit /\ [][FeedNext]_feedVars
=============================================================================
