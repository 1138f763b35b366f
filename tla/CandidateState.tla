--------------------------- MODULE CandidateState ---------------------------
(***************************************************************************)
(* candidate::State together with the candidate::LocalMempool it owns: the *)
(* bot's copy of the builder's pending swaps and of the pools' reserves.   *)
(* Every method runs under State::m_mutex, so each one is a single step.   *)
(*                                                                         *)
(* A candidate is a pending transaction that passed the filter; the state  *)
(* looks at nothing but its sequence number. A pool snapshot is            *)
(* represented by the block its reserves were read at.                     *)
(***************************************************************************)
EXTENDS Common

VARIABLES
    block_number,   \* State::m_block_number, NoBlock while it is nullopt
    valid,          \* State::m_valid
    pools,          \* State::m_pools
    snapshot_seq,   \* LocalMempool::m_snapshot_seq
    candidates      \* LocalMempool::m_candidates, a map keyed by seq

stateVars == <<block_number, valid, pools, snapshot_seq, candidates>>

StateInit ==
    /\ block_number = NoBlock
    /\ valid = FALSE
    /\ pools = <<>>
    /\ snapshot_seq = 0
    /\ candidates = {}

-----------------------------------------------------------------------------
(* LocalMempool                                                            *)

\* Mutation: the local mempool takes any snapshot.
AcceptsSnapshotSeqAny(s) == TRUE

\* LocalMempool::apply_snapshot refuses a snapshot older than the one it has.
AcceptsSnapshotSeq(s) == s >= snapshot_seq

\* Mutation: "<" instead of "<=" against the snapshot's last sequence number.
CoveredBySnapshotStrict(c) == c.seq < snapshot_seq

\* Mutation: one sequence number too many counts as covered.
CoveredBySnapshotPlusOne(c) == c.seq <= snapshot_seq + 1

\* LocalMempool::apply_pending_tx ignores what the snapshot already covered.
CoveredBySnapshot(c) == c.seq <= snapshot_seq

\* Mutation: a multimap, where an equal sequence number adds a second entry.
InsertBeside(cs, c) == cs \cup {c}

\* std::map::insert_or_assign under the candidate's sequence number.
InsertOrAssign(cs, c) == {d \in cs : d.seq # c.seq} \cup {c}

\* begin() of the map: the candidate with the lowest sequence number.
IsNextCandidate(c) ==
    /\ c \in candidates
    /\ \A d \in candidates : c.seq <= d.seq

-----------------------------------------------------------------------------
(* State                                                                   *)

\* Mutation: no test against the current block.
AcceptsBlockAny(b) == TRUE

\* The guard apply_snapshot and mark_invalid share.
AcceptsBlock(b) == b >= block_number

\* apply_snapshot returns true.
AcceptsSnapshot(b, s) == AcceptsBlock(b) /\ AcceptsSnapshotSeq(s)

\* apply_snapshot, accepted: block, pools, mempool and validity change together.
ApplySnapshot(b, s, cs, ps) ==
    /\ AcceptsSnapshot(b, s)
    /\ block_number' = b
    /\ valid' = TRUE
    /\ pools' = ps
    /\ snapshot_seq' = s
    /\ candidates' = cs

\* Mutation: apply_pending_tx does not look at m_valid.
AcceptsPendingTxAlways(c) == ~CoveredBySnapshot(c)

\* apply_pending_tx returns true.
AcceptsPendingTx(c) == valid /\ ~CoveredBySnapshot(c)

\* apply_pending_tx, accepted.
ApplyPendingTx(c) ==
    /\ AcceptsPendingTx(c)
    /\ candidates' = InsertOrAssign(candidates, c)
    /\ UNCHANGED <<block_number, valid, pools, snapshot_seq>>

\* Mutation: mark_invalid leaves the local mempool as it is.
MarkInvalidKeepMempool(b) ==
    /\ AcceptsBlock(b)
    /\ block_number' = b
    /\ valid' = FALSE
    /\ pools' = <<>>
    /\ UNCHANGED <<snapshot_seq, candidates>>

\* mark_invalid, accepted: everything but the block number is dropped.
MarkInvalid(b) ==
    /\ AcceptsBlock(b)
    /\ block_number' = b
    /\ valid' = FALSE
    /\ pools' = <<>>
    /\ snapshot_seq' = 0
    /\ candidates' = {}

\* pop_next_snapshot with a result: c leaves the mempool with the snapshot.
PopNextSnapshot(c) ==
    /\ valid
    /\ IsNextCandidate(c)
    /\ candidates' = candidates \ {c}
    /\ UNCHANGED <<block_number, valid, pools, snapshot_seq>>

-----------------------------------------------------------------------------
(* The component on its own, under every sequence of calls. A refused call *)
(* changes nothing and is a stuttering step. A snapshot comes from one     *)
(* life of the builder and holds nothing beyond its own sequence number.   *)

StateNext ==
    \/ \E b \in Block, s \in 0 .. MaxSeq, e \in 0 .. MaxEpoch :
          \E cs \in SUBSET {t \in Tx : t.epoch = e /\ t.seq <= s} :
             ApplySnapshot(b, s, cs, [i \in 1 .. NumPools |-> b])
    \/ \E c \in Tx : ApplyPendingTx(c)
    \/ \E b \in Block : MarkInvalid(b)
    \/ \E c \in Tx : PopNextSnapshot(c)

StateSpec == StateInit /\ [][StateNext]_stateVars

-----------------------------------------------------------------------------
(* Properties                                                              *)

\* Every field has its type, and the mempool is a map: one candidate per
\* sequence number.
StateTypeOK ==
    /\ block_number \in Block \cup {NoBlock}
    /\ valid \in BOOLEAN
    /\ pools \in Seq(Block)
    /\ snapshot_seq \in 0 .. MaxSeq
    /\ candidates \subseteq Tx
    /\ \A c, d \in candidates : c.seq = d.seq => c = d

\* "One coherent state" (state.h): a valid state holds the reserves of every
\* pool, all read at its own block number; an invalid one holds nothing that
\* a caller could use, whatever calls came before.
CoherentState ==
    IF valid
    THEN pools = [i \in 1 .. NumPools |-> block_number]
    ELSE pools = <<>> /\ candidates = {} /\ snapshot_seq = 0

\* The state never returns to an earlier block, and while it stays valid the
\* snapshot's sequence number never decreases: a late answer to an earlier
\* request cannot overwrite a newer view.
NeverRegresses ==
    [][/\ block_number' >= block_number
       /\ valid /\ valid' => snapshot_seq' >= snapshot_seq]_stateVars
=============================================================================
