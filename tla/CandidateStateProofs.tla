------------------------- MODULE CandidateStateProofs -------------------------
(***************************************************************************)
(* candidate::State on its own: its properties hold under every sequence   *)
(* of calls, for any number of blocks, transactions and pools.             *)
(***************************************************************************)
EXTENDS CandidateState, TLAPS

USE CommonConstants DEF CommonConstants

\* No pools, and no transactions, are a sequence of the right type.
LEMMA EmptySeqType == ASSUME NEW S PROVE <<>> \in Seq(S)
  OBVIOUS

\* The fields keep their types and the local mempool stays a map, whatever
\* order apply_snapshot, apply_pending_tx, mark_invalid and pop come in.
THEOREM StateTypeCorrect == StateSpec => []StateTypeOK
<1>1. StateInit => StateTypeOK
  <2> SUFFICES ASSUME StateInit PROVE StateTypeOK
    OBVIOUS
  <2> USE DEF StateInit
  <2>1. pools \in Seq(Block)
    BY EmptySeqType
  <2>2. block_number \in Block \cup {NoBlock} /\ snapshot_seq \in 0 .. MaxSeq
    OBVIOUS
  <2> QED
    BY <2>1, <2>2, Zenon DEF StateTypeOK
<1>2. StateTypeOK /\ [StateNext]_stateVars => StateTypeOK'
  <2> SUFFICES ASSUME StateTypeOK, [StateNext]_stateVars
               PROVE  StateTypeOK'
    OBVIOUS
  <2> USE DEF StateTypeOK
  <2>1. ASSUME NEW b \in Block, NEW s \in 0 .. MaxSeq, NEW e \in 0 .. MaxEpoch,
               NEW cs \in SUBSET {t \in Tx : t.epoch = e /\ t.seq <= s},
               ApplySnapshot(b, s, cs, [i \in 1 .. NumPools |-> b])
        PROVE  StateTypeOK'
    <3>1. [i \in 1 .. NumPools |-> b] \in Seq(Block)
      OBVIOUS
    <3>2. \A c, d \in cs : c.seq = d.seq => c = d
      BY DEF Tx
    <3> QED
      BY <2>1, <3>1, <3>2 DEF ApplySnapshot
  <2>2. ASSUME NEW c \in Tx, ApplyPendingTx(c)
        PROVE  StateTypeOK'
    BY <2>2 DEF ApplyPendingTx, InsertOrAssign
  <2>3. ASSUME NEW b \in Block, MarkInvalid(b)
        PROVE  StateTypeOK'
    <3>1. pools' \in Seq(Block)
      BY <2>3, EmptySeqType DEF MarkInvalid
    <3>2. block_number' \in Block /\ snapshot_seq' \in 0 .. MaxSeq
      BY <2>3 DEF MarkInvalid
    <3> QED
      BY <2>3, <3>1, <3>2, Zenon DEF MarkInvalid
  <2>4. ASSUME NEW c \in Tx, PopNextSnapshot(c)
        PROVE  StateTypeOK'
    BY <2>4 DEF PopNextSnapshot
  <2>5. CASE UNCHANGED stateVars
    BY <2>5 DEF stateVars
  <2> QED
    BY <2>1, <2>2, <2>3, <2>4, <2>5 DEF StateNext
<1> QED
  BY <1>1, <1>2, PTL DEF StateSpec

\* A valid state holds the reserves of every pool at its own block; an invalid
\* one holds nothing (State::apply_snapshot and mark_invalid change all fields
\* together).
THEOREM StateCoherent == StateSpec => []CoherentState
<1>1. StateInit => CoherentState
  BY DEF StateInit, CoherentState
<1>2. CoherentState /\ [StateNext]_stateVars => CoherentState'
  BY DEF CoherentState, StateNext, stateVars, ApplySnapshot, ApplyPendingTx,
         AcceptsPendingTx, MarkInvalid, PopNextSnapshot
<1> QED
  BY <1>1, <1>2, PTL DEF StateSpec

\* The guards of apply_snapshot and mark_invalid keep block number and
\* snapshot sequence number from going back.
THEOREM StateNeverRegresses == StateSpec => NeverRegresses
<1>1. StateTypeOK /\ [StateNext]_stateVars =>
        [/\ block_number' >= block_number
         /\ valid /\ valid' => snapshot_seq' >= snapshot_seq]_stateVars
  BY DEF StateTypeOK, Block, NoBlock, StateNext, stateVars, ApplySnapshot,
         AcceptsSnapshot, AcceptsBlock, AcceptsSnapshotSeq, ApplyPendingTx,
         MarkInvalid, PopNextSnapshot
<1> QED
  BY <1>1, StateTypeCorrect, PTL DEF StateSpec, NeverRegresses
=============================================================================
