------------------------------- MODULE Common -------------------------------
(***************************************************************************)
(* Blocks and public transactions, as the builder and the bot name them.   *)
(***************************************************************************)
EXTENDS Integers, Sequences, FiniteSets

CONSTANTS
    MaxBlock,       \* highest block number of the chain
    MaxSeq,         \* highest sequence number one life of the builder assigns
    MaxEpoch,       \* number of times the builder process may restart
    NumPools        \* number of configured pools

ASSUME CommonConstants ==
    /\ MaxBlock \in Nat
    /\ MaxSeq \in Nat
    /\ MaxEpoch \in Nat
    /\ NumPools \in Nat \ {0}

\* An empty optional block number. Below every block, so that the code's
\* "m_block_number && b < *m_block_number" is b < block_number.
NoBlock == -1

Block == 0 .. MaxBlock

\* A public transaction: the sequence number the builder's mempool gave it and
\* the life of the builder process that did (sequence numbers restart at 1).
Tx == [epoch : 0 .. MaxEpoch, seq : 1 .. MaxSeq]
=============================================================================
