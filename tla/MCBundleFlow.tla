---------------------------- MODULE MCBundleFlow ----------------------------
(***************************************************************************)
(* Instances of BundleFlow for TLC. The scenarios put several swaps of one *)
(* sender with consecutive nonces into the mempool, and swaps of several.  *)
(***************************************************************************)
EXTENDS BundleFlow

\* One sender with two swaps, the second behind the first.
TwoOfOne == {<<"s", 0>>, <<"s", 1>>}

\* Two senders, one of them behind a gap that nothing in the mempool fills.
TwoSenders == {<<"r", 0>>, <<"s", 1>>}

=============================================================================
