--------------------------- MODULE MCFilledBlocks ---------------------------
(***************************************************************************)
(* The prefix-cache guard for TLC: requests and blocks are model values.   *)
(***************************************************************************)
EXTENDS FilledBlocks, TLC

\* The blocks are interchangeable; the requests are not when one is staged.
BlockSymmetry == Permutations(Blocks)

\* Without a staged request the requests are interchangeable too.
FullSymmetry == Permutations(Blocks) \cup Permutations(Requests)
=============================================================================
