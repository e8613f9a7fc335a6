----------------------------- MODULE MCBlockPool -----------------------------
(* BlockPool on a small instance: two usable blocks, two holders, a short   *)
(* prefix h1 and the longer prefix h2 that extends it.                        *)
EXTENDS BlockPool, TLC

CONSTANTS h1, h2, c1, c2

MCHashes == {h1, h2}
MCHashTokens == (h1 :> 1) @@ (h2 :> 2)
MCHolders == {c1, c2}
Symmetry == Permutations(MCHolders)

\* The null block's count is only ever changed, never used: keep it near 0.
NullRefBound == ref_cnt[NullBlock] \in -1 .. 2
=============================================================================
