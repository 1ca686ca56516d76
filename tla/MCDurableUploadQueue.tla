------------------------- MODULE MCDurableUploadQueue -------------------------
(* Instances of DurableUploadQueue for TLC: two jobs of one process. *)
EXTENDS DurableUploadQueue, TLC

CONSTANTS j1, j2

MCJob == {j1, j2}
JobSymmetry == Permutations(MCJob)

\* Two saves of one cache, so that a late retry meets newer content.
OneName == {"multibagger_cache"}
OneNameOf == [j \in MCJob |-> "multibagger_cache"]
=============================================================================
