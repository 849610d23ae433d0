-------------------------- MODULE MCReviewRelease --------------------------
(* A character and its portrait. *)
EXTENDS ReviewRelease, TLC

CONSTANTS hero, portrait

MCAssets == {hero, portrait}
MCMedia == {portrait}
MCSymmetry == Permutations(Requests)
MCRelations == [source : {portrait}, target : {hero}, depicts : BOOLEAN]
=============================================================================
