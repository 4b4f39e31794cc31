--------------------------- MODULE MCAssetImages ----------------------------
(* Small instances of AssetImages for TLC. *)
EXTENDS AssetImages, TLC

Symmetry == Permutations(Workers) \cup Permutations(Assets) \cup Permutations(Models)
=============================================================================
