-------------------------- MODULE MCGenerationFiles --------------------------
(***************************************************************************)
(* Small instances of GenerationFiles for TLC.  Removals are alike, so     *)
(* permuting them changes nothing.                                         *)
(***************************************************************************)
EXTENDS GenerationFiles, TLC

MCKeys == (Gens \X {"image", "audio", "output"}) \cup {AvatarKey, TestKey}
MCFileRemovals == Gens \X {"image"}
RemovalSymmetry == Permutations(Removals)
=============================================================================
