-------------------------- MODULE MCGenerationQueue --------------------------
(***************************************************************************)
(* Small instances of GenerationQueue for TLC.  Requests are               *)
(* interchangeable: each is any operation on any generation, used once.    *)
(***************************************************************************)
EXTENDS GenerationQueue, TLC

RequestSymmetry == Permutations(Requests)
=============================================================================
