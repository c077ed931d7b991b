-------------------------- MODULE MCProfilePictures --------------------------
(***************************************************************************)
(* Small instances of ProfilePictures for TLC.  Requests are alike, so     *)
(* permuting them changes nothing.                                         *)
(***************************************************************************)
EXTENDS ProfilePictures, TLC

RequestSymmetry == Permutations(Requests)
=============================================================================
