--------------------------- MODULE MCOneTimeTokens ---------------------------
(***************************************************************************)
(* Small instances of OneTimeTokens for TLC.  Requests are alike, so       *)
(* permuting them changes nothing.                                         *)
(***************************************************************************)
EXTENDS OneTimeTokens, TLC

RequestSymmetry == Permutations(Requests)
=============================================================================
