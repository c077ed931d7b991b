-------------------------- MODULE MCAccountSessions --------------------------
(***************************************************************************)
(* Small instances of AccountSessions for TLC.  Requests are alike, so     *)
(* permuting them changes nothing.                                         *)
(***************************************************************************)
EXTENDS AccountSessions, TLC

RequestSymmetry == Permutations(Requests)
=============================================================================
