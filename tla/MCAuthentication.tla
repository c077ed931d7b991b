-------------------------- MODULE MCAuthentication --------------------------
(***************************************************************************)
(* Small instances of Authentication for TLC.  Logins are alike, and so    *)
(* are requests, so permuting either changes nothing.                      *)
(***************************************************************************)
EXTENDS Authentication, TLC

Symmetry == Permutations(Logins) \cup Permutations(Requests)
=============================================================================
