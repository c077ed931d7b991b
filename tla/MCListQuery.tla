----------------------------- MODULE MCListQuery -----------------------------
(***************************************************************************)
(* Small instances of ListQuery for TLC.  The endpoints differ in what     *)
(* matches; the pages are cut from it in the same way.                     *)
(***************************************************************************)
EXTENDS ListQuery
=============================================================================
