--------------------------- MODULE MCSessionCookies ---------------------------
(***************************************************************************)
(* Small instances of SessionCookies for TLC.  Requests are alike, and so  *)
(* are users, so permuting either changes nothing.                         *)
(***************************************************************************)
EXTENDS SessionCookies, TLC

CookieSymmetry == Permutations(Requests) \cup Permutations(Users)
=============================================================================
