--------------------------- MODULE MCPresignedUrls ---------------------------
(***************************************************************************)
(* Small instances of PresignedUrls for TLC.  A unit of time is 150        *)
(* seconds: a URL works for 6 of them, and Redis keeps it for 4.           *)
(***************************************************************************)
EXTENDS PresignedUrls, TLC

RequestSymmetry == Permutations(Reads) \cup Permutations(Updates)
=============================================================================
