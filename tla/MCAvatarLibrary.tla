--------------------------- MODULE MCAvatarLibrary ---------------------------
(***************************************************************************)
(* Small instances of AvatarLibrary for TLC.  Avatars are alike, so        *)
(* permuting them changes nothing.                                         *)
(***************************************************************************)
EXTENDS AvatarLibrary, TLC

MCKeys == Avatars \cup Attachments
AvatarSymmetry == Permutations(Avatars)
=============================================================================
