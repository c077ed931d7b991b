---------------------------- MODULE MCTempUploads ----------------------------
(***************************************************************************)
(* Small instances of TempUploads for TLC: requests by what they upload.   *)
(***************************************************************************)
EXTENDS TempUploads

MCParts == [r \in Requests |-> IF r = "generation" THEN {"image", "audio"} ELSE {"file"}]
MCKeys == Files
=============================================================================
