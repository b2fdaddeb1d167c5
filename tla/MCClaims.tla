------------------------------- MODULE MCClaims -------------------------------
(***************************************************************************)
(* The instances of MCGrive.tla, for the statements of Claims.tla.         *)
(***************************************************************************)
EXTENDS Claims, MCGrive

ForcedRuns == {{}, {"force"}}
UploadOnlyRuns == {{}, {"no-remote-new", "upload-only"}}

===============================================================================
