----------------------------- MODULE MCAgreement -----------------------------
(***************************************************************************)
(* The instances of MCGrive.tla, with the history variables of Agreement.  *)
(***************************************************************************)
EXTENDS Agreement, MCGrive

==============================================================================
