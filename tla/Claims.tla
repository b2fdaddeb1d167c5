-------------------------------- MODULE Claims --------------------------------
(***************************************************************************)
(* What the comments and options of the code say of a run, where the code  *)
(* does otherwise.  Each statement is quoted with the line that makes it;  *)
(* TLC finds it violated.                                                  *)
(***************************************************************************)
EXTENDS Agreement

VARIABLE latest     \* who changed each path last, on either side

CInit == HInit /\ latest = [n \in Node |-> "nobody"]

CNext ==
    /\ HNext
    /\ latest' = [n \in Node |->
          IF local'[n] = local[n] /\ remote'[n].thing = remote[n].thing THEN latest[n]
          ELSE IF ByGrive THEN "grive"
          ELSE IF local'[n] # local[n] THEN "disk" ELSE "server"]

CSpec == CInit /\ [][CNext]_<<allvars, latest>>

\* The entry of n was applied: n has the state the run will act on.
Classified(n) == phase = "resolve" /\ res[n].id

-------------------------------------------------------------------------------
(* The comments on Resource::State.                                        *)

\* A file that grive is about to upload as local_changed was changed last by somebody on
\* the disk.  local_changed: "Resource exists in both local & remote, but changes in local
\* is newer than remote." (libgrive/src/base/Resource.hh:62)
LocalIsNewer ==
    \A n \in Node : Classified(n) /\ res[n].state = "local_changed" => latest[n] = "disk"

-------------------------------------------------------------------------------
(* Options.                                                                *)

\* A run with -u writes to the server only what changed on the disk since both sides
\* agreed.  "Do not download anything from Google Drive, only upload local changes"
\* (grive/src/main.cc:123)
OnlyLocalChangesUploaded ==
    [][ByGrive /\ "upload-only" \in opt =>
          \A n \in Node : remote'[n].thing # remote[n].thing => local[n] # base[n]]_allvars

===============================================================================
