------------------------------ MODULE Agreement ------------------------------
(***************************************************************************)
(* What a run of grive must not do, said with the help of six history      *)
(* variables.  They record what happened and change nothing of Grive.tla.  *)
(***************************************************************************)
EXTENDS Grive

VARIABLES
    base,       \* what the disk and the server agreed on when a run last saved
    baseTime,   \* the modification time the server gave it then
    seen,       \* the server as the run listed it
    began,      \* edits and faults when the run started
    swapped,    \* paths where a run put something else than was listed there, untouched since
    unseen      \* paths that a run which saved hid, while their folder was there, and that
                \* all runs since, their folder being there, have missed on the disk and not
                \* brought there, and not for -n or -u

history == <<base, baseTime, seen, began, swapped, unseen>>
allvars == <<vars, history>>

HInit ==
    /\ Init
    /\ base = [n \in Node |-> IF Agreed(n) /\ index[n].has THEN local[n] ELSE Absent]
    /\ baseTime = [n \in Node |-> IF base[n] = Absent THEN 0 ELSE remote[n].mtime]
    /\ seen = NoFeed
    /\ began = bounds
    /\ swapped = {} /\ unseen = {}

\* A run that saves remembers what it knows to be equal; a torn save loses everything.
Saves  == SaveState /\ ~Dry

\* Both sides are equal, and the record says so.
Noted(n) ==
    /\ Agreed(n)
    /\ IF local[n] \in Files
       THEN st[n].md5 = local[n] /\ (local[n] \in Content => remote[n].mtime <= st[n].srv)
       ELSE st[n].has <=> local[n] = Dir

\* The scan found the folder p.
FoundFolder(p) == Res(p).src = "local" /\ IsFolder(Res(p))

HNext ==
    /\ Next
    /\ base' = IF Saves
               THEN [n \in Node |-> IF Noted(n) THEN local[n] ELSE base[n]]
               ELSE IF TornSave THEN [n \in Node |-> Absent] ELSE base
    /\ baseTime' = IF Saves
                   THEN [n \in Node |-> IF Noted(n) THEN remote[n].mtime ELSE baseTime[n]]
                   ELSE IF TornSave THEN [n \in Node |-> 0] ELSE baseTime
    /\ seen' = IF GetAll THEN remote ELSE IF Between' THEN NoFeed ELSE seen
    /\ began' = IF Between /\ ~Between' THEN bounds ELSE began
    /\ swapped' = {n \in Node : IF ctime'[n] = ctime[n] THEN n \in swapped
                               ELSE /\ ByGrive /\ local'[n] \in Content
                                    /\ seen[n].thing \in Content \ {local'[n]}}
    /\ unseen' = IF Saves
                 THEN {n \in Hides[m_ign] : DirAt(local, Parent[n])} \cup
                      {n \in unseen : /\ "no-remote-new" \notin opt
                                      /\ FoundFolder(Parent[n])
                                      /\ res[n].src # "local" /\ res[n].state # "sync"}
                 ELSE IF TornSave THEN {} ELSE unseen

HSpec == HInit /\ [][HNext]_allvars

-------------------------------------------------------------------------------
(* The promise of two-way synchronisation.                                 *)

IsFile(t) == t \in Files

TwoWay == INSTANCE TwoWaySync WITH
    Path <- Node, Nothing <- Absent, Damaged <- Partial, File <- IsFile,
    left <- local, right <- [n \in Node |-> remote[n].thing],
    stamp <- [n \in Node |-> remote[n].mtime], baseStamp <- baseTime,
    disturbed <- bounds # began

\* grive overwrites or deletes a file on one side only if the other side changed
\* since a run last saw the two agree, and never deletes a file that was edited
\* (Resource::SyncSelf doing what FromLocal and FromRemote decided, over any number
\* of runs, failed requests and deaths).
TwoWaySpec == TwoWay!Spec

-------------------------------------------------------------------------------
(* State properties.                                                       *)

\* At rest the index hides nothing: a file the next run would take for unchanged by
\* its ctime, or by the time of the server, is what was agreed on.
IndexHonest ==
    Between =>
        \A n \in Node :
            /\ local[n] \in Files /\ index[n].md5 # Missing /\ ctime[n] <= index[n].ctime
                  => local[n] = base[n]
            /\ remote[n].thing \in Content /\ index[n].has /\ remote[n].mtime <= index[n].srv
                  => remote[n].thing = base[n]

\* A run nobody disturbs ends with both sides equal, whatever earlier runs left and
\* whatever they hid, but for what it hides itself, and for what was replaced on the server
\* between the listing and the download: the checksum of the listing is recorded of it, and
\* an object of that content counts as equal ever after (Syncer.cc:43).
OneRunSettles ==
    WalkDone /\ opt = {} /\ began = bounds =>
        \A n \in Node \ (Hides[m_ign] \cup swapped) : Agreed(n)

-------------------------------------------------------------------------------
(* Step properties.                                                        *)

\* What somebody changes on the server after it was listed is not overwritten or
\* trashed on the strength of the listing (the If-Match of Syncer2), unless with the
\* folder it is in; Move has no If-Match, but keeps the content.  Objects with two
\* parents are not listed.
NoLostUpdate ==
    [][ByGrive => \A n \in Node :
          remote[n] # seen[n] /\ remote[n].thing \in Content /\ ~remote[n].multi
             => \/ remote[n].thing \in ServerFiles'
                \/ \E m \in Node : /\ n \in Under[m]
                                   /\ remote[m].thing # Absent /\ remote'[m].thing = Absent]_allvars

\* What was removed from the disk while an ignore expression hid it is not trashed on the
\* server by a later run that looks there again, as long as the folder it is in stayed: the
\* records are older than the expression (m_ign_changed, State.cc:68 and 140).  If that
\* folder goes from the disk it goes with the folder, or is moved out of it before.
HiddenSpared ==
    [][ByGrive => \A n \in unseen :
          remote[n].thing \in Content /\ remote'[n].thing = Absent
             => \E m \in Node :
                   /\ n \in Under[m]
                   /\ \/ remote'[m].thing = Absent
                      \/ res[m].state = "local_deleted" /\ remote[n].thing \in ServerFiles']_allvars

\* A run changes what it hides on neither side, unless with the folder it is in
\* (State::IsIgnore, in the scan and in the listing).
HiddenUntouched ==
    [][ByGrive => \A n \in Hides[m_ign] :
          \/ local'[n] = local[n] /\ remote'[n] = remote[n]
          \/ \E m \in Node : n \in Under[m] /\ Absent \in {local'[m], remote'[m].thing}]_allvars

===============================================================================
