-------------------------------- MODULE Grive --------------------------------
(***************************************************************************)
(* Runs of grive against a disk and a server that other people change.     *)
(*                                                                         *)
(* A run (main.cc, Drive.cc, State.cc, Resource.cc, Syncer2.cc) reads the  *)
(* index of the previous run, scans the disk, fetches the listing of the   *)
(* server, classifies every path, walks the tree once doing what each      *)
(* classification asks for, and saves the index.  Nothing but the disk,    *)
(* the server and the index survives it.  It can fail at every request,    *)
(* and die at every point.                                                 *)
(***************************************************************************)
EXTENDS Resource

CONSTANTS
    Holds,      \* Holds[n]: what people may put at n
    UserOps,    \* the kinds of change people make
    Options,    \* the sets of command line options a run may have
    Hides,      \* Hides[i]: the paths a scan under the ignore expression i does not reach
    NoIgnore,   \* the empty expression
    Faults,     \* the kinds of failure that occur
    Concurrent, \* those they also make while a run is under way
    Starts,     \* the kinds of initial state
    MaxEdits,   \* bound: how many changes people make
    MaxFaults   \* bound: how many failures occur

Ignores == DOMAIN Hides

ASSUME GriveAssumption ==
    /\ Holds \in [Node -> SUBSET (Content \cup {Dir, Bad})]
    /\ UserOps \subseteq {"local_put", "local_remove", "local_move", "remote_put",
                          "remote_trash", "remote_move", "remote_share"}
    /\ Options \subseteq SUBSET {"force", "upload-only", "no-remote-new", "dry-run"}
    /\ \A o \in Options : "upload-only" \in o => "no-remote-new" \in o
    /\ NoIgnore \in Ignores /\ Hides \in [Ignores -> SUBSET Node] /\ Hides[NoIgnore] = {}
    /\ \A i \in Ignores : \A n \in Hides[i] : Under[n] \subseteq Hides[i]
    /\ Faults \subseteq {"request", "lost_reply", "die", "torn_save"}
    /\ Concurrent \subseteq UserOps
    /\ Starts \subseteq {"fresh", "synced"}
    /\ MaxEdits \in Nat /\ MaxFaults \in Nat

VARIABLES
    local,      \* the disk: what is at each path
    ctime,      \* the disk: st_ctime of each path
    lclock,     \* the clock of the machine, in seconds
    remote,     \* the server: the object at each path
    ver,        \* the server: its clock, and the source of its etags
    index,      \* .grive_state: the records
    ignored,    \* .grive_state: "ignore_regexp"
    st,         \* State::m_st, the index in memory
    res,        \* State::m_res, the resources
    feed,       \* listing entries not applied yet
    pending,    \* the walk: siblings still to visit, at every open level
    phase,      \* where the run is
    opt,        \* the options of the run
    m_ign,      \* State::m_ign, the ignore expression of the run
    edits,      \* how many changes people have made
    faults      \* how many failures have occurred

disk    == <<local, ctime, lclock>>
server  == <<remote, ver>>
saved   == <<index, ignored>>
memory  == <<st, res, feed, pending, phase, opt, m_ign>>
bounds  == <<edits, faults>>
vars    == <<local, ctime, lclock, remote, ver, index, ignored, st, res, feed,
             pending, phase, opt, m_ign, edits, faults>>

NoIndex == [n \in Node |-> NoRec]
NoFeed  == [n \in Node |-> NoObj]
NoTree  == [n \in Node |-> NoRes]

Res(p)  == IF p = Root THEN RootRes ELSE res[p]

DiskOK == local \in [Node -> LocalThing] /\ ctime \in [Node -> Nat] /\ lclock \in Nat

ServerOK == remote \in [Node -> RemoteObj] /\ ver \in Nat

MemoryOK ==
    /\ st \in [Node -> IndexRec]
    /\ res \in [Node -> ResourceRec]
    /\ feed \in [Node -> RemoteObj]
    /\ pending \subseteq Node
    /\ phase \in {"idle", "list", "resolve", "sync", "aborted"}
    /\ opt \in Options \cup {{}} /\ m_ign \in Ignores

TypeOK ==
    /\ DiskOK /\ ServerOK /\ MemoryOK
    /\ index \in [Node -> IndexRec] /\ ignored \in Ignores
    /\ edits \in 0..MaxEdits /\ faults \in 0..MaxFaults

-------------------------------------------------------------------------------
(* The disk and the server.                                                *)

DirAt(f, p) == p # Root => f[p] = Dir

\* The contents of a folder changed if an entry appeared or disappeared.
EntriesMoved(new, n) ==
    \E m \in Node : Parent[m] = n /\ (new[m] = Absent) # (local[m] = Absent)

\* One change of the disk.  Changes are at least a second apart.
WriteDisk(new, touched) ==
    /\ local' = new
    /\ lclock' = lclock + 1
    /\ ctime' = [n \in Node |->
                    IF new[n] = Absent THEN 0
                    ELSE IF n \in touched \/ new[n] # local[n] \/ EntriesMoved(new, n)
                    THEN lclock + 1
                    ELSE ctime[n]]

DiskPut(n, t)  == WriteDisk([local EXCEPT ![n] = t], {n})
DiskRemove(n)  == WriteDisk([m \in Node |->
                        IF m = n \/ m \in Under[n] THEN Absent ELSE local[m]], {})
DiskMove(n, m) == WriteDisk([local EXCEPT ![n] = Absent, ![m] = local[n]],
                            {m, Parent[m]})

OnServer(p) == p # Root => remote[p].thing = Dir

WriteServer(new) == remote' = new /\ ver' = ver + 1

\* A new content for an object: a new etag and a new modification time.
ServerPut(n, t) ==
    WriteServer([remote EXCEPT ![n] =
        [@ EXCEPT !.thing = t, !.etag = ver + 1, !.mtime = ver + 1]])

\* A new object.  The server could have two of one name; here a new one takes the
\* place of one that grive does not see.
ServerAdd(n, t) ==
    WriteServer([remote EXCEPT ![n] =
        [thing |-> t, etag |-> ver + 1, mtime |-> ver + 1, multi |-> FALSE]])

\* Trashed objects leave the listing, with everything below them.
ServerTrash(n) ==
    WriteServer([m \in Node |->
        IF m = n \/ m \in Under[n] THEN NoObj ELSE remote[m]])

\* Moving an object does not change its modification time.
ServerMove(n, m) ==
    WriteServer([remote EXCEPT ![n] = NoObj, ![m] = [remote[n] EXCEPT !.etag = ver + 1]])

-------------------------------------------------------------------------------
(* People.                                                                 *)

Between == phase \in {"idle", "aborted"}

Act(op) ==
    /\ op \in UserOps
    /\ edits < MaxEdits
    /\ edits' = edits + 1
    /\ Between \/ op \in Concurrent
    /\ UNCHANGED <<saved, faults, memory>>

\* A file is created, rewritten or only touched, or a folder is created.  While a
\* run is under way, only files that exist are rewritten.
LocalPut(n, t) ==
    /\ Act("local_put")
    /\ t \in Holds[n]
    /\ DirAt(local, Parent[n])
    /\ local[n] # Dir
    /\ t = Dir => local[n] = Absent
    /\ ~Between => local[n] \in Files /\ t \in Files
    /\ DiskPut(n, t)
    /\ UNCHANGED server

LocalRemove(n) ==
    /\ Act("local_remove")
    /\ Between
    /\ local[n] # Absent
    /\ DiskRemove(n)
    /\ UNCHANGED server

LocalMove(n, m) ==
    /\ Act("local_move")
    /\ Between
    /\ n # m
    /\ local[n] \in Holds[m] \cap Content
    /\ DirAt(local, Parent[m])
    /\ local[m] = Absent
    /\ DiskMove(n, m)
    /\ UNCHANGED server

\* Objects are not created at a path between the listing and the end of the run:
\* grive could then create a second object of the same name.
RemotePut(n, t) ==
    /\ Act("remote_put")
    /\ t \in Holds[n] \ {Bad, remote[n].thing}
    /\ OnServer(Parent[n])
    /\ IF remote[n].thing = Absent
       THEN phase \notin {"resolve", "sync"}
       ELSE t # Dir /\ remote[n].thing # Dir
    /\ ServerPut(n, t)
    /\ UNCHANGED disk

RemoteTrash(n) ==
    /\ Act("remote_trash")
    /\ remote[n].thing # Absent
    /\ ServerTrash(n)
    /\ UNCHANGED disk

RemoteMove(n, m) ==
    /\ Act("remote_move")
    /\ n # m
    /\ remote[n].thing \in Holds[m] \cap Content
    /\ remote[m].thing = Absent
    /\ OnServer(Parent[m])
    /\ phase \notin {"resolve", "sync"}
    /\ ServerMove(n, m)
    /\ UNCHANGED disk

\* A file gets a second parent folder.
RemoteShare(n) ==
    /\ Act("remote_share")
    /\ remote[n].thing \in Files
    /\ ~remote[n].multi
    /\ WriteServer([remote EXCEPT ![n].etag = ver + 1, ![n].multi = TRUE])
    /\ UNCHANGED disk

People ==
    \/ \E n \in Node : \E t \in Holds[n] : LocalPut(n, t) \/ RemotePut(n, t)
    \/ \E n \in Node : LocalRemove(n) \/ RemoteTrash(n) \/ RemoteShare(n)
    \/ \E n, m \in Node : LocalMove(n, m) \/ RemoteMove(n, m)

-------------------------------------------------------------------------------
(* Detecting changes: Drive::DetectChanges.                                *)

\* The end of the process: only the index is left.
Forgotten ==
    /\ st' = NoIndex
    /\ res' = NoTree
    /\ feed' = NoFeed
    /\ pending' = {}
    /\ opt' = {}
    /\ m_ign' = NoIgnore

\* What the scan finds: paths that are not hidden; and what it misses: records of paths
\* gone from a folder that is there.  State::FromLocal does not look into folders that
\* are gone.
Found(n, i) == local[n] # Absent /\ n \notin Hides[i]
Missed(rec, n, i) ==
    rec.has /\ local[n] = Absent /\ DirAt(local, Parent[n]) /\ n \notin Hides[i]

\* m_ign_changed: the last run that saved had an expression, and it was another one.
IgnChanged(i) == ignored \notin {NoIgnore, i}

\* Faulty: -f is forgotten; the change of the expression is.
ScannedUnforced(rec, n, o, i) ==
    [rec EXCEPT !.has  = @ \/ Found(n, i), !.tree = @ \/ (Found(n, i) /\ local[n] = Dir)]
ScannedUnchanged(rec, n, o, i) ==
    [rec EXCEPT !.has  = @ \/ Found(n, i),
                !.tree = @ \/ (Found(n, i) /\ local[n] = Dir),
                !.srv  = IF "force" \in o /\ (Found(n, i) \/ Missed(rec, n, i)) THEN 0 ELSE @]

\* The index as the scan leaves it: a record for everything found, its "tree" for
\* every folder, no "srv_time" for what was found or missed under -f, or missed when
\* the ignore expression changed.
Scanned(rec, n, o, i) ==
    [rec EXCEPT !.has  = @ \/ Found(n, i),
                !.tree = @ \/ (Found(n, i) /\ local[n] = Dir),
                !.srv  = IF \/ "force" \in o /\ (Found(n, i) \/ Missed(rec, n, i))
                            \/ IgnChanged(i) /\ Missed(rec, n, i)
                         THEN 0 ELSE @]

\* Something new or changed is below n.
NewBelow(s, n, i) ==
    \E m \in Under[n] : Found(m, i) /\ Changed(s[m], local[m], ctime[m])

ScannedRes(s, n, i) ==
    IF Found(n, i) THEN FromLocal(s[n], local[n], ctime[n], NewBelow(s, n, i))
    ELSE IF Missed(s[n], n, i) THEN FromDeleted(s[n])
    ELSE NoRes

\* main, State::State, State::Read and State::FromLocal.
Start(o, i) ==
    /\ Between
    /\ phase' = "list"
    /\ opt' = o
    /\ m_ign' = i
    /\ st' = [n \in Node |-> Scanned(index[n], n, o, i)]
    /\ res' = [n \in Node |-> ScannedRes(st', n, i)]
    /\ UNCHANGED <<disk, server, saved, feed, pending, bounds>>

\* Syncer2::GetAll: the objects that are not in the trash.
GetAll ==
    /\ phase = "list"
    /\ phase' = "resolve"
    /\ feed' = remote
    /\ UNCHANGED <<disk, server, saved, st, res, pending, opt, m_ign, bounds>>

\* Resource::GetMD5
GetMD5(n) ==
    IF res[n].md5 = NoMD5 /\ ~IsFolder(res[n]) /\ res[n].exists /\ local[n] \in Files
    THEN local[n]
    ELSE res[n].md5

Listed(n) == feed[n].thing # Absent

\* Faulty: only the scan hides.
HiddenOnDisk(n) == n \in Hides[m_ign] /\ local[n] # Absent

\* State::IsIgnore, for a path whose folder is not hidden.
IsIgnore(n) == n \in Hides[m_ign]

\* Resource::SetState: n becomes r, and what is below it gets the state of r.
SetState(n, r) ==
    [m \in Node |-> IF m = n THEN r
                    ELSE IF m \in Under[n] /\ res[m].src # "none"
                    THEN [res[m] EXCEPT !.state = r.state]
                    ELSE res[m]]

\* State::FromRemote.  An entry waits in m_unresolved until its parent is known.
ListEntry(n) ==
    /\ phase = "resolve"
    /\ Listed(n)
    /\ Res(Parent[n]).id \/ feed[n].multi
    /\ LET e == feed[n]
           old == IF res[n].src = "none" THEN NewResource(e) ELSE res[n]
           r == FromRemote(old, e, Res(Parent[n]).state, GetMD5(n))
           tree == e.thing = Dir /\ IsFolder(old) /\ r.state # "sync"
       IN IF e.multi \/ (IsFolder(Res(Parent[n])) /\ IsIgnore(n))
          THEN /\ feed' = [feed EXCEPT ![n] = NoObj]
               /\ UNCHANGED <<st, res, pending, phase, opt, m_ign>>
          ELSE IF IsFolder(Res(Parent[n]))
          THEN /\ feed' = [feed EXCEPT ![n] = NoObj]
               /\ res' = IF tree THEN SetState(n, r) ELSE [res EXCEPT ![n] = r]
               /\ UNCHANGED <<st, pending, phase, opt, m_ign>>
          ELSE Forgotten /\ phase' = "aborted"
    /\ UNCHANGED <<disk, server, saved, bounds>>

Children(p) == {m \in Node : Parent[m] = p /\ res[m].src # "none"}

\* State::ResolveEntry gives up on entries whose parent never appears.
ResolveEntry ==
    /\ phase = "resolve"
    /\ \A n \in Node : ~(Listed(n) /\ (Res(Parent[n]).id \/ feed[n].multi))
    /\ phase' = "sync"
    /\ feed' = NoFeed
    /\ pending' = Children(Root)
    /\ UNCHANGED <<disk, server, saved, st, res, opt, m_ign, bounds>>

-------------------------------------------------------------------------------
(* The walk: Resource::Sync.                                               *)

\* The order of m_child: what the scan found, then what only the index had, then
\* what only the server had; directory_iterator and the listing have no order.
Rank(n) == CASE res[n].src = "local" -> 1 [] res[n].src = "index" -> 2 [] OTHER -> 3

\* The walk is depth first: the siblings waiting at the deepest level go next.
Turn(n) ==
    /\ phase = "sync"
    /\ n \in pending
    /\ \A m \in pending :
          \/ Parent[m] = Parent[n] /\ Rank(m) >= Rank(n)
          \/ Parent[m] # Parent[n] /\ Parent[n] \in Below(Parent[m])

Died ==
    /\ Forgotten
    /\ phase' = "aborted"

\* Faulty: what is not settled is visited again.
VisitedAgain(n, r) ==
    /\ res' = r
    /\ pending' = IF r[n].state = "sync" THEN (pending \ {n}) \cup Children(n) ELSE pending
    /\ UNCHANGED <<feed, phase, opt, m_ign>>

\* Faulty: the children of a folder follow only if it was in sync before.
VisitedEarly(n, r) ==
    /\ res' = r
    /\ pending' = (pending \ {n}) \cup (IF res[n].state = "sync" THEN Children(n) ELSE {})
    /\ UNCHANGED <<feed, phase, opt, m_ign>>

\* SyncSelf returned: the resources are now r; the children of n follow unless n
\* is deleted.
Visited(n, r) ==
    /\ res' = r
    /\ pending' = (pending \ {n}) \cup
          (IF r[n].state \in {"local_deleted", "remote_deleted"} THEN {} ELSE Children(n))
    /\ UNCHANGED <<feed, phase, opt, m_ign>>

\* Faulty: the records below stay.
SetRecord(s, n, r) ==
    [s EXCEPT ![n] =
        IF IsFolder(r) THEN [NoRec EXCEPT !.has = TRUE, !.ctime = r.ctime, !.tree = TRUE,
                                          !.srv = s[n].srv]
        ELSE [has |-> TRUE, ctime |-> r.ctime, md5 |-> r.md5, size |-> r.size,
              srv |-> s[n].srv, tree |-> FALSE]]

\* Resource::SetIndex on the index s, for a resource that is now r.  A file loses
\* the records below it.
SetIndex(s, n, r) ==
    [m \in Node |->
        IF m = n
        THEN IF IsFolder(r)
             THEN [NoRec EXCEPT !.has = TRUE, !.ctime = r.ctime, !.tree = TRUE,
                                !.srv = s[n].srv]
             ELSE [has |-> TRUE, ctime |-> r.ctime, md5 |-> r.md5, size |-> r.size,
                   srv |-> s[n].srv, tree |-> FALSE]
        ELSE IF m \in Under[n] /\ ~IsFolder(r) THEN NoRec
        ELSE s[m]]

\* Faulty: only the record itself goes.
DeleteRecord(s, n) == [s EXCEPT ![n] = NoRec]

\* Resource::DeleteIndex: the records below go with it.
DeleteIndex(s, n) == [m \in Node |-> IF m = n \/ m \in Under[n] THEN NoRec ELSE s[m]]

SetSrv(s, n, t) == [s EXCEPT ![n].srv = t]

\* The end of SyncSelf for a resource that keeps its record.
Record(n, r) == SetSrv(SetIndex(st, n, r), n, r.mtime)

\* Faulty: a failure is recorded as if it had not been one; the children of what
\* failed are visited.
ThrewRecorded(n) ==
    /\ st' = Record(n, res[n])
    /\ pending' = pending \ {n}
    /\ UNCHANGED <<res, feed, phase, opt, m_ign>>
ThrewOpen(n) == Visited(n, res) /\ UNCHANGED st

\* SyncSelf threw File::Error, filesystem_error or http::Error: nothing of n is
\* updated and its children are not visited.
Threw(n) ==
    /\ pending' = pending \ {n}
    /\ UNCHANGED <<st, res, feed, phase, opt, m_ign>>

\* m_json points into the record of the folder above: it dangles when that was deleted.
HasJson(p) == Res(p).json /\ \A q \in Node : p \in Under[q] => res[q].json
Dry == "dry-run" \in opt

\* ResourceTree::FindBySize and FindByMD5; nothing has the empty checksum.
FindBySize(size) == {m \in Node : res[m].src # "none" /\ res[m].size = size}
FindByMD5(md5)   == {m \in Node : res[m].src # "none" /\ md5 # NoMD5 /\ res[m].md5 = md5}

\* Resource::CheckRename: the deleted resources a new file may have moved from.
Moved(n) ==
    LET other == IF res[n].state = "local_new" THEN "local_deleted" ELSE "remote_deleted"
    IN {m \in FindByMD5(GetMD5(n)) :
            /\ ~IsFolder(res[n])
            /\ res[n].state \in {"local_new", "remote_new"}
            /\ res[n].state = "local_new" =>
                  \E k \in FindBySize(res[n].size) : res[k].state = other
            /\ res[m].state = other}

\* Faulty: a dry run is not.
VisitingWet(n, s) == Turn(n) /\ res[n].state = s /\ Moved(n) = {}

\* n is visited in state s, and it is not a rename.
Visiting(n, s) ==
    /\ Turn(n)
    /\ ~Dry
    /\ res[n].state = s
    /\ Moved(n) = {}

Editable(p) == p \in ReadOnly => ~res[p].id

Readable(n) == ~IsFolder(res[n]) => local[n] \in Files

-------------------------------------------------------------------------------
(* The walk: one action per outcome of Resource::SyncSelf.                 *)

MarkSync(n) ==
    /\ Visiting(n, "sync")
    /\ HasJson(Parent[n])
    /\ st' = Record(n, res[n])
    /\ Visited(n, [res EXCEPT ![n].json = TRUE])
    /\ UNCHANGED <<disk, server, saved, bounds>>

\* The resources after Resource::CheckRename renamed m to n.
Renamed(n, m, r) ==
    [res EXCEPT ![n] = [r EXCEPT !.state = "sync", !.mtime = res[m].mtime, !.json = TRUE],
                ![m] = [@ EXCEPT !.state = "both_deleted", !.json = FALSE]]

\* The index after it.  The record of m hangs on the record of its parent: without
\* one, Resource::DeleteIndex dereferences NULL.
Reindexed(n, m, r) ==
    DeleteIndex(SetSrv(SetIndex(st, n, r), n, res[m].mtime), m)

CanMoveRemote(n) == Res(Parent[n]).id /\ OnServer(Parent[n])

\* Syncer2::Move has no If-Match; an object in the trash is moved there.
MoveRemote(n, m) ==
    /\ Turn(n) /\ ~Dry
    /\ m \in Moved(n)
    /\ res[n].state = "local_new"
    /\ CanMoveRemote(n)
    /\ IF remote[m].thing = Absent THEN UNCHANGED server ELSE ServerMove(m, n)
    /\ LET r == [res[n] EXCEPT !.md5 = GetMD5(n)]
       IN IF HasJson(Parent[m])
          THEN st' = Reindexed(n, m, r) /\ Visited(n, Renamed(n, m, r))
          ELSE Died
    /\ UNCHANGED <<disk, saved, bounds>>

CanMoveLocal(n, m) == local[m] # Absent /\ local[n] # Dir /\ DirAt(local, Parent[n])

MoveLocal(n, m) ==
    /\ Turn(n) /\ ~Dry
    /\ m \in Moved(n)
    /\ res[n].state = "remote_new"
    /\ CanMoveLocal(n, m)
    /\ DiskMove(m, n)
    /\ LET r == [res[n] EXCEPT !.ctime = ctime'[n]]
       IN IF HasJson(Parent[n]) /\ HasJson(Parent[m])
          THEN st' = Reindexed(n, m, r) /\ Visited(n, Renamed(n, m, r))
          ELSE Died
    /\ UNCHANGED <<server, saved, bounds>>

\* What the response of the server sets after an upload: Syncer2::Upload.
Uploaded(n) ==
    [res[n] EXCEPT !.id = TRUE, !.etag = ver', !.mtime = ver', !.state = "sync",
                   !.md5 = MD5Of(remote'[n])]

CanCreate(n) == OnServer(Parent[n]) /\ Readable(n)

SendNew(n) ==
    /\ CanCreate(n)
    /\ ServerAdd(n, IF IsFolder(res[n]) THEN Dir ELSE local[n])

\* The assertions of Syncer2::Create.
MayCreate(n) ==
    /\ IsFolder(Res(Parent[n]))
    /\ Res(Parent[n]).state = "sync"
    /\ ~res[n].id

Create(n) ==
    /\ Visiting(n, "local_new")
    /\ MayCreate(n) /\ Editable(Parent[n])
    /\ SendNew(n)
    /\ st' = Record(n, Uploaded(n))
    /\ Visited(n, [res EXCEPT ![n] = Uploaded(n)])
    /\ UNCHANGED <<disk, saved, bounds>>

\* If-Match guards files only; a folder is sent as metadata.
CanEdit(n) ==
    /\ remote[n].thing # Absent
    /\ ~IsFolder(res[n]) => remote[n].etag = res[n].etag
    /\ Readable(n)

SendEdit(n) ==
    /\ CanEdit(n)
    /\ ServerPut(n, IF IsFolder(res[n]) THEN remote[n].thing ELSE local[n])

\* The assertions of Syncer2::EditContent.
MayEdit(n) == res[n].id /\ Res(Parent[n]).state = "sync"

EditContent(n) ==
    /\ Visiting(n, "local_changed")
    /\ MayEdit(n) /\ Editable(n)
    /\ SendEdit(n)
    /\ st' = Record(n, Uploaded(n))
    /\ Visited(n, [res EXCEPT ![n] = Uploaded(n)])
    /\ UNCHANGED <<disk, saved, bounds>>

\* Faulty: no If-Match.
CanTrashAny(n) == remote[n].thing # Absent

CanTrash(n) == remote[n].thing # Absent /\ remote[n].etag = res[n].etag

DeleteRemote(n) ==
    /\ Visiting(n, "local_deleted")
    /\ CanTrash(n)
    /\ HasJson(Parent[n])
    /\ ServerTrash(n)
    /\ st' = DeleteIndex(st, n)
    /\ Visited(n, [res EXCEPT ![n].json = FALSE])
    /\ UNCHANGED <<disk, saved, bounds>>

\* Faulty: -u is not asked about files that are there.
FetchesChanged(n) ==
    \/ res[n].state = "remote_new" /\ "no-remote-new" \notin opt
    \/ res[n].state = "remote_changed"

\* The download options let the remote copy come.
Fetches(n) ==
    \/ res[n].state = "remote_new" /\ "no-remote-new" \notin opt
    \/ res[n].state = "remote_changed" /\ "upload-only" \notin opt

\* The resource and the record after the path was created on the disk.
Fetched(n) == [res[n] EXCEPT !.ctime = ctime'[n], !.state = "sync", !.json = TRUE]

CanMakeDir(n) == DirAt(local, Parent[n]) /\ local[n] \in {Absent, Dir}

MakeDir(n) ==
    /\ Visiting(n, "remote_new")
    /\ Fetches(n) /\ IsFolder(res[n])
    /\ CanMakeDir(n)
    /\ HasJson(Parent[n])
    /\ IF local[n] = Dir THEN UNCHANGED disk ELSE DiskPut(n, Dir)
    /\ st' = Record(n, Fetched(n))
    /\ Visited(n, [res EXCEPT ![n] = Fetched(n)])
    /\ UNCHANGED <<server, saved, bounds>>

CanOpen(n)     == DirAt(local, Parent[n]) /\ local[n] # Dir
CanDownload(n) == CanOpen(n) /\ remote[n].thing \in Files

Download(n) ==
    /\ Visiting(n, "remote_new") \/ Visiting(n, "remote_changed")
    /\ Fetches(n) /\ ~IsFolder(res[n])
    /\ CanDownload(n)
    /\ HasJson(Parent[n])
    /\ DiskPut(n, remote[n].thing)
    /\ st' = Record(n, Fetched(n))
    /\ Visited(n, [res EXCEPT ![n] = Fetched(n)])
    /\ UNCHANGED <<server, saved, bounds>>

\* A resource that is left as it is: the option forbids to fetch it, or Create or
\* EditContent refused because the server says it is not editable.  The server
\* time is recorded all the same.
LeftAlone(n) ==
    \/ Visiting(n, "remote_new") /\ ~Fetches(n)
    \/ Visiting(n, "remote_changed") /\ ~Fetches(n) /\ ~IsFolder(res[n])
    \/ Visiting(n, "local_new") /\ MayCreate(n) /\ ~Editable(Parent[n])
    \/ Visiting(n, "local_changed") /\ MayEdit(n) /\ ~Editable(n)

Skip(n) ==
    /\ LeftAlone(n)
    /\ st' = IF res[n].json THEN SetSrv(st, n, res[n].mtime) ELSE st
    /\ Visited(n, res)
    /\ UNCHANGED <<disk, server, saved, bounds>>

\* Resource::DeleteLocal renames the path into .trash; the state stays.
DeleteLocal(n) ==
    /\ Visiting(n, "remote_deleted")
    /\ local[n] # Absent
    /\ HasJson(Parent[n])
    /\ DiskRemove(n)
    /\ st' = DeleteIndex(st, n)
    /\ Visited(n, [res EXCEPT ![n].json = FALSE])
    /\ UNCHANGED <<server, saved, bounds>>

ForgetDeleted(n) ==
    /\ Visiting(n, "both_deleted")
    /\ HasJson(Parent[n])
    /\ st' = DeleteIndex(st, n)
    /\ Visited(n, [res EXCEPT ![n].json = FALSE])
    /\ UNCHANGED <<disk, server, saved, bounds>>

\* With a null Syncer only the renames and the records of what is in sync are
\* worked out, in memory.
DryVisit(n) ==
    /\ Turn(n) /\ Dry
    /\ \/ \E m \in Moved(n) :
             /\ Visited(n, [res EXCEPT ![n].state = "sync", ![m].state = "both_deleted"])
             /\ st' = st
       \/ /\ Moved(n) = {}
          /\ res[n].state = "sync" => HasJson(Parent[n])
          /\ ~(res[n].state = "remote_changed" /\ IsFolder(res[n]))
          /\ st' = IF res[n].state = "sync" THEN SetIndex(st, n, res[n]) ELSE st
          /\ Visited(n, [res EXCEPT ![n].json = @ \/ res[n].state = "sync"])
    /\ UNCHANGED <<disk, server, saved, bounds>>

-------------------------------------------------------------------------------
(* The walk: what goes wrong.                                              *)

\* An assertion of SyncSelf, SetIndex or Syncer2 fails, or DeleteIndex
\* dereferences NULL.
AssertFails(n) ==
    \/ Visiting(n, "local_new") /\ ~MayCreate(n)
    \/ Visiting(n, "local_changed") /\ ~MayEdit(n)
    \/ Turn(n) /\ res[n].state = "remote_changed" /\ IsFolder(res[n])
    \/ Turn(n) /\ res[n].state = "sync" /\ ~HasJson(Parent[n])
    \/ /\ \/ Visiting(n, "both_deleted")
          \/ Visiting(n, "local_deleted") /\ CanTrash(n)
          \/ Visiting(n, "remote_deleted") /\ local[n] # Absent
          \/ Visiting(n, "remote_new") /\ Fetches(n) /\ IF IsFolder(res[n])
             THEN CanMakeDir(n) ELSE CanDownload(n)
       /\ ~HasJson(Parent[n])

Abort(n) ==
    /\ AssertFails(n)
    /\ Died
    /\ UNCHANGED <<disk, server, saved, bounds>>

Fault(f) ==
    /\ f \in Faults
    /\ faults < MaxFaults
    /\ faults' = faults + 1
    /\ UNCHANGED edits

\* The call SyncSelf makes for n, if any, succeeds unless something fails.
Calls(n) ==
    \/ \E m \in Moved(n) : Turn(n) /\ ~Dry
    \/ Visiting(n, "local_new") /\ MayCreate(n) /\ Editable(Parent[n])
    \/ Visiting(n, "local_changed") /\ MayEdit(n) /\ Editable(n)
    \/ Visiting(n, "local_deleted")
    \/ Visiting(n, "remote_deleted")
    \/ Visiting(n, "remote_new") /\ Fetches(n)
    \/ Visiting(n, "remote_changed") /\ Fetches(n) /\ ~IsFolder(res[n])

\* The call cannot succeed: 404, 412, a path that is gone.  Where there are several
\* resources n may have moved from, the first found is the one that is tried.
Refused(n) ==
    \/ \E m \in Moved(n) :
          IF res[n].state = "local_new" THEN ~CanMoveRemote(n) ELSE ~CanMoveLocal(n, m)
    \/ /\ Moved(n) = {}
       /\ CASE res[n].state = "local_new"      -> ~CanCreate(n)
            [] res[n].state = "local_changed"  -> ~CanEdit(n)
            [] res[n].state = "local_deleted"  -> ~CanTrash(n)
            [] res[n].state = "remote_deleted" -> local[n] = Absent
            [] OTHER -> IF IsFolder(res[n]) THEN ~CanMakeDir(n) ELSE ~CanDownload(n)

\* http::Download truncates the file before the request is made.
Truncates(n) == Moved(n) = {} /\ Fetches(n) /\ ~IsFolder(res[n]) /\ CanOpen(n)

CallFails(n) ==
    /\ Calls(n)
    /\ \/ Refused(n) /\ UNCHANGED bounds
       \/ Fault("request")
    /\ Threw(n)
    /\ IF Truncates(n) THEN DiskPut(n, Partial) ELSE UNCHANGED disk
    /\ UNCHANGED <<server, saved>>

\* The server did it, but the answer was lost.
LostReply(n) ==
    /\ Calls(n)
    /\ Moved(n) = {}
    /\ Fault("lost_reply")
    /\ \/ res[n].state = "local_new" /\ SendNew(n)
       \/ res[n].state = "local_changed" /\ SendEdit(n)
       \/ res[n].state = "local_deleted" /\ CanTrash(n) /\ ServerTrash(n)
    /\ Threw(n)
    /\ UNCHANGED <<disk, saved>>

\* So it was with a move.  The id leads to the object wherever it is: no other file is left
\* that could be taken for it and move it again.
LostMove(n, m) ==
    /\ Calls(n)
    /\ m \in Moved(n)
    /\ Fault("lost_reply")
    /\ res[n].state = "local_new" /\ CanMoveRemote(n)
    /\ remote[m].thing # Absent /\ ServerMove(m, n)
    /\ \A k \in pending \ {n} : res[k].state = "local_new" => IsFolder(res[k])
    /\ Threw(n)
    /\ UNCHANGED <<disk, saved>>

\* The run ends without saving: killed, AuthFailed, or an exception nobody catches,
\* as from the listing or the change stamp.
Die ==
    /\ ~Between
    /\ Fault("die")
    /\ Forgotten
    /\ phase' = "idle"
    /\ UNCHANGED <<disk, server, saved>>

-------------------------------------------------------------------------------
(* The end of the run.                                                     *)

WalkDone == phase = "sync" /\ pending = {}

\* Drive::UpdateChangeStamp and Drive::SaveState; a dry run saves nothing.
SaveState ==
    /\ WalkDone
    /\ IF Dry THEN UNCHANGED saved ELSE index' = st /\ ignored' = m_ign
    /\ Forgotten
    /\ phase' = "idle"
    /\ UNCHANGED <<disk, server, bounds>>

\* State::Write truncates the file first: a process killed there leaves something
\* State::Read cannot parse, and starts from nothing.
TornSave ==
    /\ WalkDone /\ ~Dry
    /\ Fault("torn_save")
    /\ index' = NoIndex /\ ignored' = NoIgnore
    /\ Forgotten
    /\ phase' = "idle"
    /\ UNCHANGED <<disk, server>>

-------------------------------------------------------------------------------
(* The specification.                                                      *)

SyncSelf(n) ==
    \/ MarkSync(n) \/ Create(n) \/ EditContent(n) \/ DeleteRemote(n)
    \/ MakeDir(n) \/ Download(n) \/ Skip(n) \/ DeleteLocal(n)
    \/ ForgetDeleted(n) \/ DryVisit(n)
    \/ \E m \in Node : MoveRemote(n, m) \/ MoveLocal(n, m) \/ LostMove(n, m)
    \/ CallFails(n) \/ LostReply(n) \/ Abort(n)

Run ==
    \/ \E o \in Options, i \in Ignores : Start(o, i)
    \/ GetAll
    \/ \E n \in Node : ListEntry(n)
    \/ ResolveEntry
    \/ \E n \in Node : SyncSelf(n)
    \/ SaveState

Next == People \/ Run \/ Die \/ TornSave

\* What people may have put on either side before the first run.
Trees ==
    {f \in [Node -> Content \cup {Absent, Dir}] :
        \A n \in Node : f[n] # Absent =>
            f[n] \in Holds[n] /\ \A p \in Node : n \in Under[p] => f[p] = Dir}

Objects(f) ==
    [n \in Node |-> IF f[n] = Absent THEN NoObj
                    ELSE [thing |-> f[n], etag |-> 1, mtime |-> 1, multi |-> FALSE]]

\* The index of a run that left both sides as f.
Records(f) ==
    [n \in Node |-> IF f[n] = Absent THEN NoRec
                    ELSE [has |-> TRUE, ctime |-> 1, srv |-> 1,
                          md5 |-> IF f[n] = Dir THEN Missing ELSE f[n],
                          size |-> SizeOf(f[n]), tree |-> f[n] = Dir]]

Init ==
    /\ local \in Trees
    /\ \/ "synced" \in Starts /\ remote = Objects(local) /\ index = Records(local)
       \/ /\ "fresh" \in Starts
          /\ \E f \in Trees : remote = Objects(f)
          /\ index = NoIndex
    /\ ctime = [n \in Node |-> IF local[n] = Absent THEN 0 ELSE 1]
    /\ lclock = 1 /\ ver = 1
    /\ st = NoIndex /\ res = NoTree /\ feed = NoFeed /\ pending = {}
    /\ ignored = NoIgnore /\ m_ign = NoIgnore
    /\ phase = "idle" /\ opt = {}
    /\ edits = 0 /\ faults = 0

Spec == Init /\ [][Next]_vars

\* A process that was started keeps running, and cron starts the next one.
FairSpec == Spec /\ WF_vars(Run)

Agreed(n) == local[n] = remote[n].thing

-------------------------------------------------------------------------------
(* State properties.                                                       *)

\* No assertion of Resource.cc, State.cc or Syncer2.cc fails, and DeleteIndex never
\* meets a folder without a record.
NoAbort == phase # "aborted"

Rooted(s) ==
    \A n \in Node : s[n].has /\ Parent[n] # Root => s[Parent[n]].has /\ s[Parent[n]].tree

\* Every record, saved or in memory, hangs on the record of its folder, so that the
\* next State::FromLocal can reach it.
IndexRooted == Rooted(index) /\ Rooted(st)

\* What a failed download left behind (http::Download truncates before it asks) is
\* never sent to the server as if somebody had made it.
NoGarbage == \A n \in Node : remote[n].thing # Partial

-------------------------------------------------------------------------------
(* Step properties.                                                        *)

ByGrive == edits' = edits

DiskFiles   == {local[n] : n \in Node} \cap Content
ServerFiles == {remote[n].thing : n \in Node} \cap Content

\* When people only rename files, no content is lost: grive never removes the last
\* copy from the disk and the server.
RenamesKeepFiles ==
    [][ByGrive => (DiskFiles \cup ServerFiles) \subseteq (DiskFiles \cup ServerFiles)']_vars

\* A dry run changes neither the disk, the server nor the index.
DryRunIsDry == [][ByGrive /\ Dry => UNCHANGED <<disk, server, saved>>]_vars

\* -u brings no content to the disk (Resource::SyncSelf skips remote_changed, and
\* main.cc makes it imply no-remote-new).
UploadOnly ==
    [][ByGrive /\ "upload-only" \in opt => DiskFiles' \subseteq DiskFiles]_vars

\* -f never writes over, moves or trashes an object of the listing: State::FromLocal
\* drops the server times, so that every difference is news from the server, for
\* files and for what folders hand down to what is below them.
ForceOnlyPulls ==
    [][ByGrive /\ "force" \in opt =>
          \A n \in Node : res[n].id => remote'[n] = remote[n]]_vars

-------------------------------------------------------------------------------
(* Liveness.                                                               *)

\* Every run ends: each visit shortens the walk, and entries are applied once.
RunEnds == ~Between ~> Between

\* Once people stop, and the failures too, both sides become equal and stay so.
Converges == <>[](\A n \in Node : Agreed(n))

===============================================================================
