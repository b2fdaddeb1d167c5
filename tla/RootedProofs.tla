------------------------------ MODULE RootedProofs ------------------------------
(***************************************************************************)
(* Every record hangs on the record of its folder (IndexRooted), for every *)
(* tree, every index that this holds of at first, and every failure.       *)
(*                                                                         *)
(* A visit records a path without a look at the record of the folder; that *)
(* one is there because of what the scan and the earlier visits did.       *)
(* Three things have to be known in between: what a resource may be in     *)
(* each state (ByItself), what those above it then are (Chained), and      *)
(* which records are there for what has one (Recorded), down to the paths  *)
(* that are still to be visited (Walking).                                 *)
(***************************************************************************)
EXTENDS GriveProofs

Running == ~Between
Gone    == {"local_deleted", "remote_deleted", "both_deleted"}

\* Below a path there is something only if there is a folder.
DiskTree == \A n \in Node : \A m \in Under[n] : local[m] # Absent => local[n] = Dir

\* What a resource is, by itself: something new or deleted here was found here, and what
\* the listing has is neither new nor deleted there.
ByItself(r, walk) ==
    /\ r.kind = "folder" \/ r.json \/ r.exists => r.src # "none"
    /\ r.exists => r.kind \in {"file", "folder"}
    /\ r.exists => r.json \/ (walk /\ r.state \in Gone)
    /\ r.state \in {"local_new", "local_changed", "remote_deleted"} => r.exists
    /\ r.exists => r.state \notin {"local_deleted", "remote_new"}
    /\ r.id => r.state \notin {"local_new", "remote_deleted"}
    /\ r.exists /\ r.state = "both_deleted" => walk /\ ~r.id
    /\ r.state = "remote_deleted" /\ IsFolder(r) => r.md5 = NoMD5

\* What is found as a file does not become a folder while the run is under way.
Fits(r, f) == \A n \in Node : r[n].exists /\ r[n].kind = "file" => f[n] # Dir

\* What is above a resource.
Chained(r, walk) ==
    \A n \in Node : \A m \in Under[n] :
        /\ r[m].src # "none" => IsFolder(r[n])
        /\ r[m].exists => r[n].exists
        /\ r[m].json /\ ~r[n].json => walk /\ r[n].state \in Gone

\* m_json of p and of all above it.
JsonTo(r, p) == \A q \in Node : p = q \/ p \in Under[q] => r[q].json

\* What has an m_json has the record that it points to.
Recorded(s, r) ==
    \A p \in Node : JsonTo(r, p) => s[p].has /\ (IsFolder(r[p]) => s[p].tree)

\* The paths to visit are there, and none is below another.
Queued(r, P) ==
    \A n \in P : r[n].src # "none" /\ \A p \in Node : n \in Under[p] => p \notin P

\* Nothing above them is deleted, and their folder has a record, unless it is left alone or
\* was moved away.
Walking(r, P) ==
    \A n \in P :
        /\ \A p \in Node : n \in Under[p] => r[p].state \notin {"local_deleted", "remote_deleted"}
        /\ \/ Parent[n] = Root
           \/ JsonTo(r, Parent[n])
           \/ r[Parent[n]].state \in {"remote_new", "both_deleted"}

RunInv ==
    /\ \A n \in Node : ByItself(res[n], phase = "sync")
    /\ Fits(res, local)
    /\ Chained(res, phase = "sync")
    /\ Recorded(st, res)
    /\ Queued(res, pending)
    /\ ~Dry => Walking(res, pending)

RootInv ==
    /\ DiskTree /\ Rooted(index) /\ Rooted(st)
    /\ phase # "sync" => pending = {}
    /\ Running => RunInv

-------------------------------------------------------------------------------
(* Records.                                                                *)

\* m_json of p and of all above it, one step up.
LEMMA JsonOneUp ==
    ASSUME NEW r, NEW n \in Node
    PROVE  JsonTo(r, n) <=> r[n].json /\ JsonTo(r, Parent[n])
<1>1. \A q \in Node : n = q \/ n \in Under[q] <=> n = q \/ Parent[n] = q \/ Parent[n] \in Under[q]
  BY TreeAssumption
<1>2. QED
  BY <1>1 DEF JsonTo

LEMMA JsonOfRoot == \A r : JsonTo(r, Root)
BY TreeAssumption DEF JsonTo

\* What the code asks for (HasJson).
LEMMA JsonAsked ==
    ASSUME NEW p \in Node \cup {Root}
    PROVE  HasJson(p) <=> JsonTo(res, p)
<1>1. RootRes.json
  BY DEF RootRes, NoRes
<1>2. p = Root => \A q \in Node : p # q /\ p \notin Under[q]
  BY TreeAssumption
<1>3. QED
  BY <1>1, <1>2, TreeAssumption DEF HasJson, JsonTo, Res

\* n has a record in s2, of a folder or of a file that has nothing below; the others have
\* what they had in s.
RecordedAs(s, s2, n, folder) ==
    /\ s2[n].has /\ (folder <=> s2[n].tree)
    /\ \A m \in Node : m # n =>
          IF m \in Under[n] /\ ~folder THEN ~s2[m].has
          ELSE s2[m].has = s[m].has /\ s2[m].tree = s[m].tree

LEMMA SetSrvShape ==
    ASSUME NEW s \in [Node -> IndexRec], NEW n \in Node, NEW t
    PROVE  \A m \in Node : SetSrv(s, n, t)[m].has = s[m].has /\ SetSrv(s, n, t)[m].tree = s[m].tree
BY DEF SetSrv, IndexRec

LEMMA SetIndexShape ==
    ASSUME NEW s, NEW n \in Node, NEW r
    PROVE  RecordedAs(s, SetIndex(s, n, r), n, IsFolder(r))
<1>1. SetIndex(s, n, r)[n].has /\ (IsFolder(r) <=> SetIndex(s, n, r)[n].tree)
  BY DEF SetIndex, NoRec
<1>2. ASSUME NEW m \in Node, m # n
      PROVE  SetIndex(s, n, r)[m] = IF m \in Under[n] /\ ~IsFolder(r) THEN NoRec ELSE s[m]
  BY <1>2 DEF SetIndex
<1>3. ~NoRec.has
  BY DEF NoRec
<1>4. QED
  BY <1>1, <1>2, <1>3 DEF RecordedAs

\* The end of SyncSelf (Resource::SetIndex and the server time).
LEMMA RecordShape ==
    ASSUME NEW s \in [Node -> IndexRec], NEW n \in Node, NEW r \in ResourceRec, NEW t \in Nat
    PROVE  RecordedAs(s, SetSrv(SetIndex(s, n, r), n, t), n, IsFolder(r))
<1> DEFINE x == SetIndex(s, n, r)
<1>1. x \in [Node -> IndexRec]
  BY SetIndexType
<1>2. RecordedAs(s, x, n, IsFolder(r))
  BY SetIndexShape
<1> HIDE DEF x
<1>3. \A m \in Node : SetSrv(x, n, t)[m].has = x[m].has /\ SetSrv(x, n, t)[m].tree = x[m].tree
  BY <1>1, SetSrvShape
<1>4. RecordedAs(s, SetSrv(x, n, t), n, IsFolder(r))
  BY <1>2, <1>3 DEF RecordedAs
<1>5. QED
  BY <1>4 DEF x

\* A record that is made hangs on that of its folder.
LEMMA RecordRooted ==
    ASSUME NEW s, NEW s2, NEW n \in Node, NEW folder \in BOOLEAN, Rooted(s),
           RecordedAs(s, s2, n, folder),
           Parent[n] # Root => s[Parent[n]].has /\ s[Parent[n]].tree
    PROVE  Rooted(s2)
<1> SUFFICES ASSUME NEW m \in Node, s2[m].has, Parent[m] # Root
             PROVE  s2[Parent[m]].has /\ s2[Parent[m]].tree
  BY DEF Rooted
<1> DEFINE p == Parent[m]
<1>1. p \in Node /\ m \in Under[p] /\ p # m
  BY TreeAssumption
<1>2. CASE m = n
  <2>1. p \notin Under[n]
    BY <1>1, <1>2, TreeAssumption
  <2>2. QED
    BY <1>1, <1>2, <2>1 DEF RecordedAs
<1>3. CASE m # n /\ p = n
  BY <1>1, <1>3 DEF RecordedAs
<1>4. CASE m # n /\ p # n
  <2>1. ~(m \in Under[n] /\ ~folder) /\ s[m].has
    BY <1>4 DEF RecordedAs
  <2>2. p \in Under[n] => m \in Under[n]
    BY TreeAssumption
  <2>3. s[p].has /\ s[p].tree
    BY <2>1 DEF Rooted
  <2>4. QED
    BY <1>1, <1>4, <2>1, <2>2, <2>3 DEF RecordedAs
<1>5. QED
  BY <1>2, <1>3, <1>4

\* With a record go those below it (Resource::DeleteIndex).
LEMMA DeleteRooted ==
    ASSUME NEW s, NEW n \in Node, Rooted(s)
    PROVE  Rooted(DeleteIndex(s, n))
<1>1. \A m \in Node : DeleteIndex(s, n)[m] = IF m = n \/ m \in Under[n] THEN NoRec ELSE s[m]
  BY DEF DeleteIndex
<1>2. ~NoRec.has
  BY DEF NoRec
<1>3. ASSUME NEW m \in Node, Parent[m] # Root, Parent[m] = n \/ Parent[m] \in Under[n]
      PROVE  m \in Under[n]
  BY <1>3, TreeAssumption
<1>4. \A m \in Node : Parent[m] # Root => Parent[m] \in Node
  BY TreeAssumption
<1>5. QED
  BY <1>1, <1>2, <1>3, <1>4 DEF Rooted

LEMMA SameRooted ==
    ASSUME NEW s, NEW s2, Rooted(s),
           \A m \in Node : s2[m].has = s[m].has /\ s2[m].tree = s[m].tree
    PROVE  Rooted(s2)
BY TreeAssumption DEF Rooted

LEMMA NothingRooted == Rooted(NoIndex)
BY DEF Rooted, NoIndex, NoRec

-------------------------------------------------------------------------------
(* The disk.                                                               *)

\* Something is put into a folder, and takes the place of nothing or of a file.
LEMMA PutTree ==
    ASSUME DiskTree, NEW n \in Node, NEW t, DiskPut(n, t), DirAt(local, Parent[n]),
           local[n] # Dir \/ t = Dir, local \in [Node -> LocalThing]
    PROVE  DiskTree'
<1>1. local' = [local EXCEPT ![n] = t]
  BY DEF DiskPut, WriteDisk
<1>2. \A q \in Node : n \in Under[q] => q # n /\ local[q] = Dir
  <2>1. Dir # Absent
    BY ThingAssumption
  <2>2. QED
    BY <2>1, TreeAssumption DEF DiskTree, DirAt
<1>3. QED
  BY <1>1, <1>2, TreeAssumption DEF DiskTree

\* With a folder goes what is in it.
LEMMA RemoveTree ==
    ASSUME DiskTree, NEW n \in Node, DiskRemove(n)
    PROVE  DiskTree'
<1>1. \A m \in Node : local'[m] = IF m = n \/ m \in Under[n] THEN Absent ELSE local[m]
  BY DEF DiskRemove, WriteDisk
<1>2. QED
  BY <1>1, TreeAssumption DEF DiskTree

\* A file moves into a folder.
LEMMA MoveTree ==
    ASSUME DiskTree, NEW n \in Node, NEW m \in Node, n # m, DiskMove(n, m),
           local[n] # Dir, local[m] # Dir, DirAt(local, Parent[m]),
           local \in [Node -> LocalThing]
    PROVE  DiskTree'
<1>1. local' = [local EXCEPT ![n] = Absent, ![m] = local[n]]
  BY DEF DiskMove, WriteDisk
<1>2. \A q \in Node : m \in Under[q] => q # m /\ q # n /\ local[q] = Dir
  <2>1. Dir # Absent
    BY ThingAssumption
  <2>2. QED
    BY <2>1, TreeAssumption DEF DiskTree, DirAt
<1>3. \A q \in Node : n \in Under[q] => q # n
  BY TreeAssumption
<1>4. QED
  BY <1>1, <1>2, <1>3, TreeAssumption DEF DiskTree

\* People put things into folders, and during a run they only rewrite files.
LEMMA PeopleRooted ==
    ASSUME TypeOK, RootInv, People
    PROVE  RootInv'
<1>1. UNCHANGED <<index, st, res, pending, phase, opt>>
  BY DEF People, LocalPut, RemotePut, LocalRemove, RemoteTrash, RemoteShare, LocalMove,
         RemoteMove, Act, memory, saved
<1>2. DiskTree' /\ (Running => Fits(res, local'))
  <2>1. local \in [Node -> LocalThing]
    BY DEF TypeOK, DiskOK
  <2>2. CASE UNCHANGED disk
    BY <2>2 DEF disk, RootInv, DiskTree, RunInv
  <2>3. ASSUME NEW n \in Node, NEW t \in Holds[n], LocalPut(n, t)
        PROVE  DiskTree' /\ (Running => Fits(res, local'))
    <3>1. DiskTree'
      BY <2>1, <2>3, PutTree DEF LocalPut, RootInv
    <3>2. Running => t # Dir /\ local' = [local EXCEPT ![n] = t]
      BY <2>3, ThingAssumption DEF LocalPut, Running, DiskPut, WriteDisk
    <3>3. QED
      BY <2>1, <3>1, <3>2 DEF RootInv, RunInv, Fits
  <2>4. ASSUME NEW n \in Node, LocalRemove(n)
        PROVE  DiskTree' /\ (Running => Fits(res, local'))
    BY <2>4, RemoveTree DEF LocalRemove, RootInv, Running
  <2>5. ASSUME NEW n \in Node, NEW m \in Node, LocalMove(n, m)
        PROVE  DiskTree' /\ (Running => Fits(res, local'))
    <3>1. local[n] # Dir /\ local[m] # Dir
      BY <2>5, ThingAssumption DEF LocalMove, Files
    <3>2. QED
      BY <2>1, <2>5, <3>1, MoveTree DEF LocalMove, RootInv, Running
  <2>6. QED
    BY <2>2, <2>3, <2>4, <2>5 DEF People, RemotePut, RemoteTrash, RemoteShare, RemoteMove
<1>3. Between' = Between /\ Dry' = Dry /\ Rooted(index)' /\ Rooted(st)'
  BY <1>1 DEF Between, Dry, Rooted, RootInv
<1>4. QED
  BY <1>1, <1>2, <1>3 DEF RootInv, RunInv, Running

-------------------------------------------------------------------------------
(* The scan.                                                               *)

\* What is found is in folders that are found, and has a record.
LEMMA StartRooted ==
    ASSUME TypeOK, RootInv, NEW o \in Options, NEW i \in Ignores, Start(o, i)
    PROVE  RootInv'
<1>1. /\ phase' = "list" /\ pending' = {} /\ UNCHANGED <<local, ctime, index>>
      /\ \A n \in Node : st'[n] = Scanned(index[n], n, o, i)
      /\ \A n \in Node : res'[n] = ScannedRes(st', n, i)
  BY DEF Start, Between, RootInv, disk, saved
<1>2. ASSUME NEW n \in Node
      PROVE  /\ st'[n].has = (index[n].has \/ Found(n, i))
             /\ st'[n].tree = (index[n].tree \/ (Found(n, i) /\ local[n] = Dir))
  BY <1>1 DEF Scanned, TypeOK, IndexRec
<1>3. \A n \in Node : \A m \in Under[n] : m \notin Hides[i] => n \notin Hides[i]
  BY GriveAssumption, TreeAssumption DEF Ignores
<1>4. \A n \in Node : \A m \in Under[n] : Found(m, i) => Found(n, i) /\ local[n] = Dir
  BY <1>3, ThingAssumption DEF Found, RootInv, DiskTree
<1>5. \A n \in Node : \A m \in Under[n] :
         Missed(st'[m], m, i) => Found(n, i) /\ local[n] = Dir
  <2> SUFFICES ASSUME NEW n \in Node, NEW m \in Under[n], Missed(st'[m], m, i)
               PROVE  Found(n, i) /\ local[n] = Dir
    OBVIOUS
  <2>1. DirAt(local, Parent[m]) /\ m \notin Hides[i] /\ m \in Node
    BY TreeAssumption DEF Missed
  <2>2. Parent[m] = n \/ (Parent[m] \in Node /\ Parent[m] \in Under[n])
    BY <2>1, TreeAssumption
  <2>3. local[n] = Dir
    BY <2>1, <2>2, TreeAssumption, ThingAssumption DEF DirAt, RootInv, DiskTree
  <2>4. QED
    BY <1>3, <2>1, <2>3, ThingAssumption DEF Found
<1>6. ASSUME NEW n \in Node
      PROVE  \/ /\ Found(n, i) /\ local[n] = Bad
                /\ res'[n].src = "local" /\ ~res'[n].exists /\ res'[n].json /\ ~res'[n].id
                /\ res'[n].kind = "bad" /\ res'[n].state = "sync"
             \/ /\ Found(n, i) /\ local[n] # Bad
                /\ res'[n].src = "local" /\ res'[n].exists /\ res'[n].json /\ ~res'[n].id
                /\ res'[n].kind = IF local[n] = Dir THEN "folder" ELSE "file"
                /\ res'[n].state \in {"local_new", "remote_deleted"}
                /\ local[n] = Dir => res'[n].md5 = NoMD5
             \/ /\ ~Found(n, i) /\ Missed(st'[n], n, i)
                /\ res'[n].src = "index" /\ ~res'[n].exists /\ res'[n].json /\ ~res'[n].id
                /\ res'[n].kind = IF st'[n].tree THEN "folder" ELSE "file"
                /\ res'[n].state = "both_deleted"
             \/ ~Found(n, i) /\ ~Missed(st'[n], n, i) /\ res'[n] = NoRes
  <2>1. CASE Found(n, i) /\ local[n] = Bad
    BY <1>1, <2>1, ZenonT(30) DEF ScannedRes, FromLocal, NoRes
  <2>2. CASE Found(n, i) /\ local[n] # Bad
    <3>1. local[n] = Dir => ~Hashed(st'[n], local[n], ctime[n])
      BY ThingAssumption DEF Hashed
    <3>2. \A rec, c, b : ~Hashed(rec, Dir, c) => FromLocal(rec, Dir, c, b).md5 = NoMD5
      BY ThingAssumption DEF FromLocal
    <3>3. ASSUME NEW rec, NEW t, NEW c, NEW b, t # Bad
          PROVE  /\ FromLocal(rec, t, c, b).src = "local" /\ FromLocal(rec, t, c, b).exists
                 /\ FromLocal(rec, t, c, b).json /\ ~FromLocal(rec, t, c, b).id
                 /\ FromLocal(rec, t, c, b).kind = IF t = Dir THEN "folder" ELSE "file"
                 /\ FromLocal(rec, t, c, b).state \in {"local_new", "remote_deleted"}
      BY <3>3 DEF FromLocal
    <3>4. res'[n] = FromLocal(st'[n], local[n], ctime[n], NewBelow(st', n, i))
      BY <1>1, <2>2 DEF ScannedRes
    <3>5. QED
      BY <2>2, <3>1, <3>2, <3>3, <3>4
  <2>3. CASE ~Found(n, i) /\ Missed(st'[n], n, i)
    BY <1>1, <2>3 DEF ScannedRes, FromDeleted, NoRes
  <2>4. CASE ~Found(n, i) /\ ~Missed(st'[n], n, i)
    BY <1>1, <2>4 DEF ScannedRes
  <2>5. QED
    BY <2>1, <2>2, <2>3, <2>4
<1>7. /\ NoRes.src = "none" /\ ~NoRes.exists /\ ~NoRes.json /\ ~NoRes.id
      /\ NoRes.kind = "" /\ NoRes.state = "unknown"
  BY DEF NoRes
<1>8. ASSUME NEW n \in Node
      PROVE  ByItself(res'[n], FALSE) /\ (res'[n].exists /\ res'[n].kind = "file" => local[n] # Dir)
  BY <1>6, <1>7 DEF ByItself, Gone, IsFolder, NoRes
<1>9. Chained(res', FALSE)
  <2> SUFFICES ASSUME NEW n \in Node, NEW m \in Under[n]
               PROVE  /\ res'[m].src # "none" => IsFolder(res'[n])
                      /\ res'[m].exists => res'[n].exists
                      /\ res'[m].json => res'[n].json
    BY DEF Chained
  <2>1. m \in Node
    BY TreeAssumption
  <2>2. res'[m].src # "none" \/ res'[m].exists \/ res'[m].json => Found(m, i) \/ Missed(st'[m], m, i)
    BY <1>6, <1>7, <2>1
  <2>3. CASE Found(m, i) \/ Missed(st'[m], m, i)
    <3>1. Found(n, i) /\ local[n] = Dir /\ local[n] # Bad
      BY <1>4, <1>5, <2>3, ThingAssumption
    <3>2. QED
      BY <1>6, <3>1 DEF IsFolder
  <2>4. QED
    BY <2>2, <2>3
<1>10. Recorded(st', res')
  <2> SUFFICES ASSUME NEW n \in Node, res'[n].json
               PROVE  st'[n].has /\ (IsFolder(res'[n]) => st'[n].tree)
    BY DEF Recorded, JsonTo
  <2>1. CASE Found(n, i)
    <3>1. IsFolder(res'[n]) => local[n] = Dir
      BY <1>6, <1>7, <2>1 DEF IsFolder
    <3>2. QED
      BY <1>2, <2>1, <3>1
  <2>2. CASE ~Found(n, i)
    BY <1>6, <1>7, <2>2 DEF IsFolder, Missed
  <2>3. QED
    BY <2>1, <2>2
<1>11. Rooted(st')
  <2> SUFFICES ASSUME NEW n \in Node, st'[n].has, Parent[n] # Root
               PROVE  st'[Parent[n]].has /\ st'[Parent[n]].tree
    BY DEF Rooted
  <2>1. Parent[n] \in Node /\ n \in Under[Parent[n]]
    BY TreeAssumption
  <2>2. CASE Found(n, i)
    BY <1>2, <1>4, <2>1, <2>2
  <2>3. CASE index[n].has
    BY <1>2, <2>1, <2>3 DEF RootInv, Rooted
  <2>4. QED
    BY <1>2, <2>2, <2>3
<1>12. DiskTree' /\ Rooted(index)' /\ Fits(res', local') /\ (\A n \in Node : ByItself(res'[n], FALSE))
  BY <1>1, <1>8 DEF RootInv, DiskTree, Rooted, Fits
<1>13. QED
  BY <1>1, <1>9, <1>10, <1>11, <1>12 DEF RootInv, RunInv, Rooted, Queued, Walking

-------------------------------------------------------------------------------
(* The listing.                                                            *)

\* The listing comes (Syncer2::GetAll).
LEMMA GetAllRooted ==
    ASSUME RootInv, GetAll
    PROVE  RootInv'
BY DEF GetAll, RootInv, RunInv, Running, Between, DiskTree, Rooted, Dry, disk, saved

\* What is in the synchronised folder itself is below nothing (State::Sync).
LEMMA ResolveRooted ==
    ASSUME RootInv, ResolveEntry
    PROVE  RootInv'
<1>1. /\ phase = "resolve" /\ phase' = "sync" /\ pending' = Children(Root)
      /\ UNCHANGED <<local, index, st, res, opt>>
  BY DEF ResolveEntry, disk, saved
<1>2. RunInv
  BY <1>1 DEF RootInv, Running, Between
<1>3. Queued(res', pending')
  BY <1>1, TreeAssumption DEF Queued, Children
<1>4. Walking(res', pending')
  BY <1>1, TreeAssumption DEF Walking, Children
<1>5. Chained(res', TRUE) /\ \A n \in Node : ByItself(res'[n], TRUE)
  BY <1>1, <1>2 DEF RunInv, Chained, ByItself
<1>6. QED
  BY <1>1, <1>2, <1>3, <1>4, <1>5 DEF RootInv, RunInv, Rooted, DiskTree

\* When a run ends, a record that was saved hangs where it hung in memory.
LEMMA EndRooted ==
    ASSUME RootInv, Forgotten, phase' \in {"idle", "aborted"}, DiskTree',
           index' \in {index, st, NoIndex}
    PROVE  RootInv'
BY NothingRooted DEF RootInv, Forgotten, Running, Between, Rooted

\* What an entry does not touch.
LEMMA EntryKeeps ==
    ASSUME NEW r \in ResourceRec, NEW e, NEW p, NEW md5
    PROVE  /\ FromRemote(r, e, p, md5).src = r.src
           /\ FromRemote(r, e, p, md5).kind = r.kind
           /\ FromRemote(r, e, p, md5).exists = r.exists
           /\ FromRemote(r, e, p, md5).json = r.json
BY DEF FromRemote, ResourceRec

\* An entry makes of a resource one that can be, below a folder that has one.
LEMMA EntryByItself ==
    ASSUME NEW r \in ResourceRec, NEW e, NEW p, NEW md5, ByItself(r, FALSE),
           p \notin {"local_new", "remote_deleted"},
           r.exists => p \notin {"local_deleted", "remote_new"}
    PROVE  ByItself(FromRemote(r, e, p, md5), FALSE)
<1> DEFINE x == FromRemote(r, e, p, md5)
<1>1. /\ x.src = r.src /\ x.kind = r.kind /\ x.exists = r.exists /\ x.json = r.json
      /\ x.state = IF e.thing = Dir /\ IsFolder(r) THEN RemoteFolderState(r, e)
                   ELSE RemoteFileState(r, e, p, md5)
  BY DEF FromRemote, ResourceRec
<1>2. x.state \in IF r.exists THEN {"sync", "remote_changed", "local_changed", r.state}
                  ELSE {"sync", "remote_new", "local_deleted"}
  <2>1. RemoteFolderState(r, e) \in IF r.exists THEN {"sync"} ELSE {"remote_new", "local_deleted"}
    BY DEF RemoteFolderState
  <2>2. RemoteFileState(r, e, p, md5) \in
           IF r.exists THEN {"sync", "remote_changed", "local_changed", r.state}
           ELSE {"sync", "remote_new", "local_deleted"}
    BY DEF RemoteFileState
  <2>3. QED
    BY <1>1, <2>1, <2>2
<1>3. x.state \notin {"local_new", "remote_deleted"}
  <2>1. RemoteFolderState(r, e) \notin {"local_new", "remote_deleted"}
    BY DEF RemoteFolderState
  <2>2. RemoteFileState(r, e, p, md5) \notin {"local_new", "remote_deleted"}
    BY DEF RemoteFileState
  <2>3. QED
    BY <1>1, <2>1, <2>2
<1> HIDE DEF x
<1>4. ASSUME r.exists PROVE ByItself(x, FALSE)
  BY <1>1, <1>2, <1>3, <1>4 DEF ByItself, Gone
<1>5. ASSUME ~r.exists PROVE ByItself(x, FALSE)
  BY <1>1, <1>2, <1>3, <1>5 DEF ByItself
<1>6. QED
  BY <1>4, <1>5 DEF x

\* An entry adds a resource to a folder, or changes the states of what is below one that is
\* not on the disk.
LEMMA ListRooted ==
    ASSUME TypeOK, RootInv, NEW n \in Node, ListEntry(n)
    PROVE  RootInv'
<1> DEFINE e == feed[n]
           old == IF res[n].src = "none" THEN NewResource(e) ELSE res[n]
           p == Res(Parent[n])
           r == FromRemote(old, e, p.state, GetMD5(n))
           tree == e.thing = Dir /\ IsFolder(old) /\ r.state # "sync"
<1>1. phase = "resolve" /\ UNCHANGED <<local, index>> /\ (p.id \/ e.multi)
  BY DEF ListEntry, disk, saved
<1>2. RunInv /\ pending = {} /\ phase # "sync" /\ DiskTree'
  BY <1>1 DEF RootInv, Running, Between, DiskTree
<1>3. \/ Forgotten /\ phase' = "aborted"
      \/ UNCHANGED <<st, res, pending, phase, opt>>
      \/ /\ ~e.multi /\ IsFolder(p)
         /\ res' = IF tree THEN SetState(n, r) ELSE [res EXCEPT ![n] = r]
         /\ UNCHANGED <<st, pending, phase, opt>>
  BY DEF ListEntry
<1>4. CASE Forgotten /\ phase' = "aborted"
  BY <1>1, <1>2, <1>4, EndRooted
<1>5. CASE UNCHANGED <<st, res, pending, phase, opt>>
  BY <1>1, <1>2, <1>5 DEF RootInv, RunInv, Running, Between, Rooted, Dry
<1>6. CASE /\ ~e.multi /\ IsFolder(p)
           /\ res' = IF tree THEN SetState(n, r) ELSE [res EXCEPT ![n] = r]
           /\ UNCHANGED <<st, pending, phase, opt>>
  <2>1. res \in [Node -> ResourceRec] /\ e \in RemoteObj
    BY DEF TypeOK, MemoryOK
  <2>2. /\ NewResource(e) \in ResourceRec /\ ByItself(NewResource(e), FALSE)
        /\ NewResource(e).src = "remote" /\ NewResource(e).exists = FALSE
        /\ NewResource(e).json = FALSE
    BY NoResType DEF NewResource, NoRes, ResourceRec, ByItself
  <2>3. /\ old \in ResourceRec /\ ByItself(old, FALSE) /\ old.src # "none"
        /\ old.exists = res[n].exists /\ old.json = res[n].json
        /\ res[n].src # "none" => old = res[n]
    <3>1. res[n] \in ResourceRec /\ ByItself(res[n], FALSE)
      BY <1>2, <2>1 DEF RunInv
    <3>2. res[n].src = "none" => ~res[n].exists /\ ~res[n].json
      BY <3>1 DEF ByItself
    <3>3. res[n].exists \in BOOLEAN /\ res[n].json \in BOOLEAN
      BY <3>1 DEF ResourceRec
    <3>4. CASE res[n].src = "none"
      BY <2>2, <3>2, <3>3, <3>4
    <3>5. CASE res[n].src # "none"
      BY <3>1, <3>5
    <3>6. QED
      BY <3>4, <3>5
  <2>4. /\ p.state \notin {"local_new", "remote_deleted"}
        /\ res[n].exists => p.state \notin {"local_deleted", "remote_new"}
    <3>1. CASE Parent[n] = Root
      BY <3>1 DEF Res, RootRes, NoRes
    <3>2. CASE Parent[n] # Root
      <4>1. Parent[n] \in Node /\ n \in Under[Parent[n]] /\ p = res[Parent[n]]
        BY <3>2, TreeAssumption DEF Res
      <4>2. ByItself(p, FALSE) /\ p.id /\ (res[n].exists => p.exists)
        BY <1>1, <1>2, <1>6, <4>1 DEF RunInv, Chained
      <4>3. QED
        BY <4>2 DEF ByItself
    <3>3. QED
      BY <3>1, <3>2
  <2> HIDE DEF old, p
  <2>5. /\ ByItself(r, FALSE) /\ r.src = old.src /\ r.kind = old.kind /\ r.exists = old.exists
        /\ r.json = old.json /\ r \in ResourceRec
    <3>1. ByItself(r, FALSE)
      BY <2>3, <2>4, EntryByItself
    <3>2. p.state \in State
      BY <2>1, TreeAssumption, ZenonT(30) DEF p, Res, RootRes, NoRes, State, ResourceRec
    <3>3. r \in ResourceRec
      BY <2>1, <2>3, <3>2, FromRemoteType
    <3>4. r.src = old.src /\ r.kind = old.kind /\ r.exists = old.exists /\ r.json = old.json
      BY <2>3, EntryKeeps
    <3>5. QED
      BY <3>1, <3>3, <3>4
  <2>6. tree => ~old.exists /\ r.state \in {"remote_new", "local_deleted"}
    BY <2>3 DEF FromRemote, RemoteFolderState, ResourceRec
  <2> HIDE DEF r
  <2>7. /\ res'[n] = r
        /\ \A m \in Node : m # n =>
              \/ res'[m] = res[m]
              \/ tree /\ m \in Under[n] /\ res'[m] = [res[m] EXCEPT !.state = r.state]
    BY <1>6, <2>1 DEF SetState
  <2>8. ASSUME NEW m \in Node
        PROVE  /\ ByItself(res'[m], FALSE)
               /\ res'[m].exists = res[m].exists /\ res'[m].json = res[m].json
               /\ res[m].src # "none" => res'[m].kind = res[m].kind
               /\ m # n => res'[m].src = res[m].src /\ res'[m].kind = res[m].kind
    <3>1. CASE m = n
      BY <2>3, <2>5, <2>7, <3>1
    <3>2. CASE m # n /\ res'[m] = res[m]
      BY <1>2, <3>2 DEF RunInv
    <3>3. CASE m # n /\ tree /\ m \in Under[n] /\ res'[m] = [res[m] EXCEPT !.state = r.state]
      <4>1. ~res[m].exists
        BY <1>2, <2>3, <2>6, <3>3 DEF RunInv, Chained
      <4>2. ByItself(res[m], FALSE) /\ res[m] \in ResourceRec
        BY <1>2, <2>1 DEF RunInv
      <4>3. /\ res'[m].exists = res[m].exists /\ res'[m].json = res[m].json
            /\ res'[m].kind = res[m].kind /\ res'[m].src = res[m].src
            /\ res'[m].state = r.state
        BY <3>3, <4>2 DEF ResourceRec
      <4>4. ByItself(res'[m], FALSE)
        BY <2>6, <3>3, <4>1, <4>2, <4>3 DEF ByItself
      <4>5. QED
        BY <4>3, <4>4
    <3>4. QED
      BY <2>7, <3>1, <3>2, <3>3
  <2>9. Chained(res', FALSE)
    <3> SUFFICES ASSUME NEW q \in Node, NEW m \in Under[q]
                 PROVE  /\ res'[m].src # "none" => IsFolder(res'[q])
                        /\ res'[m].exists => res'[q].exists
                        /\ res'[m].json => res'[q].json
      BY DEF Chained
    <3>1. m \in Node
      BY TreeAssumption
    <3>2. /\ res[m].src # "none" => IsFolder(res[q])
          /\ res[m].exists => res[q].exists
          /\ res[m].json => res[q].json
      BY <1>2 DEF RunInv, Chained
    <3>3. IsFolder(res[q]) => res[q].src # "none"
      BY <1>2 DEF RunInv, ByItself, IsFolder
    <3>4. IsFolder(res[q]) => IsFolder(res'[q])
      BY <2>8, <3>3 DEF IsFolder
    <3>5. m = n => IsFolder(res[q])
      <4>1. CASE Parent[n] = q
        BY <1>6, <4>1, TreeAssumption DEF p, Res
      <4>2. CASE m = n /\ Parent[n] # q
        <5>1. Parent[n] \in Under[q] /\ Parent[n] \in Node /\ Parent[n] # Root
          BY <4>2, TreeAssumption
        <5>2. IsFolder(res[Parent[n]])
          BY <1>6, <5>1 DEF p, Res
        <5>3. res[Parent[n]].src # "none"
          BY <1>2, <5>1, <5>2 DEF RunInv, ByItself, IsFolder
        <5>4. QED
          BY <1>2, <5>1, <5>3 DEF RunInv, Chained
      <4>3. QED
        BY <4>1, <4>2
    <3>6. QED
      BY <2>8, <3>1, <3>2, <3>4, <3>5
  <2>10. Recorded(st', res')
    <3> SUFFICES ASSUME NEW q \in Node, JsonTo(res', q)
                 PROVE  st[q].has /\ (IsFolder(res'[q]) => st[q].tree)
      BY <1>6 DEF Recorded
    <3>1. JsonTo(res, q)
      BY <2>8 DEF JsonTo
    <3>2. st[q].has /\ (IsFolder(res[q]) => st[q].tree)
      BY <1>2, <3>1 DEF RunInv, Recorded
    <3>3. res[q].src # "none"
      BY <1>2, <3>1 DEF RunInv, ByItself, JsonTo
    <3>4. QED
      BY <2>8, <3>2, <3>3 DEF IsFolder
  <2>11. Fits(res', local')
    <3>1. \A m \in Node : res[m].exists => res[m].src # "none"
      BY <1>2 DEF RunInv, ByItself
    <3>2. QED
      BY <1>1, <1>2, <2>8, <3>1 DEF RunInv, Fits
  <2>12. pending' = {} /\ phase' # "sync" /\ Rooted(st') /\ Rooted(index')
    BY <1>1, <1>2, <1>6 DEF RootInv
  <2>13. QED
    BY <1>2, <2>8, <2>9, <2>10, <2>11, <2>12 DEF RootInv, RunInv, Rooted, Queued, Walking
<1>7. QED
  BY <1>3, <1>4, <1>5, <1>6

-------------------------------------------------------------------------------
(* The walk.                                                               *)

\* What a visit leaves of a resource, and of the states above what waits.
Alike(r) ==
    \A m \in Node : r[m].src = res[m].src /\ r[m].kind = res[m].kind /\ r[m].exists = res[m].exists

Deleted == {"local_deleted", "remote_deleted"}

\* The paths to visit after a visit to n: siblings of n and of those above it, and children.
LEMMA QueueAfter ==
    ASSUME TypeOK, RootInv, NEW n \in Node, Turn(n), NEW P, Queued(res, pending),
           P \subseteq (pending \ {n}) \cup Children(n)
    PROVE  /\ Queued(res, P)
           /\ \A k \in pending \ {n} : k \in Node /\ k \notin Under[n]
           /\ \A k \in Children(n) : k \in Node /\ Parent[k] = n
                  /\ \A p \in Node : k \in Under[p] => p = n \/ n \in Under[p]
<1>1. n \in pending /\ pending \subseteq Node
  BY DEF Turn, TypeOK, MemoryOK
<1>2. \A k \in pending \ {n} : k \in Node /\ k \notin Under[n]
  BY <1>1 DEF Queued
<1>3. \A k \in Children(n) : k \in Node /\ Parent[k] = n /\ res[k].src # "none" /\ k \in Under[n]
         /\ \A p \in Node : k \in Under[p] => p = n \/ n \in Under[p]
  BY TreeAssumption DEF Children
<1>4. ASSUME NEW k \in P, NEW p \in P, k \in Under[p]
      PROVE  FALSE
  <2>1. CASE k \in pending \ {n} /\ p \in pending
    BY <1>1, <1>4, <2>1 DEF Queued
  <2>2. CASE k \in pending \ {n} /\ p \in Children(n)
    <3>1. k \in Under[n]
      BY <1>3, <1>4, <2>2, TreeAssumption
    <3>2. QED
      BY <1>2, <2>2, <3>1
  <2>3. CASE k \in Children(n)
    <3>1. p = n \/ n \in Under[p]
      BY <1>1, <1>3, <1>4, <2>3
    <3>2. CASE p \in Children(n)
      BY <1>3, <3>1, <3>2, TreeAssumption
    <3>3. CASE p \in pending \ {n}
      BY <1>1, <3>1, <3>3 DEF Queued
    <3>4. QED
      BY <3>2, <3>3
  <2>4. QED
    BY <2>1, <2>2, <2>3
<1>5. QED
  BY <1>2, <1>3, <1>4 DEF Queued

\* The folder of what waits has what the walk needs of it.
Open(r, p) == p = Root \/ JsonTo(r, p) \/ r[p].state \in {"remote_new", "both_deleted"}

\* A visit that returns, by what it does to resources and records.
LEMMA VisitRooted ==
    ASSUME TypeOK, RootInv, NEW n \in Node, Turn(n), NEW r, Visited(n, r),
           DiskTree', index' = index, Fits(r, local'),
           Alike(r), Rooted(st'), Recorded(st', r),
           \A m \in Node : ByItself(r[m], TRUE),
           \A q \in Node : \A m \in Under[q] : r[m].json /\ ~r[q].json => r[q].state \in Gone,
           ~Dry => /\ \A m \in Node : r[m].state \in Deleted => res[m].state \in Deleted
                   /\ \A k \in pending \ {n} : Open(res, Parent[k]) => Open(r, Parent[k])
                   /\ r[n].state \in Deleted \/ Open(r, n) \/ ~IsFolder(res[n])
    PROVE  RootInv'
<1>1. phase = "sync" /\ n \in pending /\ RunInv
  BY DEF Turn, RootInv, Running, Between
<1>2. /\ res' = r /\ phase' = "sync" /\ opt' = opt
      /\ pending' = (pending \ {n}) \cup (IF r[n].state \in Deleted THEN {} ELSE Children(n))
  BY <1>1 DEF Visited, Deleted
<1>3. /\ Queued(res, pending')
      /\ \A k \in pending \ {n} : k \in Node
      /\ \A k \in Children(n) : k \in Node /\ Parent[k] = n
             /\ \A p \in Node : k \in Under[p] => p = n \/ n \in Under[p]
  <2>1. pending' \subseteq (pending \ {n}) \cup Children(n)
    BY <1>2
  <2>2. QED
    BY <1>1, <2>1, QueueAfter DEF RunInv
<1>4. Queued(r, pending')
  BY <1>2, <1>3 DEF Queued, Alike
<1>5. Chained(r, TRUE)
  <2>1. \A q \in Node : \A m \in Under[q] : m \in Node
    BY TreeAssumption
  <2>2. QED
    BY <1>1, <2>1 DEF RunInv, Chained, Alike, IsFolder
<1>6. ASSUME ~Dry PROVE Walking(r, pending')
  <2>1. Walking(res, pending)
    BY <1>1, <1>6 DEF RunInv
  <2>2. ASSUME NEW k \in pending \ {n}
        PROVE  /\ \A p \in Node : k \in Under[p] => r[p].state \notin Deleted
               /\ Open(r, Parent[k])
    BY <1>6, <2>1 DEF Walking, Deleted, Open
  <2>3. ASSUME NEW k \in Children(n), r[n].state \notin Deleted
        PROVE  /\ \A p \in Node : k \in Under[p] => r[p].state \notin Deleted
               /\ Open(r, Parent[k])
    <3>1. \A p \in Node : n \in Under[p] => r[p].state \notin Deleted
      BY <1>1, <1>6, <2>1 DEF Walking, Deleted
    <3>2. IsFolder(res[n])
      BY <1>1, TreeAssumption DEF RunInv, Chained, Children
    <3>3. QED
      BY <1>3, <1>6, <2>3, <3>1, <3>2
  <2>4. QED
    BY <1>2, <2>2, <2>3 DEF Walking, Deleted, Open
<1>7. QED
  BY <1>1, <1>2, <1>4, <1>5, <1>6 DEF RootInv, RunInv, Rooted, Dry

\* The folder of what is visited has its record, if m_json says so.
LEMMA AboveRecorded ==
    ASSUME RunInv, NEW n \in pending, n \in Node, JsonTo(res, Parent[n]), Parent[n] # Root
    PROVE  st[Parent[n]].has /\ st[Parent[n]].tree
<1>1. Parent[n] \in Node /\ n \in Under[Parent[n]]
  BY TreeAssumption
<1>2. IsFolder(res[Parent[n]])
  BY <1>1 DEF RunInv, Queued, Chained
<1>3. QED
  BY <1>1, <1>2 DEF RunInv, Recorded

\* A visit that settles n and records it.
LEMMA RecordVisit ==
    ASSUME TypeOK, RootInv, NEW n \in Node, Turn(n), NEW q \in ResourceRec,
           Visited(n, [res EXCEPT ![n] = q]),
           q.src = res[n].src, q.kind = res[n].kind, q.exists = res[n].exists,
           q.json, q.state = "sync", res[n].state \notin Gone,
           JsonTo(res, Parent[n]), RecordedAs(st, st', n, IsFolder(res[n])),
           DiskTree', index' = index, Fits(res, local')
    PROVE  RootInv'
<1> DEFINE r == [res EXCEPT ![n] = q]
<1>1. phase = "sync" /\ n \in pending /\ RunInv
  BY DEF Turn, RootInv, Running, Between
<1>2. r[n] = q /\ \A m \in Node : m # n => r[m] = res[m]
  BY DEF TypeOK, MemoryOK
<1> HIDE DEF r
<1>3. Alike(r) /\ Fits(r, local')
  BY <1>2 DEF Alike, Fits
<1>4. \A m \in Node : ByItself(r[m], TRUE)
  <2>1. ByItself(res[n], TRUE) /\ \A m \in Node : ByItself(res[m], TRUE)
    BY <1>1 DEF RunInv
  <2>2. q.src # "none"
    BY <1>1 DEF RunInv, Queued
  <2>3. ByItself(q, TRUE)
    BY <2>1, <2>2 DEF ByItself
  <2>4. QED
    BY <1>2, <2>1, <2>3
<1>5. Rooted(st')
  <2>1. Parent[n] # Root => st[Parent[n]].has /\ st[Parent[n]].tree
    BY <1>1, AboveRecorded
  <2>2. IsFolder(res[n]) \in BOOLEAN /\ Rooted(st)
    BY DEF IsFolder, RootInv
  <2> DEFINE folder == IsFolder(res[n])
  <2> HIDE DEF folder
  <2>3. RecordedAs(st, st', n, folder) /\ folder \in BOOLEAN
    BY <2>2 DEF folder
  <2>4. QED
    BY <2>1, <2>2, <2>3, RecordRooted
<1>6. \A p \in Node : n \in Under[p] => res[p].json
  BY TreeAssumption DEF JsonTo
<1>7. \A p \in Node : \A m \in Under[p] : r[m].json /\ ~r[p].json => r[p].state \in Gone
  <2>1. \A p \in Node : \A m \in Under[p] : m \in Node
    BY TreeAssumption
  <2>2. QED
    BY <1>1, <1>2, <1>6, <2>1 DEF RunInv, Chained
<1>8. ASSUME NEW p \in Node, JsonTo(r, p) PROVE st'[p].has /\ (IsFolder(r[p]) => st'[p].tree)
  <2>1. CASE p = n
    BY <1>2, <2>1 DEF RecordedAs, IsFolder
  <2>2. CASE p # n
    <3>1. res[p].json
      BY <1>2, <1>8, <2>2 DEF JsonTo
    <3>2. p \in Under[n] => IsFolder(res[n]) /\ res[n].json
      BY <1>1, <3>1 DEF RunInv, ByItself, Chained
    <3>3. JsonTo(res, p)
      BY <1>2, <1>8, <2>2, <3>2 DEF JsonTo
    <3>4. st[p].has /\ (IsFolder(res[p]) => st[p].tree)
      BY <1>1, <3>3 DEF RunInv, Recorded
    <3>5. QED
      BY <1>2, <2>2, <3>2, <3>4 DEF RecordedAs
  <2>3. QED
    BY <2>1, <2>2
<1>9. \A p : JsonTo(res, p) => JsonTo(r, p)
  BY <1>2 DEF JsonTo
<1>10. \A k \in pending \ {n} : Open(res, Parent[k]) => Open(r, Parent[k])
  <2>1. \A k \in pending \ {n} : k \in Node /\ k \notin Under[n]
    BY <1>1, QueueAfter DEF RunInv
  <2>2. \A k \in pending \ {n} : Parent[k] # n /\ (Parent[k] # Root => Parent[k] \in Node)
    BY <2>1, TreeAssumption
  <2>3. QED
    BY <1>2, <1>9, <2>2 DEF Open
<1>11. Open(r, n)
  <2>1. JsonTo(r, Parent[n]) /\ r[n].json
    BY <1>2, <1>9
  <2>2. QED
    BY <2>1, JsonOneUp DEF Open
<1>12. \A m \in Node : r[m].state \in Deleted => res[m].state \in Deleted
  BY <1>2 DEF Deleted
<1>13. Visited(n, r) /\ Recorded(st', r)
  BY <1>8 DEF r, Recorded
<1>14. QED
  BY <1>3, <1>4, <1>5, <1>7, <1>10, <1>11, <1>12, <1>13, VisitRooted

\* A visit that changes neither a resource nor what records there are.
LEMMA LeftVisit ==
    ASSUME TypeOK, RootInv, NEW n \in Node, Turn(n), Visited(n, res),
           \A m \in Node : st'[m].has = st[m].has /\ st'[m].tree = st[m].tree,
           DiskTree', index' = index, Fits(res, local'),
           ~Dry => res[n].state \in Deleted \/ Open(res, n) \/ ~IsFolder(res[n])
    PROVE  RootInv'
<1>1. phase = "sync" /\ RunInv /\ Rooted(st)
  BY DEF Turn, RootInv, Running, Between
<1>2. Rooted(st')
  BY <1>1, SameRooted
<1>3. Recorded(st', res)
  BY <1>1 DEF RunInv, Recorded
<1>4. /\ \A m \in Node : ByItself(res[m], TRUE)
      /\ \A q \in Node : \A m \in Under[q] :
            res[m].json /\ ~res[q].json => res[q].state \in Gone
  BY <1>1 DEF RunInv, Chained
<1>5. Alike(res)
  BY DEF Alike
<1>6. QED
  BY <1>2, <1>3, <1>4, <1>5, VisitRooted

\* A visit that forgets n.
LEMMA DeleteVisit ==
    ASSUME TypeOK, RootInv, NEW n \in Node, Turn(n), res[n].state \in Gone,
           Visited(n, [res EXCEPT ![n].json = FALSE]), st' = DeleteIndex(st, n),
           DiskTree', index' = index, Fits(res, local')
    PROVE  RootInv'
<1> DEFINE r == [res EXCEPT ![n].json = FALSE]
<1>1. phase = "sync" /\ n \in pending /\ RunInv /\ Rooted(st)
  BY DEF Turn, RootInv, Running, Between
<1>2. /\ r[n].src = res[n].src /\ r[n].kind = res[n].kind /\ r[n].exists = res[n].exists
      /\ r[n].state = res[n].state /\ r[n].id = res[n].id /\ r[n].md5 = res[n].md5
      /\ ~r[n].json
      /\ \A m \in Node : m # n => r[m] = res[m]
  BY DEF TypeOK, MemoryOK, ResourceRec
<1> HIDE DEF r
<1>3. Alike(r) /\ Fits(r, local')
  BY <1>2 DEF Alike, Fits
<1>4. \A m \in Node : ByItself(r[m], TRUE)
  <2>1. ByItself(res[n], TRUE) /\ \A m \in Node : ByItself(res[m], TRUE)
    BY <1>1 DEF RunInv
  <2>2. ByItself(r[n], TRUE)
    BY <1>2, <2>1 DEF ByItself, IsFolder
  <2>3. QED
    BY <1>2, <2>1, <2>2
<1>5. Rooted(st')
  BY <1>1, DeleteRooted
<1>6. \A p \in Node : \A m \in Under[p] : r[m].json /\ ~r[p].json => r[p].state \in Gone
  <2>1. \A p \in Node : \A m \in Under[p] : m \in Node
    BY TreeAssumption
  <2>2. QED
    BY <1>1, <1>2, <2>1 DEF RunInv, Chained
<1>7. ASSUME NEW p \in Node, JsonTo(r, p) PROVE st'[p].has /\ (IsFolder(r[p]) => st'[p].tree)
  <2>1. p # n /\ p \notin Under[n]
    BY <1>2, <1>7 DEF JsonTo
  <2>2. JsonTo(res, p)
    BY <1>2, <1>7 DEF JsonTo
  <2>3. st[p].has /\ (IsFolder(res[p]) => st[p].tree)
    BY <1>1, <2>2 DEF RunInv, Recorded
  <2>4. QED
    BY <1>2, <2>1, <2>3 DEF DeleteIndex
<1>8. ASSUME NEW k \in pending \ {n}, Open(res, Parent[k]) PROVE Open(r, Parent[k])
  <2>1. k \in Node /\ k \notin Under[n]
    BY <1>1, QueueAfter DEF RunInv
  <2>2. Parent[k] # n /\ Parent[k] \notin Under[n] /\ (Parent[k] # Root => Parent[k] \in Node)
    BY <2>1, TreeAssumption
  <2>3. JsonTo(res, Parent[k]) => JsonTo(r, Parent[k])
    BY <1>2, <2>2 DEF JsonTo
  <2>4. QED
    BY <1>2, <1>8, <2>2, <2>3 DEF Open
<1>9. \A m \in Node : r[m].state = res[m].state
  BY <1>2
<1>10. r[n].state \in Deleted \/ Open(r, n)
  BY <1>2 DEF Deleted, Gone, Open
<1>11. Visited(n, r) /\ Recorded(st', r)
  BY <1>7 DEF r, Recorded
<1>12. QED
  BY <1>3, <1>4, <1>5, <1>6, <1>8, <1>9, <1>10, <1>11, VisitRooted

\* What n may have moved from: no folder that is on the disk, and not a folder of n.
LEMMA MovedFrom ==
    ASSUME TypeOK, RunInv, phase = "sync", NEW n \in pending, n \in Node, NEW m \in Moved(n)
    PROVE  /\ m \in Node /\ m # n /\ ~IsFolder(res[n]) /\ res[m].src # "none"
           /\ res[n].state \in {"local_new", "remote_new"} /\ res[n].state \notin Gone
           /\ res[m].state = IF res[n].state = "local_new" THEN "local_deleted"
                             ELSE "remote_deleted"
           /\ m \notin Under[n]
           /\ res[m].exists => res[m].kind = "file" /\ ~res[m].id
           /\ ~Dry => n \notin Under[m]
<1>1. /\ m \in Node /\ res[m].src # "none" /\ res[m].md5 # NoMD5 /\ ~IsFolder(res[n])
      /\ res[n].state \in {"local_new", "remote_new"}
      /\ res[m].state = IF res[n].state = "local_new" THEN "local_deleted" ELSE "remote_deleted"
  BY DEF Moved, FindByMD5
<1>2. ByItself(res[m], TRUE)
  BY <1>1 DEF RunInv
<1>3. m \notin Under[n]
  BY <1>1 DEF RunInv, Chained
<1>4. res[m].exists => res[m].kind = "file" /\ ~res[m].id
  BY <1>1, <1>2 DEF ByItself, IsFolder
<1>5. ~Dry => n \notin Under[m]
  BY <1>1 DEF RunInv, Walking
<1>6. m # n /\ res[n].state \notin Gone
  BY <1>1 DEF Gone
<1>7. QED
  BY <1>1, <1>3, <1>4, <1>5, <1>6

\* A visit that works out a rename of m to n.
LEMMA RenameVisit ==
    ASSUME TypeOK, RootInv, ~Dry, NEW n \in Node, Turn(n), NEW m \in Moved(n),
           NEW q \in ResourceRec, Visited(n, Renamed(n, m, q)), st' = Reindexed(n, m, q),
           q.src = res[n].src, q.kind = res[n].kind, q.exists = res[n].exists,
           JsonTo(res, Parent[n]), DiskTree', index' = index, Fits(res, local')
    PROVE  RootInv'
<1> DEFINE r == Renamed(n, m, q)
           s == SetSrv(SetIndex(st, n, q), n, res[m].mtime)
<1>1. phase = "sync" /\ n \in pending /\ RunInv /\ Rooted(st) /\ st \in [Node -> IndexRec]
  BY DEF Turn, RootInv, Running, Between, TypeOK, MemoryOK
<1>2. /\ m \in Node /\ m # n /\ ~IsFolder(res[n]) /\ res[m].src # "none"
      /\ res[m].state \in Deleted /\ m \notin Under[n] /\ n \notin Under[m]
      /\ res[m].exists => ~res[m].id
  BY <1>1, MovedFrom DEF Deleted
<1>3. /\ r[n].src = res[n].src /\ r[n].kind = res[n].kind /\ r[n].exists = res[n].exists
      /\ r[n].state = "sync" /\ r[n].json
      /\ r[m].src = res[m].src /\ r[m].kind = res[m].kind /\ r[m].exists = res[m].exists
      /\ r[m].state = "both_deleted" /\ ~r[m].json /\ r[m].id = res[m].id
      /\ \A k \in Node : k # n /\ k # m => r[k] = res[k]
  BY <1>2 DEF Renamed, TypeOK, MemoryOK, ResourceRec
<1>4. RecordedAs(st, s, n, FALSE) /\ st' = DeleteIndex(s, m)
  <2>1. RecordedAs(st, s, n, IsFolder(q))
    BY <1>1, <1>2, RecordShape DEF TypeOK, MemoryOK, ResourceRec
  <2>2. IsFolder(q) = FALSE
    BY <1>2 DEF IsFolder
  <2>3. QED
    BY <2>1, <2>2 DEF Reindexed
<1>5. Visited(n, r)
  OBVIOUS
<1> HIDE DEF r, s
<1>6. Alike(r) /\ Fits(r, local')
  BY <1>3 DEF Alike, Fits
<1>7. \A k \in Node : ByItself(r[k], TRUE)
  <2>1. \A k \in Node : ByItself(res[k], TRUE)
    BY <1>1 DEF RunInv
  <2>2. res[n].src # "none" /\ ByItself(res[n], TRUE) /\ ByItself(res[m], TRUE)
    BY <1>1, <1>2, <2>1 DEF RunInv, Queued
  <2>3. ByItself(r[n], TRUE)
    BY <1>3, <2>2 DEF ByItself
  <2>4. ByItself(r[m], TRUE)
    BY <1>2, <1>3, <2>2 DEF ByItself, Gone
  <2>5. QED
    BY <1>3, <2>1, <2>3, <2>4
<1>8. Rooted(st')
  <2>1. Parent[n] # Root => st[Parent[n]].has /\ st[Parent[n]].tree
    BY <1>1, AboveRecorded
  <2>2. Rooted(s)
    BY <1>1, <1>4, <2>1, RecordRooted
  <2>3. QED
    BY <1>2, <1>4, <2>2, DeleteRooted
<1>9. \A p \in Node : n \in Under[p] => res[p].json
  BY TreeAssumption DEF JsonTo
<1>10. \A p \in Node : \A k \in Under[p] : r[k].json /\ ~r[p].json => r[p].state \in Gone
  <2>1. \A p \in Node : \A k \in Under[p] : k \in Node
    BY TreeAssumption
  <2>2. \A p \in Node : \A k \in Under[p] : res[k].json /\ ~res[p].json => res[p].state \in Gone
    BY <1>1 DEF RunInv, Chained
  <2>3. "both_deleted" \in Gone
    BY DEF Gone
  <2>4. QED
    BY <1>3, <1>9, <2>1, <2>2, <2>3
<1>11. ASSUME NEW p \in Node, JsonTo(r, p) PROVE st'[p].has /\ (IsFolder(r[p]) => st'[p].tree)
  <2>1. p # m /\ p \notin Under[m]
    BY <1>2, <1>3, <1>11 DEF JsonTo
  <2>2. st'[p] = s[p]
    BY <1>4, <2>1 DEF DeleteIndex
  <2>3. CASE p = n
    <3>1. s[n].has
      BY <1>4 DEF RecordedAs
    <3>2. ~IsFolder(r[n])
      BY <1>2, <1>3 DEF IsFolder
    <3>3. QED
      BY <2>2, <2>3, <3>1, <3>2
  <2>4. CASE p # n
    <3>1. r[p] = res[p] /\ res[p].json
      BY <1>3, <1>11, <2>1, <2>4 DEF JsonTo
    <3>2. p \notin Under[n]
      BY <1>1, <1>2, <3>1 DEF RunInv, ByItself, Chained
    <3>3. JsonTo(res, p)
      BY <1>2, <1>3, <1>11, <2>1, <2>4, <3>2 DEF JsonTo
    <3>4. st[p].has /\ (IsFolder(res[p]) => st[p].tree)
      BY <1>1, <3>3 DEF RunInv, Recorded
    <3>5. s[p].has = st[p].has /\ s[p].tree = st[p].tree
      BY <1>4, <2>4, <3>2 DEF RecordedAs
    <3>6. QED
      BY <2>2, <3>1, <3>4, <3>5
  <2>5. QED
    BY <2>3, <2>4
<1>12. ASSUME NEW k \in pending \ {n}, Open(res, Parent[k]) PROVE Open(r, Parent[k])
  <2>1. k \in Node /\ k \notin Under[n]
    BY <1>1, QueueAfter DEF RunInv
  <2>2. k \notin Under[m]
    BY <1>1, <1>2, <2>1 DEF RunInv, Walking, Deleted
  <2>3. /\ Parent[k] # n /\ Parent[k] # m
        /\ Parent[k] \notin Under[n] /\ Parent[k] \notin Under[m]
        /\ Parent[k] # Root => Parent[k] \in Node
    BY <1>2, <2>1, <2>2, TreeAssumption
  <2>4. JsonTo(res, Parent[k]) => JsonTo(r, Parent[k])
    BY <1>2, <1>3, <2>3 DEF JsonTo
  <2>5. QED
    BY <1>3, <1>12, <2>3, <2>4 DEF Open
<1>13. \A k \in Node : r[k].state \in Deleted => res[k].state \in Deleted
  <2>1. "sync" \notin Deleted /\ "both_deleted" \notin Deleted
    BY DEF Deleted
  <2>2. QED
    BY <1>3, <2>1
<1>14. Recorded(st', r)
  BY <1>11 DEF Recorded
<1>15. QED
  BY <1>2, <1>5, <1>6, <1>7, <1>8, <1>10, <1>12, <1>13, <1>14, VisitRooted

\* The same without a Syncer.
LEMMA DryRenameVisit ==
    ASSUME TypeOK, RootInv, Dry, NEW n \in Node, Turn(n), NEW m \in Moved(n),
           Visited(n, [res EXCEPT ![n].state = "sync", ![m].state = "both_deleted"]),
           st' = st, index' = index, local' = local
    PROVE  RootInv'
<1> DEFINE r == [res EXCEPT ![n].state = "sync", ![m].state = "both_deleted"]
<1>1. phase = "sync" /\ n \in pending /\ RunInv /\ Rooted(st') /\ DiskTree'
  BY DEF Turn, RootInv, Running, Between, Rooted, DiskTree
<1>2. /\ m \in Node /\ m # n /\ res[n].state \notin Gone
      /\ res[m].exists => ~res[m].id
  BY <1>1, MovedFrom
<1>3. /\ r[n].state = "sync" /\ r[m].state = "both_deleted"
      /\ \A k \in Node : /\ r[k].src = res[k].src /\ r[k].kind = res[k].kind
                         /\ r[k].exists = res[k].exists /\ r[k].json = res[k].json
                         /\ r[k].id = res[k].id
                         /\ k # n /\ k # m => r[k] = res[k]
  <2>1. res \in [Node -> ResourceRec]
    BY DEF TypeOK, MemoryOK
  <2>2. /\ r[n] = [res[n] EXCEPT !.state = "sync"] /\ r[m] = [res[m] EXCEPT !.state = "both_deleted"]
        /\ \A k \in Node : k # n /\ k # m => r[k] = res[k]
    BY <1>2, <2>1
  <2>3. res[n] \in ResourceRec /\ res[m] \in ResourceRec
    BY <1>2, <2>1
  <2> HIDE DEF r
  <2>4. /\ r[n].state = "sync" /\ r[n].src = res[n].src /\ r[n].kind = res[n].kind
        /\ r[n].exists = res[n].exists /\ r[n].json = res[n].json /\ r[n].id = res[n].id
    BY <2>2, <2>3 DEF ResourceRec
  <2>5. /\ r[m].state = "both_deleted" /\ r[m].src = res[m].src /\ r[m].kind = res[m].kind
        /\ r[m].exists = res[m].exists /\ r[m].json = res[m].json /\ r[m].id = res[m].id
    BY <2>2, <2>3 DEF ResourceRec
  <2>6. QED
    BY <2>2, <2>4, <2>5
<1> HIDE DEF r
<1>4. Alike(r) /\ Fits(r, local')
  BY <1>1, <1>3 DEF Alike, Fits, RunInv
<1>5. \A k \in Node : ByItself(r[k], TRUE)
  <2>1. \A k \in Node : ByItself(res[k], TRUE)
    BY <1>1 DEF RunInv
  <2>2. ByItself(res[n], TRUE) /\ ByItself(res[m], TRUE)
    BY <1>2, <2>1
  <2>3. ByItself(r[n], TRUE)
    BY <1>2, <1>3, <2>2 DEF ByItself
  <2>4. ByItself(r[m], TRUE)
    BY <1>2, <1>3, <2>2 DEF ByItself, Gone
  <2>5. QED
    BY <1>3, <2>1, <2>3, <2>4
<1>6. Recorded(st', r)
  BY <1>1, <1>3 DEF RunInv, Recorded, JsonTo, IsFolder
<1>7. \A p \in Node : \A k \in Under[p] : r[k].json /\ ~r[p].json => r[p].state \in Gone
  <2>1. \A p \in Node : \A k \in Under[p] : k \in Node
    BY TreeAssumption
  <2>2. "both_deleted" \in Gone
    BY DEF Gone
  <2>3. QED
    BY <1>1, <1>2, <1>3, <2>1, <2>2 DEF RunInv, Chained
<1>8. Visited(n, r)
  BY DEF r
<1>9. QED
  BY <1>1, <1>4, <1>5, <1>6, <1>7, <1>8, VisitRooted

\* A visit that throws leaves n and all below it.
LEMMA ThrewRooted ==
    ASSUME RootInv, NEW n \in Node, phase = "sync", Threw(n), index' = index, DiskTree',
           Fits(res, local')
    PROVE  RootInv'
<1>1. /\ pending' \subseteq pending /\ st' = st /\ res' = res /\ phase' = phase /\ opt' = opt
      /\ RunInv
  BY DEF Threw, RootInv, Running, Between
<1>2. Queued(res, pending') /\ (~Dry => Walking(res, pending'))
  BY <1>1 DEF RunInv, Queued, Walking
<1>3. QED
  BY <1>1, <1>2 DEF RootInv, RunInv, Rooted, Running, Between, Dry

\* The folder of what is sent, or moved on the server, has its record, though the code does
\* not look.
LEMMA SentFromRecord ==
    ASSUME RunInv, phase = "sync", ~Dry, NEW n \in pending, n \in Node,
           res[n].state \in {"local_new", "local_changed"},
           Res(Parent[n]).state = "sync" \/ Res(Parent[n]).id
    PROVE  JsonTo(res, Parent[n]) /\ res[n].json
<1>1. res[n].exists /\ res[n].json
  BY DEF RunInv, ByItself, Gone
<1>2. CASE Parent[n] = Root
  BY <1>1, <1>2, JsonOfRoot
<1>3. CASE Parent[n] # Root
  <2>1. Parent[n] \in Node /\ n \in Under[Parent[n]] /\ Res(Parent[n]) = res[Parent[n]]
    BY <1>3, TreeAssumption DEF Res
  <2>2. res[Parent[n]].exists
    BY <1>1, <2>1 DEF RunInv, Chained
  <2>3. res[Parent[n]].state \notin {"remote_new", "both_deleted"}
    BY <2>1, <2>2 DEF RunInv, ByItself
  <2>4. QED
    BY <1>1, <1>3, <2>3 DEF RunInv, Walking
<1>4. QED
  BY <1>2, <1>3

\* One visit.
LEMMA SyncSelfRooted ==
    ASSUME TypeOK, TypeOK', RootInv, NEW n \in Node, SyncSelf(n)
    PROVE  RootInv'
<1>1. phase = "sync" /\ RunInv /\ DiskTree /\ Rooted(st)
  BY VisitNeedsWalk DEF RootInv, Running, Between
<1>2. /\ MemoryOK /\ DiskOK /\ ServerOK /\ DiskOK' /\ ServerOK' /\ st \in [Node -> IndexRec]
      /\ res \in [Node -> ResourceRec] /\ local \in [Node -> LocalThing]
  BY DEF TypeOK, MemoryOK, DiskOK
<1>3. Parent[n] \in Node \cup {Root} /\ (HasJson(Parent[n]) => JsonTo(res, Parent[n]))
  BY JsonAsked, TreeAssumption
<1>4. UNCHANGED disk => DiskTree' /\ Fits(res, local')
  BY <1>1 DEF disk, DiskTree, RunInv
<1>5. \A q \in ResourceRec : q.kind = res[n].kind =>
         RecordedAs(st, Record(n, q), n, IsFolder(res[n]))
  <2> SUFFICES ASSUME NEW q \in ResourceRec, q.kind = res[n].kind
               PROVE  RecordedAs(st, Record(n, q), n, IsFolder(res[n]))
    OBVIOUS
  <2>1. q.mtime \in Nat
    BY DEF ResourceRec
  <2>2. RecordedAs(st, Record(n, q), n, IsFolder(q))
    BY <1>2, <2>1, RecordShape DEF Record
  <2>3. IsFolder(q) = IsFolder(res[n])
    BY DEF IsFolder
  <2>4. QED
    BY <2>2, <2>3
<1>6. Turn(n) => n \in pending
  BY DEF Turn
<1>7. CASE MarkSync(n)
  <2> DEFINE q == [res[n] EXCEPT !.json = TRUE]
  <2>1. /\ Turn(n) /\ res[n].state = "sync" /\ HasJson(Parent[n]) /\ st' = Record(n, res[n])
        /\ Visited(n, [res EXCEPT ![n].json = TRUE]) /\ UNCHANGED disk /\ index' = index
    BY <1>7 DEF MarkSync, Visiting, saved
  <2>2. /\ q \in ResourceRec /\ q.src = res[n].src /\ q.kind = res[n].kind
        /\ q.exists = res[n].exists /\ q.json /\ q.state = res[n].state
    BY <1>2 DEF ResourceRec
  <2>3. [res EXCEPT ![n].json = TRUE] = [res EXCEPT ![n] = q]
    OBVIOUS
  <2>4. RecordedAs(st, st', n, IsFolder(res[n])) /\ res[n].state \notin Gone
    BY <1>2, <1>5, <2>1 DEF Gone
  <2> HIDE DEF q
  <2>5. QED
    BY <1>3, <1>4, <2>1, <2>2, <2>3, <2>4, RecordVisit
<1>8. CASE Create(n) \/ EditContent(n)
  <2> DEFINE q == Uploaded(n)
  <2>1. /\ Turn(n) /\ ~Dry /\ res[n].state \in {"local_new", "local_changed"}
        /\ Res(Parent[n]).state = "sync" /\ st' = Record(n, Uploaded(n))
        /\ Visited(n, [res EXCEPT ![n] = Uploaded(n)]) /\ UNCHANGED disk /\ index' = index
    BY <1>8 DEF Create, EditContent, MayCreate, MayEdit, Visiting, saved
  <2>2. JsonTo(res, Parent[n]) /\ res[n].json
    BY <1>1, <1>6, <2>1, SentFromRecord
  <2>3. /\ q \in ResourceRec /\ q.src = res[n].src /\ q.kind = res[n].kind
        /\ q.exists = res[n].exists /\ q.json /\ q.state = "sync"
    <3>1. q \in ResourceRec
      BY <1>2, UploadedType
    <3>2. /\ q.src = res[n].src /\ q.kind = res[n].kind /\ q.exists = res[n].exists
          /\ q.json = res[n].json /\ q.state = "sync"
      BY <1>2 DEF Uploaded, ResourceRec
    <3>3. QED
      BY <2>2, <3>1, <3>2
  <2>4. RecordedAs(st, st', n, IsFolder(res[n])) /\ res[n].state \notin Gone
    BY <1>5, <2>1, <2>3 DEF Gone
  <2> HIDE DEF q
  <2>5. Visited(n, [res EXCEPT ![n] = q])
    BY <2>1 DEF q
  <2>6. QED
    BY <1>4, <2>1, <2>2, <2>3, <2>4, <2>5, RecordVisit
<1>9. CASE MakeDir(n) \/ Download(n)
  <2> DEFINE q == Fetched(n)
  <2>1. /\ Turn(n) /\ res[n].state \in {"remote_new", "remote_changed"}
        /\ HasJson(Parent[n]) /\ st' = Record(n, Fetched(n))
        /\ Visited(n, [res EXCEPT ![n] = Fetched(n)]) /\ index' = index
    BY <1>9 DEF MakeDir, Download, Visiting, saved
  <2>2. /\ q \in ResourceRec /\ q.src = res[n].src /\ q.kind = res[n].kind
        /\ q.exists = res[n].exists /\ q.json /\ q.state = "sync"
    BY <1>2, FetchedType DEF Fetched, ResourceRec
  <2>3. RecordedAs(st, st', n, IsFolder(res[n])) /\ res[n].state \notin Gone
    BY <1>5, <2>1, <2>2 DEF Gone
  <2>4. DiskTree' /\ Fits(res, local')
    <3>1. CASE UNCHANGED disk
      BY <1>4, <3>1
    <3>2. ASSUME IsFolder(res[n]), CanMakeDir(n), DiskPut(n, Dir)
          PROVE  DiskTree' /\ Fits(res, local')
      <4>1. DiskTree'
        BY <1>1, <1>2, <3>2, PutTree DEF CanMakeDir
      <4>2. local' = [local EXCEPT ![n] = Dir] /\ res[n].kind # "file"
        BY <3>2 DEF DiskPut, WriteDisk, IsFolder
      <4>3. QED
        BY <1>1, <1>2, <4>1, <4>2 DEF RunInv, Fits
    <3>3. ASSUME CanDownload(n), DiskPut(n, remote[n].thing)
          PROVE  DiskTree' /\ Fits(res, local')
      <4>1. DiskTree'
        BY <1>1, <1>2, <3>3, PutTree DEF CanDownload, CanOpen
      <4>2. local' = [local EXCEPT ![n] = remote[n].thing] /\ remote[n].thing # Dir
        BY <3>3, ThingAssumption DEF DiskPut, WriteDisk, CanDownload
      <4>3. QED
        BY <1>1, <1>2, <4>1, <4>2 DEF RunInv, Fits
    <3>4. QED
      BY <1>9, <3>1, <3>2, <3>3 DEF MakeDir, Download
  <2> HIDE DEF q
  <2>5. Visited(n, [res EXCEPT ![n] = q])
    BY <2>1 DEF q
  <2>6. QED
    BY <1>3, <2>1, <2>2, <2>3, <2>4, <2>5, RecordVisit
<1>10. CASE Skip(n)
  <2>1. /\ Turn(n) /\ ~Dry /\ Visited(n, res) /\ UNCHANGED disk /\ index' = index
        /\ st' = IF res[n].json THEN SetSrv(st, n, res[n].mtime) ELSE st
    BY <1>10 DEF Skip, LeftAlone, Visiting, saved
  <2>2. \A m \in Node : st'[m].has = st[m].has /\ st'[m].tree = st[m].tree
    BY <1>2, <2>1, SetSrvShape
  <2>3. Open(res, n) \/ ~IsFolder(res[n])
    <3>1. CASE res[n].state = "remote_new"
      BY <3>1 DEF Open
    <3>2. CASE ~IsFolder(res[n])
      BY <3>2
    <3>3. CASE /\ res[n].state \in {"local_new", "local_changed"}
               /\ Res(Parent[n]).state = "sync"
      BY <1>1, <1>6, <2>1, <3>3, SentFromRecord, JsonOneUp DEF Open
    <3>4. QED
      BY <1>10, <3>1, <3>2, <3>3 DEF Skip, LeftAlone, Visiting, MayCreate, MayEdit
  <2>4. QED
    BY <1>4, <2>1, <2>2, <2>3, LeftVisit
<1>11. CASE DeleteRemote(n) \/ DeleteLocal(n) \/ ForgetDeleted(n)
  <2>1. /\ Turn(n) /\ st' = DeleteIndex(st, n) /\ index' = index
        /\ Visited(n, [res EXCEPT ![n].json = FALSE]) /\ res[n].state \in Gone
        /\ UNCHANGED disk \/ DiskRemove(n)
    BY <1>11 DEF DeleteRemote, DeleteLocal, ForgetDeleted, Visiting, saved, Gone
  <2>2. CASE UNCHANGED disk
    BY <1>4, <2>1, <2>2, DeleteVisit
  <2>3. CASE DiskRemove(n)
    <3>1. DiskTree'
      BY <1>1, <2>3, RemoveTree
    <3>2. Fits(res, local')
      BY <1>1, <2>3, ThingAssumption DEF RunInv, Fits, DiskRemove, WriteDisk
    <3>3. QED
      BY <2>1, <3>1, <3>2, DeleteVisit
  <2>4. QED
    BY <2>1, <2>2, <2>3
<1>12. ASSUME NEW m \in Node, MoveRemote(n, m) PROVE RootInv'
  <2> DEFINE q == [res[n] EXCEPT !.md5 = GetMD5(n)]
  <2>1. /\ Turn(n) /\ ~Dry /\ m \in Moved(n) /\ res[n].state = "local_new"
        /\ Res(Parent[n]).id /\ UNCHANGED disk /\ index' = index
        /\ \/ st' = Reindexed(n, m, q) /\ Visited(n, Renamed(n, m, q))
           \/ Died
    BY <1>12 DEF MoveRemote, CanMoveRemote, saved
  <2>2. CASE Died
    BY <1>4, <2>1, <2>2, EndRooted DEF Died
  <2>3. CASE st' = Reindexed(n, m, q) /\ Visited(n, Renamed(n, m, q))
    <3>1. /\ q \in ResourceRec /\ q.src = res[n].src /\ q.kind = res[n].kind
          /\ q.exists = res[n].exists
      <4>1. GetMD5(n) \in Files \cup {NoMD5}
        BY <1>2 DEF GetMD5, ResourceRec
      <4>2. QED
        BY <1>2, <4>1, ZenonT(30) DEF ResourceRec
    <3>2. JsonTo(res, Parent[n])
      BY <1>1, <1>6, <2>1, SentFromRecord
    <3> HIDE DEF q
    <3>3. QED
      BY <1>4, <2>1, <2>3, <3>1, <3>2, RenameVisit
  <2>4. QED
    BY <2>1, <2>2, <2>3
<1>13. ASSUME NEW m \in Node, MoveLocal(n, m) PROVE RootInv'
  <2> DEFINE q == [res[n] EXCEPT !.ctime = ctime'[n]]
  <2>1. /\ Turn(n) /\ ~Dry /\ m \in Moved(n) /\ res[n].state = "remote_new"
        /\ CanMoveLocal(n, m) /\ DiskMove(m, n) /\ index' = index
        /\ \/ HasJson(Parent[n]) /\ st' = Reindexed(n, m, q) /\ Visited(n, Renamed(n, m, q))
           \/ Died
    BY <1>13 DEF MoveLocal, saved
  <2>2. m # n /\ local[m] # Dir
    <3>1. m # n /\ res[m].state = "remote_deleted" /\ (res[m].exists => res[m].kind = "file")
      BY <1>1, <1>6, <2>1, MovedFrom
    <3>2. res[m].exists
      BY <1>1, <3>1 DEF RunInv, ByItself
    <3>3. QED
      BY <1>1, <3>1, <3>2 DEF RunInv, Fits
  <2>3. DiskTree'
    BY <1>1, <1>2, <2>1, <2>2, MoveTree DEF CanMoveLocal
  <2>4. Fits(res, local')
    <3>1. local' = [local EXCEPT ![m] = Absent, ![n] = local[m]] /\ Absent # Dir
      BY <2>1, ThingAssumption DEF DiskMove, WriteDisk
    <3>2. QED
      BY <1>1, <1>2, <2>2, <3>1 DEF RunInv, Fits
  <2>5. CASE Died
    BY <2>1, <2>3, <2>5, EndRooted DEF Died
  <2>6. CASE /\ HasJson(Parent[n]) /\ st' = Reindexed(n, m, q)
             /\ Visited(n, Renamed(n, m, q))
    <3>1. /\ q \in ResourceRec /\ q.src = res[n].src /\ q.kind = res[n].kind
          /\ q.exists = res[n].exists
      <4>1. ctime'[n] \in Nat
        BY <1>2 DEF DiskOK
      <4>2. QED
        BY <1>2, <4>1, ZenonT(30) DEF ResourceRec
    <3> HIDE DEF q
    <3>2. QED
      BY <1>3, <2>1, <2>3, <2>4, <2>6, <3>1, RenameVisit
  <2>7. QED
    BY <2>1, <2>5, <2>6
<1>14. CASE DryVisit(n)
  <2>1. Turn(n) /\ Dry /\ UNCHANGED disk /\ index' = index /\ local' = local
    BY <1>14 DEF DryVisit, saved, disk
  <2>2. ASSUME NEW m \in Moved(n), st' = st,
               Visited(n, [res EXCEPT ![n].state = "sync", ![m].state = "both_deleted"])
        PROVE  RootInv'
    BY <2>1, <2>2, DryRenameVisit
  <2>3. CASE /\ res[n].state = "sync" => HasJson(Parent[n])
             /\ st' = IF res[n].state = "sync" THEN SetIndex(st, n, res[n]) ELSE st
             /\ Visited(n, [res EXCEPT ![n].json = @ \/ res[n].state = "sync"])
    <3>1. CASE res[n].state = "sync"
      <4> DEFINE q == [res[n] EXCEPT !.json = TRUE]
      <4>1. /\ q \in ResourceRec /\ q.src = res[n].src /\ q.kind = res[n].kind
            /\ q.exists = res[n].exists /\ q.json /\ q.state = res[n].state
        BY <1>2 DEF ResourceRec
      <4>2. [res EXCEPT ![n].json = @ \/ res[n].state = "sync"] = [res EXCEPT ![n] = q]
        BY <3>1
      <4>3. RecordedAs(st, st', n, IsFolder(res[n])) /\ res[n].state \notin Gone
        BY <2>3, <3>1, SetIndexShape DEF Gone
      <4> HIDE DEF q
      <4>4. QED
        BY <1>3, <1>4, <2>1, <2>3, <3>1, <4>1, <4>2, <4>3, RecordVisit
    <3>2. CASE res[n].state # "sync"
      <4>1. [res EXCEPT ![n].json = @ \/ res[n].state = "sync"] = res
        BY <1>2, <3>2 DEF ResourceRec
      <4>2. QED
        BY <1>4, <2>1, <2>3, <3>2, <4>1, LeftVisit
    <3>3. QED
      BY <3>1, <3>2
  <2>4. QED
    BY <1>14, <2>2, <2>3 DEF DryVisit
<1>15. CASE CallFails(n) \/ LostReply(n) \/ \E m \in Node : LostMove(n, m)
  <2>1. Threw(n) /\ index' = index
    BY <1>15 DEF CallFails, LostReply, LostMove, saved
  <2>2. DiskTree' /\ Fits(res, local')
    <3>1. CASE UNCHANGED disk
      BY <1>4, <3>1
    <3>2. CASE CanOpen(n) /\ DiskPut(n, Partial)
      <4>1. DiskTree'
        BY <1>1, <1>2, <3>2, PutTree DEF CanOpen
      <4>2. local' = [local EXCEPT ![n] = Partial] /\ Partial # Dir
        BY <3>2, ThingAssumption DEF DiskPut, WriteDisk, Files
      <4>3. QED
        BY <1>1, <1>2, <4>1, <4>2 DEF RunInv, Fits
    <3>3. QED
      BY <1>15, <3>1, <3>2 DEF CallFails, LostReply, LostMove, Truncates
  <2>3. QED
    BY <1>1, <2>1, <2>2, ThrewRooted
<1>16. CASE Abort(n)
  <2>1. Died /\ UNCHANGED disk /\ index' = index
    BY <1>16 DEF Abort, saved
  <2>2. QED
    BY <1>4, <2>1, EndRooted DEF Died
<1>17. QED
  BY <1>7, <1>8, <1>9, <1>10, <1>11, <1>12, <1>13, <1>14, <1>15, <1>16 DEF SyncSelf

-------------------------------------------------------------------------------
(* The theorem.                                                            *)

\* A run starts from an index that hangs together: none, or that of a run that left both
\* sides alike.
LEMMA InitRooted == Init => RootInv
<1> SUFFICES ASSUME Init PROVE RootInv
  OBVIOUS
<1>1. /\ local \in Trees /\ phase = "idle" /\ pending = {} /\ st = NoIndex
      /\ index = Records(local) \/ index = NoIndex
  BY DEF Init
<1>2. \A n \in Node : local[n] # Absent => \A p \in Node : n \in Under[p] => local[p] = Dir
  BY <1>1 DEF Trees
<1>3. DiskTree
  BY <1>2, TreeAssumption DEF DiskTree
<1>4. Rooted(Records(local))
  <2>1. \A n \in Node : /\ Records(local)[n].has <=> local[n] # Absent
                        /\ local[n] = Dir => Records(local)[n].tree
    BY ThingAssumption DEF Records, NoRec
  <2>2. ASSUME NEW n \in Node, Parent[n] # Root, local[n] # Absent
        PROVE  Parent[n] \in Node /\ local[Parent[n]] = Dir
    BY <1>2, <2>2, TreeAssumption
  <2>3. Dir # Absent
    BY ThingAssumption
  <2>4. QED
    BY <2>1, <2>2, <2>3 DEF Rooted
<1>5. QED
  BY <1>1, <1>3, <1>4, NothingRooted DEF RootInv, Running, Between

\* Every step keeps it.
LEMMA NextRooted ==
    ASSUME TypeOK, TypeOK', RootInv, [Next]_vars
    PROVE  RootInv'
<1>1. CASE People
  BY <1>1, PeopleRooted
<1>2. ASSUME NEW o \in Options, NEW i \in Ignores, Start(o, i) PROVE RootInv'
  BY <1>2, StartRooted
<1>3. CASE GetAll
  BY <1>3, GetAllRooted
<1>4. ASSUME NEW n \in Node, ListEntry(n) PROVE RootInv'
  BY <1>4, ListRooted
<1>5. CASE ResolveEntry
  BY <1>5, ResolveRooted
<1>6. ASSUME NEW n \in Node, SyncSelf(n) PROVE RootInv'
  BY <1>6, SyncSelfRooted
<1>7. CASE SaveState \/ Die \/ TornSave
  <2>1. Forgotten /\ phase' = "idle" /\ UNCHANGED disk /\ index' \in {index, st, NoIndex}
    BY <1>7 DEF SaveState, Die, TornSave, saved
  <2>2. DiskTree'
    BY <2>1 DEF disk, DiskTree, RootInv
  <2>3. QED
    BY <2>1, <2>2, EndRooted
<1>8. CASE UNCHANGED vars
  BY <1>8 DEF vars, RootInv, RunInv, DiskTree, Rooted, Running, Between, Dry
<1>9. QED
  BY <1>1, <1>2, <1>3, <1>4, <1>5, <1>6, <1>7, <1>8 DEF Next, Run

\* The inductive invariant of the index holds in every reachable state.
LEMMA RootInvariant == Spec => []RootInv
<1>1. TypeOK /\ TypeOK' /\ RootInv /\ [Next]_vars => RootInv'
  BY NextRooted
<1>2. QED
  BY <1>1, InitRooted, TypeCorrect, PTL DEF Spec

\* Every record, saved or in memory, hangs on the record of its folder (State::FromLocal
\* reaches a record through that of its folder, and Resource::SetIndex asserts that it is
\* there): for every tree, and for every number of changes and failures.
THEOREM RecordsHang == Spec => []IndexRooted
<1>1. RootInv => IndexRooted
  BY DEF RootInv, IndexRooted
<1>2. QED
  BY <1>1, RootInvariant, PTL

===============================================================================
