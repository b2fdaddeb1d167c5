------------------------------ MODULE GriveProofs ------------------------------
(***************************************************************************)
(* What holds of Grive.tla for every tree, every content, every index and  *)
(* every bound: its types, and what the options -n, -u and -f promise.     *)
(*                                                                         *)
(* The types need no strengthening.  -n and -u follow from the types and   *)
(* from the guards of the visits.  -f needs an invariant of the run        *)
(* (NoPush below): that no state which would push to the server appears    *)
(* depends on the server times that State::FromLocal dropped and on the    *)
(* ones that the listing has.                                              *)
(***************************************************************************)
EXTENDS Grive, TLAPS

-------------------------------------------------------------------------------
(* The two passes of Resource.                                             *)

\* Resource::FromLocal makes a well-formed resource of any record and anything on
\* the disk.
LEMMA FromLocalType ==
    ASSUME NEW rec \in IndexRec, NEW t \in LocalThing, t # Absent, NEW c \in Nat,
           NEW b \in BOOLEAN
    PROVE  FromLocal(rec, t, c, b) \in ResourceRec
<1>1. CASE t = Bad
  <2>1. "sync" \in State
    BY DEF State
  <2> QED
    BY <1>1, <2>1 DEF FromLocal, NoRes, ResourceRec
<1>2. CASE t # Bad
  <2> DEFINE m == IF Hashed(rec, t, c) THEN t
                  ELSE IF t # Dir /\ Vouched(rec, t, c) THEN rec.md5 ELSE NoMD5
             s == IF Changed(rec, t, c) \/ b THEN "local_new" ELSE "remote_deleted"
             k == IF t = Dir THEN "folder" ELSE "file"
             r == [src |-> "local", exists |-> TRUE, kind |-> k, state |-> s, md5 |-> m,
                   size |-> SizeOf(t), ctime |-> c, mtime |-> rec.srv, id |-> FALSE,
                   etag |-> 0, json |-> TRUE]
  <2>1. m \in Files \cup {NoMD5}
    BY DEF Hashed, Vouched, IndexRec
  <2>2. SizeOf(t) \in Nat
    BY ThingAssumption DEF SizeOf
  <2>3. s \in State /\ k \in {"", "file", "folder", "bad"}
    BY DEF State
  <2>4. rec.srv \in Nat
    BY DEF IndexRec
  <2>5. FromLocal(rec, t, c, b) = r
    BY <1>2 DEF FromLocal
  <2>6. r \in ResourceRec
    <3> HIDE DEF m, s, k
    <3> QED
      BY <2>1, <2>2, <2>3, <2>4 DEF ResourceRec
  <2> QED
    BY <2>5, <2>6
<1> QED
  BY <1>1, <1>2

\* Resource::FromDeleted makes a well-formed resource of any record.
LEMMA FromDeletedType ==
    ASSUME NEW rec \in IndexRec
    PROVE  FromDeleted(rec) \in ResourceRec
<1>1. "both_deleted" \in State
  BY DEF State
<1> QED
  BY <1>1 DEF FromDeleted, IndexRec, ResourceRec, NoRes

\* Resource::FromRemote keeps a resource well formed, whatever it and the entry
\* are.
LEMMA FromRemoteType ==
    ASSUME NEW r \in ResourceRec, NEW e \in RemoteObj, NEW p \in State, NEW md5
    PROVE  FromRemote(r, e, p, md5) \in ResourceRec
<1> DEFINE folder == e.thing = Dir /\ IsFolder(r)
           s == IF folder THEN RemoteFolderState(r, e) ELSE RemoteFileState(r, e, p, md5)
           size == IF folder THEN r.size ELSE RemoteFileSize(r, e, p, s)
<1>1. s \in State
  BY DEF ResourceRec, State, RemoteFolderState, RemoteFileState
<1>2. MD5Of(e) \in Files \cup {NoMD5}
  BY DEF MD5Of
<1>3. size \in Nat
  BY ThingAssumption DEF ResourceRec, RemoteFileSize, SizeOf
<1>4. FromRemote(r, e, p, md5) =
        [r EXCEPT !.state = s, !.md5 = MD5Of(e), !.size = size, !.mtime = e.mtime,
                  !.id = TRUE, !.etag = e.etag]
  BY DEF FromRemote
<1> HIDE DEF s, size
<1> QED
  BY <1>1, <1>2, <1>3, <1>4 DEF ResourceRec, RemoteObj

-------------------------------------------------------------------------------
(* What a step writes has its type.                                        *)

\* Writing a path leaves a well-formed disk: an editor, http::Download, os::MakeDir.
LEMMA DiskPutType ==
    ASSUME DiskOK, NEW n \in Node, NEW t \in LocalThing, DiskPut(n, t)
    PROVE  DiskOK'
  BY DEF DiskOK, DiskPut, WriteDisk

\* So does moving a path away, with what is below it.
LEMMA DiskRemoveType ==
    ASSUME DiskOK, NEW n \in Node, DiskRemove(n)
    PROVE  DiskOK'
  BY DEF DiskOK, DiskRemove, WriteDisk, LocalThing

\* So does a rename.
LEMMA DiskMoveType ==
    ASSUME DiskOK, NEW n \in Node, NEW m \in Node, DiskMove(n, m)
    PROVE  DiskOK'
  BY DEF DiskOK, DiskMove, WriteDisk, LocalThing

\* Writing an object leaves a well-formed server: Syncer2::Upload with PUT.
LEMMA ServerPutType ==
    ASSUME ServerOK, NEW n \in Node, NEW t \in RemoteThing, ServerPut(n, t)
    PROVE  ServerOK'
<1>1. ver + 1 \in Nat /\ remote[n] \in RemoteObj
  BY DEF ServerOK
<1>2. ASSUME NEW o \in RemoteObj, NEW v \in Nat
      PROVE  [o EXCEPT !.thing = t, !.etag = v, !.mtime = v] \in RemoteObj
  BY DEF RemoteObj
<1>3. [remote[n] EXCEPT !.thing = t, !.etag = ver + 1, !.mtime = ver + 1] \in RemoteObj
  BY <1>1, <1>2
<1> QED
  BY <1>3 DEF ServerOK, ServerPut, WriteServer

\* So does creating one: Syncer2::Upload with POST.
LEMMA ServerAddType ==
    ASSUME ServerOK, NEW n \in Node, NEW t \in RemoteThing, ServerAdd(n, t)
    PROVE  ServerOK'
  BY DEF ServerOK, ServerAdd, WriteServer, RemoteObj

\* A path with no object has a well-formed one in the model.
LEMMA NoObjType == NoObj \in RemoteObj
  BY DEF NoObj, RemoteObj, RemoteThing

\* So does trashing one: Syncer2::DeleteRemote.
LEMMA ServerTrashType ==
    ASSUME ServerOK, NEW n \in Node, ServerTrash(n)
    PROVE  ServerOK'
  BY NoObjType DEF ServerOK, ServerTrash, WriteServer

\* So does moving one: Syncer2::Move.
LEMMA ServerMoveType ==
    ASSUME ServerOK, NEW n \in Node, NEW m \in Node, ServerMove(n, m)
    PROVE  ServerOK'
<1>1. [remote[n] EXCEPT !.etag = ver + 1] \in RemoteObj
  BY DEF ServerOK, RemoteObj
<1> QED
  BY <1>1, NoObjType DEF ServerOK, ServerMove, WriteServer

\* A path without a record has a well-formed one in the model.
LEMMA NoRecType == NoRec \in IndexRec
  BY DEF NoRec, IndexRec

\* A path without a resource has a well-formed one in the model.
LEMMA NoResType == NoRes \in ResourceRec
  BY DEF NoRes, ResourceRec, State

\* Setting srv_time keeps the index well formed.
LEMMA SetSrvType ==
    ASSUME NEW s \in [Node -> IndexRec], NEW n \in Node, NEW t \in Nat
    PROVE  SetSrv(s, n, t) \in [Node -> IndexRec]
<1>1. [s[n] EXCEPT !.srv = t] \in IndexRec
  BY DEF IndexRec
<1> QED
  BY <1>1 DEF SetSrv

\* Resource::SetIndex keeps the index well formed.
LEMMA SetIndexType ==
    ASSUME NEW s \in [Node -> IndexRec], NEW n \in Node, NEW r \in ResourceRec
    PROVE  SetIndex(s, n, r) \in [Node -> IndexRec]
<1>1. r.ctime \in Nat /\ r.md5 \in Files \cup {NoMD5} /\ r.size \in Nat /\ s[n].srv \in Nat
  BY DEF ResourceRec, IndexRec
<1>2. [has |-> TRUE, ctime |-> r.ctime, md5 |-> r.md5, size |-> r.size,
       srv |-> s[n].srv, tree |-> FALSE] \in IndexRec
  BY <1>1 DEF IndexRec
<1>3. [NoRec EXCEPT !.has = TRUE, !.ctime = r.ctime, !.tree = TRUE, !.srv = s[n].srv]
         \in IndexRec
  BY <1>1, NoRecType DEF IndexRec
<1> QED
  BY <1>2, <1>3, NoRecType DEF SetIndex

\* Resource::DeleteIndex keeps the index well formed.
LEMMA DeleteIndexType ==
    ASSUME NEW s \in [Node -> IndexRec], NEW n \in Node
    PROVE  DeleteIndex(s, n) \in [Node -> IndexRec]
  BY NoRecType DEF DeleteIndex

\* So does the end of SyncSelf, which sets the record and its srv_time.
LEMMA RecordType ==
    ASSUME MemoryOK, NEW n \in Node, NEW r \in ResourceRec
    PROVE  Record(n, r) \in [Node -> IndexRec]
<1>1. SetIndex(st, n, r) \in [Node -> IndexRec]
  BY SetIndexType DEF MemoryOK
<1>2. r.mtime \in Nat
  BY DEF ResourceRec
<1> QED
  BY <1>1, <1>2, SetSrvType DEF Record

\* What Syncer2::Upload stores of the reply is well formed.
LEMMA UploadedType ==
    ASSUME MemoryOK, ServerOK', NEW n \in Node
    PROVE  Uploaded(n) \in ResourceRec
<1>1. "sync" \in State
  BY DEF State
<1>2. MD5Of(remote'[n]) \in Files \cup {NoMD5}
  BY DEF MD5Of
<1>3. res[n] \in ResourceRec /\ ver' \in Nat
  BY DEF MemoryOK, ServerOK
<1> QED
  BY <1>1, <1>2, <1>3 DEF Uploaded, ResourceRec

\* What SyncSelf sets after a download is well formed.
LEMMA FetchedType ==
    ASSUME MemoryOK, DiskOK', NEW n \in Node
    PROVE  Fetched(n) \in ResourceRec
<1>1. "sync" \in State
  BY DEF State
<1>2. res[n] \in ResourceRec /\ ctime'[n] \in Nat
  BY DEF MemoryOK, DiskOK
<1> QED
  BY <1>1, <1>2 DEF Fetched, ResourceRec

\* Resource::CheckRename keeps the resources well formed.
LEMMA RenamedType ==
    ASSUME MemoryOK, NEW n \in Node, NEW m \in Node, NEW r \in ResourceRec
    PROVE  Renamed(n, m, r) \in [Node -> ResourceRec]
<1>1. "sync" \in State /\ "both_deleted" \in State
  BY DEF State
<1>2. res[m] \in ResourceRec
  BY DEF MemoryOK
<1>3. [r EXCEPT !.state = "sync", !.mtime = res[m].mtime, !.json = TRUE] \in ResourceRec
  BY <1>1, <1>2 DEF ResourceRec
<1>4. \A q \in ResourceRec : [q EXCEPT !.state = "both_deleted", !.json = FALSE] \in ResourceRec
  BY <1>1 DEF ResourceRec
<1> QED
  BY <1>3, <1>4 DEF Renamed, MemoryOK

\* Resource::CheckRename keeps the index well formed.
LEMMA ReindexedType ==
    ASSUME MemoryOK, NEW n \in Node, NEW m \in Node, NEW r \in ResourceRec
    PROVE  Reindexed(n, m, r) \in [Node -> IndexRec]
<1>1. SetIndex(st, n, r) \in [Node -> IndexRec]
  BY SetIndexType DEF MemoryOK
<1>2. res[m].mtime \in Nat
  BY DEF MemoryOK, ResourceRec
<1>3. SetSrv(SetIndex(st, n, r), n, res[m].mtime) \in [Node -> IndexRec]
  BY <1>1, <1>2, SetSrvType
<1> QED
  BY <1>3, DeleteIndexType DEF Reindexed

\* The end of a process leaves an empty memory.
LEMMA ForgottenType ==
    ASSUME Forgotten, phase' \in {"idle", "aborted"}
    PROVE  MemoryOK'
  BY NoRecType, NoResType, NoObjType, GriveAssumption
  DEF Forgotten, MemoryOK, NoIndex, NoTree, NoFeed

\* A visit that returns leaves a well-formed memory if its resources and index are.
LEMMA VisitedType ==
    ASSUME MemoryOK, NEW n \in Node, NEW r \in [Node -> ResourceRec], Visited(n, r),
           st' \in [Node -> IndexRec]
    PROVE  MemoryOK'
  BY DEF MemoryOK, Visited, Children

-------------------------------------------------------------------------------
(* Type correctness.                                                       *)

\* The initial states are typed.
LEMMA InitType == Init => TypeOK
<1> SUFFICES ASSUME Init PROVE TypeOK
  OBVIOUS
<1>1. local \in [Node -> LocalThing] /\ local \in [Node -> Content \cup {Absent, Dir}]
  BY DEF Init, Trees, LocalThing, Files
<1>2. DiskOK
  BY <1>1 DEF Init, DiskOK
<1>3. ASSUME NEW f \in Trees PROVE Objects(f) \in [Node -> RemoteObj]
  <2>1. f \in [Node -> RemoteThing]
    BY DEF Trees, RemoteThing, Files
  <2> QED
    BY <2>1, NoObjType DEF Objects, RemoteObj
<1>4. Records(local) \in [Node -> IndexRec]
  <2>1. ASSUME NEW n \in Node, local[n] # Absent
        PROVE  [has |-> TRUE, ctime |-> 1, srv |-> 1,
                md5 |-> IF local[n] = Dir THEN Missing ELSE local[n],
                size |-> SizeOf(local[n]), tree |-> local[n] = Dir] \in IndexRec
    <3>1. SizeOf(local[n]) \in Nat
      BY ThingAssumption DEF SizeOf
    <3>2. (IF local[n] = Dir THEN Missing ELSE local[n]) \in Files \cup {NoMD5, Missing}
      BY <1>1, <2>1 DEF Files
    <3> QED
      BY <3>1, <3>2 DEF IndexRec
  <2> QED
    BY <2>1, NoRecType DEF Records
<1>5. NoIndex \in [Node -> IndexRec]
  BY NoRecType DEF NoIndex
<1>6. ServerOK /\ index \in [Node -> IndexRec]
  BY <1>3, <1>4, <1>5 DEF Init, ServerOK
<1>7. MemoryOK
  BY <1>5, NoResType, NoObjType, GriveAssumption DEF Init, MemoryOK, NoTree, NoFeed
<1> QED
  BY <1>2, <1>6, <1>7, GriveAssumption DEF TypeOK, Init

\* What people do keeps the types.
LEMMA PeopleType ==
    ASSUME TypeOK, People
    PROVE  TypeOK'
<1> USE DEF TypeOK
<1>1. \A op : Act(op) => /\ MemoryOK' /\ UNCHANGED <<index, ignored, faults>>
                         /\ edits' \in 0..MaxEdits
  BY GriveAssumption DEF Act, memory, saved, MemoryOK
<1>2. ASSUME NEW n \in Node, NEW t \in Holds[n], LocalPut(n, t) PROVE TypeOK'
  <2>1. t \in LocalThing
    BY GriveAssumption DEF LocalThing, Files
  <2> QED
    BY <1>1, <1>2, <2>1, DiskPutType DEF LocalPut, server, ServerOK
<1>3. ASSUME NEW n \in Node, NEW t \in Holds[n], RemotePut(n, t) PROVE TypeOK'
  <2>1. t \in RemoteThing
    BY <1>3, GriveAssumption DEF RemotePut, RemoteThing, Files
  <2> QED
    BY <1>1, <1>3, <2>1, ServerPutType DEF RemotePut, disk, DiskOK
<1>4. ASSUME NEW n \in Node, LocalRemove(n) PROVE TypeOK'
  BY <1>1, <1>4, DiskRemoveType DEF LocalRemove, server, ServerOK
<1>5. ASSUME NEW n \in Node, RemoteTrash(n) PROVE TypeOK'
  BY <1>1, <1>5, ServerTrashType DEF RemoteTrash, disk, DiskOK
<1>6. ASSUME NEW n \in Node, RemoteShare(n) PROVE TypeOK'
  <2>1. ASSUME NEW o \in RemoteObj, NEW v \in Nat
        PROVE  /\ [o EXCEPT !.etag = v] \in RemoteObj
               /\ [o EXCEPT !.multi = TRUE] \in RemoteObj
    BY DEF RemoteObj
  <2>2. [remote EXCEPT ![n].etag = ver + 1] \in [Node -> RemoteObj]
    <3>1. remote[n] \in RemoteObj /\ ver + 1 \in Nat
      BY DEF ServerOK
    <3>2. [remote[n] EXCEPT !.etag = ver + 1] \in RemoteObj
      BY <2>1, <3>1
    <3> QED
      BY <3>2 DEF ServerOK
  <2>3. [remote EXCEPT ![n].etag = ver + 1, ![n].multi = TRUE] \in [Node -> RemoteObj]
    BY <2>1, <2>2
  <2> QED
    BY <1>1, <1>6, <2>3 DEF RemoteShare, WriteServer, ServerOK, disk, DiskOK
<1>7. ASSUME NEW n \in Node, NEW m \in Node, LocalMove(n, m) PROVE TypeOK'
  BY <1>1, <1>7, DiskMoveType DEF LocalMove, server, ServerOK
<1>8. ASSUME NEW n \in Node, NEW m \in Node, RemoteMove(n, m) PROVE TypeOK'
  BY <1>1, <1>8, ServerMoveType DEF RemoteMove, disk, DiskOK
<1> QED
  BY <1>2, <1>3, <1>4, <1>5, <1>6, <1>7, <1>8 DEF People

\* State::FromLocal keeps the types.
LEMMA StartType ==
    ASSUME TypeOK, NEW o \in Options, NEW i \in Ignores, Start(o, i)
    PROVE  TypeOK'
<1>1. st' \in [Node -> IndexRec]
  <2>1. ASSUME NEW n \in Node PROVE Scanned(index[n], n, o, i) \in IndexRec
    BY DEF TypeOK, Scanned, Found, IndexRec
  <2> QED
    BY <2>1 DEF Start
<1>2. res' \in [Node -> ResourceRec]
  <2>1. ASSUME NEW n \in Node PROVE ScannedRes(st', n, i) \in ResourceRec
    <3>1. st'[n] \in IndexRec /\ local[n] \in LocalThing /\ ctime[n] \in Nat
      BY <1>1 DEF TypeOK, DiskOK
    <3>2. NewBelow(st', n, i) \in BOOLEAN
      BY DEF NewBelow
    <3>3. Found(n, i) =>
             FromLocal(st'[n], local[n], ctime[n], NewBelow(st', n, i)) \in ResourceRec
      BY <3>1, <3>2, FromLocalType DEF Found
    <3> QED
      BY <3>1, <3>3, FromDeletedType, NoResType DEF ScannedRes
  <2>2. res' = [n \in Node |-> ScannedRes(st', n, i)]
    BY DEF Start
  <2> QED
    BY <2>1, <2>2
<1> QED
  BY <1>1, <1>2 DEF Start, TypeOK, MemoryOK, DiskOK, ServerOK, disk, server, saved, bounds

\* State::FromRemote keeps the types, for the entry and the subtree it hands a
\* state to.
LEMMA ListEntryType ==
    ASSUME TypeOK, NEW n \in Node, ListEntry(n)
    PROVE  TypeOK'
<1> DEFINE old == IF res[n].src = "none" THEN NewResource(feed[n]) ELSE res[n]
           r == FromRemote(old, feed[n], Res(Parent[n]).state, GetMD5(n))
           tree == feed[n].thing = Dir /\ IsFolder(old) /\ r.state # "sync"
           after == IF tree THEN SetState(n, r) ELSE [res EXCEPT ![n] = r]
           kept == [feed EXCEPT ![n] = NoObj]
<1>1. NewResource(feed[n]) \in ResourceRec
  BY NoResType DEF NewResource, ResourceRec
<1>2. old \in ResourceRec /\ feed[n] \in RemoteObj
  BY <1>1 DEF TypeOK, MemoryOK
<1>3. Res(Parent[n]).state \in State
  <2>1. RootRes.state = "sync" /\ "sync" \in State
    BY DEF RootRes, NoRes, State
  <2>2. ASSUME NEW m \in Node PROVE res[m].state \in State
    BY DEF TypeOK, MemoryOK, ResourceRec
  <2> QED
    BY <2>1, <2>2, TreeAssumption DEF Res
<1>4. r \in ResourceRec
  <2> HIDE DEF old
  <2> QED
    BY <1>2, <1>3, FromRemoteType
<1>5. after \in [Node -> ResourceRec]
  <2> HIDE DEF old, r
  <2>1. r.state \in State
    BY <1>4 DEF ResourceRec
  <2>2. \A q \in ResourceRec : [q EXCEPT !.state = r.state] \in ResourceRec
    BY <2>1 DEF ResourceRec
  <2>3. SetState(n, r) \in [Node -> ResourceRec]
    BY <1>4, <2>2 DEF SetState, TypeOK, MemoryOK
  <2>4. [res EXCEPT ![n] = r] \in [Node -> ResourceRec]
    BY <1>4 DEF TypeOK, MemoryOK
  <2> QED
    BY <2>3, <2>4
<1>6. kept \in [Node -> RemoteObj]
  BY NoObjType DEF TypeOK, MemoryOK
<1>7. \/ feed' = kept /\ UNCHANGED <<st, res, pending, phase, opt, m_ign>>
      \/ feed' = kept /\ res' = after /\ UNCHANGED <<st, pending, phase, opt, m_ign>>
      \/ Forgotten /\ phase' = "aborted"
  BY DEF ListEntry
<1> HIDE DEF after, kept
<1>8. MemoryOK'
  BY <1>5, <1>6, <1>7, ForgottenType DEF TypeOK, MemoryOK
<1> QED
  BY <1>8 DEF ListEntry, TypeOK, DiskOK, ServerOK, disk, server, saved, bounds

\* One visit of the walk keeps the types, whatever its outcome: the disk and the
\* server first, then the memory, which is visited, left as it is or forgotten.
LEMMA SyncSelfType ==
    ASSUME TypeOK, NEW n \in Node, SyncSelf(n)
    PROVE  TypeOK'
<1> USE DEF TypeOK, saved
<1>a. UNCHANGED disk => DiskOK'
  BY DEF disk, DiskOK
<1>b. UNCHANGED server => ServerOK'
  BY DEF server, ServerOK
<1>c. UNCHANGED bounds => edits' \in 0..MaxEdits /\ faults' \in 0..MaxFaults
  BY DEF bounds
<1>d. res \in [Node -> ResourceRec] /\ res[n] \in ResourceRec /\ st \in [Node -> IndexRec]
  BY DEF MemoryOK
<1>e. \A q \in ResourceRec, b \in BOOLEAN : [q EXCEPT !.json = b] \in ResourceRec
  BY DEF ResourceRec
<1>f. ASSUME NEW f, Fault(f) PROVE edits' \in 0..MaxEdits /\ faults' \in 0..MaxFaults
  BY <1>f, GriveAssumption DEF Fault
<1>g. Threw(n) => MemoryOK'
  BY DEF Threw, MemoryOK
<1>h. Died => MemoryOK'
  BY ForgottenType DEF Died
<1>i. ASSUME NEW q \in ResourceRec, st' \in [Node -> IndexRec],
             Visited(n, [res EXCEPT ![n] = q])
      PROVE  MemoryOK'
  BY <1>d, <1>i, VisitedType
<1>j. ASSUME NEW b \in BOOLEAN
      PROVE  [res EXCEPT ![n].json = b] \in [Node -> ResourceRec]
  BY <1>d, <1>e
<1>1. CASE MarkSync(n)
  <2>1. MemoryOK'
    BY <1>1, <1>d, <1>j, RecordType, VisitedType DEF MarkSync
  <2> QED
    BY <1>1, <2>1, <1>a, <1>b, <1>c DEF MarkSync
<1>2. CASE Create(n)
  <2>1. ServerOK'
    <3>1. (IF IsFolder(res[n]) THEN Dir ELSE local[n]) \in RemoteThing
      BY <1>2 DEF Create, SendNew, CanCreate, Readable, RemoteThing
    <3> QED
      BY <1>2, <3>1, ServerAddType DEF Create, SendNew
  <2>2. Uploaded(n) \in ResourceRec
    BY <2>1, UploadedType
  <2>3. MemoryOK'
    BY <1>2, <1>i, <2>2, RecordType DEF Create
  <2> QED
    BY <1>2, <2>1, <2>3, <1>a, <1>c DEF Create
<1>3. CASE EditContent(n)
  <2>1. ServerOK'
    <3>1. (IF IsFolder(res[n]) THEN remote[n].thing ELSE local[n]) \in RemoteThing
      BY <1>3 DEF EditContent, SendEdit, CanEdit, Readable, RemoteThing, ServerOK, RemoteObj
    <3> QED
      BY <1>3, <3>1, ServerPutType DEF EditContent, SendEdit
  <2>2. Uploaded(n) \in ResourceRec
    BY <2>1, UploadedType
  <2>3. MemoryOK'
    BY <1>3, <1>i, <2>2, RecordType DEF EditContent
  <2> QED
    BY <1>3, <2>1, <2>3, <1>a, <1>c DEF EditContent
<1>4. CASE DeleteRemote(n)
  <2>1. MemoryOK'
    BY <1>4, <1>d, <1>j, DeleteIndexType, VisitedType DEF DeleteRemote
  <2> QED
    BY <1>4, <2>1, <1>a, <1>c, ServerTrashType DEF DeleteRemote
<1>5. CASE MakeDir(n)
  <2>1. DiskOK'
    BY <1>5, <1>a, DiskPutType DEF MakeDir, LocalThing
  <2>2. Fetched(n) \in ResourceRec
    BY <2>1, FetchedType
  <2>3. MemoryOK'
    BY <1>5, <1>i, <2>2, RecordType DEF MakeDir
  <2> QED
    BY <1>5, <2>1, <2>3, <1>b, <1>c DEF MakeDir
<1>6. CASE Download(n)
  <2>1. DiskOK'
    BY <1>6, DiskPutType DEF Download, CanDownload, LocalThing
  <2>2. Fetched(n) \in ResourceRec
    BY <2>1, FetchedType
  <2>3. MemoryOK'
    BY <1>6, <1>i, <2>2, RecordType DEF Download
  <2> QED
    BY <1>6, <2>1, <2>3, <1>b, <1>c DEF Download
<1>7. CASE Skip(n)
  <2>1. res[n].mtime \in Nat
    BY <1>d DEF ResourceRec
  <2>2. MemoryOK'
    BY <1>7, <1>d, <2>1, SetSrvType, VisitedType DEF Skip
  <2> QED
    BY <1>7, <2>2, <1>a, <1>b, <1>c DEF Skip
<1>8. CASE DeleteLocal(n)
  <2>1. MemoryOK'
    BY <1>8, <1>d, <1>j, DeleteIndexType, VisitedType DEF DeleteLocal
  <2> QED
    BY <1>8, <2>1, <1>b, <1>c, DiskRemoveType DEF DeleteLocal
<1>9. CASE ForgetDeleted(n)
  <2>1. MemoryOK'
    BY <1>9, <1>d, <1>j, DeleteIndexType, VisitedType DEF ForgetDeleted
  <2> QED
    BY <1>9, <2>1, <1>a, <1>b, <1>c DEF ForgetDeleted
<1>10. CASE DryVisit(n)
  <2>1. MemoryOK'
    <3>1. CASE \E m \in Moved(n) :
                 /\ Visited(n, [res EXCEPT ![n].state = "sync", ![m].state = "both_deleted"])
                 /\ st' = st
      <4>1. PICK m \in Moved(n) :
                 Visited(n, [res EXCEPT ![n].state = "sync", ![m].state = "both_deleted"])
        BY <3>1
      <4>2. m \in Node /\ st' \in [Node -> IndexRec]
        BY <3>1, <1>d DEF Moved, FindByMD5
      <4>3. \A q \in ResourceRec : /\ [q EXCEPT !.state = "sync"] \in ResourceRec
                                   /\ [q EXCEPT !.state = "both_deleted"] \in ResourceRec
        BY ZenonT(30) DEF ResourceRec, State
      <4>4. [res EXCEPT ![n].state = "sync"] \in [Node -> ResourceRec]
        BY <1>d, <4>3
      <4>5. [res EXCEPT ![n].state = "sync", ![m].state = "both_deleted"]
               \in [Node -> ResourceRec]
        BY <4>2, <4>3, <4>4
      <4> QED
        BY <4>1, <4>2, <4>5, VisitedType
    <3>2. CASE /\ st' = IF res[n].state = "sync" THEN SetIndex(st, n, res[n]) ELSE st
               /\ Visited(n, [res EXCEPT ![n].json = @ \/ res[n].state = "sync"])
      <4> DEFINE b == res[n].json \/ res[n].state = "sync"
      <4>1. b \in BOOLEAN
        BY <1>d DEF ResourceRec
      <4>2. [res EXCEPT ![n].json = @ \/ res[n].state = "sync"] = [res EXCEPT ![n].json = b]
        OBVIOUS
      <4>3. st' \in [Node -> IndexRec]
        BY <3>2, <1>d, SetIndexType
      <4>4. [res EXCEPT ![n].json = b] \in [Node -> ResourceRec]
        BY <4>1, <1>j
      <4> QED
        BY <3>2, <4>2, <4>3, <4>4, VisitedType
    <3> QED
      BY <1>10, <3>1, <3>2 DEF DryVisit
  <2> QED
    BY <1>10, <2>1, <1>a, <1>b, <1>c DEF DryVisit
<1>11. ASSUME NEW m \in Node, MoveRemote(n, m) PROVE TypeOK'
  <2>1. [res[n] EXCEPT !.md5 = GetMD5(n)] \in ResourceRec
    <3>1. GetMD5(n) \in Files \cup {NoMD5}
      BY <1>d DEF GetMD5, ResourceRec
    <3> QED
      BY <1>d, <3>1 DEF ResourceRec
  <2>2. MemoryOK'
    <3> DEFINE q == [res[n] EXCEPT !.md5 = GetMD5(n)]
    <3>1. (st' = Reindexed(n, m, q) /\ Visited(n, Renamed(n, m, q))) \/ Died
      BY <1>11 DEF MoveRemote
    <3> HIDE DEF q
    <3>2. Reindexed(n, m, q) \in [Node -> IndexRec] /\ Renamed(n, m, q) \in [Node -> ResourceRec]
      BY <2>1, RenamedType, ReindexedType DEF q
    <3> QED
      BY <1>h, <3>1, <3>2, VisitedType
  <2> QED
    BY <1>11, <2>2, <1>a, <1>b, <1>c, ServerMoveType DEF MoveRemote
<1>12. ASSUME NEW m \in Node, MoveLocal(n, m) PROVE TypeOK'
  <2>1. DiskOK'
    BY <1>12, DiskMoveType DEF MoveLocal
  <2>2. [res[n] EXCEPT !.ctime = ctime'[n]] \in ResourceRec
    BY <1>d, <2>1 DEF ResourceRec, DiskOK
  <2>3. MemoryOK'
    <3> DEFINE q == [res[n] EXCEPT !.ctime = ctime'[n]]
    <3>1. (st' = Reindexed(n, m, q) /\ Visited(n, Renamed(n, m, q))) \/ Died
      BY <1>12 DEF MoveLocal
    <3> HIDE DEF q
    <3>2. Reindexed(n, m, q) \in [Node -> IndexRec] /\ Renamed(n, m, q) \in [Node -> ResourceRec]
      BY <2>2, RenamedType, ReindexedType DEF q
    <3> QED
      BY <1>h, <3>1, <3>2, VisitedType
  <2> QED
    BY <1>12, <2>1, <2>3, <1>b, <1>c DEF MoveLocal
<1>13. CASE CallFails(n)
  <2>1. DiskOK'
    BY <1>13, <1>a, DiskPutType DEF CallFails, LocalThing, Files
  <2> QED
    BY <1>13, <2>1, <1>b, <1>c, <1>f, <1>g DEF CallFails
<1>14. CASE LostReply(n)
  <2>1. ServerOK'
    <3>1. (IF IsFolder(res[n]) THEN Dir ELSE local[n]) \in RemoteThing \/ ~SendNew(n)
      BY DEF SendNew, CanCreate, Readable, RemoteThing
    <3>2. (IF IsFolder(res[n]) THEN remote[n].thing ELSE local[n]) \in RemoteThing
             \/ ~SendEdit(n)
      BY DEF SendEdit, CanEdit, Readable, RemoteThing, ServerOK, RemoteObj
    <3> QED
      BY <1>14, <3>1, <3>2, ServerAddType, ServerPutType, ServerTrashType
      DEF LostReply, SendNew, SendEdit
  <2> QED
    BY <1>14, <2>1, <1>a, <1>f, <1>g DEF LostReply
<1>15. CASE Abort(n)
  BY <1>15, <1>a, <1>b, <1>c, <1>h DEF Abort
<1>16. ASSUME NEW m \in Node, LostMove(n, m) PROVE TypeOK'
  BY <1>16, <1>a, <1>f, <1>g, ServerMoveType DEF LostMove
<1> QED
  BY <1>1, <1>2, <1>3, <1>4, <1>5, <1>6, <1>7, <1>8, <1>9, <1>10, <1>11, <1>12, <1>13,
     <1>14, <1>15, <1>16 DEF SyncSelf

\* Every reachable state of Grive is typed: Spec => []TypeOK.
THEOREM TypeCorrect == Spec => []TypeOK
<1>1. TypeOK /\ [Next]_vars => TypeOK'
  <2> SUFFICES ASSUME TypeOK, [Next]_vars PROVE TypeOK'
    OBVIOUS
  <2>1. CASE People
    BY <2>1, PeopleType
  <2>2. CASE \E o \in Options, i \in Ignores : Start(o, i)
    BY <2>2, StartType
  <2>3. CASE GetAll
    BY <2>3 DEF GetAll, TypeOK, DiskOK, ServerOK, MemoryOK, disk, server, saved, bounds
  <2>4. CASE \E n \in Node : ListEntry(n)
    BY <2>4, ListEntryType
  <2>5. CASE ResolveEntry
    BY <2>5, NoObjType
    DEF ResolveEntry, TypeOK, DiskOK, ServerOK, MemoryOK, disk, server, saved, bounds, NoFeed,
        Children
  <2>6. CASE \E n \in Node : SyncSelf(n)
    BY <2>6, SyncSelfType
  <2>7. CASE SaveState
    BY <2>7, ForgottenType DEF SaveState, TypeOK, DiskOK, ServerOK, MemoryOK, disk, server,
        saved, bounds
  <2>8. CASE Die
    BY <2>8, ForgottenType, GriveAssumption
    DEF Die, Fault, TypeOK, DiskOK, ServerOK, disk, server, saved
  <2>9. CASE TornSave
    BY <2>9, ForgottenType, NoRecType, GriveAssumption
    DEF TornSave, Fault, NoIndex, TypeOK, DiskOK, ServerOK, disk, server
  <2>10. CASE UNCHANGED vars
    BY <2>10 DEF vars, TypeOK, DiskOK, ServerOK, MemoryOK
  <2> QED
    BY <2>1, <2>2, <2>3, <2>4, <2>5, <2>6, <2>7, <2>8, <2>9, <2>10 DEF Next, Run
<1> QED
  BY InitType, <1>1, PTL DEF Spec

-------------------------------------------------------------------------------
(* Options.                                                                *)

\* Only people change the disk or the server without grive: their steps are counted.
LEMMA PeopleCounted ==
    ASSUME TypeOK, People, ByGrive
    PROVE  FALSE
<1>1. edits \in Nat
  BY GriveAssumption DEF TypeOK
<1>2. ASSUME NEW op PROVE ~Act(op)
  BY <1>1 DEF Act, ByGrive
<1> QED
  BY <1>2 DEF People, LocalPut, RemotePut, LocalRemove, RemoteTrash, RemoteShare,
     LocalMove, RemoteMove

\* A visit of a dry run touches nothing: every outcome that does asks for a Syncer.
LEMMA DryVisits ==
    ASSUME NEW n \in Node, SyncSelf(n), Dry
    PROVE  UNCHANGED <<disk, server, saved>>
<1>1. ~Calls(n) /\ \A s : ~Visiting(n, s)
  BY DEF Calls, Visiting
<1>2. ~LeftAlone(n)
  BY <1>1 DEF LeftAlone
<1>3. DryVisit(n) \/ Abort(n)
  BY <1>1, <1>2 DEF SyncSelf, MarkSync, Create, EditContent, DeleteRemote, MakeDir, Download,
     Skip, DeleteLocal, ForgetDeleted, MoveRemote, MoveLocal, CallFails, LostReply, LostMove
<1> QED
  BY <1>3 DEF DryVisit, Abort

\* A dry run changes neither the disk, the server nor the index, whatever the trees,
\* the order of the walk and the failures: Resource::SyncSelf with a null Syncer.
THEOREM DryRunChangesNothing == Spec => DryRunIsDry
<1>1. TypeOK /\ [Next]_vars => [ByGrive /\ Dry => UNCHANGED <<disk, server, saved>>]_vars
  <2> SUFFICES ASSUME TypeOK, Next, ByGrive, Dry
               PROVE  UNCHANGED <<disk, server, saved>>
    OBVIOUS
  <2>1. ~People
    BY PeopleCounted
  <2>2. CASE SaveState
    BY <2>2 DEF SaveState
  <2>3. CASE Die
    BY <2>3 DEF Die
  <2>4. CASE TornSave
    BY <2>4 DEF TornSave
  <2>5. CASE \E o \in Options, i \in Ignores : Start(o, i)
    BY <2>5 DEF Start
  <2>6. CASE GetAll \/ ResolveEntry \/ \E n \in Node : ListEntry(n)
    BY <2>6 DEF GetAll, ResolveEntry, ListEntry
  <2>7. CASE \E n \in Node : SyncSelf(n)
    BY <2>7, DryVisits
  <2> QED
    BY <2>1, <2>2, <2>3, <2>4, <2>5, <2>6, <2>7 DEF Next, Run
<1> QED
  BY <1>1, TypeCorrect, PTL DEF Spec, DryRunIsDry

\* A visit of an upload-only run puts nothing on the disk: it may only move a file.
LEMMA UploadOnlyVisits ==
    ASSUME TypeOK, NEW n \in Node, SyncSelf(n), "upload-only" \in opt
    PROVE  DiskFiles' \subseteq DiskFiles
<1>1. "no-remote-new" \in opt
  BY GriveAssumption DEF TypeOK, MemoryOK
<1>2. ~Fetches(n)
  BY <1>1 DEF Fetches
<1>3. ~MakeDir(n) /\ ~Download(n) /\ ~Truncates(n)
  BY <1>2 DEF MakeDir, Download, Truncates
<1>4. CASE UNCHANGED disk
  BY <1>4 DEF disk, DiskFiles
<1>5. CASE DeleteLocal(n)
  BY <1>5, ThingAssumption
  DEF DeleteLocal, DiskRemove, WriteDisk, DiskFiles, Files
<1>6. CASE \E m \in Node : MoveLocal(n, m)
  <2>1. PICK m \in Node : DiskMove(m, n)
    BY <1>6 DEF MoveLocal
  <2>2. \A k \in Node : local'[k] \in {Absent, local[m], local[k]}
    BY <2>1 DEF DiskMove, WriteDisk, TypeOK, DiskOK
  <2> QED
    BY <2>2, ThingAssumption DEF DiskFiles, Files
<1> QED
  BY <1>3, <1>4, <1>5, <1>6
  DEF SyncSelf, MarkSync, Create, EditContent, DeleteRemote, Skip, ForgetDeleted, DryVisit,
      MoveRemote, CallFails, LostReply, LostMove, Abort

\* An upload-only run brings no content to the disk: the download states are skipped
\* in Resource::SyncSelf, and a rename on the server only moves a local file.
THEOREM UploadOnlyBringsNothing == Spec => UploadOnly
<1>1. TypeOK /\ [Next]_vars =>
         [ByGrive /\ "upload-only" \in opt => DiskFiles' \subseteq DiskFiles]_vars
  <2> SUFFICES ASSUME TypeOK, Next, ByGrive, "upload-only" \in opt
               PROVE  DiskFiles' \subseteq DiskFiles
    OBVIOUS
  <2>1. ~People
    BY PeopleCounted
  <2>2. CASE UNCHANGED disk
    BY <2>2 DEF disk, DiskFiles
  <2>3. CASE \E n \in Node : SyncSelf(n)
    BY <2>3, UploadOnlyVisits
  <2> QED
    BY <2>1, <2>2, <2>3
    DEF Next, Run, Start, GetAll, ListEntry, ResolveEntry, SaveState, Die, TornSave
<1> QED
  BY <1>1, TypeCorrect, PTL DEF Spec, UploadOnly

-------------------------------------------------------------------------------
(* -f only pulls.                                                          *)

\* What makes it true.  Everything listed has a time, and no resource has one until
\* its entry is applied: so every entry is news, and nothing is ever classified as
\* changed or deleted on this side only.
NoPush ==
    "force" \in opt =>
        /\ \A n \in Node : res[n].state \notin {"local_changed", "local_deleted"}
        /\ phase = "list" => \A n \in Node : res[n].mtime = 0
        /\ phase = "resolve" =>
              \A n \in Node : Listed(n) => res[n].mtime = 0 /\ feed[n].mtime > 0

Timed == \A n \in Node : remote[n].thing # Absent => remote[n].mtime > 0

ForceInv == TypeOK /\ Timed /\ NoPush

\* The server times what it writes.
LEMMA WriteTimed ==
    ASSUME TypeOK, Timed, NEW n \in Node, NEW m \in Node, NEW t,
           \/ ServerPut(n, t) \/ ServerAdd(n, t) \/ ServerTrash(n)
           \/ remote[n].thing # Absent /\ ServerMove(n, m)
    PROVE  Timed'
<1>1. ver + 1 > 0
  BY DEF TypeOK, ServerOK
<1>2. NoObj.thing = Absent
  BY DEF NoObj
<1>3. CASE ServerPut(n, t)
  BY <1>1, <1>3 DEF ServerPut, WriteServer, Timed, TypeOK, ServerOK, RemoteObj
<1>4. CASE ServerAdd(n, t)
  BY <1>1, <1>4 DEF ServerAdd, WriteServer, Timed, TypeOK, ServerOK
<1>5. CASE ServerTrash(n)
  BY <1>2, <1>5 DEF ServerTrash, WriteServer, Timed
<1>6. CASE remote[n].thing # Absent /\ ServerMove(n, m)
  BY <1>2, <1>6 DEF ServerMove, WriteServer, Timed, TypeOK, ServerOK, RemoteObj
<1> QED
  BY <1>3, <1>4, <1>5, <1>6

\* No step leaves an object without a time.
LEMMA NextTimed ==
    ASSUME TypeOK, Timed, [Next]_vars
    PROVE  Timed'
<1>1. CASE UNCHANGED server
  BY <1>1 DEF server, Timed
<1>2. CASE People
  <2>1. ASSUME NEW n \in Node, RemoteShare(n) PROVE Timed'
    BY <2>1 DEF RemoteShare, WriteServer, Timed, TypeOK, ServerOK, RemoteObj
  <2>2. ASSUME NEW n \in Node, NEW m \in Node, RemoteMove(n, m) PROVE Timed'
    <3>1. remote[n].thing # Absent
      BY <2>2, ThingAssumption DEF RemoteMove, Files
    <3> QED
      BY <2>2, <3>1, WriteTimed DEF RemoteMove
  <2> QED
    BY <1>1, <1>2, <2>1, <2>2, WriteTimed
    DEF People, LocalPut, RemotePut, LocalRemove, LocalMove, RemoteTrash
<1>3. ASSUME NEW n \in Node, SyncSelf(n) PROVE Timed'
  BY <1>1, <1>3, WriteTimed
  DEF SyncSelf, MarkSync, Create, SendNew, EditContent, SendEdit, DeleteRemote, MakeDir,
      Download, Skip, DeleteLocal, ForgetDeleted, DryVisit, MoveRemote, MoveLocal, CallFails,
      LostReply, LostMove, Abort
<1> QED
  BY <1>1, <1>2, <1>3
  DEF Next, Run, Start, GetAll, ListEntry, ResolveEntry, SaveState, Die, TornSave, vars,
      server

\* State::FromLocal under -f leaves no server time, whatever the index says.
LEMMA StartNoPush ==
    ASSUME TypeOK, NEW o \in Options, NEW i \in Ignores, Start(o, i)
    PROVE  NoPush'
<1> SUFFICES ASSUME "force" \in o, NEW n \in Node
             PROVE  /\ res'[n].mtime = 0
                    /\ res'[n].state \notin {"local_changed", "local_deleted"}
  BY DEF Start, NoPush
<1>1. res'[n] = ScannedRes(st', n, i) /\ st'[n] = Scanned(index[n], n, o, i)
  BY DEF Start
<1>2. Found(n, i) \/ Missed(st'[n], n, i) => st'[n].srv = 0
  <2>1. index[n] \in IndexRec
    BY DEF TypeOK
  <2>2. st'[n].has = (index[n].has \/ Found(n, i))
    BY <1>1, <2>1 DEF Scanned, IndexRec
  <2>3. Found(n, i) \/ Missed(index[n], n, i) => st'[n].srv = 0
    BY <1>1, <2>1 DEF Scanned, IndexRec
  <2> QED
    BY <2>2, <2>3 DEF Missed
<1>3. ASSUME NEW rec, NEW t, NEW c, NEW b, rec.srv = 0
      PROVE  /\ FromLocal(rec, t, c, b).mtime = 0
             /\ FromLocal(rec, t, c, b).state \in {"sync", "local_new", "remote_deleted"}
  BY <1>3 DEF FromLocal, NoRes
<1>4. ASSUME NEW rec, rec.srv = 0
      PROVE  /\ FromDeleted(rec).mtime = 0
             /\ FromDeleted(rec).state = "both_deleted"
  BY <1>4 DEF FromDeleted, NoRes
<1>5. NoRes.mtime = 0 /\ NoRes.state = "unknown"
  BY DEF NoRes
<1> QED
  BY <1>1, <1>2, <1>3, <1>4, <1>5 DEF ScannedRes

\* Resource::FromRemote makes nothing local_changed or local_deleted of a resource
\* that has no time, below a folder that is neither.
LEMMA NewsOnly ==
    ASSUME NEW r \in ResourceRec, NEW e \in RemoteObj, NEW p, NEW md5, r.mtime = 0,
           e.mtime > 0, p \notin {"local_changed", "local_deleted"},
           r.state \notin {"local_changed", "local_deleted"}
    PROVE  FromRemote(r, e, p, md5).state \notin {"local_changed", "local_deleted"}
<1>1. Newer(r, e)
  BY DEF Newer
<1>2. RemoteFolderState(r, e) \in {"sync", "remote_new"}
  BY <1>1 DEF RemoteFolderState
<1>3. RemoteFileState(r, e, p, md5) \notin {"local_changed", "local_deleted"}
  BY <1>1 DEF RemoteFileState
<1>4. FromRemote(r, e, p, md5).state \in {RemoteFolderState(r, e), RemoteFileState(r, e, p, md5)}
  BY DEF FromRemote, ResourceRec
<1> QED
  BY <1>2, <1>3, <1>4

\* Applying an entry under -f makes nothing local_changed or local_deleted, below
\* it included.
LEMMA ListEntryNoPush ==
    ASSUME TypeOK, NoPush, NEW n \in Node, ListEntry(n)
    PROVE  NoPush'
<1> DEFINE old == IF res[n].src = "none" THEN NewResource(feed[n]) ELSE res[n]
           r == FromRemote(old, feed[n], Res(Parent[n]).state, GetMD5(n))
           kept == [feed EXCEPT ![n] = NoObj]
           push == {"local_changed", "local_deleted"}
<1> SUFFICES ASSUME "force" \in opt' PROVE NoPush'
  BY DEF NoPush
<1>1. "force" \in opt /\ phase' \in {"resolve", "aborted"}
  BY DEF ListEntry, Forgotten
<1>2. ~Forgotten
  BY DEF Forgotten
<1>3. feed' = kept /\ phase' = phase /\ phase = "resolve"
  BY <1>2 DEF ListEntry
<1>4. NoObj.thing = Absent
  BY DEF NoObj
<1>5. \A m \in Node : m # n => feed'[m] = feed[m]
  BY <1>3 DEF TypeOK, MemoryOK
<1>6. feed'[n].thing = Absent
  BY <1>3, <1>4 DEF TypeOK, MemoryOK
<1>7. r.state \notin push
  <2>1. old \in ResourceRec /\ feed[n] \in RemoteObj
    BY NoResType DEF TypeOK, MemoryOK, NewResource, ResourceRec
  <2>2. old.mtime = 0 /\ old.state \notin push
    BY <1>1, <1>3 DEF NoPush, ListEntry, NewResource, NoRes
  <2>3. feed[n].mtime > 0
    BY <1>1, <1>3 DEF NoPush, ListEntry
  <2>4. RootRes.state = "sync"
    BY DEF RootRes, NoRes
  <2>5. Res(Parent[n]).state \notin push
    BY <1>1, <2>4, TreeAssumption DEF NoPush, Res
  <2> HIDE DEF old
  <2> QED
    BY <2>1, <2>2, <2>3, <2>5, NewsOnly
<1>8. ASSUME NEW m \in Node
      PROVE  /\ res'[m].state \in {res[m].state, r.state}
             /\ m # n => res'[m].mtime = res[m].mtime
  <2>1. \/ res' = res
        \/ /\ res'[n] = r
           /\ m # n => res'[m] \in {res[m], [res[m] EXCEPT !.state = r.state]}
    <3>1. res' = res \/ res' = SetState(n, r) \/ res' = [res EXCEPT ![n] = r]
      BY <1>2 DEF ListEntry
    <3> HIDE DEF r
    <3> QED
      BY <3>1 DEF SetState, TypeOK, MemoryOK
  <2>2. res[m] \in ResourceRec
    BY DEF TypeOK, MemoryOK
  <2> HIDE DEF r
  <2> QED
    BY <2>1, <2>2 DEF ResourceRec
<1> HIDE DEF r
<1> QED
  BY <1>1, <1>3, <1>5, <1>6, <1>7, <1>8 DEF NoPush, Listed

\* A visit needs the walk, and no visit makes anything local_changed or local_deleted:
\* the states it sets are sync and both_deleted.
LEMMA VisitedNoPush ==
    ASSUME TypeOK, NoPush, NEW n \in Node, phase = "sync", NEW r, Visited(n, r),
           \A m \in Node : r[m].state \in {res[m].state, "sync", "both_deleted"}
    PROVE  NoPush'
  BY DEF Visited, NoPush

\* SyncSelf runs in the walk only.
LEMMA VisitNeedsWalk ==
    ASSUME NEW n \in Node, SyncSelf(n)
    PROVE  phase = "sync"
<1>1. Turn(n) => phase = "sync"
  BY DEF Turn
<1>2. \A s : Visiting(n, s) => Turn(n)
  BY DEF Visiting
<1>3. LeftAlone(n) \/ Calls(n) \/ AssertFails(n) => Turn(n)
  BY <1>2 DEF LeftAlone, Calls, AssertFails
<1> QED
  BY <1>1, <1>2, <1>3
  DEF SyncSelf, MarkSync, Create, EditContent, DeleteRemote, MakeDir, Download, Skip,
      DeleteLocal, ForgetDeleted, DryVisit, MoveRemote, MoveLocal, CallFails, LostReply,
      LostMove, Abort

\* No visit makes anything local_changed or local_deleted, whatever its outcome.
LEMMA SyncSelfNoPush ==
    ASSUME TypeOK, NoPush, NEW n \in Node, SyncSelf(n)
    PROVE  NoPush'
<1> DEFINE keeps(r) == \A m \in Node : r[m].state \in {res[m].state, "sync", "both_deleted"}
<1>1. phase = "sync"
  BY VisitNeedsWalk
<1>2. \A r : Visited(n, r) /\ keeps(r) => NoPush'
  BY <1>1, VisitedNoPush
<1>3. Threw(n) => NoPush'
  BY <1>1 DEF Threw, NoPush
<1>4. Died => NoPush'
  BY DEF Died, Forgotten, NoPush
<1>5. res \in [Node -> ResourceRec]
  BY DEF TypeOK, MemoryOK
<1>6. ASSUME NEW q \in ResourceRec, q.state = "sync" PROVE keeps([res EXCEPT ![n] = q])
  BY <1>5, <1>6
<1>7. ASSUME NEW b PROVE keeps([res EXCEPT ![n].json = b])
  BY <1>5 DEF ResourceRec
<1>8. ASSUME NEW m \in Node, NEW q \in ResourceRec PROVE keeps(Renamed(n, m, q))
  BY <1>5, <1>8 DEF Renamed, ResourceRec
<1>9. CASE MarkSync(n) \/ DeleteRemote(n) \/ DeleteLocal(n) \/ ForgetDeleted(n)
  BY <1>2, <1>7, <1>9 DEF MarkSync, DeleteRemote, DeleteLocal, ForgetDeleted
<1>10. CASE Create(n) \/ EditContent(n)
  <2>1. Uploaded(n).state = "sync"
    BY <1>5 DEF Uploaded, ResourceRec
  <2>2. keeps([res EXCEPT ![n] = Uploaded(n)])
    BY <1>5, <2>1
  <2> QED
    BY <1>2, <1>10, <2>2 DEF Create, EditContent
<1>11. CASE MakeDir(n) \/ Download(n)
  <2>1. Fetched(n).state = "sync"
    BY <1>5 DEF Fetched, ResourceRec
  <2>2. keeps([res EXCEPT ![n] = Fetched(n)])
    BY <1>5, <2>1
  <2> QED
    BY <1>2, <1>11, <2>2 DEF MakeDir, Download
<1>12. CASE Skip(n)
  BY <1>2, <1>12 DEF Skip
<1>13. CASE DryVisit(n)
  <2>1. \A m \in Node :
           keeps([res EXCEPT ![n].state = "sync", ![m].state = "both_deleted"])
    BY <1>5 DEF ResourceRec
  <2>2. keeps([res EXCEPT ![n].json = @ \/ res[n].state = "sync"])
    BY <1>5 DEF ResourceRec
  <2>3. Moved(n) \subseteq Node
    BY DEF Moved, FindByMD5
  <2> QED
    BY <1>2, <1>13, <2>1, <2>2, <2>3 DEF DryVisit
<1>14. ASSUME NEW m \in Node, MoveRemote(n, m) PROVE NoPush'
  <2> DEFINE q == [res[n] EXCEPT !.md5 = GetMD5(n)]
  <2>1. Visited(n, Renamed(n, m, q)) \/ Died
    BY <1>14 DEF MoveRemote
  <2>2. q \in ResourceRec
    <3>1. GetMD5(n) \in Files \cup {NoMD5}
      BY <1>5 DEF GetMD5, ResourceRec
    <3> QED
      BY <1>5, <3>1, ZenonT(30) DEF ResourceRec
  <2> HIDE DEF q
  <2> QED
    BY <1>2, <1>4, <1>8, <2>1, <2>2
<1>15. ASSUME NEW m \in Node, MoveLocal(n, m) PROVE NoPush'
  <2> DEFINE q == [res[n] EXCEPT !.ctime = ctime'[n]]
  <2>1. Visited(n, Renamed(n, m, q)) \/ Died
    BY <1>15 DEF MoveLocal
  <2>2. q \in ResourceRec
    <3>1. DiskOK'
      BY <1>15, DiskMoveType DEF MoveLocal, TypeOK
    <3> QED
      BY <1>5, <3>1, ZenonT(30) DEF ResourceRec, DiskOK
  <2> HIDE DEF q
  <2> QED
    BY <1>2, <1>4, <1>8, <2>1, <2>2
<1>16. CASE CallFails(n) \/ LostReply(n) \/ Abort(n)
  BY <1>3, <1>4, <1>16 DEF CallFails, LostReply, Abort
<1>17. ASSUME NEW m \in Node, LostMove(n, m) PROVE NoPush'
  BY <1>3, <1>17 DEF LostMove
<1> QED
  BY <1>9, <1>10, <1>11, <1>12, <1>13, <1>14, <1>15, <1>16, <1>17 DEF SyncSelf

\* Without a local_changed or a local_deleted, all that is left to a walk is to create
\* what is not listed.
LEMMA OnlyCreates ==
    ASSUME TypeOK, NoPush, NEW n \in Node, SyncSelf(n), "force" \in opt,
           NEW m \in Node, res[m].id
    PROVE  remote'[m] = remote[m]
<1>1. \A k \in Node : res[k].state \notin {"local_changed", "local_deleted"}
  BY DEF NoPush
<1>2. res[n].state = "local_new" => Moved(n) = {}
  BY <1>1 DEF Moved, FindByMD5
<1>3. ~EditContent(n) /\ ~DeleteRemote(n)
  BY <1>1 DEF EditContent, DeleteRemote, Visiting
<1>4. ASSUME NEW k \in Node PROVE ~MoveRemote(n, k) /\ ~LostMove(n, k)
  BY <1>2 DEF MoveRemote, LostMove
<1>5. CASE UNCHANGED server
  BY <1>5 DEF server
<1>6. CASE SendNew(n) /\ MayCreate(n)
  <2>1. m # n
    BY <1>6 DEF MayCreate
  <2> QED
    BY <1>6, <2>1 DEF SendNew, ServerAdd, WriteServer, TypeOK, ServerOK
<1>7. CASE Create(n)
  BY <1>6, <1>7 DEF Create
<1>8. CASE LostReply(n)
  <2>1. res[n].state = "local_new" /\ SendNew(n)
    BY <1>1, <1>8 DEF LostReply
  <2>2. MayCreate(n)
    BY <1>8, <2>1 DEF LostReply, Calls, Visiting, Fetches
  <2> QED
    BY <1>6, <2>1, <2>2
<1> QED
  BY <1>3, <1>4, <1>5, <1>7, <1>8
  DEF SyncSelf, MarkSync, MakeDir, Download, Skip, DeleteLocal, ForgetDeleted, DryVisit,
      MoveLocal, CallFails, Abort

\* The inductive invariant of -f holds in every reachable state.
LEMMA ForceInvariant == Spec => []ForceInv
<1>1. Init => Timed /\ NoPush
  <2> SUFFICES ASSUME Init PROVE Timed /\ NoPush
    OBVIOUS
  <2>1. \A f : \A n \in Node : Objects(f)[n].thing # Absent => Objects(f)[n].mtime > 0
    BY DEF Objects, NoObj
  <2> QED
    BY <2>1 DEF Init, Timed, NoPush
<1>2. ForceInv /\ TypeOK' /\ [Next]_vars => ForceInv'
  <2> SUFFICES ASSUME ForceInv, TypeOK', [Next]_vars PROVE NoPush'
    BY NextTimed DEF ForceInv
  <2> USE DEF ForceInv
  <2>1. CASE UNCHANGED memory
    BY <2>1 DEF memory, NoPush, Listed
  <2>2. CASE Forgotten
    BY <2>2 DEF Forgotten, NoPush
  <2>3. CASE \E o \in Options, i \in Ignores : Start(o, i)
    BY <2>3, StartNoPush
  <2>4. CASE GetAll
    BY <2>4 DEF GetAll, Timed, NoPush, Listed
  <2>5. CASE \E n \in Node : ListEntry(n)
    BY <2>5, ListEntryNoPush
  <2>6. CASE ResolveEntry
    BY <2>6 DEF ResolveEntry, NoPush
  <2>7. CASE \E n \in Node : SyncSelf(n)
    BY <2>7, SyncSelfNoPush
  <2>8. People => UNCHANGED memory
    BY DEF People, LocalPut, RemotePut, LocalRemove, RemoteTrash, RemoteShare, LocalMove,
       RemoteMove, Act
  <2>9. UNCHANGED vars => UNCHANGED memory
    BY DEF vars, memory
  <2> QED
    BY <2>1, <2>2, <2>3, <2>4, <2>5, <2>6, <2>7, <2>8, <2>9
    DEF Next, Run, SaveState, Die, TornSave
<1> QED
  BY <1>1, <1>2, InitType, TypeCorrect, PTL DEF Spec, ForceInv

\* Under -f no object of the listing is written over, moved or trashed, for every tree,
\* every index and every failure: Resource::SyncSelf never meets the states that
\* would, because State::FromLocal dropped the server times.
THEOREM ForcePullsOnly == Spec => ForceOnlyPulls
<1>1. ForceInv /\ [Next]_vars =>
         [ByGrive /\ "force" \in opt =>
             \A n \in Node : res[n].id => remote'[n] = remote[n]]_vars
  <2> SUFFICES ASSUME ForceInv, Next, ByGrive, "force" \in opt, NEW n \in Node, res[n].id
               PROVE  remote'[n] = remote[n]
    OBVIOUS
  <2> USE DEF ForceInv
  <2>1. ~People
    BY PeopleCounted
  <2>2. CASE UNCHANGED server
    BY <2>2 DEF server
  <2>3. CASE \E m \in Node : SyncSelf(m)
    BY <2>3, OnlyCreates
  <2> QED
    BY <2>1, <2>2, <2>3
    DEF Next, Run, Start, GetAll, ListEntry, ResolveEntry, SaveState, Die, TornSave
<1> QED
  BY <1>1, ForceInvariant, PTL DEF Spec, ForceOnlyPulls
===============================================================================
