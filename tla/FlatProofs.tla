------------------------------ MODULE FlatProofs ------------------------------
(***************************************************************************)
(* One folder of files, each with contents of its own: however often it is *)
(* edited, on both sides, between the runs, and whatever fails, grive      *)
(* keeps the promise of two-way synchronisation (TwoWaySync.tla), its      *)
(* index hides nothing, and a run that nobody disturbs settles everything. *)
(*                                                                         *)
(* The promise is broken in general: by contents that move between paths   *)
(* with their old times, by folders that hand their state down, by the     *)
(* options that drop or keep times, and by what people do meanwhile; each  *)
(* conjunct of Flat excludes one of them.                                  *)
(*                                                                         *)
(* The last section is of what a cut download leaves: in such a folder it  *)
(* is never sent, even if people work there while grive runs.              *)
(***************************************************************************)
EXTENDS AgreementProofs

OneFolder ==
    /\ \A n \in Node : Parent[n] = Root /\ Holds[n] \subseteq Content
    /\ \A n, m \in Node : n # m => Holds[n] \cap Holds[m] = {}
    /\ Options \subseteq {{}, {"dry-run"}} /\ Ignores = {NoIgnore}

Flat == OneFolder /\ Concurrent = {} /\ "remote_share" \notin UserOps

\* No upload is forbidden, and no download is cut.
Sure == ReadOnly = {} /\ "request" \notin Faults

\* What may be at n: what people put there, and what a cut download leaves.
Own(n) == Holds[n] \cup (IF "request" \in Faults THEN {Partial} ELSE {})

Here(n)  == local[n] # Absent
There(n) == remote[n].thing # Absent

\* The disk, the server and what is known of them.
DataOK(n) ==
    /\ local[n] \in Own(n) \cup {Absent}
    /\ remote[n].thing \in Own(n) \cup {Absent} /\ ~remote[n].multi
    /\ ctime[n] <= lclock /\ remote[n].mtime <= ver
    /\ There(n) => remote[n].mtime > 0
    /\ baseTime[n] \in Nat /\ baseTime[n] <= ver

\* A record of n by itself: the ctime vouches for nothing but what is recorded.
Sound(n, r) ==
    /\ r.md5 \in Own(n) \cup {Missing}
    /\ r.md5 # Missing => r.has /\ r.size = SizeOf(r.md5)
    /\ ~r.tree
    /\ r.ctime <= lclock /\ r.srv <= ver
    /\ Here(n) /\ r.md5 # Missing /\ ctime[n] <= r.ctime => local[n] = r.md5

\* A record of n, when what was agreed on is b with the time t: it is the checksum, and
\* the time of the server tells whether the object is still that.
Tied(n, r, b, t) ==
    /\ b = IF r.md5 = Missing THEN Absent ELSE r.md5
    /\ remote[n].thing \in Content =>
          (remote[n].mtime <= r.srv <=> remote[n].thing = b /\ remote[n].mtime = t)

\* What will be agreed on if the run saves now.
Will(n)     == IF Noted(n) THEN local[n] ELSE base[n]
WillTime(n) == IF Noted(n) THEN remote[n].mtime ELSE baseTime[n]

\* What the scan makes of a path with the record rec.
Scans(n, r, rec) ==
    r = IF Here(n) THEN FromLocal(rec, local[n], ctime[n], FALSE)
        ELSE IF rec.has THEN FromDeleted(rec) ELSE NoRes

\* What the states say of a path whose record has the checksum md5 and the time srv.
Facts(n, state, md5, srv) ==
    LET L == local[n]
        M == remote[n].thing
        newer == remote[n].mtime > srv
    IN \/ state = "sync"           /\ Here(n) /\ L = M
       \/ state = "local_new"      /\ Here(n) /\ ~There(n) /\ L # md5
       \/ state = "remote_deleted" /\ Here(n) /\ ~There(n) /\ L = md5
       \/ state = "local_changed"  /\ Here(n) /\ There(n) /\ L # M /\ ~newer
       \/ state = "remote_changed" /\ Here(n) /\ There(n) /\ L # M /\ newer
       \/ state = "remote_new"     /\ ~Here(n) /\ There(n) /\ (M # md5 \/ newer)
       \/ state = "local_deleted"  /\ ~Here(n) /\ There(n) /\ M = md5 /\ ~newer
       \/ state = "both_deleted"   /\ ~Here(n) /\ ~There(n)

\* A resource r that has been classified, with the record rec.
Judged(n, r, rec) ==
    /\ r.kind # "folder"
    /\ r.src = "none" => ~Here(n) /\ ~There(n) /\ ~rec.has /\ r.state = "unknown"
    /\ r.src # "none" =>
          /\ r.kind = "file" /\ r.mtime <= ver
          /\ r.src = "local" <=> Here(n)
          /\ Facts(n, r.state, rec.md5, rec.srv)
          /\ r.state # "both_deleted" =>
                /\ r.exists <=> Here(n)
                /\ r.id <=> There(n)
                /\ Here(n) => r.ctime = ctime[n] /\ (~There(n) => r.md5 \in {local[n], NoMD5})
                /\ There(n) => r.md5 = remote[n].thing /\ r.mtime = remote[n].mtime
                               /\ r.etag = remote[n].etag
                /\ r.size = SizeOf(IF r.state \in {"remote_new", "remote_changed"}
                                   THEN remote[n].thing ELSE IF Here(n) THEN local[n] ELSE rec.md5)

Disturbed == bounds # began

\* What the walk has done with n.
Done(n) ==
    /\ Noted(n) \/ Disturbed \/ (~Agreed(n) /\ ~Sure)
    /\ res[n].state = "remote_deleted" =>
          /\ res[n].md5 \in Own(n) \cup {NoMD5}
          /\ Here(n) => Judged(n, res[n], st[n]) /\ Disturbed

\* Between the runs.
RestInv ==
    /\ \A n \in Node : DataOK(n) /\ Sound(n, index[n]) /\ Tied(n, index[n], base[n], baseTime[n])
    /\ began \in Nat \X Nat /\ began[1] <= edits /\ began[2] <= faults

\* In a run, until the walk of a dry run.
MemoryInv ==
    Running /\ (Dry => phase # "sync") =>
        \A n \in Node : Sound(n, st[n]) /\ Tied(n, st[n], Will(n), WillTime(n))

ScanInv == phase = "list" => \A n \in Node : Scans(n, res[n], st[n])

JudgeInv ==
    phase = "resolve" =>
        \A n \in Node : \/ feed[n] = remote[n] /\ Scans(n, res[n], st[n])
                        \/ feed[n] = NoObj /\ There(n) /\ Judged(n, res[n], st[n])

\* What was moved there, and the answer was lost: its turn will find nothing to trash.
Lost(n) ==
    /\ res[n].state = "local_deleted" /\ res[n].kind = "file" /\ res[n].src # "local"
    /\ ~There(n)
    /\ Disturbed /\ \A k \in pending : res[k].state # "local_new"

\* What was deleted here waits for what is new here: it may have moved.
Walk(n) ==
    /\ n \in pending => (Judged(n, res[n], st[n]) /\ res[n].src # "none") \/ Lost(n)
    /\ n \notin pending => Done(n)
    /\ n \in pending /\ res[n].src = "local" =>
          \A m \in Node : res[m].state = "local_deleted" => m \in pending

WalkInv ==
    phase = "sync" => \A n \in Node : IF Dry THEN res[n].kind # "folder" ELSE Walk(n)

FlatInv == NoAbort /\ RestInv /\ MemoryInv /\ ScanInv /\ JudgeInv /\ WalkInv

-------------------------------------------------------------------------------
(* One folder.                                                             *)

\* In one folder every path hangs on the root, and nothing hangs on a path.
LEMMA FolderTree ==
    ASSUME OneFolder
    PROVE  \A n \in Node :
               /\ Parent[n] = Root /\ Under[n] = {} /\ Res(Parent[n]) = RootRes
               /\ HasJson(Parent[n]) = TRUE /\ Children(n) = {}
               /\ Editable(Parent[n]) /\ OnServer(Parent[n]) /\ \A f : DirAt(f, Parent[n])
<1> TAKE n \in Node
<1>1. Parent[n] = Root /\ \A k \in Node : Parent[k] = Root /\ Root \notin Node
  BY TreeAssumption DEF OneFolder
<1>2. \A k \in Node : Under[k] = {}
  BY <1>1, TreeAssumption
<1>3. Res(Root) = RootRes /\ RootRes.json = TRUE
  BY DEF Res, RootRes, NoRes
<1>4. HasJson(Root) = TRUE
  BY <1>2, <1>3 DEF HasJson
<1>5. Children(n) = {}
  BY <1>1 DEF Children
<1>6. Editable(Root) /\ OnServer(Root) /\ \A f : DirAt(f, Root)
  BY <1>1, TreeAssumption DEF Editable, OnServer, DirAt
<1>7. QED
  BY <1>1, <1>2, <1>3, <1>4, <1>5, <1>6

\* The same where runs are not disturbed.
LEMMA FlatTree ==
    ASSUME Flat
    PROVE  \A n \in Node :
               /\ Parent[n] = Root /\ Under[n] = {} /\ Res(Parent[n]) = RootRes
               /\ HasJson(Parent[n]) = TRUE /\ Children(n) = {}
               /\ Editable(Parent[n]) /\ OnServer(Parent[n]) /\ \A f : DirAt(f, Parent[n])
BY FolderTree DEF Flat

\* The root is a folder in sync, on the server too.
LEMMA FlatRoot == RootRes.id = TRUE /\ RootRes.state = "sync" /\ IsFolder(RootRes)
BY DEF RootRes, NoRes, IsFolder

\* What may be at a path is a file, and what may be at two is what a cut download leaves.
LEMMA OwnFiles ==
    ASSUME Flat, NEW n \in Node
    PROVE  /\ Own(n) \subseteq Files /\ Absent \notin Own(n) /\ Dir \notin Own(n) /\ Bad \notin Own(n)
           /\ Missing \notin Own(n) /\ NoMD5 \notin Own(n)
           /\ Partial \in Own(n) => "request" \in Faults
           /\ Own(n) \subseteq LocalThing /\ Own(n) \subseteq RemoteThing
           /\ \A m \in Node : \A t \in Own(n) \cap Own(m) : m = n \/ t = Partial
BY ThingAssumption DEF Flat, OneFolder, Own, Files, LocalThing, RemoteThing

\* No ignore expression, and no option but --dry-run.
LEMMA FolderOptions ==
    ASSUME OneFolder, TypeOK
    PROVE  /\ m_ign = NoIgnore /\ ignored = NoIgnore /\ Hides[NoIgnore] = {}
           /\ "force" \notin opt /\ "upload-only" \notin opt /\ "no-remote-new" \notin opt
BY GriveAssumption DEF OneFolder, TypeOK, MemoryOK

\* The same where runs are not disturbed.
LEMMA FlatOptions ==
    ASSUME Flat, TypeOK
    PROVE  /\ m_ign = NoIgnore /\ ignored = NoIgnore /\ Hides[NoIgnore] = {}
           /\ "force" \notin opt /\ "upload-only" \notin opt /\ "no-remote-new" \notin opt
BY FolderOptions DEF Flat

\* What a step does to n on the disk and on the server: nothing, or something later than
\* all that was recorded.
DiskOld(n) == local'[n] = local[n] /\ (Here(n) => ctime'[n] = ctime[n])
DiskNew(n) == local'[n] = Absent \/ ctime'[n] > lclock
NetOld(n)  == remote'[n] = remote[n]
NetNew(n)  == remote'[n].thing \notin Content \/ remote'[n].mtime > ver

Later == lclock' >= lclock /\ ver' >= ver

\* A change of the disk in one folder: nobody looks at the ctime of the folder.
LEMMA DiskAfter ==
    ASSUME OneFolder, TypeOK, NEW new \in [Node -> LocalThing], NEW touched, WriteDisk(new, touched)
    PROVE  /\ local' = new /\ lclock' = lclock + 1
           /\ \A k \in Node :
                 ctime'[k] = IF new[k] = Absent THEN 0
                             ELSE IF k \in touched \/ new[k] # local[k] THEN lclock + 1 ELSE ctime[k]
<1>1. \A k \in Node : ~EntriesMoved(new, k)
  BY TreeAssumption DEF OneFolder, EntriesMoved
<1>2. QED
  BY <1>1 DEF WriteDisk

\* The clocks after that.
LEMMA DiskClock ==
    ASSUME OneFolder, TypeOK, NEW new \in [Node -> LocalThing], NEW touched, WriteDisk(new, touched),
           NEW k \in Node, ctime[k] <= lclock
    PROVE  ctime'[k] <= lclock'
<1>1. lclock \in Nat /\ ctime[k] \in Nat
  BY DEF TypeOK, DiskOK
<1>2. QED
  BY <1>1, DiskAfter

\* A file written is later than every record.
LEMMA FolderPut ==
    ASSUME OneFolder, TypeOK, \A k \in Node : ctime[k] <= lclock, NEW n \in Node, NEW t \in Files, DiskPut(n, t)
    PROVE  /\ local'[n] = t /\ ctime'[n] = lclock + 1 /\ DiskNew(n) /\ lclock' = lclock + 1
           /\ \A k \in Node \ {n} : DiskOld(k)
           /\ \A k \in Node : ctime'[k] <= lclock'
<1> DEFINE new == [local EXCEPT ![n] = t]
<1>1. lclock \in Nat /\ local \in [Node -> LocalThing] /\ \A k \in Node : ctime[k] <= lclock
  BY DEF TypeOK, DiskOK
<1>2. new \in [Node -> LocalThing] /\ new[n] = t /\ \A k \in Node \ {n} : new[k] = local[k]
  BY <1>1 DEF LocalThing
<1>3. WriteDisk(new, {n}) /\ t # Absent
  BY ThingAssumption DEF DiskPut
<1> HIDE DEF new
<1>4. /\ local' = new /\ lclock' = lclock + 1
      /\ \A k \in Node : ctime'[k] = IF new[k] = Absent THEN 0
                             ELSE IF k \in {n} \/ new[k] # local[k] THEN lclock + 1 ELSE ctime[k]
  BY <1>2, <1>3, DiskAfter
<1>5. \A k \in Node : ctime'[k] <= lclock'
  BY <1>1, <1>2, <1>3, DiskClock
<1>6. \A k \in Node \ {n} : DiskOld(k)
  BY <1>2, <1>4 DEF DiskOld, Here
<1>7. local'[n] = t /\ ctime'[n] = lclock + 1 /\ DiskNew(n)
  BY <1>1, <1>2, <1>3, <1>4 DEF DiskNew
<1>8. QED
  BY <1>4, <1>5, <1>6, <1>7

\* The same, where the clock is the latest between the runs.
LEMMA PutHere ==
    ASSUME Flat, TypeOK, RestInv, NEW n \in Node, NEW t \in Files, DiskPut(n, t)
    PROVE  /\ local'[n] = t /\ ctime'[n] = lclock + 1 /\ DiskNew(n) /\ lclock' = lclock + 1
           /\ \A k \in Node \ {n} : DiskOld(k)
           /\ \A k \in Node : ctime'[k] <= lclock'
BY FolderPut DEF Flat, RestInv, DataOK

\* A file removed is gone, and nothing else.
LEMMA FolderRemove ==
    ASSUME OneFolder, TypeOK, \A k \in Node : ctime[k] <= lclock, NEW n \in Node, DiskRemove(n)
    PROVE  /\ local'[n] = Absent /\ DiskNew(n) /\ lclock' = lclock + 1
           /\ \A k \in Node \ {n} : DiskOld(k)
           /\ \A k \in Node : ctime'[k] <= lclock'
<1> DEFINE new == [m \in Node |-> IF m = n \/ m \in Under[n] THEN Absent ELSE local[m]]
<1>1. lclock \in Nat /\ local \in [Node -> LocalThing] /\ \A k \in Node : ctime[k] <= lclock
  BY DEF TypeOK, DiskOK
<1>2. /\ new \in [Node -> LocalThing] /\ new[n] = Absent
      /\ \A k \in Node \ {n} : new[k] = local[k]
  BY <1>1, FolderTree DEF LocalThing
<1>3. WriteDisk(new, {})
  BY DEF DiskRemove
<1> HIDE DEF new
<1>4. /\ local' = new /\ lclock' = lclock + 1
      /\ \A k \in Node : ctime'[k] = IF new[k] = Absent THEN 0
                             ELSE IF k \in {} \/ new[k] # local[k] THEN lclock + 1 ELSE ctime[k]
  BY <1>2, <1>3, DiskAfter
<1>5. \A k \in Node : ctime'[k] <= lclock'
  BY <1>1, <1>2, <1>3, DiskClock
<1>6. \A k \in Node \ {n} : DiskOld(k)
  BY <1>2, <1>4 DEF DiskOld, Here
<1>7. QED
  BY <1>2, <1>4, <1>5, <1>6 DEF DiskNew

\* The same, where the clock is the latest between the runs.
LEMMA RemoveHere ==
    ASSUME Flat, TypeOK, RestInv, NEW n \in Node, DiskRemove(n)
    PROVE  /\ local'[n] = Absent /\ DiskNew(n) /\ lclock' = lclock + 1
           /\ \A k \in Node \ {n} : DiskOld(k)
           /\ \A k \in Node : ctime'[k] <= lclock'
BY FolderRemove DEF Flat, RestInv, DataOK

\* A file moved is later than every record, where it comes from and where it goes.
LEMMA MoveHere ==
    ASSUME Flat, TypeOK, RestInv, NEW n \in Node, NEW m \in Node, n # m, Here(m), DiskMove(m, n)
    PROVE  /\ local'[m] = Absent /\ local'[n] = local[m] /\ ctime'[n] = lclock + 1
           /\ DiskNew(m) /\ DiskNew(n) /\ lclock' = lclock + 1
           /\ \A k \in Node \ {n, m} : DiskOld(k)
           /\ \A k \in Node : ctime'[k] <= lclock'
<1> DEFINE new == [local EXCEPT ![m] = Absent, ![n] = local[m]]
<1>1. lclock \in Nat /\ local \in [Node -> LocalThing] /\ \A k \in Node : ctime[k] <= lclock
  BY DEF TypeOK, DiskOK, RestInv, DataOK
<1>2. /\ new \in [Node -> LocalThing] /\ new[m] = Absent /\ new[n] = local[m]
      /\ \A k \in Node \ {n, m} : new[k] = local[k]
  BY <1>1 DEF LocalThing
<1>3. WriteDisk(new, {n, Parent[n]}) /\ Parent[n] \notin Node
  BY TreeAssumption DEF DiskMove, Flat, OneFolder
<1>4. OneFolder
  BY DEF Flat
<1> HIDE DEF new
<1>5. /\ local' = new /\ lclock' = lclock + 1
      /\ \A k \in Node : ctime'[k] = IF new[k] = Absent THEN 0
                             ELSE IF k \in {n, Parent[n]} \/ new[k] # local[k]
                                  THEN lclock + 1 ELSE ctime[k]
  BY <1>2, <1>3, <1>4, DiskAfter
<1>6. \A k \in Node : ctime'[k] <= lclock'
  BY <1>1, <1>2, <1>3, <1>4, DiskClock
<1>7. \A k \in Node \ {n, m} : DiskOld(k)
  BY <1>2, <1>3, <1>5 DEF DiskOld, Here
<1>8. ctime'[n] = lclock + 1 /\ DiskNew(n) /\ DiskNew(m)
  BY <1>1, <1>2, <1>5 DEF DiskNew, Here
<1>9. QED
  BY <1>2, <1>5, <1>6, <1>7, <1>8

\* A content sent is later than every record.
LEMMA PutThere ==
    ASSUME Flat, TypeOK, RestInv, NEW n \in Node, NEW t \in Own(n), ServerPut(n, t)
    PROVE  /\ remote'[n].thing = t /\ remote'[n].mtime = ver + 1 /\ ~remote'[n].multi
           /\ NetNew(n) /\ ver' = ver + 1
           /\ \A k \in Node \ {n} : NetOld(k)
<1>1. ver \in Nat /\ remote \in [Node -> RemoteObj] /\ ~remote[n].multi
  BY DEF TypeOK, ServerOK, RestInv, DataOK
<1> DEFINE o == [remote[n] EXCEPT !.thing = t, !.etag = ver + 1, !.mtime = ver + 1]
<1>2. o.thing = t /\ o.mtime = ver + 1 /\ o.multi = remote[n].multi
  BY <1>1 DEF RemoteObj
<1>3. remote' = [remote EXCEPT ![n] = o] /\ ver' = ver + 1
  BY DEF ServerPut, WriteServer
<1> HIDE DEF o
<1>4. remote'[n] = o /\ \A k \in Node \ {n} : remote'[k] = remote[k]
  BY <1>1, <1>3
<1>5. QED
  BY <1>1, <1>2, <1>3, <1>4 DEF NetNew, NetOld

\* And so is a new object.
LEMMA AddThere ==
    ASSUME Flat, TypeOK, RestInv, NEW n \in Node, NEW t \in Own(n), ServerAdd(n, t)
    PROVE  /\ remote'[n].thing = t /\ remote'[n].mtime = ver + 1 /\ ~remote'[n].multi
           /\ NetNew(n) /\ ver' = ver + 1
           /\ \A k \in Node \ {n} : NetOld(k)
<1>1. ver \in Nat /\ remote \in [Node -> RemoteObj]
  BY DEF TypeOK, ServerOK
<1> DEFINE o == [thing |-> t, etag |-> ver + 1, mtime |-> ver + 1, multi |-> FALSE]
<1>2. o.thing = t /\ o.mtime = ver + 1 /\ ~o.multi
  OBVIOUS
<1>3. remote' = [remote EXCEPT ![n] = o] /\ ver' = ver + 1
  BY DEF ServerAdd, WriteServer
<1> HIDE DEF o
<1>4. remote'[n] = o /\ \A k \in Node \ {n} : remote'[k] = remote[k]
  BY <1>1, <1>3
<1>5. QED
  BY <1>1, <1>2, <1>3, <1>4 DEF NetNew, NetOld

\* An object trashed is gone, and nothing else.
LEMMA FolderTrash ==
    ASSUME OneFolder, TypeOK, NEW n \in Node, ServerTrash(n)
    PROVE  /\ remote'[n] = NoObj /\ NetNew(n) /\ ver' = ver + 1
           /\ \A k \in Node \ {n} : NetOld(k)
<1>1. remote' = [m \in Node |-> IF m = n \/ m \in Under[n] THEN NoObj ELSE remote[m]] /\ ver' = ver + 1
  BY DEF ServerTrash, WriteServer
<1>2. remote'[n] = NoObj /\ \A k \in Node \ {n} : remote'[k] = remote[k]
  BY <1>1, FolderTree
<1>3. NoObj.thing \notin Content
  BY ThingAssumption DEF NoObj, Files
<1>4. QED
  BY <1>1, <1>2, <1>3 DEF NetNew, NetOld

\* The same where runs are not disturbed.
LEMMA TrashThere ==
    ASSUME Flat, TypeOK, NEW n \in Node, ServerTrash(n)
    PROVE  /\ remote'[n] = NoObj /\ NetNew(n) /\ ver' = ver + 1
           /\ \A k \in Node \ {n} : NetOld(k)
BY FolderTrash DEF Flat

\* An object moved keeps its time; what a cut download left has none that counts.
LEMMA MoveThere ==
    ASSUME Flat, TypeOK, NEW n \in Node, NEW m \in Node, n # m, ServerMove(m, n),
           remote[m].thing = Partial
    PROVE  /\ remote'[m] = NoObj /\ NetNew(m) /\ ver' = ver + 1
           /\ remote'[n].thing = Partial /\ remote'[n].mtime = remote[m].mtime
           /\ remote'[n].multi = remote[m].multi /\ NetNew(n)
           /\ \A k \in Node \ {n, m} : NetOld(k)
<1>1. ver \in Nat /\ remote \in [Node -> RemoteObj]
  BY DEF TypeOK, ServerOK
<1> DEFINE o == [remote[m] EXCEPT !.etag = ver + 1]
<1>2. o.thing = Partial /\ o.mtime = remote[m].mtime /\ o.multi = remote[m].multi
  BY <1>1 DEF RemoteObj
<1>3. remote' = [remote EXCEPT ![m] = NoObj, ![n] = o] /\ ver' = ver + 1
  BY DEF ServerMove, WriteServer
<1> HIDE DEF o
<1>4. remote'[n] = o /\ remote'[m] = NoObj /\ \A k \in Node \ {n, m} : remote'[k] = remote[k]
  BY <1>1, <1>3
<1>5. NoObj.thing \notin Content /\ Partial \notin Content
  BY ThingAssumption DEF NoObj, Files
<1>6. QED
  BY <1>2, <1>3, <1>4, <1>5 DEF NetNew, NetOld

-------------------------------------------------------------------------------
(* Records stay sound, and tied to what was agreed on, whatever happens to *)
(* the files: what is new is later than they.                              *)

\* A record stays sound through what does not touch the file, and through what is later.
LEMMA SoundStays ==
    ASSUME TypeOK, TypeOK', NEW n \in Node, NEW r \in IndexRec, Sound(n, r),
           DiskOld(n) \/ DiskNew(n), Later
    PROVE  Sound(n, r)'
<1>1. /\ lclock \in Nat /\ lclock' \in Nat /\ ver \in Nat /\ ver' \in Nat /\ ctime[n] \in Nat
      /\ ctime'[n] \in Nat /\ r.ctime \in Nat /\ r.srv \in Nat
  BY DEF TypeOK, DiskOK, ServerOK, IndexRec
<1>2. r.ctime <= lclock' /\ r.srv <= ver'
  BY <1>1 DEF Sound, Later
<1>3. local'[n] # Absent /\ r.md5 # Missing /\ ctime'[n] <= r.ctime => local'[n] = r.md5
  BY <1>1 DEF Sound, DiskOld, DiskNew, Here
<1>4. QED
  BY <1>2, <1>3 DEF Sound, Here

\* It stays tied to what was agreed on, too.
LEMMA TiedStays ==
    ASSUME TypeOK, TypeOK', NEW n \in Node, NEW r \in IndexRec, NEW b, NEW t \in Nat,
           Tied(n, r, b, t), r.srv <= ver, t <= ver, NetOld(n) \/ NetNew(n)
    PROVE  Tied(n, r, b, t)'
<1>1. ver \in Nat /\ remote'[n].mtime \in Nat /\ r.srv \in Nat
  BY DEF TypeOK, ServerOK, IndexRec, RemoteObj
<1>2. CASE NetOld(n)
  BY <1>2 DEF Tied, NetOld
<1>3. CASE NetNew(n)
  BY <1>1, <1>3 DEF Tied, NetNew
<1>4. QED
  BY <1>2, <1>3

\* What a step does to n, and leaves in order.
DataStep(n) ==
    /\ DiskOld(n) \/ DiskNew(n)
    /\ NetOld(n) \/ NetNew(n)
    /\ local'[n] \in Own(n) \cup {Absent} /\ ctime'[n] <= lclock'
    /\ NetOld(n) \/ /\ remote'[n].thing \in Own(n) \cup {Absent} /\ ~remote'[n].multi
                    /\ remote'[n].mtime <= ver'
                    /\ remote'[n].thing # Absent => remote'[n].mtime > 0

\* What holds between the runs, through such a step.
LEMMA RestStays ==
    ASSUME TypeOK, TypeOK', RestInv, Later, UNCHANGED <<index, base, baseTime, began>>,
           edits' >= edits, faults' >= faults, \A n \in Node : DataStep(n)
    PROVE  RestInv'
<1>1. ASSUME NEW n \in Node
      PROVE  (DataOK(n) /\ Sound(n, index[n]) /\ Tied(n, index[n], base[n], baseTime[n]))'
  <2>1. DataOK(n) /\ Sound(n, index[n]) /\ Tied(n, index[n], base[n], baseTime[n]) /\ DataStep(n)
    BY DEF RestInv
  <2>2. index[n] \in IndexRec /\ index'[n] = index[n]
    BY DEF TypeOK
  <2>3. /\ ver \in Nat /\ ver' \in Nat /\ ver' >= ver /\ remote[n].mtime \in Nat
    BY DEF TypeOK, ServerOK, RemoteObj, Later
  <2>4. remote'[n].mtime <= ver' /\ (remote'[n].thing # Absent => remote'[n].mtime > 0)
        /\ remote'[n].thing \in Own(n) \cup {Absent} /\ ~remote'[n].multi
    BY <2>1, <2>3 DEF DataStep, NetOld, DataOK, There
  <2>5. DataOK(n)'
    BY <2>1, <2>3, <2>4 DEF DataOK, DataStep, There
  <2>6. PICK r, b, t : r \in IndexRec /\ r = index[n] /\ b = base[n] /\ t = baseTime[n]
    BY <2>2
  <2>7. Sound(n, r)'
    BY <2>1, <2>6, SoundStays DEF DataStep
  <2>8. Tied(n, r, b, t)'
    BY <2>1, <2>6, TiedStays DEF DataStep, DataOK, Sound
  <2>9. QED
    BY <2>2, <2>5, <2>6, <2>7, <2>8
<1>2. began \in Nat \X Nat /\ began[1] <= edits' /\ began[2] <= faults'
  BY DEF RestInv, TypeOK
<1>3. QED
  BY <1>1, <1>2 DEF RestInv

-------------------------------------------------------------------------------
(* People.                                                                 *)

\* Files are put and removed where they belong, and only between the runs.
LEMMA PeopleRest ==
    ASSUME Flat, TypeOK, TypeOK', RestInv, People, UNCHANGED <<base, baseTime, began>>
    PROVE  RestInv' /\ Between /\ UNCHANGED memory /\ edits' = edits + 1
<1>1. \A op : Act(op) => /\ Between /\ edits' = edits + 1 /\ UNCHANGED <<index, ignored, faults>>
                         /\ UNCHANGED memory
  BY DEF Act, Flat, saved
<1>2. edits \in Nat /\ faults \in Nat /\ ver \in Nat /\ lclock \in Nat
  BY GriveAssumption DEF TypeOK, ServerOK, DiskOK
<1>3. \A n \in Node : DataOK(n) /\ ctime[n] <= lclock
  BY DEF RestInv, DataOK
<1>4. UNCHANGED disk => lclock' = lclock /\ \A n \in Node : DiskOld(n) /\ local'[n] = local[n]
                                                             /\ ctime'[n] <= lclock'
  BY <1>3 DEF disk, DiskOld
<1>5. UNCHANGED server => ver' = ver /\ \A n \in Node : NetOld(n)
  BY DEF server, NetOld
<1>6. ASSUME NEW op, Act(op), Later, \A n \in Node : DataStep(n)
      PROVE  RestInv' /\ Between /\ UNCHANGED memory /\ edits' = edits + 1
  <2>1. edits' >= edits /\ faults' >= faults /\ UNCHANGED <<index, base, baseTime, began>>
    BY <1>1, <1>2, <1>6
  <2>2. QED
    BY <1>1, <1>6, <2>1, RestStays
<1>7. ASSUME NEW n \in Node, NEW t \in Holds[n], LocalPut(n, t)
      PROVE  RestInv' /\ Between /\ UNCHANGED memory /\ edits' = edits + 1
  <2>1. Act("local_put") /\ DiskPut(n, t) /\ UNCHANGED server
    BY <1>7 DEF LocalPut
  <2>2. t \in Own(n) /\ t \in Files
    BY OwnFiles DEF Own
  <2>3. /\ local'[n] = t /\ DiskNew(n) /\ lclock' = lclock + 1
        /\ \A k \in Node \ {n} : DiskOld(k)
        /\ \A k \in Node : ctime'[k] <= lclock'
    BY <2>1, <2>2, PutHere
  <2>4. \A k \in Node : DataStep(k)
    BY <1>3, <1>5, <2>1, <2>2, <2>3 DEF DataStep, DataOK, DiskOld
  <2>5. Later
    BY <1>2, <1>5, <2>1, <2>3 DEF Later
  <2>6. QED
    BY <1>6, <2>1, <2>4, <2>5
<1>8. ASSUME NEW n \in Node, LocalRemove(n)
      PROVE  RestInv' /\ Between /\ UNCHANGED memory /\ edits' = edits + 1
  <2>1. Act("local_remove") /\ DiskRemove(n) /\ UNCHANGED server
    BY <1>8 DEF LocalRemove
  <2>2. /\ local'[n] = Absent /\ DiskNew(n) /\ lclock' = lclock + 1
        /\ \A k \in Node \ {n} : DiskOld(k)
        /\ \A k \in Node : ctime'[k] <= lclock'
    BY <2>1, RemoveHere
  <2>3. \A k \in Node : DataStep(k)
    BY <1>3, <1>5, <2>1, <2>2 DEF DataStep, DataOK, DiskOld
  <2>4. Later
    BY <1>2, <1>5, <2>1, <2>2 DEF Later
  <2>5. QED
    BY <1>6, <2>1, <2>3, <2>4
<1>9. ASSUME NEW n \in Node, NEW t \in Holds[n], RemotePut(n, t)
      PROVE  RestInv' /\ Between /\ UNCHANGED memory /\ edits' = edits + 1
  <2>1. Act("remote_put") /\ ServerPut(n, t) /\ UNCHANGED disk
    BY <1>9 DEF RemotePut
  <2>2. t \in Own(n)
    BY DEF Own
  <2>3. /\ remote'[n].thing = t /\ remote'[n].mtime = ver + 1 /\ ~remote'[n].multi
        /\ NetNew(n) /\ ver' = ver + 1
        /\ \A k \in Node \ {n} : NetOld(k)
    BY <2>1, <2>2, PutThere
  <2>4. \A k \in Node : DataStep(k)
    BY <1>2, <1>3, <1>4, <2>1, <2>2, <2>3 DEF DataStep, DataOK
  <2>5. Later
    BY <1>2, <1>4, <2>1, <2>3 DEF Later
  <2>6. QED
    BY <1>6, <2>1, <2>4, <2>5
<1>10. ASSUME NEW n \in Node, RemoteTrash(n)
       PROVE  RestInv' /\ Between /\ UNCHANGED memory /\ edits' = edits + 1
  <2>1. Act("remote_trash") /\ ServerTrash(n) /\ UNCHANGED disk
    BY <1>10 DEF RemoteTrash
  <2>2. /\ remote'[n] = NoObj /\ NetNew(n) /\ ver' = ver + 1
        /\ \A k \in Node \ {n} : NetOld(k)
    BY <2>1, TrashThere
  <2>3. NoObj.thing = Absent /\ NoObj.mtime = 0 /\ ~NoObj.multi
    BY DEF NoObj
  <2>4. \A k \in Node : DataStep(k)
    BY <1>2, <1>3, <1>4, <2>1, <2>2, <2>3 DEF DataStep, DataOK
  <2>5. Later
    BY <1>2, <1>4, <2>1, <2>2 DEF Later
  <2>6. QED
    BY <1>6, <2>1, <2>4, <2>5
<1>11. ASSUME NEW n \in Node, RemoteShare(n) PROVE FALSE
  BY <1>11 DEF RemoteShare, Act, Flat
<1>12. ASSUME NEW n \in Node, NEW m \in Node, LocalMove(n, m) PROVE FALSE
  <2>1. n # m /\ local[n] \in Holds[m] \cap Content /\ local[n] \in Own(n) \cup {Absent}
    BY <1>3, <1>12 DEF LocalMove, DataOK
  <2>2. QED
    BY <2>1, OwnFiles, ThingAssumption DEF Own, Files
<1>13. ASSUME NEW n \in Node, NEW m \in Node, RemoteMove(n, m) PROVE FALSE
  <2>1. n # m /\ remote[n].thing \in Holds[m] \cap Content /\ remote[n].thing \in Own(n) \cup {Absent}
    BY <1>3, <1>13 DEF RemoteMove, DataOK
  <2>2. QED
    BY <2>1, OwnFiles, ThingAssumption DEF Own, Files
<1>14. QED
  BY <1>7, <1>8, <1>9, <1>10, <1>11, <1>12, <1>13 DEF People

-------------------------------------------------------------------------------
(* The start of a run, and what it makes of the listing.                   *)

\* A record that says so is tied to what is equal.
LEMMA NotedTied ==
    ASSUME Flat, NEW n \in Node, NEW L \in Own(n) \cup {Absent}, NEW T, NEW r,
           r.md5 # Missing => r.has,
           IF L \in Files THEN r.md5 = L /\ (L \in Content => T <= r.srv) ELSE r.has <=> L = Dir
    PROVE  /\ L = IF r.md5 = Missing THEN Absent ELSE r.md5
           /\ L \in Content => T <= r.srv
<1>1. Absent \notin Files /\ Absent # Dir /\ Missing \notin Files /\ Content \subseteq Files
  BY ThingAssumption DEF Files
<1>2. CASE L \in Files
  BY <1>1, <1>2
<1>3. CASE L \notin Files
  BY <1>1, <1>3, OwnFiles
<1>4. QED
  BY <1>2, <1>3

\* So what will be agreed on can be what is agreed on already.
LEMMA WillTied ==
    ASSUME Flat, NEW n \in Node, DataOK(n), Sound(n, st[n]),
           Noted(n) \/ Tied(n, st[n], base[n], baseTime[n])
    PROVE  Tied(n, st[n], Will(n), WillTime(n))
<1>1. CASE Noted(n)
  <2>1. /\ local[n] = IF st[n].md5 = Missing THEN Absent ELSE st[n].md5
        /\ local[n] \in Content => remote[n].mtime <= st[n].srv
    BY <1>1, NotedTied DEF Noted, DataOK, Sound
  <2>2. QED
    BY <1>1, <2>1 DEF Tied, Will, WillTime, Noted, Agreed
<1>2. CASE ~Noted(n)
  BY <1>2 DEF Will, WillTime
<1>3. QED
  BY <1>1, <1>2

\* The same after a step.
LEMMA WillTiedNext ==
    ASSUME Flat, NEW n \in Node, DataOK(n)', Sound(n, st[n])',
           Noted(n)' \/ Tied(n, st[n], base[n], baseTime[n])'
    PROVE  Tied(n, st[n], Will(n), WillTime(n))'
<1>1. CASE Noted(n)'
  <2>1. /\ local'[n] = IF st'[n].md5 = Missing THEN Absent ELSE st'[n].md5
        /\ local'[n] \in Content => remote'[n].mtime <= st'[n].srv
    BY <1>1, NotedTied DEF Noted, DataOK, Sound
  <2>2. QED
    BY <1>1, <2>1 DEF Tied, Will, WillTime, Noted, Agreed
<1>2. CASE ~Noted(n)'
  BY <1>2 DEF Will, WillTime
<1>3. QED
  BY <1>1, <1>2

\* In one folder nothing is below a path, and nothing is hidden.
LEMMA ScansFlat ==
    ASSUME Flat, NEW s, NEW n \in Node
    PROVE  Scans(n, ScannedRes(s, n, NoIgnore), s[n])
<1>1. Hides[NoIgnore] = {} /\ Under[n] = {} /\ DirAt(local, Parent[n])
  BY FlatTree, GriveAssumption
<1>2. Found(n, NoIgnore) <=> Here(n)
  BY <1>1 DEF Found, Here
<1>3. Missed(s[n], n, NoIgnore) <=> s[n].has /\ ~Here(n)
  BY <1>1 DEF Missed, Here
<1>4. NewBelow(s, n, NoIgnore) = FALSE
  BY <1>1 DEF NewBelow
<1>5. QED
  BY <1>2, <1>3, <1>4 DEF ScannedRes, Scans

\* What the scan finds: whether a file is new is decided by its content.
LEMMA ScanHere ==
    ASSUME Flat, NEW n \in Node, DataOK(n), NEW rec, Sound(n, rec), NEW r, Scans(n, r, rec), Here(n)
    PROVE  /\ r.src = "local" /\ r.exists = TRUE /\ r.kind = "file"
           /\ r.state = (IF local[n] = rec.md5 THEN "remote_deleted" ELSE "local_new")
           /\ r.md5 \in {local[n], NoMD5} /\ r.id = FALSE
           /\ r.size = SizeOf(local[n]) /\ r.ctime = ctime[n] /\ r.mtime = rec.srv
<1>1. local[n] \in Files /\ local[n] \notin {Dir, Bad}
  BY OwnFiles, ThingAssumption DEF DataOK, Here
<1>2. r = FromLocal(rec, local[n], ctime[n], FALSE)
  BY DEF Scans
<1>3. Vouched(rec, local[n], ctime[n]) => rec.md5 = local[n]
  BY <1>1 DEF Vouched, Sound
<1>4. Hashed(rec, local[n], ctime[n]) <=>
          /\ ~Vouched(rec, local[n], ctime[n]) /\ rec.md5 # Missing
          /\ SizeOf(rec.md5) = SizeOf(local[n])
  <2>1. rec.md5 # Missing => rec.size = SizeOf(rec.md5)
    BY DEF Sound
  <2>2. Size[local[n]] = SizeOf(local[n])
    BY <1>1 DEF SizeOf
  <2>3. QED
    BY <1>1, <2>1, <2>2 DEF Hashed
<1>5. Changed(rec, local[n], ctime[n]) <=> local[n] # rec.md5
  BY <1>1, <1>3, <1>4, ThingAssumption DEF Changed
<1>6. r = [src |-> "local", exists |-> TRUE, kind |-> "file",
           state |-> IF local[n] # rec.md5 THEN "local_new" ELSE "remote_deleted",
           md5 |-> IF Hashed(rec, local[n], ctime[n]) THEN local[n]
                   ELSE IF Vouched(rec, local[n], ctime[n]) THEN rec.md5 ELSE NoMD5,
           size |-> SizeOf(local[n]), ctime |-> ctime[n], mtime |-> rec.srv,
           id |-> FALSE, etag |-> 0, json |-> TRUE]
  BY <1>1, <1>2, <1>5 DEF FromLocal
<1>7. QED
  BY <1>3, <1>6

\* What it misses is deleted on both sides until the listing says otherwise.
LEMMA ScanMissed ==
    ASSUME NEW n \in Node, NEW rec, Sound(n, rec), NEW r, Scans(n, r, rec), ~Here(n), rec.has
    PROVE  /\ r.src = "index" /\ r.exists = FALSE /\ r.kind = "file"
           /\ r.state = "both_deleted" /\ r.size = rec.size /\ r.mtime = rec.srv
           /\ r.md5 = (IF rec.md5 = Missing THEN NoMD5 ELSE rec.md5) /\ r.id = FALSE
BY DEF Scans, FromDeleted, NoRes, Sound

\* The scan: a record for what it finds, and nothing new in the others.
LEMMA StartFlat ==
    ASSUME Flat, TypeOK, FlatInv, NEW o \in Options, NEW i \in Ignores, Start(o, i),
           UNCHANGED <<base, baseTime>>, began' = bounds
    PROVE  FlatInv'
<1>1. /\ phase' = "list" /\ i = NoIgnore /\ "force" \notin o /\ ignored = NoIgnore
      /\ UNCHANGED <<local, ctime, lclock, remote, ver, index, edits, faults>>
      /\ st' = [n \in Node |-> Scanned(index[n], n, o, i)]
      /\ res' = [n \in Node |-> ScannedRes(st', n, i)]
  BY FlatOptions DEF Start, disk, server, saved, bounds, Flat, OneFolder
<1>2. RestInv'
  <2>1. \A n \in Node : DataOK(n)' /\ Sound(n, index[n])' /\ Tied(n, index[n], base[n], baseTime[n])'
    BY <1>1 DEF FlatInv, RestInv, DataOK, There, Sound, Here, Tied
  <2>2. began' \in Nat \X Nat /\ began'[1] <= edits' /\ began'[2] <= faults'
    BY <1>1, GriveAssumption DEF TypeOK, bounds
  <2>3. QED
    BY <2>1, <2>2 DEF RestInv
<1>3. ASSUME NEW n \in Node
      PROVE  (Sound(n, st[n]) /\ Tied(n, st[n], Will(n), WillTime(n)))'
  <2>1. DataOK(n) /\ Sound(n, index[n]) /\ Tied(n, index[n], base[n], baseTime[n])
        /\ index[n] \in IndexRec
    BY DEF FlatInv, RestInv, TypeOK
  <2>2. local[n] # Dir
    BY <2>1, OwnFiles, ThingAssumption DEF DataOK
  <2>3. /\ st'[n].md5 = index[n].md5 /\ st'[n].size = index[n].size /\ st'[n].srv = index[n].srv
        /\ st'[n].ctime = index[n].ctime /\ st'[n].tree = index[n].tree
        /\ index[n].has => st'[n].has
    BY <1>1, <2>1, <2>2 DEF Scanned, IgnChanged, IndexRec
  <2>4. Sound(n, st[n])'
    BY <1>1, <2>1, <2>3 DEF Sound, Here
  <2>5. Tied(n, st[n], base[n], baseTime[n])'
    BY <1>1, <2>1, <2>3 DEF Tied
  <2>6. DataOK(n)'
    BY <1>2 DEF RestInv
  <2>7. Tied(n, st[n], Will(n), WillTime(n))'
    BY <2>4, <2>5, <2>6, WillTiedNext
  <2>8. QED
    BY <2>4, <2>7
<1>4. ASSUME NEW n \in Node PROVE Scans(n, res[n], st[n])'
  <2>1. PICK s : s = st'
    OBVIOUS
  <2>2. res'[n] = ScannedRes(s, n, NoIgnore)
    BY <1>1, <2>1
  <2>3. Scans(n, res'[n], s[n])
    BY <2>2, ScansFlat
  <2>4. QED
    BY <1>1, <2>1, <2>3 DEF Scans, Here
<1>5. ScanInv'
  BY <1>4 DEF ScanInv
<1>6. MemoryInv'
  BY <1>3 DEF MemoryInv
<1>7. NoAbort' /\ JudgeInv' /\ WalkInv'
  BY <1>1 DEF NoAbort, JudgeInv, WalkInv
<1>8. QED
  BY <1>2, <1>5, <1>6, <1>7 DEF FlatInv

\* A resource is classified if its state tells the truth and its fields are those of the files.
LEMMA JudgedAs ==
    ASSUME NEW n \in Node, NEW r, NEW rec,
           r.src # "none" /\ r.kind = "file" /\ r.mtime <= ver,
           r.src = "local" <=> Here(n), Facts(n, r.state, rec.md5, rec.srv),
           r.exists <=> Here(n), r.id <=> There(n),
           Here(n) => r.ctime = ctime[n] /\ (~There(n) => r.md5 \in {local[n], NoMD5}),
           There(n) => r.md5 = remote[n].thing /\ r.mtime = remote[n].mtime
                       /\ r.etag = remote[n].etag,
           r.size = SizeOf(IF r.state \in {"remote_new", "remote_changed"}
                           THEN remote[n].thing ELSE IF Here(n) THEN local[n] ELSE rec.md5)
    PROVE  Judged(n, r, rec)
BY DEF Judged

\* A path the listing does not have is judged as the scan left it.
LEMMA JudgeScanned ==
    ASSUME Flat, NEW n \in Node, DataOK(n), NEW rec, Sound(n, rec),
           NEW r, Scans(n, r, rec), ~There(n)
    PROVE  Judged(n, r, rec)
<1>1. NoRes.src = "none" /\ NoRes.kind = "" /\ NoRes.state = "unknown" /\ rec.srv <= ver
  BY DEF NoRes, Sound
<1>2. CASE Here(n)
  <2>1. /\ r.src = "local" /\ r.exists = TRUE /\ r.kind = "file"
        /\ r.state = (IF local[n] = rec.md5 THEN "remote_deleted" ELSE "local_new")
        /\ r.md5 \in {local[n], NoMD5} /\ r.id = FALSE
        /\ r.size = SizeOf(local[n]) /\ r.ctime = ctime[n] /\ r.mtime = rec.srv
    BY <1>2, ScanHere
  <2>2. Facts(n, r.state, rec.md5, rec.srv)
    BY <1>2, <2>1 DEF Facts
  <2>3. QED
    BY <1>1, <1>2, <2>1, <2>2 DEF Judged
<1>3. CASE ~Here(n) /\ rec.has
  BY <1>1, <1>3, ScanMissed DEF Judged, Facts
<1>4. CASE ~Here(n) /\ ~rec.has
  BY <1>1, <1>4 DEF Judged, Scans
<1>5. QED
  BY <1>2, <1>3, <1>4

\* What State::FromRemote makes of a listed file.
LEMMA JudgeListed ==
    ASSUME Flat, TypeOK, NEW n \in Node, DataOK(n), There(n), NEW rec \in IndexRec, Sound(n, rec),
           NEW r, Scans(n, r, rec), NEW old \in ResourceRec,
           old = IF r.src = "none" THEN NewResource(remote[n]) ELSE r,
           NEW md5, Here(n) => md5 = local[n]
    PROVE  Judged(n, FromRemote(old, remote[n], "sync", md5), rec)
<1> DEFINE e == remote[n]
           s == RemoteFileState(old, e, "sync", md5)
           new == FromRemote(old, e, "sync", md5)
<1>1. /\ e.thing \in Files /\ e.thing \notin {Dir, Absent, NoMD5, Missing} /\ MD5Of(e) = e.thing
      /\ e.mtime > 0 /\ e.mtime <= ver /\ e.mtime \in Nat /\ rec.srv \in Nat
  BY OwnFiles, ThingAssumption DEF DataOK, There, MD5Of, TypeOK, ServerOK, RemoteObj, IndexRec
<1>2. NoRes.src = "none" /\ NoRes.mtime = 0 /\ NoRes.md5 = NoMD5 /\ NoRes.exists = FALSE
  BY DEF NoRes
<1>3. /\ NewResource(e).src = "remote" /\ NewResource(e).kind = "file"
      /\ NewResource(e).exists = FALSE /\ NewResource(e).md5 = NoMD5 /\ NewResource(e).mtime = 0
      /\ NewResource(e).size = 0
  BY <1>1 DEF NewResource, NoRes
<1> HIDE DEF e
<1>4. Here(n) => /\ old.src = "local" /\ old.exists = TRUE /\ old.kind = "file"
                 /\ old.state \in {"local_new", "remote_deleted"}
                 /\ old.size = SizeOf(local[n]) /\ old.ctime = ctime[n] /\ old.mtime = rec.srv
  <2> SUFFICES ASSUME Here(n)
               PROVE  /\ old.src = "local" /\ old.exists = TRUE /\ old.kind = "file"
                      /\ old.state \in {"local_new", "remote_deleted"}
                      /\ old.size = SizeOf(local[n]) /\ old.ctime = ctime[n] /\ old.mtime = rec.srv
    OBVIOUS
  <2>1. /\ r.src = "local" /\ r.exists = TRUE /\ r.kind = "file"
        /\ r.state = (IF local[n] = rec.md5 THEN "remote_deleted" ELSE "local_new")
        /\ r.md5 \in {local[n], NoMD5} /\ r.id = FALSE
        /\ r.size = SizeOf(local[n]) /\ r.ctime = ctime[n] /\ r.mtime = rec.srv
    BY ScanHere
  <2>2. old = r
    BY <2>1
  <2>3. QED
    BY <2>1, <2>2
<1>5. ~Here(n) => /\ old.src \in {"index", "remote"} /\ old.exists = FALSE /\ old.kind = "file"
  <2>1. ~Here(n) /\ rec.has => old.src = "index" /\ old.exists = FALSE /\ old.kind = "file"
    BY ScanMissed
  <2>2. ~Here(n) /\ ~rec.has => old = NewResource(e)
    BY <1>2 DEF e, Scans
  <2>3. QED
    BY <1>3, <2>1, <2>2
<1>6. ~Here(n) /\ rec.has => /\ old.md5 = (IF rec.md5 = Missing THEN NoMD5 ELSE rec.md5)
                             /\ old.mtime = rec.srv /\ old.size = rec.size
  BY ScanMissed
<1>7. ~Here(n) /\ ~rec.has => old.md5 = NoMD5 /\ old.mtime = 0 /\ rec.md5 = Missing
  BY <1>2, <1>3 DEF e, Scans, Sound
<1>8. old.kind = "file"
  BY <1>4, <1>5
<1>9. new = [old EXCEPT !.state = s, !.md5 = MD5Of(e), !.size = RemoteFileSize(old, e, "sync", s),
                        !.mtime = e.mtime, !.id = TRUE, !.etag = e.etag]
  BY <1>1, <1>8 DEF FromRemote, IsFolder
<1> HIDE DEF new, s
<1>10. /\ new.src = old.src /\ new.exists = old.exists /\ new.kind = old.kind
       /\ new.ctime = old.ctime /\ new.state = s /\ new.md5 = MD5Of(e) /\ new.mtime = e.mtime
       /\ new.id = TRUE /\ new.etag = e.etag /\ new.size = RemoteFileSize(old, e, "sync", s)
  BY <1>9 DEF ResourceRec
<1>11. CASE Here(n)
  <2>1. SameFile(old, e, md5) <=> e.thing = local[n]
    BY <1>1, <1>4, <1>11 DEF SameFile
  <2>2. s = IF e.thing = local[n] THEN "sync"
            ELSE IF e.mtime > rec.srv THEN "remote_changed" ELSE "local_changed"
    BY <1>1, <1>4, <1>8, <1>11, <2>1 DEF s, RemoteFileState, Newer
  <2>3. Facts(n, s, rec.md5, rec.srv)
    BY <1>1, <1>11, <2>2 DEF Facts, e, There
  <2>4. new.size = SizeOf(IF s \in {"remote_new", "remote_changed"} THEN e.thing ELSE local[n])
    BY <1>4, <1>10, <1>11 DEF RemoteFileSize
  <2>5. /\ new.src # "none" /\ new.kind = "file" /\ new.mtime <= ver /\ new.src = "local"
        /\ new.exists /\ new.id /\ There(n) /\ new.ctime = ctime[n]
    BY <1>1, <1>4, <1>10, <1>11
  <2>6. /\ new.md5 = remote[n].thing /\ new.mtime = remote[n].mtime /\ new.etag = remote[n].etag
        /\ new.state = s
    BY <1>1, <1>10 DEF e
  <2>7. new.size = SizeOf(IF s \in {"remote_new", "remote_changed"} THEN remote[n].thing
                          ELSE IF Here(n) THEN local[n] ELSE rec.md5)
    BY <1>11, <2>4 DEF e
  <2>8. Judged(n, new, rec)
    <3>1. new.src # "none" /\ new.kind = "file" /\ new.mtime <= ver
      BY <2>5
    <3>2. (new.src = "local" <=> Here(n)) /\ (new.exists <=> Here(n)) /\ (new.id <=> There(n))
      BY <1>11, <2>5
    <3>3. Facts(n, new.state, rec.md5, rec.srv)
      BY <2>3, <2>6
    <3>4. Here(n) => new.ctime = ctime[n] /\ (~There(n) => new.md5 \in {local[n], NoMD5})
      BY <2>5
    <3>5. new.size = SizeOf(IF new.state \in {"remote_new", "remote_changed"}
                           THEN remote[n].thing ELSE IF Here(n) THEN local[n] ELSE rec.md5)
      BY <2>6, <2>7
    <3>6. QED
      BY <2>6, <3>1, <3>2, <3>3, <3>4, <3>5, JudgedAs
  <2>9. QED
    BY <2>8 DEF new, e
<1>12. CASE ~Here(n)
  <2>1. s = IF e.mtime > old.mtime \/ e.thing # old.md5 THEN "remote_new" ELSE "local_deleted"
    BY <1>1, <1>5, <1>8, <1>12 DEF s, RemoteFileState, Newer
  <2>2. s = "remote_new" => e.thing # rec.md5 \/ e.mtime > rec.srv
    BY <1>1, <1>6, <1>7, <1>12, <2>1
  <2>3. s # "remote_new" => rec.has /\ e.thing = rec.md5 /\ ~(e.mtime > rec.srv)
                            /\ old.size = SizeOf(rec.md5)
    <3>1. s # "remote_new" => rec.has /\ e.thing = rec.md5 /\ ~(e.mtime > rec.srv)
                              /\ old.size = rec.size
      BY <1>1, <1>6, <1>7, <1>12, <2>1
    <3>2. e.thing = rec.md5 => rec.size = SizeOf(rec.md5)
      BY <1>1 DEF Sound
    <3>3. QED
      BY <3>1, <3>2
  <2>4. Facts(n, s, rec.md5, rec.srv)
    BY <1>12, <2>1, <2>2, <2>3 DEF Facts, e
  <2>5. new.size = SizeOf(IF s = "remote_new" THEN e.thing ELSE rec.md5)
    BY <1>10, <2>1, <2>3 DEF RemoteFileSize
  <2>6. /\ new.src \notin {"none", "local"} /\ new.kind = "file" /\ new.mtime <= ver
        /\ ~new.exists /\ new.id /\ There(n)
    BY <1>1, <1>5, <1>10, <1>12
  <2>7. /\ new.md5 = remote[n].thing /\ new.mtime = remote[n].mtime /\ new.etag = remote[n].etag
        /\ new.state = s
    BY <1>1, <1>10 DEF e
  <2>8. new.size = SizeOf(IF s \in {"remote_new", "remote_changed"} THEN remote[n].thing
                          ELSE IF Here(n) THEN local[n] ELSE rec.md5)
    BY <1>12, <2>1, <2>5 DEF e
  <2>9. Judged(n, new, rec)
    <3>1. new.src # "none" /\ new.kind = "file" /\ new.mtime <= ver
      BY <2>6
    <3>2. (new.src = "local" <=> Here(n)) /\ (new.exists <=> Here(n)) /\ (new.id <=> There(n))
      BY <1>12, <2>6
    <3>3. Facts(n, new.state, rec.md5, rec.srv)
      BY <2>4, <2>7
    <3>4. Here(n) => new.ctime = ctime[n] /\ (~There(n) => new.md5 \in {local[n], NoMD5})
      BY <1>12
    <3>5. new.size = SizeOf(IF new.state \in {"remote_new", "remote_changed"}
                           THEN remote[n].thing ELSE IF Here(n) THEN local[n] ELSE rec.md5)
      BY <2>7, <2>8
    <3>6. QED
      BY <2>7, <3>1, <3>2, <3>3, <3>4, <3>5, JudgedAs
  <2>10. QED
    BY <2>9 DEF new, e
<1>13. QED
  BY <1>11, <1>12

\* The listing is the server as it is.
LEMMA GetAllFlat ==
    ASSUME Flat, TypeOK, FlatInv, GetAll, UNCHANGED <<base, baseTime, began>>
    PROVE  FlatInv'
<1>1. /\ phase = "list" /\ phase' = "resolve" /\ feed' = remote
      /\ UNCHANGED <<local, ctime, lclock, remote, ver, index, st, res, opt, edits, faults>>
  BY DEF GetAll, disk, server, saved, bounds
<1>2. RestInv'
  BY <1>1 DEF FlatInv, RestInv, DataOK, There, Sound, Here, Tied
<1>3. MemoryInv'
  BY <1>1 DEF FlatInv, MemoryInv, Running, Between, Dry, Sound, Here, Tied, Will, WillTime, Noted, Agreed
<1>4. JudgeInv'
  BY <1>1 DEF FlatInv, ScanInv, JudgeInv, Scans, Here
<1>5. QED
  BY <1>1, <1>2, <1>3, <1>4 DEF FlatInv, NoAbort, ScanInv, WalkInv

\* Every folder is there, and in sync: every entry is applied.
LEMMA ListEntryFlat ==
    ASSUME Flat, TypeOK, TypeOK', FlatInv, NEW n \in Node, ListEntry(n),
           UNCHANGED <<base, baseTime, began>>
    PROVE  FlatInv'
<1>1. /\ phase = "resolve" /\ Listed(n) /\ Res(Parent[n]) = RootRes /\ feed[n] \in RemoteObj
      /\ DataOK(n) /\ Sound(n, st[n]) /\ st[n] \in IndexRec /\ res[n] \in ResourceRec
  BY FlatTree DEF ListEntry, FlatInv, RestInv, MemoryInv, Running, Between, TypeOK, MemoryOK
<1>2. feed[n] = remote[n] /\ Scans(n, res[n], st[n]) /\ There(n)
  <2>1. NoObj.thing = Absent
    BY DEF NoObj
  <2>2. QED
    BY <1>1, <2>1 DEF FlatInv, JudgeInv, Listed, There
<1>3. remote[n].thing # Dir /\ ~remote[n].multi /\ ~IsIgnore(n)
  BY <1>1, <1>2, OwnFiles, FlatOptions DEF DataOK, There, IsIgnore
<1> DEFINE old == IF res[n].src = "none" THEN NewResource(remote[n]) ELSE res[n]
           new == FromRemote(old, remote[n], "sync", GetMD5(n))
<1>4. /\ feed' = [feed EXCEPT ![n] = NoObj] /\ res' = [res EXCEPT ![n] = new]
      /\ UNCHANGED <<local, ctime, lclock, remote, ver, index, st, phase, opt, edits, faults>>
  BY <1>1, <1>2, <1>3, FlatRoot DEF ListEntry, disk, server, saved, bounds
<1>5. old \in ResourceRec
  <2>1. NewResource(remote[n]) \in ResourceRec
    BY DEF NewResource, NoRes, ResourceRec, State
  <2>2. QED
    BY <1>1, <2>1
<1>6. Here(n) => GetMD5(n) = local[n]
  <2>1. ASSUME Here(n) PROVE GetMD5(n) = local[n]
    <3>1. /\ res[n].src = "local" /\ res[n].exists = TRUE /\ res[n].kind = "file"
          /\ res[n].state = (IF local[n] = st[n].md5 THEN "remote_deleted" ELSE "local_new")
          /\ res[n].md5 \in {local[n], NoMD5} /\ res[n].id = FALSE
          /\ res[n].size = SizeOf(local[n]) /\ res[n].ctime = ctime[n] /\ res[n].mtime = st[n].srv
      BY <1>1, <1>2, <2>1, ScanHere
    <3>2. local[n] \in Files
      BY <1>1, <2>1, OwnFiles DEF DataOK, Here
    <3>3. QED
      BY <3>1, <3>2 DEF GetMD5, IsFolder
  <2>2. QED
    BY <2>1
<1>7. Judged(n, new, st[n])
  <2>1. PICK h : h = GetMD5(n)
    OBVIOUS
  <2>2. PICK q \in ResourceRec : q = old
    BY <1>5
  <2>3. q = IF res[n].src = "none" THEN NewResource(remote[n]) ELSE res[n]
    BY <2>2
  <2>4. Judged(n, FromRemote(q, remote[n], "sync", h), st[n])
    BY <1>1, <1>2, <1>6, <2>1, <2>3, JudgeListed
  <2>5. QED
    BY <2>1, <2>2, <2>4
<1> HIDE DEF new, old
<1>8. /\ feed'[n] = NoObj /\ res'[n] = new
      /\ \A k \in Node \ {n} : feed'[k] = feed[k] /\ res'[k] = res[k]
  BY <1>4 DEF TypeOK, MemoryOK
<1>9. RestInv'
  BY <1>4 DEF FlatInv, RestInv, DataOK, There, Sound, Here, Tied
<1>10. MemoryInv'
  BY <1>4 DEF FlatInv, MemoryInv, Running, Between, Dry, Sound, Here, Tied, Will, WillTime, Noted, Agreed
<1>11. JudgeInv'
  <2>1. \A k \in Node \ {n} : \/ feed[k] = remote[k] /\ Scans(k, res[k], st[k])
                              \/ feed[k] = NoObj /\ There(k) /\ Judged(k, res[k], st[k])
    BY <1>1 DEF FlatInv, JudgeInv
  <2>2. UNCHANGED <<local, ctime, remote, ver>>
    BY <1>4
  <2>3. \A k \in Node : \A r, s : Judged(k, r, s)' <=> Judged(k, r, s)
    BY <2>2 DEF Judged, Facts, Here, There
  <2>4. \A k \in Node : \A r, s : Scans(k, r, s)' <=> Scans(k, r, s)
    BY <2>2 DEF Scans, Here
  <2>5. QED
    BY <1>2, <1>4, <1>7, <1>8, <2>1, <2>2, <2>3, <2>4 DEF JudgeInv, There
<1>12. QED
  BY <1>1, <1>4, <1>9, <1>10, <1>11 DEF FlatInv, NoAbort, ScanInv, WalkInv

\* The walk starts with every path judged, and what is nowhere is done.
LEMMA ResolveFlat ==
    ASSUME Flat, TypeOK, FlatInv, ResolveEntry, UNCHANGED <<base, baseTime, began>>
    PROVE  FlatInv'
<1>1. /\ phase = "resolve" /\ phase' = "sync" /\ \A n \in Node : ~Listed(n)
      /\ UNCHANGED <<local, ctime, lclock, remote, ver, index, st, res, opt, edits, faults>>
      /\ pending' = Children(Root)
  BY FlatTree, FlatRoot DEF ResolveEntry, disk, server, saved, bounds
<1>2. RestInv'
  BY <1>1 DEF FlatInv, RestInv, DataOK, There, Sound, Here, Tied
<1>3. MemoryInv'
  BY <1>1 DEF FlatInv, MemoryInv, Running, Between, Dry, Sound, Here, Tied, Will, WillTime, Noted, Agreed
<1>4. ASSUME NEW n \in Node PROVE Judged(n, res[n], st[n])
  <2>1. DataOK(n) /\ Sound(n, st[n])
    BY <1>1 DEF FlatInv, RestInv, MemoryInv, Running, Between
  <2>2. \/ feed[n] = remote[n] /\ Scans(n, res[n], st[n])
        \/ feed[n] = NoObj /\ There(n) /\ Judged(n, res[n], st[n])
    BY <1>1 DEF FlatInv, JudgeInv
  <2>3. feed[n] = remote[n] => ~There(n)
    BY <1>1 DEF Listed, There
  <2>4. QED
    BY <2>1, <2>2, <2>3, JudgeScanned
<1>5. \A n \in Node : n \in pending' <=> res[n].src # "none"
  BY <1>1, FlatTree DEF Children
<1>6. ASSUME NEW n \in Node, res[n].src = "none" PROVE Done(n)
  <2>1. ~Here(n) /\ ~There(n) /\ ~st[n].has /\ res[n].state = "unknown"
    BY <1>4, <1>6 DEF Judged
  <2>2. QED
    BY <2>1, ThingAssumption DEF Done, Noted, Agreed, Here, There
<1>7. ASSUME NEW n \in Node
      PROVE  IF Dry THEN res[n].kind # "folder"
             ELSE /\ n \in pending' => Judged(n, res[n], st[n]) /\ res[n].src # "none"
                  /\ n \notin pending' => Done(n)
                  /\ n \in pending' /\ res[n].src = "local" =>
                        \A m \in Node : res[m].state = "local_deleted" => m \in pending'
  BY <1>4, <1>5, <1>6 DEF Judged
<1>8. WalkInv'
  <2>1. \A k \in Node : \A r, s : Judged(k, r, s)' <=> Judged(k, r, s)
    BY <1>1 DEF Judged, Facts, Here, There
  <2>2. \A n \in Node : Done(n)' <=> Done(n)
    BY <1>1, <2>1 DEF Done, Noted, Agreed, Disturbed, Here, bounds
  <2>3. Dry' <=> Dry
    BY <1>1 DEF Dry
  <2>4. QED
    BY <1>1, <1>7, <2>1, <2>2, <2>3 DEF WalkInv, Walk
<1>9. QED
  BY <1>1, <1>2, <1>3, <1>8 DEF FlatInv, NoAbort, ScanInv, JudgeInv

\* What is saved is what the run knows, agreed on now or before.
LEMMA SaveFlat ==
    ASSUME Flat, TypeOK, FlatInv, SaveState, UNCHANGED began,
           base' = (IF ~Dry THEN [n \in Node |-> Will(n)] ELSE base),
           baseTime' = (IF ~Dry THEN [n \in Node |-> WillTime(n)] ELSE baseTime)
    PROVE  FlatInv'
<1>1. /\ phase = "sync" /\ phase' = "idle"
      /\ UNCHANGED <<local, ctime, lclock, remote, ver, edits, faults>>
      /\ index' = IF Dry THEN index ELSE st
  BY DEF SaveState, WalkDone, disk, server, saved, bounds
<1>2. ASSUME NEW n \in Node
      PROVE  (DataOK(n) /\ Sound(n, index[n]) /\ Tied(n, index[n], base[n], baseTime[n]))'
  <2>1. DataOK(n) /\ Sound(n, index[n]) /\ Tied(n, index[n], base[n], baseTime[n])
    BY DEF FlatInv, RestInv
  <2>2. ASSUME ~Dry PROVE Sound(n, st[n]) /\ Tied(n, st[n], Will(n), WillTime(n))
    BY <1>1, <2>2 DEF FlatInv, MemoryInv, Running, Between
  <2>3. WillTime(n) \in Nat /\ WillTime(n) <= ver
    BY <2>1 DEF WillTime, DataOK, TypeOK, ServerOK, RemoteObj
  <2>4. DataOK(n)'
    BY <1>1, <2>1, <2>3 DEF DataOK, There
  <2>5. Sound(n, index[n])'
    BY <1>1, <2>1, <2>2 DEF Sound, Here
  <2>6. Tied(n, index[n], base[n], baseTime[n])'
    BY <1>1, <2>1, <2>2 DEF Tied
  <2>7. QED
    BY <2>4, <2>5, <2>6
<1>3. RestInv'
  BY <1>1, <1>2 DEF FlatInv, RestInv
<1>4. QED
  BY <1>1, <1>3 DEF FlatInv, NoAbort, MemoryInv, ScanInv, JudgeInv, WalkInv, Running, Between

\* A run that is killed leaves everything as it is; one that is killed as it saves, nothing.
LEMMA KilledFlat ==
    ASSUME Flat, TypeOK, TypeOK', FlatInv, Die \/ TornSave, UNCHANGED began,
           base' = (IF TornSave THEN [n \in Node |-> Absent] ELSE base),
           baseTime' = (IF TornSave THEN [n \in Node |-> 0] ELSE baseTime)
    PROVE  FlatInv'
<1>1. /\ phase' = "idle" /\ edits' = edits /\ faults' = faults + 1 /\ faults \in Nat
      /\ UNCHANGED <<local, ctime, lclock, remote, ver>>
      /\ index' = IF TornSave THEN NoIndex ELSE index
  <2>1. (~TornSave => index' = index) /\ (TornSave => index' = NoIndex)
    BY DEF Die, TornSave, saved
  <2>2. QED
    BY <2>1, GriveAssumption DEF Die, TornSave, Fault, disk, server, TypeOK
<1>2. ASSUME NEW n \in Node
      PROVE  (DataOK(n) /\ Sound(n, index[n]) /\ Tied(n, index[n], base[n], baseTime[n]))'
  <2>1. DataOK(n) /\ Sound(n, index[n]) /\ Tied(n, index[n], base[n], baseTime[n])
    BY DEF FlatInv, RestInv
  <2>2. CASE ~TornSave
    BY <1>1, <2>1, <2>2 DEF DataOK, There, Sound, Here, Tied
  <2>3. CASE TornSave
    <3>1. index'[n] = NoRec /\ base'[n] = Absent /\ baseTime'[n] = 0
      BY <1>1, <2>3 DEF NoIndex
    <3>2. ver \in Nat /\ lclock \in Nat /\ remote[n].mtime \in Nat
      BY DEF TypeOK, ServerOK, DiskOK, RemoteObj
    <3>3. DataOK(n)'
      BY <1>1, <2>1, <3>1, <3>2 DEF DataOK, There
    <3>4. Sound(n, NoRec)'
      BY <1>1, <3>2 DEF Sound, NoRec
    <3>5. remote[n].thing \in Content => remote[n].thing # Absent /\ ~(remote[n].mtime <= 0)
      BY <2>1, <3>2, ThingAssumption DEF DataOK, There, Files
    <3>6. Tied(n, NoRec, Absent, 0)'
      BY <1>1, <3>5 DEF Tied, NoRec
    <3>7. QED
      BY <3>1, <3>3, <3>4, <3>6
  <2>4. QED
    BY <2>2, <2>3
<1>3. RestInv'
  BY <1>1, <1>2 DEF FlatInv, RestInv
<1>4. QED
  BY <1>1, <1>3 DEF FlatInv, NoAbort, MemoryInv, ScanInv, JudgeInv, WalkInv, Running, Between

\* Before the first run.
LEMMA InitFlat ==
    ASSUME Flat, HInit
    PROVE  FlatInv
<1>1. phase = "idle" /\ lclock = 1 /\ ver = 1 /\ edits = 0 /\ faults = 0 /\ began = <<0, 0>>
  BY DEF HInit, Init, bounds
<1>2. ASSUME NEW f \in Trees, NEW n \in Node
      PROVE  /\ f[n] \in Holds[n] \cup {Absent}
             /\ Objects(f)[n] = IF f[n] = Absent THEN NoObj
                    ELSE [thing |-> f[n], etag |-> 1, mtime |-> 1, multi |-> FALSE]
             /\ Records(f)[n] = IF f[n] = Absent THEN NoRec
                    ELSE [has |-> TRUE, ctime |-> 1, srv |-> 1, md5 |-> f[n],
                          size |-> SizeOf(f[n]), tree |-> FALSE]
  <2>1. f[n] # Absent => f[n] \in Holds[n]
    BY DEF Trees
  <2>2. f[n] \in Holds[n] => f[n] # Dir
    BY OwnFiles DEF Own
  <2>3. QED
    BY <2>1, <2>2 DEF Objects, Records
<1>3. ASSUME NEW n \in Node
      PROVE  DataOK(n) /\ Sound(n, index[n]) /\ Tied(n, index[n], base[n], baseTime[n])
  <2>1. /\ local \in Trees /\ local[n] \in Holds[n] \cup {Absent}
        /\ ctime[n] = IF local[n] = Absent THEN 0 ELSE 1
    BY <1>2 DEF HInit, Init
  <2>2. /\ base[n] = IF Agreed(n) /\ index[n].has THEN local[n] ELSE Absent
        /\ baseTime[n] = IF base[n] = Absent THEN 0 ELSE remote[n].mtime
    BY DEF HInit
  <2>3. Holds[n] \subseteq Own(n) /\ Holds[n] \subseteq Files /\ Absent \notin Files /\ Missing \notin Files
    BY OwnFiles, ThingAssumption DEF Own
  <2>4. NoRec.has = FALSE /\ NoRec.md5 = Missing /\ NoRec.tree = FALSE /\ NoRec.ctime = 0 /\ NoRec.srv = 0
    BY DEF NoRec
  <2>5. NoObj.thing = Absent /\ NoObj.mtime = 0 /\ NoObj.multi = FALSE
    BY DEF NoObj
  <2>6. CASE remote = Objects(local) /\ index = Records(local)
    <3>1. /\ remote[n] = IF local[n] = Absent THEN NoObj
                    ELSE [thing |-> local[n], etag |-> 1, mtime |-> 1, multi |-> FALSE]
          /\ index[n] = IF local[n] = Absent THEN NoRec
                    ELSE [has |-> TRUE, ctime |-> 1, srv |-> 1, md5 |-> local[n],
                          size |-> SizeOf(local[n]), tree |-> FALSE]
      BY <1>2, <2>1, <2>6
    <3>2. CASE local[n] = Absent
      BY <1>1, <2>1, <2>2, <2>3, <2>4, <2>5, <3>1, <3>2, ThingAssumption
      DEF DataOK, There, Sound, Here, Tied, Files
    <3>3. CASE local[n] # Absent
      BY <1>1, <2>1, <2>2, <2>3, <3>1, <3>3 DEF DataOK, There, Sound, Here, Tied, Agreed
    <3>4. QED
      BY <3>2, <3>3
  <2>7. CASE (\E f \in Trees : remote = Objects(f)) /\ index = NoIndex
    <3>1. PICK f \in Trees : remote = Objects(f)
      BY <2>7
    <3>2. /\ remote[n] = IF f[n] = Absent THEN NoObj
                    ELSE [thing |-> f[n], etag |-> 1, mtime |-> 1, multi |-> FALSE]
          /\ f[n] \in Holds[n] \cup {Absent}
      BY <1>2, <3>1
    <3>3. index[n] = NoRec
      BY <2>7 DEF NoIndex
    <3>4. base[n] = Absent /\ baseTime[n] = 0
      BY <2>2, <2>4, <3>3
    <3>5. DataOK(n)
      BY <1>1, <2>1, <2>3, <2>5, <3>2, <3>4 DEF DataOK, There
    <3>6. Sound(n, index[n])
      BY <1>1, <2>4, <3>3 DEF Sound
    <3>7. Tied(n, index[n], base[n], baseTime[n])
      BY <2>3, <2>4, <2>5, <3>2, <3>3, <3>4, ThingAssumption DEF Tied, Files
    <3>8. QED
      BY <3>5, <3>6, <3>7
  <2>8. QED
    BY <2>6, <2>7 DEF HInit, Init
<1>4. RestInv
  BY <1>1, <1>3 DEF RestInv
<1>5. QED
  BY <1>1, <1>4 DEF FlatInv, NoAbort, MemoryInv, ScanInv, JudgeInv, WalkInv, Running, Between

-------------------------------------------------------------------------------
(* A visit of a run that will save.                                        *)

\* Paths that a step leaves alone stay judged, and done.
LEMMA JudgedStays ==
    ASSUME TypeOK, TypeOK', NEW n \in Node, NEW r, r.mtime \in Nat, NEW rec, Judged(n, r, rec),
           DiskOld(n), NetOld(n), Later
    PROVE  Judged(n, r, rec)'
<1>1. ver \in Nat /\ ver' \in Nat /\ ver' >= ver
  BY DEF TypeOK, ServerOK, Later
<1>2. remote'[n] = remote[n] /\ local'[n] = local[n] /\ (Here(n)' <=> Here(n)) /\ (There(n)' <=> There(n))
      /\ (Here(n) => ctime'[n] = ctime[n])
  BY DEF DiskOld, NetOld, Here, There
<1>3. r.mtime <= ver => r.mtime <= ver'
  BY <1>1
<1>4. Facts(n, r.state, rec.md5, rec.srv)' <=> Facts(n, r.state, rec.md5, rec.srv)
  BY <1>2 DEF Facts
<1>5. QED
  BY <1>2, <1>3, <1>4 DEF Judged

\* What failed in a run is remembered until it ends.
LEMMA DisturbedStays ==
    ASSUME TypeOK, TypeOK', RestInv, edits' >= edits, faults' >= faults, began' = began,
           Disturbed \/ faults' > faults
    PROVE  Disturbed'
<1>1. PICK i \in Nat, j \in Nat : began = <<i, j>>
  BY DEF RestInv
<1>2. i <= edits /\ j <= faults
  BY <1>1 DEF RestInv
<1>3. edits \in Nat /\ faults \in Nat /\ edits' \in Nat /\ faults' \in Nat
  BY GriveAssumption DEF TypeOK
<1>4. edits' # i \/ faults' # j
  BY <1>1, <1>2, <1>3 DEF Disturbed, bounds
<1>5. QED
  BY <1>1, <1>4 DEF Disturbed, bounds

\* What the walk has done stays done.
LEMMA DoneStays ==
    ASSUME TypeOK, TypeOK', RestInv, NEW n \in Node, Done(n), DiskOld(n), NetOld(n), Later,
           st'[n] = st[n], res'[n] = res[n], edits' >= edits, faults' >= faults, began' = began
    PROVE  Done(n)'
<1>1. local'[n] = local[n] /\ remote'[n] = remote[n] /\ (Here(n)' <=> Here(n))
  BY DEF DiskOld, NetOld, Here
<1>2. (Noted(n)' <=> Noted(n)) /\ (Agreed(n)' <=> Agreed(n))
  BY <1>1 DEF Noted, Agreed
<1>3. Disturbed => Disturbed'
  BY DisturbedStays
<1>4. res[n].mtime \in Nat
  BY DEF TypeOK, MemoryOK, ResourceRec
<1>5. ASSUME Judged(n, res[n], st[n]) PROVE Judged(n, res[n], st[n])'
  <2>1. PICK r, rec : r = res[n] /\ rec = st[n]
    OBVIOUS
  <2>2. Judged(n, r, rec)'
    BY <1>4, <1>5, <2>1, JudgedStays
  <2>3. QED
    BY <2>1, <2>2
<1>6. QED
  BY <1>1, <1>2, <1>3, <1>5 DEF Done

\* What a visit leaves of n in the memory.
Kept(n) ==
    /\ Sound(n, st[n])'
    /\ Noted(n)' \/ Tied(n, st[n], base[n], baseTime[n])'

\* The visit of n touches n, and m if it moves something.
Frame(n, m) ==
    /\ phase' = "sync" /\ opt' = opt /\ pending' = pending \ {n}
    /\ index' = index /\ edits' = edits /\ faults' >= faults /\ Later
    /\ \A k \in Node : DataStep(k)
    /\ \A k \in Node \ {n, m} : res'[k] = res[k] /\ st'[k] = st[k] /\ DiskOld(k) /\ NetOld(k)

\* A visit that touches n, and the m it moves from, leaves the rest of the walk in order.
LEMMA WalkStep ==
    ASSUME Flat, TypeOK, TypeOK', FlatInv, ~Dry, NEW n \in Node, NEW m \in Node, Turn(n),
           UNCHANGED <<base, baseTime, began>>, Frame(n, m),
           Kept(n), Kept(m), Done(n)',
           m # n => /\ m \in pending => (Judged(m, res[m], st[m])' /\ res'[m].src # "none") \/ Lost(m)'
                    /\ m \notin pending => Done(m)'
                    /\ res'[m].src = res[m].src /\ res'[m].state # "local_new"
                    /\ res'[m].state = "local_deleted" => m \in pending,
           res[n].src = "local" => res'[n].state # "local_deleted"
    PROVE  FlatInv'
<1>1. phase = "sync" /\ RestInv /\ \A k \in Node : Walk(k)
  BY DEF Turn, FlatInv, WalkInv
<1>2. \A k \in Node : Sound(k, st[k]) /\ Tied(k, st[k], Will(k), WillTime(k)) /\ DataOK(k)
  BY <1>1 DEF FlatInv, MemoryInv, Running, Between, RestInv
<1>3. RestInv'
  <2>1. edits' >= edits /\ faults' >= faults /\ Later /\ \A k \in Node : DataStep(k)
    BY GriveAssumption DEF Frame, TypeOK
  <2>2. UNCHANGED <<index, base, baseTime, began>>
    BY DEF Frame
  <2>3. QED
    BY <1>1, <2>1, <2>2, RestStays
<1>4. ASSUME NEW k \in Node
      PROVE  Sound(k, st[k])' /\ Tied(k, st[k], Will(k), WillTime(k))'
  <2>1. DataOK(k)'
    BY <1>3 DEF RestInv
  <2>2. CASE k \in {n, m}
    BY <2>1, <2>2, WillTiedNext DEF Kept
  <2>3. CASE k \notin {n, m}
    <3>1. res'[k] = res[k] /\ st'[k] = st[k] /\ DiskOld(k) /\ NetOld(k) /\ Later
      BY <2>3 DEF Frame
    <3>2. PICK r \in IndexRec, t \in Nat : r = st[k] /\ t = WillTime(k)
      <4>1. st[k] \in IndexRec /\ remote[k].mtime \in Nat /\ baseTime[k] \in Nat
        BY <1>2 DEF TypeOK, MemoryOK, DataOK, ServerOK, RemoteObj
      <4>2. QED
        BY <4>1 DEF WillTime
    <3>3. t <= ver /\ r.srv <= ver
      BY <1>2, <3>2 DEF DataOK, WillTime, Sound
    <3>4. PICK bb : bb = Will(k)
      OBVIOUS
    <3>5. Sound(k, r) /\ Tied(k, r, bb, t)
      BY <1>2, <3>2, <3>4
    <3>6. Sound(k, r)'
      BY <3>1, <3>5, SoundStays
    <3>7. Tied(k, r, bb, t)'
      BY <3>1, <3>3, <3>5, TiedStays
    <3>8. Will(k)' = Will(k) /\ WillTime(k)' = WillTime(k)
      <4>1. base'[k] = base[k] /\ baseTime'[k] = baseTime[k]
        OBVIOUS
      <4>2. QED
        BY <3>1, <4>1 DEF Will, WillTime, Noted, Agreed, DiskOld, NetOld
    <3>9. QED
      BY <3>1, <3>2, <3>4, <3>6, <3>7, <3>8
  <2>4. QED
    BY <2>2, <2>3
<1>5. MemoryInv'
  BY <1>4 DEF MemoryInv
<1>6. \A k \in pending : k # n => Rank(k) >= Rank(n)
  <2>1. pending \subseteq Node /\ \A k \in Node : Parent[k] = Root
    BY DEF TypeOK, MemoryOK, Flat, OneFolder
  <2>2. QED
    BY <2>1 DEF Turn
<1>7. res[n].src # "local" => \A k \in pending : res[k].src # "local"
  BY <1>6 DEF Rank
<1>8. ASSUME NEW k \in Node PROVE Walk(k)'
  <2>1. CASE k \notin {n, m}
    <3>1. res'[k] = res[k] /\ st'[k] = st[k] /\ DiskOld(k) /\ NetOld(k) /\ Later
      BY <2>1 DEF Frame
    <3>2. k \in pending' <=> k \in pending
      BY <2>1 DEF Frame
    <3>3. ASSUME k \notin pending PROVE Done(k)'
      <4>1. Done(k) /\ edits' >= edits /\ faults' >= faults
        BY <1>1, <3>3, GriveAssumption DEF Walk, Frame, TypeOK
      <4>2. QED
        BY <1>1, <3>1, <4>1, DoneStays
    <3>4. ASSUME k \in pending, ~Lost(k) PROVE Judged(k, res[k], st[k])' /\ res'[k].src # "none"
      <4>1. Judged(k, res[k], st[k]) /\ res[k].src # "none"
        BY <1>1, <3>4 DEF Walk
      <4>2. PICK r, rec : r = res[k] /\ rec = st[k]
        OBVIOUS
      <4>3. r.mtime \in Nat
        BY <4>2 DEF TypeOK, MemoryOK, ResourceRec
      <4>4. Judged(k, r, rec)'
        BY <3>1, <4>1, <4>2, <4>3, JudgedStays
      <4>5. QED
        BY <3>1, <4>1, <4>2, <4>4
    <3>5. ASSUME k \in pending, res'[k].src = "local", NEW j \in Node, res'[j].state = "local_deleted"
          PROVE  j \in pending'
      <4>1. res[n].src = "local" /\ res[k].src = "local"
        BY <1>7, <3>1, <3>5
      <4>2. j # n
        BY <3>5, <4>1
      <4>3. j # m => res[j].state = "local_deleted"
        BY <3>5, <4>2 DEF Frame
      <4>4. j \in pending
        BY <1>1, <3>5, <4>1, <4>2, <4>3 DEF Walk
      <4>5. QED
        BY <4>2, <4>4 DEF Frame
    <3>6. ASSUME k \in pending, Lost(k) PROVE Lost(k)'
      <4>1. Disturbed'
        BY <1>1, <3>6, DisturbedStays, GriveAssumption DEF Lost, Frame, TypeOK
      <4>2. \A j \in pending' : res'[j].state # "local_new"
        BY <3>6 DEF Lost, Frame, TypeOK, MemoryOK
      <4>3. QED
        BY <3>1, <3>6, <4>1, <4>2 DEF Lost, There, NetOld
    <3>7. QED
      BY <3>2, <3>3, <3>4, <3>5, <3>6 DEF Walk
  <2>2. CASE k = n
    <3>1. k \notin pending'
      BY <2>2 DEF Frame
    <3>2. QED
      BY <2>2, <3>1 DEF Walk
  <2>3. CASE k = m /\ m # n
    <3>1. k \in pending' <=> k \in pending
      BY <2>3 DEF Frame
    <3>2. ASSUME k \in pending, res'[k].src = "local", NEW j \in Node, res'[j].state = "local_deleted"
          PROVE  j \in pending'
      <4>1. res[k].src = "local"
        BY <2>3, <3>2
      <4>2. res[n].src = "local"
        BY <1>7, <3>2, <4>1
      <4>3. j # n
        BY <2>3, <3>2, <4>2
      <4>4. j # m => res[j].state = "local_deleted"
        BY <3>2, <4>3 DEF Frame
      <4>5. j \in pending
        BY <1>1, <2>3, <3>2, <4>1, <4>4 DEF Walk
      <4>6. QED
        BY <4>3, <4>5 DEF Frame
    <3>3. QED
      BY <2>3, <3>1, <3>2 DEF Walk
  <2>4. QED
    BY <2>1, <2>2, <2>3
<1>9. WalkInv'
  BY <1>8 DEF WalkInv, Frame, Dry
<1>10. QED
  BY <1>3, <1>5, <1>9 DEF FlatInv, Frame, NoAbort, ScanInv, JudgeInv

-------------------------------------------------------------------------------
(* What a visit may leave.                                                 *)

\* The same file on both sides, and on record.
LEMMA RecordedEnds ==
    ASSUME Flat, NEW n \in Node, NEW t \in Own(n), NEW c, c <= lclock', NEW s, s <= ver',
           local'[n] = t, remote'[n].thing = t, t \in Content => remote'[n].mtime <= s,
           st'[n].has = TRUE, st'[n].ctime = c, st'[n].md5 = t, st'[n].size = SizeOf(t),
           st'[n].srv = s, st'[n].tree = FALSE, res'[n].state = "sync"
    PROVE  Kept(n) /\ Done(n)'
<1>1. t \in Files /\ t # Missing
  BY OwnFiles
<1>2. /\ st'[n].has = TRUE /\ st'[n].ctime = c /\ st'[n].md5 = t /\ st'[n].size = SizeOf(t)
      /\ st'[n].srv = s /\ st'[n].tree = FALSE
  OBVIOUS
<1>3. Noted(n)'
  BY <1>1, <1>2 DEF Noted, Agreed
<1>4. Sound(n, st[n])'
  BY <1>1, <1>2 DEF Sound, Here
<1>5. Done(n)'
  BY <1>3 DEF Done
<1>6. QED
  BY <1>3, <1>4, <1>5 DEF Kept

\* Nothing on both sides, and nothing on record.
LEMMA ForgottenEnds ==
    ASSUME Flat, TypeOK', NEW n \in Node, local'[n] = Absent, remote'[n].thing = Absent,
           st'[n] = NoRec, res'[n].state = "remote_deleted" => res'[n].md5 \in Own(n) \cup {NoMD5}
    PROVE  Kept(n) /\ Done(n)'
<1>1. Absent \notin Files /\ Absent # Dir
  BY ThingAssumption
<1>2. /\ st'[n].has = FALSE /\ st'[n].md5 = Missing /\ st'[n].tree = FALSE
      /\ st'[n].ctime = 0 /\ st'[n].srv = 0
  BY DEF NoRec
<1>3. Noted(n)'
  BY <1>1, <1>2 DEF Noted, Agreed
<1>4. lclock' \in Nat /\ ver' \in Nat
  BY DEF TypeOK, DiskOK, ServerOK
<1>5. Sound(n, st[n])'
  BY <1>2, <1>4 DEF Sound
<1>6. Done(n)'
  BY <1>3 DEF Done, Here
<1>7. QED
  BY <1>3, <1>5, <1>6 DEF Kept

\* What is deleted there has a checksum of what is here.
LEMMA DeletedMD5 ==
    ASSUME NEW n \in Node, DataOK(n), Judged(n, res[n], st[n]), res[n].state = "remote_deleted"
    PROVE  res[n].md5 \in Own(n) \cup {NoMD5}
<1>1. Here(n) /\ ~There(n) /\ res[n].src # "none"
  BY DEF Judged, Facts
<1>2. QED
  BY <1>1 DEF Judged, DataOK, Here

\* Nothing new on record, because something failed.
LEMMA FailedEnds ==
    ASSUME Flat, TypeOK, TypeOK', RestInv, NEW n \in Node,
           Sound(n, st[n]), Tied(n, st[n], Will(n), WillTime(n)), ~Agreed(n),
           UNCHANGED <<base, baseTime, began>>, st'[n] = st[n], res'[n] = res[n],
           DataStep(n), Later, edits' >= edits, faults' >= faults,
           Disturbed' \/ (~Agreed(n)' /\ ~Sure),
           res[n].state = "remote_deleted" =>
               Judged(n, res[n], st[n]) /\ DiskOld(n) /\ NetOld(n) /\ Disturbed'
    PROVE  Kept(n) /\ Done(n)'
<1>1. PICK r \in IndexRec : r = st[n]
  BY DEF TypeOK, MemoryOK
<1>2. PICK b : b = base[n]
  OBVIOUS
<1>3. PICK t \in Nat : t = baseTime[n]
  BY DEF RestInv, DataOK
<1>4. Sound(n, r) /\ Tied(n, r, b, t) /\ r.srv <= ver /\ t <= ver
  BY <1>1, <1>2, <1>3 DEF Will, WillTime, Noted, RestInv, DataOK, Sound
<1>5. Sound(n, r)'
  BY <1>4, SoundStays DEF DataStep
<1>6. Tied(n, r, b, t)'
  BY <1>4, TiedStays DEF DataStep
<1>7. Kept(n)
  BY <1>1, <1>2, <1>3, <1>5, <1>6 DEF Kept
<1>8. ASSUME res[n].state = "remote_deleted" PROVE Judged(n, res[n], st[n])'
  <2>1. PICK q : q = res[n]
    OBVIOUS
  <2>2. q.mtime \in Nat /\ Judged(n, q, r)
    BY <1>1, <1>8, <2>1 DEF TypeOK, MemoryOK, ResourceRec
  <2>3. Judged(n, q, r)'
    BY <1>8, <2>2, JudgedStays
  <2>4. QED
    BY <1>1, <2>1, <2>3
<1>9. Done(n)'
  <2>1. res[n].state = "remote_deleted" => res[n].md5 \in Own(n) \cup {NoMD5}
    BY DeletedMD5 DEF RestInv
  <2>2. QED
    BY <1>8, <2>1 DEF Done
<1>10. QED
  BY <1>7, <1>9

-------------------------------------------------------------------------------
(* What a visit does.                                                      *)

\* The disk and the server as they are.
LEMMA DiskStill ==
    ASSUME TypeOK, RestInv, UNCHANGED disk
    PROVE  /\ lclock' = lclock /\ local' = local /\ ctime' = ctime
           /\ \A k \in Node : DiskOld(k) /\ local'[k] \in Own(k) \cup {Absent} /\ ctime'[k] <= lclock'
BY DEF disk, DiskOld, RestInv, DataOK

\* The server as it is.
LEMMA ServerStill ==
    ASSUME UNCHANGED server
    PROVE  ver' = ver /\ remote' = remote /\ \A k \in Node : NetOld(k)
BY DEF server, NetOld

\* Only n is touched.
LEMMA FrameOf ==
    ASSUME Flat, TypeOK, TypeOK', RestInv, NEW n \in Node, phase' = "sync", opt' = opt,
           pending' = pending \ {n}, index' = index, edits' = edits, faults' >= faults,
           lclock' >= lclock, ver' >= ver,
           \A k \in Node \ {n} : res'[k] = res[k] /\ st'[k] = st[k] /\ DiskOld(k) /\ NetOld(k),
           \A k \in Node : ctime'[k] <= lclock',
           DiskOld(n) \/ DiskNew(n), local'[n] \in Own(n) \cup {Absent},
           NetOld(n) \/ /\ NetNew(n) /\ remote'[n].thing \in Own(n) \cup {Absent}
                        /\ ~remote'[n].multi /\ remote'[n].mtime <= ver'
                        /\ remote'[n].thing # Absent => remote'[n].mtime > 0
    PROVE  Frame(n, n)
<1>1. DataStep(n)
  BY DEF DataStep
<1>2. ASSUME NEW k \in Node, k # n PROVE DataStep(k)
  BY <1>2 DEF DataStep, DiskOld, RestInv, DataOK
<1>3. Later
  BY DEF Later
<1>4. QED
  BY <1>1, <1>2, <1>3 DEF Frame

\* In one folder nothing follows a visit, and a record stands by itself.
LEMMA FolderVisited ==
    ASSUME OneFolder, NEW n \in Node, NEW r, Visited(n, r)
    PROVE  pending' = pending \ {n} /\ res' = r /\ opt' = opt /\ phase' = phase
BY FolderTree DEF Visited

\* The same where runs are not disturbed.
LEMMA VisitedFlat ==
    ASSUME Flat, NEW n \in Node, NEW r, Visited(n, r)
    PROVE  pending' = pending \ {n} /\ res' = r /\ opt' = opt /\ phase' = phase
BY FolderVisited DEF Flat

\* The record of a file that was settled.
LEMMA FolderRecord ==
    ASSUME OneFolder, NEW n \in Node, NEW r, ~IsFolder(r), st' = Record(n, r)
    PROVE  /\ st'[n].has = TRUE /\ st'[n].ctime = r.ctime /\ st'[n].md5 = r.md5
           /\ st'[n].size = r.size /\ st'[n].srv = r.mtime /\ st'[n].tree = FALSE
           /\ \A k \in Node \ {n} : st'[k] = st[k]
<1> DEFINE s == SetIndex(st, n, r)
<1>1. s[n] = [has |-> TRUE, ctime |-> r.ctime, md5 |-> r.md5, size |-> r.size,
              srv |-> st[n].srv, tree |-> FALSE]
  BY DEF SetIndex
<1>2. \A k \in Node \ {n} : s[k] = st[k]
  BY FolderTree DEF SetIndex
<1>3. PICK D : s \in [Node -> D]
  <2>1. s \in [Node -> {s[m] : m \in Node}]
    BY DEF SetIndex
  <2>2. QED
    BY <2>1
<1> HIDE DEF s
<1>4. st' = [s EXCEPT ![n].srv = r.mtime]
  BY DEF Record, SetSrv, s
<1>5. st'[n] = [s[n] EXCEPT !.srv = r.mtime] /\ \A k \in Node \ {n} : st'[k] = s[k]
  <2>1. PICK q : q = [s[n] EXCEPT !.srv = r.mtime]
    OBVIOUS
  <2>2. st' = [s EXCEPT ![n] = q]
    BY <1>4, <2>1
  <2>3. QED
    BY <1>3, <2>1, <2>2
<1>6. st'[n].has = TRUE /\ st'[n].ctime = r.ctime /\ st'[n].md5 = r.md5 /\ st'[n].size = r.size
  BY <1>1, <1>5
<1>7. st'[n].srv = r.mtime /\ st'[n].tree = FALSE
  BY <1>1, <1>5
<1>8. QED
  BY <1>2, <1>5, <1>6, <1>7

\* The same where runs are not disturbed.
LEMMA RecordFlat ==
    ASSUME Flat, NEW n \in Node, NEW r, ~IsFolder(r), st' = Record(n, r)
    PROVE  /\ st'[n].has = TRUE /\ st'[n].ctime = r.ctime /\ st'[n].md5 = r.md5
           /\ st'[n].size = r.size /\ st'[n].srv = r.mtime /\ st'[n].tree = FALSE
           /\ \A k \in Node \ {n} : st'[k] = st[k]
BY FolderRecord DEF Flat

\* The record that goes.
LEMMA FolderDeleted ==
    ASSUME OneFolder, NEW n \in Node, st' = DeleteIndex(st, n)
    PROVE  st'[n] = NoRec /\ \A k \in Node \ {n} : st'[k] = st[k]
BY FolderTree DEF DeleteIndex

\* The same where runs are not disturbed.
LEMMA DeletedFlat ==
    ASSUME Flat, NEW n \in Node, st' = DeleteIndex(st, n)
    PROVE  st'[n] = NoRec /\ \A k \in Node \ {n} : st'[k] = st[k]
BY FolderDeleted DEF Flat

\* One resource is replaced.
LEMMA ReplacedFlat ==
    ASSUME TypeOK, NEW n \in Node, NEW r, res' = [res EXCEPT ![n] = r]
    PROVE  res'[n] = r /\ \A k \in Node \ {n} : res'[k] = res[k]
BY DEF TypeOK, MemoryOK

\* What is to be visited.
LEMMA Pending ==
    ASSUME Flat, TypeOK, FlatInv, ~Dry, NEW n \in Node, Turn(n), ~Lost(n)
    PROVE  /\ phase = "sync" /\ RestInv /\ DataOK(n) /\ Judged(n, res[n], st[n])
           /\ res[n].src # "none" /\ res[n].kind = "file" /\ ~IsFolder(res[n])
           /\ Facts(n, res[n].state, st[n].md5, st[n].srv)
           /\ Sound(n, st[n]) /\ Tied(n, st[n], Will(n), WillTime(n))
           /\ res[n] \in ResourceRec /\ st[n] \in IndexRec
<1>1. phase = "sync" /\ n \in pending /\ Walk(n)
  BY DEF Turn, FlatInv, WalkInv
<1>2. Judged(n, res[n], st[n]) /\ res[n].src # "none"
  BY <1>1 DEF Walk
<1>3. RestInv /\ DataOK(n) /\ Sound(n, st[n]) /\ Tied(n, st[n], Will(n), WillTime(n))
  BY <1>1 DEF FlatInv, RestInv, MemoryInv, Running, Between
<1>4. QED
  BY <1>1, <1>2, <1>3 DEF Judged, IsFolder, TypeOK, MemoryOK

\* A visit that settles n, or fails.
Settles(n) ==
    /\ Frame(n, n) /\ Kept(n) /\ Done(n)'
    /\ res[n].src = "local" => res'[n].state # "local_deleted"

\* Only the link to the record changes.
LEMMA JsonFlat ==
    ASSUME TypeOK, NEW n \in Node, NEW v, res' = [res EXCEPT ![n].json = v]
    PROVE  /\ res'[n].state = res[n].state /\ res'[n].src = res[n].src /\ res'[n].md5 = res[n].md5
           /\ res'[n].kind = res[n].kind /\ \A k \in Node \ {n} : res'[k] = res[k]
<1>1. PICK q : q = [res[n] EXCEPT !.json = v]
  OBVIOUS
<1>2. q.state = res[n].state /\ q.src = res[n].src /\ q.md5 = res[n].md5 /\ q.kind = res[n].kind
  BY <1>1 DEF TypeOK, MemoryOK, ResourceRec
<1>3. res' = [res EXCEPT ![n] = q]
  BY <1>1
<1>4. QED
  BY <1>2, <1>3 DEF TypeOK, MemoryOK

\* What is equal is recorded.
LEMMA MarkSyncFlat ==
    ASSUME Flat, TypeOK, TypeOK', FlatInv, ~Dry, NEW n \in Node, ~Lost(n), MarkSync(n)
    PROVE  Settles(n)
<1>1. /\ Turn(n) /\ res[n].state = "sync" /\ st' = Record(n, res[n])
      /\ Visited(n, [res EXCEPT ![n].json = TRUE])
      /\ UNCHANGED disk /\ UNCHANGED server /\ index' = index /\ edits' = edits /\ faults' = faults
  BY DEF MarkSync, Visiting, saved, bounds
<1>2. /\ phase = "sync" /\ RestInv /\ DataOK(n) /\ Judged(n, res[n], st[n])
      /\ res[n].src # "none" /\ ~IsFolder(res[n])
      /\ Facts(n, res[n].state, st[n].md5, st[n].srv)
  BY <1>1, Pending
<1>3. /\ pending' = pending \ {n} /\ opt' = opt /\ phase' = phase
      /\ res' = [res EXCEPT ![n].json = TRUE]
  BY <1>1, VisitedFlat
<1>4. res'[n].state = "sync" /\ \A k \in Node \ {n} : res'[k] = res[k]
  BY <1>1, <1>3, JsonFlat
<1>5. /\ lclock' = lclock /\ local' = local /\ ctime' = ctime
      /\ \A k \in Node : DiskOld(k) /\ local'[k] \in Own(k) \cup {Absent} /\ ctime'[k] <= lclock'
  BY <1>1, <1>2, DiskStill
<1>6. ver' = ver /\ remote' = remote /\ \A k \in Node : NetOld(k)
  BY <1>1, ServerStill
<1>7. Here(n) /\ There(n) /\ local[n] = remote[n].thing /\ local[n] \in Own(n)
  BY <1>1, <1>2 DEF Facts, Here, There, DataOK
<1>8. /\ res[n].md5 = local[n] /\ res[n].size = SizeOf(local[n]) /\ res[n].ctime = ctime[n]
      /\ res[n].mtime = remote[n].mtime
  BY <1>1, <1>2, <1>7 DEF Judged
<1>9. /\ st'[n].has = TRUE /\ st'[n].ctime = res[n].ctime /\ st'[n].md5 = res[n].md5
      /\ st'[n].size = res[n].size /\ st'[n].srv = res[n].mtime /\ st'[n].tree = FALSE
      /\ \A k \in Node \ {n} : st'[k] = st[k]
  BY <1>1, <1>2, RecordFlat
<1>10. lclock \in Nat /\ ver \in Nat /\ faults \in Nat /\ remote[n].mtime \in Nat
  BY GriveAssumption DEF TypeOK, DiskOK, ServerOK, RemoteObj
<1>11. Frame(n, n)
  <2>1. faults' >= faults /\ lclock' >= lclock /\ ver' >= ver
    BY <1>1, <1>5, <1>6, <1>10
  <2>2. QED
    BY <1>1, <1>2, <1>3, <1>4, <1>5, <1>6, <1>9, <2>1, FrameOf
<1>12. Kept(n) /\ Done(n)'
  <2>1. PICK t, c, s : t \in Own(n) /\ t = local[n] /\ c = ctime[n] /\ s = remote[n].mtime
    BY <1>7
  <2>2. t \in Own(n) /\ c <= lclock' /\ s <= ver' /\ remote'[n].mtime <= s
    BY <1>2, <1>5, <1>6, <1>10, <2>1 DEF DataOK
  <2>3. /\ local'[n] = t /\ remote'[n].thing = t
        /\ st'[n].has = TRUE /\ st'[n].ctime = c /\ st'[n].md5 = t /\ st'[n].size = SizeOf(t)
        /\ st'[n].srv = s /\ st'[n].tree = FALSE
    BY <1>5, <1>6, <1>7, <1>8, <1>9, <2>1
  <2>4. QED
    BY <1>4, <2>2, <2>3, RecordedEnds
<1>13. QED
  BY <1>4, <1>11, <1>12 DEF Settles

\* The file is sent, as a new object or as a new content.
LEMMA UploadFlat ==
    ASSUME Flat, TypeOK, TypeOK', FlatInv, ~Dry, NEW n \in Node, ~Lost(n), Turn(n), Here(n),
           res[n].state \in {"local_new", "local_changed"},
           st' = Record(n, Uploaded(n)), Visited(n, [res EXCEPT ![n] = Uploaded(n)]),
           UNCHANGED disk, index' = index, edits' = edits, faults' = faults,
           remote'[n].thing = local[n], remote'[n].mtime = ver + 1, ~remote'[n].multi,
           NetNew(n), ver' = ver + 1, \A k \in Node \ {n} : NetOld(k)
    PROVE  Settles(n)
<1>1. /\ phase = "sync" /\ RestInv /\ DataOK(n) /\ Judged(n, res[n], st[n])
      /\ res[n].src # "none" /\ res[n].kind = "file" /\ res[n] \in ResourceRec
  BY Pending
<1>2. PICK u : u = Uploaded(n)
  OBVIOUS
<1>3. /\ u.state = "sync" /\ u.mtime = ver' /\ u.md5 = MD5Of(remote'[n]) /\ u.kind = "file"
      /\ u.ctime = res[n].ctime /\ u.size = res[n].size
  BY <1>1, <1>2 DEF Uploaded, ResourceRec
<1>4. /\ pending' = pending \ {n} /\ opt' = opt /\ phase' = phase
      /\ res' = [res EXCEPT ![n] = u]
  BY <1>2, VisitedFlat
<1>5. res'[n] = u /\ \A k \in Node \ {n} : res'[k] = res[k]
  BY <1>4, ReplacedFlat
<1>6. /\ lclock' = lclock /\ local' = local /\ ctime' = ctime
      /\ \A k \in Node : DiskOld(k) /\ local'[k] \in Own(k) \cup {Absent} /\ ctime'[k] <= lclock'
  BY <1>1, DiskStill
<1>7. local[n] \in Own(n) /\ local[n] \in Files
  BY <1>1, OwnFiles DEF Here, DataOK
<1>8. u.md5 = local[n] /\ u.size = SizeOf(local[n]) /\ u.ctime = ctime[n] /\ u.mtime = ver'
  BY <1>1, <1>3, <1>7 DEF Judged, MD5Of
<1>9. /\ st'[n].has = TRUE /\ st'[n].ctime = u.ctime /\ st'[n].md5 = u.md5
      /\ st'[n].size = u.size /\ st'[n].srv = u.mtime /\ st'[n].tree = FALSE
      /\ \A k \in Node \ {n} : st'[k] = st[k]
  <2>1. ~IsFolder(u) /\ st' = Record(n, u)
    BY <1>2, <1>3 DEF IsFolder
  <2>2. QED
    BY <2>1, RecordFlat
<1>10. lclock \in Nat /\ ver \in Nat /\ faults \in Nat
  BY GriveAssumption DEF TypeOK, DiskOK, ServerOK
<1>11. Frame(n, n)
  <2>1. faults' >= faults /\ lclock' >= lclock /\ ver' >= ver
    BY <1>6, <1>10
  <2>2. /\ NetNew(n) /\ remote'[n].thing \in Own(n) \cup {Absent}
        /\ ~remote'[n].multi /\ remote'[n].mtime <= ver'
        /\ remote'[n].thing # Absent => remote'[n].mtime > 0
    BY <1>7, <1>10
  <2>3. QED
    BY <1>1, <1>4, <1>5, <1>6, <1>9, <2>1, <2>2, FrameOf
<1>12. Kept(n) /\ Done(n)'
  <2>1. PICK t, c, s : t \in Own(n) /\ t = local[n] /\ c = ctime[n] /\ s = ver + 1
    BY <1>7
  <2>2. t \in Own(n) /\ c <= lclock' /\ s <= ver' /\ remote'[n].mtime <= s
    BY <1>1, <1>6, <1>10, <2>1 DEF DataOK
  <2>3. /\ local'[n] = t /\ remote'[n].thing = t
        /\ st'[n].has = TRUE /\ st'[n].ctime = c /\ st'[n].md5 = t /\ st'[n].size = SizeOf(t)
        /\ st'[n].srv = s /\ st'[n].tree = FALSE
    BY <1>6, <1>8, <1>9, <2>1
  <2>4. QED
    BY <1>3, <1>5, <2>2, <2>3, RecordedEnds
<1>13. QED
  BY <1>3, <1>5, <1>11, <1>12 DEF Settles

\* What is new here is sent.
LEMMA CreateFlat ==
    ASSUME Flat, TypeOK, TypeOK', FlatInv, ~Dry, NEW n \in Node, ~Lost(n), Create(n)
    PROVE  Settles(n)
<1>1. /\ Turn(n) /\ res[n].state = "local_new" /\ st' = Record(n, Uploaded(n)) /\ SendNew(n)
      /\ Visited(n, [res EXCEPT ![n] = Uploaded(n)])
      /\ UNCHANGED disk /\ index' = index /\ edits' = edits /\ faults' = faults
  BY DEF Create, Visiting, saved, bounds
<1>2. /\ RestInv /\ DataOK(n) /\ ~IsFolder(res[n]) /\ Facts(n, res[n].state, st[n].md5, st[n].srv)
  BY <1>1, Pending
<1>3. Here(n)
  BY <1>1, <1>2 DEF Facts
<1>4. local[n] \in Own(n) /\ ServerAdd(n, local[n])
  BY <1>1, <1>2, <1>3 DEF Here, DataOK, SendNew
<1>5. /\ remote'[n].thing = local[n] /\ remote'[n].mtime = ver + 1 /\ ~remote'[n].multi
      /\ NetNew(n) /\ ver' = ver + 1 /\ \A k \in Node \ {n} : NetOld(k)
  BY <1>2, <1>4, AddThere
<1>6. QED
  BY <1>1, <1>3, <1>5, UploadFlat

\* What changed here is sent.
LEMMA EditContentFlat ==
    ASSUME Flat, TypeOK, TypeOK', FlatInv, ~Dry, NEW n \in Node, ~Lost(n), EditContent(n)
    PROVE  Settles(n)
<1>1. /\ Turn(n) /\ res[n].state = "local_changed" /\ st' = Record(n, Uploaded(n)) /\ SendEdit(n)
      /\ Visited(n, [res EXCEPT ![n] = Uploaded(n)])
      /\ UNCHANGED disk /\ index' = index /\ edits' = edits /\ faults' = faults
  BY DEF EditContent, Visiting, saved, bounds
<1>2. /\ RestInv /\ DataOK(n) /\ ~IsFolder(res[n]) /\ Facts(n, res[n].state, st[n].md5, st[n].srv)
  BY <1>1, Pending
<1>3. Here(n)
  BY <1>1, <1>2 DEF Facts
<1>4. local[n] \in Own(n) /\ ServerPut(n, local[n])
  BY <1>1, <1>2, <1>3 DEF Here, DataOK, SendEdit
<1>5. /\ remote'[n].thing = local[n] /\ remote'[n].mtime = ver + 1 /\ ~remote'[n].multi
      /\ NetNew(n) /\ ver' = ver + 1 /\ \A k \in Node \ {n} : NetOld(k)
  BY <1>2, <1>4, PutThere
<1>6. QED
  BY <1>1, <1>3, <1>5, UploadFlat

\* What is new or changed there is fetched.
LEMMA DownloadFlat ==
    ASSUME Flat, TypeOK, TypeOK', FlatInv, ~Dry, NEW n \in Node, ~Lost(n), Download(n)
    PROVE  Settles(n)
<1>1. /\ Turn(n) /\ res[n].state \in {"remote_new", "remote_changed"}
      /\ st' = Record(n, Fetched(n)) /\ DiskPut(n, remote[n].thing)
      /\ Visited(n, [res EXCEPT ![n] = Fetched(n)])
      /\ UNCHANGED server /\ index' = index /\ edits' = edits /\ faults' = faults
  BY DEF Download, Visiting, saved, bounds
<1>2. /\ phase = "sync" /\ RestInv /\ DataOK(n) /\ Judged(n, res[n], st[n])
      /\ res[n].src # "none" /\ res[n].kind = "file" /\ res[n] \in ResourceRec
      /\ Facts(n, res[n].state, st[n].md5, st[n].srv)
  BY <1>1, Pending
<1>3. PICK u : u = Fetched(n)
  OBVIOUS
<1>4. /\ u.state = "sync" /\ u.mtime = res[n].mtime /\ u.md5 = res[n].md5 /\ u.kind = "file"
      /\ u.ctime = ctime'[n] /\ u.size = res[n].size
  BY <1>2, <1>3 DEF Fetched, ResourceRec
<1>5. /\ pending' = pending \ {n} /\ opt' = opt /\ phase' = phase
      /\ res' = [res EXCEPT ![n] = u]
  BY <1>1, <1>3, VisitedFlat
<1>6. res'[n] = u /\ \A k \in Node \ {n} : res'[k] = res[k]
  BY <1>5, ReplacedFlat
<1>7. There(n) /\ remote[n].thing \in Own(n) /\ remote[n].thing \in Files
  BY <1>1, <1>2, OwnFiles DEF Facts, There, DataOK
<1>8. /\ local'[n] = remote[n].thing /\ ctime'[n] = lclock + 1 /\ DiskNew(n) /\ lclock' = lclock + 1
      /\ \A k \in Node \ {n} : DiskOld(k)
      /\ \A k \in Node : ctime'[k] <= lclock'
  BY <1>1, <1>2, <1>7, PutHere
<1>9. ver' = ver /\ remote' = remote /\ \A k \in Node : NetOld(k)
  BY <1>1, ServerStill
<1>10. u.md5 = remote[n].thing /\ u.size = SizeOf(remote[n].thing) /\ u.mtime = remote[n].mtime
  BY <1>1, <1>2, <1>4, <1>7 DEF Judged
<1>11. /\ st'[n].has = TRUE /\ st'[n].ctime = u.ctime /\ st'[n].md5 = u.md5
       /\ st'[n].size = u.size /\ st'[n].srv = u.mtime /\ st'[n].tree = FALSE
       /\ \A k \in Node \ {n} : st'[k] = st[k]
  <2>1. ~IsFolder(u) /\ st' = Record(n, u)
    BY <1>1, <1>3, <1>4 DEF IsFolder
  <2>2. QED
    BY <2>1, RecordFlat
<1>12. lclock \in Nat /\ ver \in Nat /\ faults \in Nat /\ remote[n].mtime \in Nat
  BY GriveAssumption DEF TypeOK, DiskOK, ServerOK, RemoteObj
<1>13. Frame(n, n)
  <2>1. faults' >= faults /\ lclock' >= lclock /\ ver' >= ver
    BY <1>1, <1>8, <1>9, <1>12
  <2>2. QED
    BY <1>1, <1>2, <1>5, <1>6, <1>7, <1>8, <1>9, <1>11, <2>1, FrameOf
<1>14. Kept(n) /\ Done(n)'
  <2>1. PICK t, c, s : t \in Own(n) /\ t = remote[n].thing /\ c = ctime'[n] /\ s = remote[n].mtime
    BY <1>7
  <2>2. t \in Own(n) /\ c <= lclock' /\ s <= ver' /\ remote'[n].mtime <= s
    BY <1>2, <1>8, <1>9, <1>12, <2>1 DEF DataOK
  <2>3. /\ local'[n] = t /\ remote'[n].thing = t
        /\ st'[n].has = TRUE /\ st'[n].ctime = c /\ st'[n].md5 = t /\ st'[n].size = SizeOf(t)
        /\ st'[n].srv = s /\ st'[n].tree = FALSE
    BY <1>4, <1>8, <1>9, <1>10, <1>11, <2>1
  <2>4. QED
    BY <1>4, <1>6, <2>2, <2>3, RecordedEnds
<1>15. QED
  BY <1>4, <1>6, <1>13, <1>14 DEF Settles

\* The path is forgotten: DeleteRemote, DeleteLocal and ForgetDeleted.
LEMMA ForgetFlat ==
    ASSUME Flat, TypeOK, TypeOK', FlatInv, ~Dry, NEW n \in Node, ~Lost(n), Turn(n),
           res[n].state \in {"local_deleted", "remote_deleted", "both_deleted"},
           st' = DeleteIndex(st, n), Visited(n, [res EXCEPT ![n].json = FALSE]),
           index' = index, edits' = edits, faults' = faults, lclock' >= lclock, ver' >= ver,
           local'[n] = Absent, remote'[n].thing = Absent,
           \A k \in Node : ctime'[k] <= lclock',
           \A k \in Node \ {n} : DiskOld(k) /\ NetOld(k),
           DiskOld(n) \/ DiskNew(n), NetOld(n) \/ (NetNew(n) /\ ~remote'[n].multi /\ remote'[n].mtime <= ver')
    PROVE  Settles(n)
<1>1. /\ phase = "sync" /\ RestInv /\ DataOK(n) /\ Judged(n, res[n], st[n])
      /\ res[n].src # "none" /\ Facts(n, res[n].state, st[n].md5, st[n].srv)
  BY Pending
<1>2. /\ pending' = pending \ {n} /\ opt' = opt /\ phase' = phase
      /\ res' = [res EXCEPT ![n].json = FALSE]
  BY VisitedFlat
<1>3. res'[n].state = res[n].state /\ \A k \in Node \ {n} : res'[k] = res[k]
  BY <1>2, JsonFlat
<1>4. st'[n] = NoRec /\ \A k \in Node \ {n} : st'[k] = st[k]
  BY DeletedFlat
<1>5. faults' >= faults
  BY GriveAssumption DEF TypeOK
<1>6. Frame(n, n)
  BY <1>1, <1>2, <1>3, <1>4, <1>5, FrameOf
<1>7. Kept(n) /\ Done(n)'
  <2>1. res[n].state = "remote_deleted" => res[n].md5 \in Own(n) \cup {NoMD5}
    BY <1>1, DeletedMD5
  <2>2. res'[n].state = "remote_deleted" => res'[n].md5 \in Own(n) \cup {NoMD5}
    BY <1>2, <2>1, JsonFlat
  <2>3. QED
    BY <1>4, <2>2, ForgottenEnds
<1>8. res[n].src = "local" => res'[n].state # "local_deleted"
  BY <1>1, <1>3 DEF Judged, Facts
<1>9. QED
  BY <1>6, <1>7, <1>8 DEF Settles

\* What was deleted on one side is deleted on the other.
LEMMA DeletesFlat ==
    ASSUME Flat, TypeOK, TypeOK', FlatInv, ~Dry, NEW n \in Node, ~Lost(n),
           DeleteRemote(n) \/ DeleteLocal(n) \/ ForgetDeleted(n)
    PROVE  Settles(n)
<1>1. /\ Turn(n) /\ st' = DeleteIndex(st, n) /\ Visited(n, [res EXCEPT ![n].json = FALSE])
      /\ index' = index /\ edits' = edits /\ faults' = faults
  BY DEF DeleteRemote, DeleteLocal, ForgetDeleted, Visiting, saved, bounds
<1>2. RestInv /\ Facts(n, res[n].state, st[n].md5, st[n].srv)
  BY <1>1, Pending
<1>3. lclock \in Nat /\ ver \in Nat
  BY DEF TypeOK, DiskOK, ServerOK
<1>4. NoObj.thing = Absent /\ NoObj.mtime = 0 /\ ~NoObj.multi
  BY DEF NoObj
<1>5. CASE DeleteRemote(n)
  <2>1. res[n].state = "local_deleted" /\ ServerTrash(n) /\ UNCHANGED disk
    BY <1>5 DEF DeleteRemote, Visiting
  <2>2. local[n] = Absent
    BY <1>2, <2>1 DEF Facts, Here
  <2>3. /\ lclock' = lclock /\ local' = local /\ ctime' = ctime
        /\ \A k \in Node : DiskOld(k) /\ local'[k] \in Own(k) \cup {Absent} /\ ctime'[k] <= lclock'
    BY <1>2, <2>1, DiskStill
  <2>4. remote'[n] = NoObj /\ NetNew(n) /\ ver' = ver + 1 /\ \A k \in Node \ {n} : NetOld(k)
    BY <2>1, TrashThere
  <2>5. lclock' >= lclock /\ ver' >= ver /\ remote'[n].mtime <= ver'
    BY <1>3, <1>4, <2>3, <2>4
  <2>6. QED
    BY <1>1, <1>4, <2>1, <2>2, <2>3, <2>4, <2>5, ForgetFlat
<1>6. CASE DeleteLocal(n)
  <2>1. res[n].state = "remote_deleted" /\ DiskRemove(n) /\ UNCHANGED server
    BY <1>6 DEF DeleteLocal, Visiting
  <2>2. remote[n].thing = Absent
    BY <1>2, <2>1 DEF Facts, There
  <2>3. /\ local'[n] = Absent /\ DiskNew(n) /\ lclock' = lclock + 1
        /\ \A k \in Node \ {n} : DiskOld(k)
        /\ \A k \in Node : ctime'[k] <= lclock'
    BY <1>2, <2>1, RemoveHere
  <2>4. ver' = ver /\ remote' = remote /\ \A k \in Node : NetOld(k)
    BY <2>1, ServerStill
  <2>5. lclock' >= lclock /\ ver' >= ver
    BY <1>3, <2>3, <2>4
  <2>6. remote'[n].thing = Absent /\ NetOld(n) /\ res[n].state \in {"local_deleted", "remote_deleted", "both_deleted"}
    BY <2>1, <2>2, <2>4
  <2>7. \A k \in Node \ {n} : DiskOld(k) /\ NetOld(k)
    BY <2>3, <2>4
  <2>8. local'[n] = Absent /\ (DiskOld(n) \/ DiskNew(n)) /\ \A k \in Node : ctime'[k] <= lclock'
    BY <2>3
  <2>9. NetOld(n) \/ (NetNew(n) /\ ~remote'[n].multi /\ remote'[n].mtime <= ver')
    BY <2>6
  <2>10. QED
    BY <1>1, <2>5, <2>6, <2>7, <2>8, <2>9, ForgetFlat
<1>7. CASE ForgetDeleted(n)
  <2>1. res[n].state = "both_deleted" /\ UNCHANGED disk /\ UNCHANGED server
    BY <1>7 DEF ForgetDeleted, Visiting
  <2>2. local[n] = Absent /\ remote[n].thing = Absent
    BY <1>2, <2>1 DEF Facts, Here, There
  <2>3. /\ lclock' = lclock /\ local' = local /\ ctime' = ctime
        /\ \A k \in Node : DiskOld(k) /\ local'[k] \in Own(k) \cup {Absent} /\ ctime'[k] <= lclock'
    BY <1>2, <2>1, DiskStill
  <2>4. ver' = ver /\ remote' = remote /\ \A k \in Node : NetOld(k)
    BY <2>1, ServerStill
  <2>5. lclock' >= lclock /\ ver' >= ver
    BY <1>3, <2>3, <2>4
  <2>6. /\ local'[n] = Absent /\ remote'[n].thing = Absent /\ DiskOld(n) /\ NetOld(n)
        /\ res[n].state \in {"local_deleted", "remote_deleted", "both_deleted"}
    BY <2>1, <2>2, <2>3, <2>4
  <2>7. \A k \in Node \ {n} : DiskOld(k) /\ NetOld(k)
    BY <2>3, <2>4
  <2>8. \A k \in Node : ctime'[k] <= lclock'
    BY <2>3
  <2>9. /\ DiskOld(n) \/ DiskNew(n)
        /\ NetOld(n) \/ (NetNew(n) /\ ~remote'[n].multi /\ remote'[n].mtime <= ver')
    BY <2>6
  <2>10. QED
    BY <1>1, <2>5, <2>6, <2>7, <2>8, <2>9, ForgetFlat
<1>8. QED
  BY <1>5, <1>6, <1>7

\* What the server does not let grive write is left alone, and its time recorded: it is
\* still the time of what was agreed on.
LEMMA SkipFlat ==
    ASSUME Flat, TypeOK, TypeOK', FlatInv, ~Dry, NEW n \in Node, ~Lost(n), Skip(n),
           UNCHANGED <<base, baseTime, began>>
    PROVE  Settles(n)
<1>1. /\ LeftAlone(n) /\ Visited(n, res) /\ UNCHANGED disk /\ UNCHANGED server
      /\ index' = index /\ edits' = edits /\ faults' = faults
      /\ st' = IF res[n].json THEN SetSrv(st, n, res[n].mtime) ELSE st
  BY DEF Skip, saved, bounds
<1>2. Turn(n) /\ res[n].state = "local_changed" /\ ~Editable(n)
  BY <1>1, FlatTree, FlatOptions DEF LeftAlone, Visiting, Fetches
<1>3. /\ phase = "sync" /\ RestInv /\ DataOK(n) /\ Judged(n, res[n], st[n])
      /\ res[n].src # "none" /\ Facts(n, res[n].state, st[n].md5, st[n].srv)
      /\ Sound(n, st[n]) /\ Tied(n, st[n], Will(n), WillTime(n)) /\ st[n] \in IndexRec
  BY <1>2, Pending
<1>4. /\ Here(n) /\ There(n) /\ local[n] # remote[n].thing /\ ~(remote[n].mtime > st[n].srv)
      /\ res[n].mtime = remote[n].mtime
  BY <1>2, <1>3 DEF Facts, Judged
<1>5. pending' = pending \ {n} /\ opt' = opt /\ phase' = phase /\ res' = res
  BY <1>1, VisitedFlat
<1>6. /\ lclock' = lclock /\ local' = local /\ ctime' = ctime
      /\ \A k \in Node : DiskOld(k) /\ local'[k] \in Own(k) \cup {Absent} /\ ctime'[k] <= lclock'
  BY <1>1, <1>3, DiskStill
<1>7. ver' = ver /\ remote' = remote /\ \A k \in Node : NetOld(k)
  BY <1>1, ServerStill
<1>8. PICK q : q = [st[n] EXCEPT !.srv = res[n].mtime]
  OBVIOUS
<1>9. /\ q.has = st[n].has /\ q.md5 = st[n].md5 /\ q.size = st[n].size /\ q.tree = st[n].tree
      /\ q.ctime = st[n].ctime /\ q.srv = res[n].mtime
  BY <1>3, <1>8 DEF IndexRec
<1>10. st'[n] \in {st[n], q} /\ \A k \in Node \ {n} : st'[k] = st[k]
  <2>1. SetSrv(st, n, res[n].mtime) = [st EXCEPT ![n] = q]
    BY <1>8 DEF SetSrv
  <2>2. st' = st \/ st' = [st EXCEPT ![n] = q]
    BY <1>1, <2>1
  <2>3. QED
    BY <2>2 DEF TypeOK, MemoryOK
<1>11. lclock \in Nat /\ ver \in Nat /\ faults \in Nat /\ remote[n].mtime \in Nat /\ st[n].srv \in Nat
  BY <1>3, GriveAssumption DEF TypeOK, DiskOK, ServerOK, RemoteObj, IndexRec
<1>12. Frame(n, n)
  <2>1. faults' >= faults /\ lclock' >= lclock /\ ver' >= ver
    BY <1>1, <1>6, <1>7, <1>11
  <2>2. QED
    BY <1>1, <1>3, <1>5, <1>6, <1>7, <1>10, <2>1, FrameOf
<1>13. Tied(n, st[n], base[n], baseTime[n])
  BY <1>3, <1>4 DEF Will, WillTime, Noted, Agreed
<1>14. Sound(n, st[n])' /\ Tied(n, st[n], base[n], baseTime[n])'
  <2>1. PICK r : r = st'[n]
    OBVIOUS
  <2>2. /\ r.has = st[n].has /\ r.md5 = st[n].md5 /\ r.size = st[n].size /\ r.tree = st[n].tree
        /\ r.ctime = st[n].ctime /\ r.srv \in {st[n].srv, remote[n].mtime}
    BY <1>4, <1>9, <1>10, <2>1
  <2>3. Sound(n, r)
    BY <1>3, <2>2 DEF Sound, DataOK
  <2>4. remote[n].mtime <= r.srv
    BY <1>4, <1>11, <2>2
  <2>5. Tied(n, r, base[n], baseTime[n])
    BY <1>4, <1>11, <1>13, <2>2, <2>4 DEF Tied
  <2>6. Sound(n, r)'
    BY <1>6, <1>7, <2>3 DEF Sound, Here
  <2>7. Tied(n, r, base[n], baseTime[n])'
    BY <1>7, <2>5 DEF Tied
  <2>8. QED
    BY <2>1, <2>6, <2>7
<1>15. Done(n)'
  <2>1. ~Agreed(n)' /\ ~Sure
    BY <1>2, <1>4, <1>6, <1>7 DEF Agreed, Sure, Editable
  <2>2. QED
    BY <1>2, <1>5, <2>1 DEF Done
<1>16. QED
  BY <1>2, <1>5, <1>12, <1>14, <1>15 DEF Settles, Kept

\* A call is made only where the two sides differ.
LEMMA CallsFlat ==
    ASSUME Flat, TypeOK, FlatInv, ~Dry, NEW n \in Node, ~Lost(n), Calls(n)
    PROVE  Turn(n) /\ ~Agreed(n)
<1>1. /\ Turn(n)
      /\ res[n].state \in {"local_new", "local_changed", "local_deleted", "remote_deleted",
                           "remote_new", "remote_changed"}
  BY DEF Calls, Visiting, Moved
<1>2. Facts(n, res[n].state, st[n].md5, st[n].srv)
  BY <1>1, Pending
<1>3. ~Agreed(n)
  BY <1>1, <1>2 DEF Facts, Agreed, Here, There
<1>4. QED
  BY <1>1, <1>3

\* What n may have moved from has its checksum: it is what a cut download left.
LEMMA MovedFlat ==
    ASSUME Flat, TypeOK, FlatInv, ~Dry, NEW n \in Node, ~Lost(n), Turn(n), NEW m \in Moved(n)
    PROVE  /\ m \in Node /\ m # n /\ GetMD5(n) # NoMD5
           /\ res[m].src # "none" /\ res[m].md5 = GetMD5(n)
           /\ \/ res[n].state = "local_new" /\ res[m].state = "local_deleted" /\ GetMD5(n) = local[n]
              \/ res[n].state = "remote_new" /\ res[m].state = "remote_deleted"
                 /\ GetMD5(n) = remote[n].thing
<1>1. /\ m \in Node /\ GetMD5(n) # NoMD5 /\ res[m].src # "none" /\ res[m].md5 = GetMD5(n)
      /\ res[n].state \in {"local_new", "remote_new"}
      /\ res[m].state = IF res[n].state = "local_new" THEN "local_deleted" ELSE "remote_deleted"
  BY DEF Moved, FindByMD5
<1>2. /\ Judged(n, res[n], st[n]) /\ res[n].src # "none" /\ ~IsFolder(res[n]) /\ DataOK(n)
      /\ Facts(n, res[n].state, st[n].md5, st[n].srv)
  BY Pending
<1>3. CASE res[n].state = "local_new"
  <2>1. Here(n) /\ ~There(n) /\ res[n].exists /\ res[n].md5 \in {local[n], NoMD5}
    BY <1>2, <1>3 DEF Facts, Judged
  <2>2. local[n] \in Files
    BY <1>2, <2>1, OwnFiles DEF DataOK, Here
  <2>3. GetMD5(n) = local[n]
    BY <1>2, <2>1, <2>2 DEF GetMD5
  <2>4. QED
    BY <1>1, <1>3, <2>3
<1>4. CASE res[n].state = "remote_new"
  <2>1. There(n) /\ res[n].md5 = remote[n].thing
    BY <1>2, <1>4 DEF Facts, Judged
  <2>2. res[n].md5 # NoMD5
    BY <1>2, <2>1, OwnFiles DEF DataOK, There
  <2>3. GetMD5(n) = remote[n].thing
    BY <2>1, <2>2 DEF GetMD5
  <2>4. QED
    BY <1>1, <1>4, <2>3
<1>5. QED
  BY <1>1, <1>3, <1>4

\* The server refuses nothing that nobody disturbed: but what a cut download left may be
\* gone when it should move.
LEMMA RefusedFlat ==
    ASSUME Flat, TypeOK, FlatInv, ~Dry, NEW n \in Node, ~Lost(n), Calls(n), Refused(n)
    PROVE  Moved(n) # {} /\ res[n].state = "remote_new" /\ ~Sure
<1>1. Turn(n)
  BY CallsFlat
<1>2. /\ Judged(n, res[n], st[n]) /\ res[n].src # "none" /\ ~IsFolder(res[n]) /\ DataOK(n)
      /\ Facts(n, res[n].state, st[n].md5, st[n].srv) /\ RestInv
  BY <1>1, Pending
<1>3. Here(n) => local[n] \in Files
  BY <1>2, OwnFiles DEF DataOK, Here
<1>4. /\ OnServer(Parent[n]) /\ DirAt(local, Parent[n]) /\ Res(Parent[n]).id
  BY FlatTree, FlatRoot
<1>5. Moved(n) # {}
  <2> SUFFICES ASSUME Moved(n) = {} PROVE FALSE
    OBVIOUS
  <2>1. res[n].state = "local_new" => CanCreate(n)
    BY <1>2, <1>3, <1>4 DEF CanCreate, Readable, Facts
  <2>2. res[n].state = "local_changed" => CanEdit(n)
    BY <1>2, <1>3 DEF CanEdit, Readable, Facts, Judged, There
  <2>3. res[n].state = "local_deleted" => CanTrash(n)
    BY <1>2 DEF CanTrash, Facts, Judged, There
  <2>4. res[n].state = "remote_deleted" => local[n] # Absent
    BY <1>2 DEF Facts, Here
  <2>5. res[n].state \in {"remote_new", "remote_changed"} => CanDownload(n)
    <3>1. local[n] # Dir
      BY <1>2, OwnFiles, ThingAssumption DEF DataOK
    <3>2. There(n) => remote[n].thing \in Files
      BY <1>2, OwnFiles DEF DataOK, There
    <3>3. QED
      BY <1>2, <1>4, <3>1, <3>2 DEF CanDownload, CanOpen, Facts
  <2>6. res[n].state \in {"local_new", "local_changed", "local_deleted", "remote_deleted",
                           "remote_new", "remote_changed"}
    BY DEF Calls, Visiting
  <2>7. QED
    BY <1>2, <2>1, <2>2, <2>3, <2>4, <2>5, <2>6 DEF Refused
<1>6. PICK m \in Moved(n) :
          IF res[n].state = "local_new" THEN ~CanMoveRemote(n) ELSE ~CanMoveLocal(n, m)
  BY <1>5 DEF Refused
<1>7. CanMoveRemote(n)
  BY <1>4 DEF CanMoveRemote
<1>8. /\ m \in Node /\ m # n /\ res[n].state = "remote_new" /\ res[m].state = "remote_deleted"
      /\ res[m].src # "none" /\ res[m].md5 = remote[n].thing
  BY <1>1, <1>6, <1>7, MovedFlat
<1>9. ~Here(m)
  <2>1. local[n] # Dir
    BY <1>2, OwnFiles, ThingAssumption DEF DataOK
  <2>2. QED
    BY <1>4, <1>6, <1>8, <2>1 DEF CanMoveLocal, Here
<1>10. remote[n].thing \in Own(n) /\ There(n)
  BY <1>2, <1>8 DEF Facts, DataOK, There
<1>11. m \notin pending
  <2>1. m \in pending => Judged(m, res[m], st[m])
    BY <1>1, <1>8 DEF FlatInv, WalkInv, Walk, Turn, Lost
  <2>2. QED
    BY <1>8, <1>9, <2>1 DEF Judged, Facts
<1>12. remote[n].thing \in Own(m)
  <2>1. Done(m)
    BY <1>1, <1>8, <1>11 DEF FlatInv, WalkInv, Walk, Turn
  <2>2. QED
    BY <1>8, <1>10, <2>1, OwnFiles DEF Done
<1>13. ~Sure
  BY <1>8, <1>10, <1>12, OwnFiles DEF Sure
<1>14. QED
  BY <1>5, <1>8, <1>13

\* What a failed call leaves: a file cut short by the download, or nothing.
LEMMA CallFailsFlat ==
    ASSUME Flat, TypeOK, TypeOK', FlatInv, ~Dry, NEW n \in Node, ~Lost(n), CallFails(n),
           UNCHANGED <<base, baseTime, began>>
    PROVE  Turn(n) /\ Settles(n)
<1>1. /\ Calls(n) /\ Threw(n) /\ UNCHANGED server /\ index' = index /\ edits' = edits
      /\ (Refused(n) /\ faults' = faults) \/ ("request" \in Faults /\ faults' = faults + 1)
  BY DEF CallFails, Fault, saved, bounds
<1>2. Turn(n) /\ ~Agreed(n)
  BY <1>1, CallsFlat
<1>3. /\ phase = "sync" /\ RestInv /\ DataOK(n) /\ Judged(n, res[n], st[n])
      /\ res[n].src # "none" /\ Facts(n, res[n].state, st[n].md5, st[n].srv)
      /\ Sound(n, st[n]) /\ Tied(n, st[n], Will(n), WillTime(n))
  BY <1>2, Pending
<1>4. pending' = pending \ {n} /\ UNCHANGED <<st, res, phase, opt>>
  BY <1>1 DEF Threw
<1>5. ver' = ver /\ remote' = remote /\ \A k \in Node : NetOld(k)
  BY <1>1, ServerStill
<1>6. lclock \in Nat /\ ver \in Nat /\ faults \in Nat
  BY GriveAssumption DEF TypeOK, DiskOK, ServerOK
<1>7. faults' >= faults /\ ver' >= ver /\ edits' >= edits
  BY <1>1, <1>5, <1>6, GriveAssumption DEF TypeOK
<1>8. /\ Refused(n) => ~Truncates(n) /\ res[n].state = "remote_new" /\ ~Sure
      /\ Truncates(n) => res[n].state \in {"remote_new", "remote_changed"}
  BY <1>1, RefusedFlat DEF Truncates, Fetches
<1>9. "request" \in Faults /\ faults' = faults + 1 => Disturbed'
  BY <1>3, <1>6, <1>7, DisturbedStays
<1>10. CASE ~Truncates(n)
  <2>1. UNCHANGED disk
    BY <1>10 DEF CallFails
  <2>2. /\ lclock' = lclock /\ local' = local /\ ctime' = ctime
        /\ \A k \in Node : DiskOld(k) /\ local'[k] \in Own(k) \cup {Absent} /\ ctime'[k] <= lclock'
    BY <1>3, <2>1, DiskStill
  <2>3. lclock' >= lclock
    BY <1>6, <2>2
  <2>4. Frame(n, n)
    BY <1>1, <1>3, <1>4, <1>5, <1>7, <2>2, <2>3, FrameOf
  <2>5. Disturbed' \/ (~Agreed(n)' /\ ~Sure)
    BY <1>1, <1>2, <1>5, <1>8, <1>9, <2>2 DEF Agreed
  <2>6. res[n].state = "remote_deleted" => Disturbed'
    BY <1>1, <1>8, <1>9
  <2>7. Kept(n) /\ Done(n)'
    <3>1. DataStep(n) /\ Later /\ DiskOld(n) /\ NetOld(n)
      BY <1>5, <2>2, <2>4 DEF Frame
    <3>2. QED
      BY <1>2, <1>3, <1>4, <1>7, <2>5, <2>6, <3>1, FailedEnds
  <2>8. QED
    BY <1>2, <1>3, <1>4, <2>4, <2>7 DEF Settles, Judged, Facts
<1>11. CASE Truncates(n)
  <2>1. DiskPut(n, Partial) /\ Partial \in Files
    BY <1>11 DEF CallFails, Files
  <2>2. /\ local'[n] = Partial /\ ctime'[n] = lclock + 1 /\ DiskNew(n) /\ lclock' = lclock + 1
        /\ \A k \in Node \ {n} : DiskOld(k)
        /\ \A k \in Node : ctime'[k] <= lclock'
    BY <1>3, <2>1, PutHere
  <2>3. ~Refused(n)
    BY <1>8, <1>11
  <2>4. Disturbed' /\ "request" \in Faults
    BY <1>1, <1>9, <2>3
  <2>5. Partial \in Own(n) /\ lclock' >= lclock
    BY <1>6, <2>2, <2>4 DEF Own
  <2>6. Frame(n, n)
    BY <1>1, <1>3, <1>4, <1>5, <1>7, <2>2, <2>5, FrameOf
  <2>7. Kept(n) /\ Done(n)'
    <3>1. DataStep(n) /\ Later /\ res[n].state # "remote_deleted"
      BY <1>8, <1>11, <2>6 DEF Frame
    <3>2. QED
      BY <1>2, <1>3, <1>4, <1>7, <2>4, <3>1, FailedEnds
  <2>8. QED
    BY <1>2, <1>3, <1>4, <2>6, <2>7 DEF Settles, Judged, Facts
<1>12. QED
  BY <1>10, <1>11

\* What a call leaves whose answer is lost: the server is ahead of the record.
LEMMA LostReplyFlat ==
    ASSUME Flat, TypeOK, TypeOK', FlatInv, ~Dry, NEW n \in Node, ~Lost(n), LostReply(n),
           UNCHANGED <<base, baseTime, began>>
    PROVE  Turn(n) /\ Settles(n)
<1>1. /\ Calls(n) /\ Threw(n) /\ UNCHANGED disk /\ index' = index /\ edits' = edits
      /\ faults' = faults + 1
  BY DEF LostReply, Fault, saved
<1>2. Turn(n) /\ ~Agreed(n)
  BY <1>1, CallsFlat
<1>3. /\ phase = "sync" /\ RestInv /\ DataOK(n) /\ Judged(n, res[n], st[n])
      /\ res[n].src # "none" /\ Facts(n, res[n].state, st[n].md5, st[n].srv)
      /\ Sound(n, st[n]) /\ Tied(n, st[n], Will(n), WillTime(n)) /\ ~IsFolder(res[n])
  BY <1>2, Pending
<1>4. pending' = pending \ {n} /\ UNCHANGED <<st, res, phase, opt>>
  BY <1>1 DEF Threw
<1>5. /\ lclock' = lclock /\ local' = local /\ ctime' = ctime
      /\ \A k \in Node : DiskOld(k) /\ local'[k] \in Own(k) \cup {Absent} /\ ctime'[k] <= lclock'
  BY <1>1, <1>3, DiskStill
<1>6. lclock \in Nat /\ ver \in Nat /\ faults \in Nat /\ ver + 1 > 0
  BY GriveAssumption DEF TypeOK, DiskOK, ServerOK
<1>7. /\ res[n].state # "remote_deleted" /\ ver' = ver + 1 /\ NetNew(n)
      /\ remote'[n].thing \in Own(n) \cup {Absent} /\ ~remote'[n].multi /\ remote'[n].mtime <= ver'
      /\ (remote'[n].thing # Absent => remote'[n].mtime > 0)
      /\ \A k \in Node \ {n} : NetOld(k)
  <2>1. CASE res[n].state = "local_new" /\ SendNew(n)
    <3>1. local[n] \in Own(n) /\ ServerAdd(n, local[n])
      BY <1>3, <2>1 DEF Facts, Here, DataOK, SendNew
    <3>2. QED
      BY <1>3, <1>6, <2>1, <3>1, AddThere
  <2>2. CASE res[n].state = "local_changed" /\ SendEdit(n)
    <3>1. local[n] \in Own(n) /\ ServerPut(n, local[n])
      BY <1>3, <2>2 DEF Facts, Here, DataOK, SendEdit
    <3>2. QED
      BY <1>3, <1>6, <2>2, <3>1, PutThere
  <2>3. CASE res[n].state = "local_deleted" /\ ServerTrash(n)
    <3>1. NoObj.thing = Absent /\ NoObj.mtime = 0 /\ ~NoObj.multi
      BY DEF NoObj
    <3>2. QED
      BY <1>6, <2>3, <3>1, TrashThere
  <2>4. QED
    BY <2>1, <2>2, <2>3 DEF LostReply
<1>8. faults' > faults /\ faults' >= faults /\ ver' >= ver /\ lclock' >= lclock /\ edits' >= edits
  BY <1>1, <1>5, <1>6, <1>7, GriveAssumption DEF TypeOK
<1>9. Disturbed'
  BY <1>3, <1>8, DisturbedStays
<1>10. Frame(n, n)
  BY <1>1, <1>3, <1>4, <1>5, <1>7, <1>8, FrameOf
<1>11. Kept(n) /\ Done(n)'
  <2>1. DataStep(n) /\ Later
    BY <1>10 DEF Frame
  <2>2. QED
    BY <1>2, <1>3, <1>4, <1>7, <1>8, <1>9, <2>1, FailedEnds
<1>12. QED
  BY <1>2, <1>3, <1>4, <1>10, <1>11 DEF Settles, Judged, Facts

-------------------------------------------------------------------------------
(* What a cut download left may move, for it may be at two paths.          *)

\* The resources and the records after a rename of m to n.
LEMMA RenamedFlat ==
    ASSUME TypeOK, NEW n \in Node, NEW m \in Node, n # m, NEW r \in ResourceRec,
           res' = Renamed(n, m, r)
    PROVE  /\ res'[n].state = "sync"
           /\ res'[m].state = "both_deleted" /\ res'[m].src = res[m].src
           /\ res'[m].kind = res[m].kind /\ res'[m].mtime = res[m].mtime
           /\ \A k \in Node \ {n, m} : res'[k] = res[k]
<1>1. PICK q : q = [r EXCEPT !.state = "sync", !.mtime = res[m].mtime, !.json = TRUE]
  OBVIOUS
<1>2. PICK o : o = [res[m] EXCEPT !.state = "both_deleted", !.json = FALSE]
  OBVIOUS
<1>3. q.state = "sync"
  BY <1>1 DEF ResourceRec
<1>4. res[m] \in ResourceRec
  BY DEF TypeOK, MemoryOK
<1>5. o.state = "both_deleted" /\ o.src = res[m].src /\ o.kind = res[m].kind /\ o.mtime = res[m].mtime
  BY <1>2, <1>4 DEF ResourceRec
<1>6. res' = [res EXCEPT ![n] = q, ![m] = o]
  BY <1>1, <1>2 DEF Renamed, TypeOK, MemoryOK
<1>7. res'[n] = q /\ res'[m] = o /\ \A k \in Node \ {n, m} : res'[k] = res[k]
  BY <1>6 DEF TypeOK, MemoryOK
<1>8. QED
  BY <1>3, <1>5, <1>7

\* The records after it.
LEMMA ReindexedFlat ==
    ASSUME Flat, TypeOK, NEW n \in Node, NEW m \in Node, n # m, NEW r, ~IsFolder(r),
           st' = Reindexed(n, m, r)
    PROVE  /\ st'[n].has = TRUE /\ st'[n].ctime = r.ctime /\ st'[n].md5 = r.md5
           /\ st'[n].size = r.size /\ st'[n].srv = res[m].mtime /\ st'[n].tree = FALSE
           /\ st'[m] = NoRec
           /\ \A k \in Node \ {n, m} : st'[k] = st[k]
<1> DEFINE s == SetIndex(st, n, r)
<1>1. s[n] = [has |-> TRUE, ctime |-> r.ctime, md5 |-> r.md5, size |-> r.size,
              srv |-> st[n].srv, tree |-> FALSE]
  BY DEF SetIndex
<1>2. \A k \in Node \ {n} : s[k] = st[k]
  BY FlatTree DEF SetIndex
<1>3. PICK D : s \in [Node -> D]
  <2>1. s \in [Node -> {s[k] : k \in Node}]
    BY DEF SetIndex
  <2>2. QED
    BY <2>1
<1> HIDE DEF s
<1>4. PICK q : q = [s[n] EXCEPT !.srv = res[m].mtime]
  OBVIOUS
<1>5. PICK w : w = [s EXCEPT ![n] = q]
  OBVIOUS
<1>6. st' = DeleteIndex(w, m)
  BY <1>4, <1>5 DEF Reindexed, SetSrv, s
<1>7. w[n] = q /\ \A k \in Node \ {n} : w[k] = s[k]
  BY <1>3, <1>5
<1>8. st'[m] = NoRec /\ \A k \in Node \ {m} : st'[k] = w[k]
  BY <1>6, FlatTree DEF DeleteIndex
<1>9. st'[n] = q /\ \A k \in Node \ {n, m} : st'[k] = st[k]
  BY <1>2, <1>7, <1>8
<1>10. q.has = TRUE /\ q.ctime = r.ctime /\ q.md5 = r.md5 /\ q.size = r.size
  BY <1>1, <1>4
<1>11. q.srv = res[m].mtime /\ q.tree = FALSE
  BY <1>1, <1>4
<1>12. QED
  BY <1>8, <1>9, <1>10, <1>11

\* What moves on the server: it is gone here, it is still there, and its turn has not come.
LEMMA MovedThere ==
    ASSUME Flat, TypeOK, FlatInv, ~Dry, NEW n \in Node, ~Lost(n), Turn(n), NEW m \in Moved(n),
           res[n].state = "local_new"
    PROVE  /\ m \in Node /\ m # n /\ m \in pending /\ DataOK(m)
           /\ res[m].src \notin {"none", "local"} /\ res[m].kind = "file"
           /\ ~Here(m) /\ remote[m].thing = Partial /\ res[m].mtime = remote[m].mtime
           /\ local[n] = Partial /\ GetMD5(n) = Partial /\ Partial \in Own(n)
<1>1. /\ phase = "sync" /\ RestInv /\ DataOK(n) /\ Judged(n, res[n], st[n])
      /\ res[n].src # "none" /\ Facts(n, res[n].state, st[n].md5, st[n].srv)
  BY Pending
<1>2. /\ m \in Node /\ m # n /\ res[m].src # "none" /\ res[m].md5 = local[n]
      /\ GetMD5(n) = local[n] /\ res[m].state = "local_deleted"
  BY MovedFlat
<1>3. Here(n) /\ res[n].src = "local"
  BY <1>1 DEF Judged, Facts
<1>4. m \in pending
  BY <1>1, <1>2, <1>3 DEF FlatInv, WalkInv, Walk, Turn
<1>5. Judged(m, res[m], st[m]) /\ DataOK(m)
  <2>1. ~Lost(m)
    BY DEF Lost, Turn
  <2>2. QED
    BY <1>1, <1>2, <1>4, <2>1 DEF FlatInv, WalkInv, Walk, RestInv
<1>6. /\ ~Here(m) /\ There(m) /\ res[m].kind = "file" /\ res[m].src # "local"
      /\ remote[m].thing = local[n] /\ res[m].mtime = remote[m].mtime
  BY <1>2, <1>5 DEF Judged, Facts
<1>7. local[n] = Partial /\ Partial \in Own(n)
  <2>1. local[n] \in Own(n) /\ local[n] \in Own(m)
    BY <1>1, <1>3, <1>5, <1>6 DEF DataOK, Here, There
  <2>2. QED
    BY <1>2, <2>1, OwnFiles
<1>8. QED
  BY <1>2, <1>4, <1>5, <1>6, <1>7

\* An object that moves on the server follows a file that moved on the disk.
LEMMA MoveRemoteFlat ==
    ASSUME Flat, TypeOK, TypeOK', FlatInv, ~Dry, NEW n \in Node, ~Lost(n), NEW m \in Node,
           MoveRemote(n, m), UNCHANGED <<base, baseTime, began>>
    PROVE  FlatInv'
<1>1. /\ Turn(n) /\ m \in Moved(n) /\ res[n].state = "local_new"
      /\ (remote[m].thing # Absent => ServerMove(m, n))
      /\ UNCHANGED disk /\ index' = index /\ edits' = edits /\ faults' = faults
  BY DEF MoveRemote, saved, bounds
<1>2. /\ phase = "sync" /\ RestInv /\ DataOK(n) /\ Judged(n, res[n], st[n])
      /\ res[n].src # "none" /\ res[n].kind = "file" /\ res[n] \in ResourceRec
      /\ Facts(n, res[n].state, st[n].md5, st[n].srv)
  BY <1>1, Pending
<1>3. /\ m # n /\ m \in pending /\ DataOK(m)
      /\ res[m].src \notin {"none", "local"} /\ res[m].kind = "file"
      /\ ~Here(m) /\ remote[m].thing = Partial /\ res[m].mtime = remote[m].mtime
      /\ local[n] = Partial /\ GetMD5(n) = Partial /\ Partial \in Own(n)
  BY <1>1, MovedThere
<1>4. /\ Here(n) /\ ~There(n) /\ There(m) /\ res[n].src = "local" /\ res[n].ctime = ctime[n]
      /\ res[n].size = SizeOf(local[n])
  <2>1. Partial # Absent
    BY ThingAssumption DEF Files
  <2>2. QED
    BY <1>1, <1>2, <1>3, <2>1 DEF Judged, Facts, There
<1>5. /\ remote'[m] = NoObj /\ NetNew(m) /\ ver' = ver + 1
      /\ remote'[n].thing = Partial /\ remote'[n].mtime = remote[m].mtime
      /\ remote'[n].multi = remote[m].multi /\ NetNew(n)
      /\ \A k \in Node \ {n, m} : NetOld(k)
  <2>1. ServerMove(m, n) /\ remote[m].thing = Partial
    BY <1>1, <1>3, <1>4 DEF There
  <2>2. QED
    BY <1>3, <2>1, MoveThere
<1>6. PICK r : r = [res[n] EXCEPT !.md5 = GetMD5(n)]
  OBVIOUS
<1>7. /\ r \in ResourceRec /\ ~IsFolder(r) /\ r.md5 = local[n] /\ r.ctime = res[n].ctime
       /\ r.size = res[n].size
  <2>1. local[n] \in Files
    BY <1>3, OwnFiles
  <2>2. r.md5 = local[n] /\ r.ctime = res[n].ctime /\ r.size = res[n].size /\ r.kind = "file"
    BY <1>2, <1>3, <1>6 DEF ResourceRec
  <2>3. r \in ResourceRec
    BY <1>2, <1>3, <1>6, <2>1 DEF ResourceRec
  <2>4. QED
    BY <2>2, <2>3 DEF IsFolder
<1>8. st' = Reindexed(n, m, r) /\ Visited(n, Renamed(n, m, r))
  <2>1. HasJson(Parent[m]) = TRUE
    BY FlatTree
  <2>2. QED
    BY <1>6, <2>1 DEF MoveRemote
<1>9. pending' = pending \ {n} /\ res' = Renamed(n, m, r) /\ opt' = opt /\ phase' = phase
  BY <1>8, VisitedFlat
<1>10. /\ res'[n].state = "sync"
       /\ res'[m].state = "both_deleted" /\ res'[m].src = res[m].src
       /\ res'[m].kind = res[m].kind /\ res'[m].mtime = res[m].mtime
       /\ \A k \in Node \ {n, m} : res'[k] = res[k]
  BY <1>3, <1>7, <1>9, RenamedFlat
<1>11. /\ st'[n].has = TRUE /\ st'[n].ctime = r.ctime /\ st'[n].md5 = r.md5
       /\ st'[n].size = r.size /\ st'[n].srv = res[m].mtime /\ st'[n].tree = FALSE
       /\ st'[m] = NoRec
       /\ \A k \in Node \ {n, m} : st'[k] = st[k]
  BY <1>3, <1>7, <1>8, ReindexedFlat
<1>12. /\ lclock' = lclock /\ local' = local /\ ctime' = ctime
       /\ \A k \in Node : DiskOld(k) /\ local'[k] \in Own(k) \cup {Absent} /\ ctime'[k] <= lclock'
  BY <1>1, <1>2, DiskStill
<1>13. /\ lclock \in Nat /\ ver \in Nat /\ faults \in Nat /\ remote[m].mtime \in Nat
       /\ NoObj.thing = Absent /\ NoObj.mtime = 0 /\ NoObj.multi = FALSE
  BY GriveAssumption DEF TypeOK, DiskOK, ServerOK, RemoteObj, NoObj
<1>14. remote[m].mtime <= ver' /\ remote[m].mtime > 0 /\ ~remote[m].multi /\ res[m].mtime <= ver'
  BY <1>3, <1>4, <1>5, <1>13 DEF DataOK
<1>15. Frame(n, m)
  <2>1. Later /\ faults' >= faults
    BY <1>1, <1>5, <1>12, <1>13 DEF Later
  <2>2. DataStep(n)
    BY <1>3, <1>5, <1>12, <1>14 DEF DataStep
  <2>3. DataStep(m)
    BY <1>5, <1>12, <1>13 DEF DataStep
  <2>4. \A k \in Node \ {n, m} : DataStep(k)
    BY <1>5, <1>12 DEF DataStep
  <2>5. QED
    BY <1>1, <1>2, <1>5, <1>9, <1>10, <1>11, <1>12, <2>1, <2>2, <2>3, <2>4 DEF Frame
<1>16. Kept(n) /\ Done(n)'
  <2>1. PICK t, c, s : t \in Own(n) /\ t = Partial /\ c = ctime[n] /\ s = res[m].mtime
    BY <1>3
  <2>2. t \in Own(n) /\ c <= lclock' /\ s <= ver' /\ t \notin Content
    BY <1>2, <1>12, <1>14, <2>1, ThingAssumption DEF DataOK
  <2>3. /\ local'[n] = t /\ remote'[n].thing = t
        /\ st'[n].has = TRUE /\ st'[n].ctime = c /\ st'[n].md5 = t /\ st'[n].size = SizeOf(t)
        /\ st'[n].srv = s /\ st'[n].tree = FALSE
    BY <1>3, <1>4, <1>5, <1>7, <1>11, <1>12, <2>1
  <2>4. QED
    BY <1>10, <2>2, <2>3, RecordedEnds
<1>17. local'[m] = Absent /\ remote'[m].thing = Absent
  BY <1>3, <1>5, <1>12, <1>13 DEF Here
<1>18. Kept(m)
  BY <1>10, <1>11, <1>17, ForgottenEnds
<1>19. Judged(m, res[m], st[m])'
  <2>1. ~Here(m)' /\ ~There(m)'
    BY <1>17 DEF Here, There
  <2>2. Facts(m, res[m].state, st[m].md5, st[m].srv)'
    BY <1>10, <2>1 DEF Facts
  <2>3. /\ res'[m].kind = "file" /\ res'[m].src # "none" /\ res'[m].src # "local"
        /\ res'[m].mtime <= ver' /\ res'[m].state = "both_deleted"
    BY <1>3, <1>10, <1>14
  <2>4. QED
    BY <2>1, <2>2, <2>3 DEF Judged
<1>20. QED
  BY <1>1, <1>2, <1>3, <1>10, <1>15, <1>16, <1>18, <1>19, WalkStep

\* An object that was moved, and the answer was lost: its old path has a turn to come.
LEMMA LostMoveFlat ==
    ASSUME Flat, TypeOK, TypeOK', FlatInv, ~Dry, NEW n \in Node, ~Lost(n), NEW m \in Node,
           LostMove(n, m), UNCHANGED <<base, baseTime, began>>
    PROVE  FlatInv'
<1>1. /\ Calls(n) /\ Turn(n) /\ m \in Moved(n) /\ res[n].state = "local_new" /\ ServerMove(m, n)
      /\ Threw(n) /\ UNCHANGED disk /\ index' = index /\ edits' = edits /\ faults' = faults + 1
      /\ \A k \in pending \ {n} : res[k].state = "local_new" => IsFolder(res[k])
  BY CallsFlat DEF LostMove, Fault, saved
<1>2. /\ phase = "sync" /\ RestInv /\ DataOK(n) /\ Judged(n, res[n], st[n])
      /\ Facts(n, res[n].state, st[n].md5, st[n].srv)
  BY <1>1, Pending
<1>3. /\ m # n /\ m \in pending /\ DataOK(m) /\ res[m].kind = "file" /\ ~Here(m)
      /\ res[m].state = "local_deleted" /\ res[m].src # "local"
      /\ remote[m].thing = Partial /\ local[n] = Partial /\ Partial \in Own(n)
  BY <1>1, MovedThere, MovedFlat
<1>4. Here(n) /\ ~There(n) /\ There(m) /\ res[n].src = "local"
  <2>1. Partial # Absent
    BY ThingAssumption DEF Files
  <2>2. QED
    BY <1>1, <1>2, <1>3, <2>1 DEF Judged, Facts, There
<1>5. /\ remote'[m] = NoObj /\ NetNew(m) /\ ver' = ver + 1
      /\ remote'[n].thing = Partial /\ remote'[n].mtime = remote[m].mtime
      /\ remote'[n].multi = remote[m].multi /\ NetNew(n)
      /\ \A k \in Node \ {n, m} : NetOld(k)
  BY <1>1, <1>3, MoveThere
<1>6. pending' = pending \ {n} /\ UNCHANGED <<st, res, phase, opt>>
  BY <1>1 DEF Threw
<1>7. /\ lclock' = lclock /\ local' = local /\ ctime' = ctime
      /\ \A k \in Node : DiskOld(k) /\ local'[k] \in Own(k) \cup {Absent} /\ ctime'[k] <= lclock'
  BY <1>1, <1>2, DiskStill
<1>8. /\ lclock \in Nat /\ ver \in Nat /\ faults \in Nat /\ remote[m].mtime \in Nat
      /\ NoObj.thing = Absent /\ NoObj.mtime = 0 /\ NoObj.multi = FALSE
  BY GriveAssumption DEF TypeOK, DiskOK, ServerOK, RemoteObj, NoObj
<1>9. remote[m].mtime <= ver' /\ remote[m].mtime > 0 /\ ~remote[m].multi
  BY <1>3, <1>4, <1>5, <1>8 DEF DataOK
<1>10. Later /\ faults' > faults /\ faults' >= faults /\ edits' >= edits
  BY <1>1, <1>5, <1>7, <1>8, GriveAssumption DEF Later, TypeOK
<1>11. Frame(n, m)
  <2>1. DataStep(n)
    BY <1>3, <1>5, <1>7, <1>9 DEF DataStep
  <2>2. DataStep(m)
    BY <1>5, <1>7, <1>8 DEF DataStep
  <2>3. \A k \in Node \ {n, m} : DataStep(k)
    BY <1>5, <1>7 DEF DataStep
  <2>4. QED
    BY <1>1, <1>2, <1>5, <1>6, <1>7, <1>10, <2>1, <2>2, <2>3 DEF Frame
<1>12. Disturbed'
  BY <1>2, <1>10, DisturbedStays
<1>13. ASSUME NEW k \in {n, m} PROVE Kept(k) /\ Done(k)'
  <2>1. /\ Sound(k, st[k]) /\ Tied(k, st[k], Will(k), WillTime(k)) /\ DataStep(k)
        /\ st'[k] = st[k] /\ res'[k] = res[k] /\ res[k].state # "remote_deleted"
    BY <1>1, <1>2, <1>3, <1>6, <1>11 DEF FlatInv, MemoryInv, Running, Between, Frame
  <2>2. ~Agreed(k)
    BY <1>3, <1>4 DEF Agreed, Here, There
  <2>3. QED
    BY <1>2, <1>10, <1>12, <2>1, <2>2, FailedEnds
<1>14. Lost(m)'
  <2>1. \A k \in pending' : ~IsFolder(res[k])
    BY <1>2, <1>6 DEF FlatInv, WalkInv, Walk, Judged, Lost, IsFolder, TypeOK, MemoryOK
  <2>2. \A k \in pending' : res'[k].state # "local_new"
    BY <1>1, <1>6, <2>1
  <2>3. ~There(m)'
    BY <1>5, <1>8 DEF There
  <2>4. QED
    BY <1>3, <1>6, <1>12, <2>2, <2>3 DEF Lost
<1>15. QED
  BY <1>1, <1>3, <1>6, <1>11, <1>13, <1>14, WalkStep

\* The turn of what was lost: the server has nothing to trash.
LEMMA LostVisit ==
    ASSUME Flat, TypeOK, FlatInv, ~Dry, NEW n \in Node, Lost(n), SyncSelf(n)
    PROVE  CallFails(n) /\ Threw(n) /\ UNCHANGED disk /\ UNCHANGED server
<1>1. res[n].state = "local_deleted" /\ ~CanTrash(n) /\ Moved(n) = {}
  BY DEF Lost, CanTrash, There, Moved
<1>2. ~Abort(n) /\ ~Truncates(n) /\ ~LeftAlone(n)
  BY <1>1, FlatTree DEF Lost, Abort, AssertFails, Visiting, Truncates, Fetches, LeftAlone, IsFolder
<1>3. CallFails(n)
  BY <1>1, <1>2
  DEF SyncSelf, MarkSync, Create, EditContent, DeleteRemote, MakeDir, Download, Skip, DeleteLocal,
      ForgetDeleted, DryVisit, MoveRemote, MoveLocal, LostReply, LostMove, Visiting
<1>4. QED
  BY <1>2, <1>3 DEF CallFails

\* It leaves the path to the next run.
LEMMA LostVisitFlat ==
    ASSUME Flat, TypeOK, TypeOK', FlatInv, ~Dry, NEW n \in Node, Lost(n), SyncSelf(n),
           UNCHANGED <<base, baseTime, began>>
    PROVE  FlatInv'
<1>1. /\ Turn(n) /\ Threw(n) /\ UNCHANGED disk /\ UNCHANGED server /\ CallFails(n)
      /\ phase = "sync" /\ RestInv
  BY LostVisit, VisitEffect DEF Turn, FlatInv
<1>2. index' = index /\ edits' = edits /\ faults' >= faults
  BY <1>1, GriveAssumption DEF CallFails, Fault, saved, bounds, TypeOK
<1>3. pending' = pending \ {n} /\ UNCHANGED <<st, res, phase, opt>>
  BY <1>1 DEF Threw
<1>4. /\ lclock' = lclock /\ local' = local /\ ctime' = ctime
      /\ \A k \in Node : DiskOld(k) /\ local'[k] \in Own(k) \cup {Absent} /\ ctime'[k] <= lclock'
  BY <1>1, DiskStill
<1>5. ver' = ver /\ remote' = remote /\ \A k \in Node : NetOld(k)
  BY <1>1, ServerStill
<1>6. lclock' >= lclock /\ ver' >= ver /\ edits' >= edits
  BY <1>2, <1>4, <1>5, GriveAssumption DEF TypeOK, DiskOK, ServerOK
<1>7. Frame(n, n)
  BY <1>1, <1>2, <1>3, <1>4, <1>5, <1>6, FrameOf
<1>8. Disturbed' /\ res'[n].state # "remote_deleted"
  BY <1>1, <1>2, <1>3, <1>6, DisturbedStays DEF Lost
<1>9. Kept(n)
  <2>1. Sound(n, st[n]) /\ Tied(n, st[n], Will(n), WillTime(n))
    BY <1>1 DEF FlatInv, MemoryInv, Running, Between
  <2>2. Sound(n, st[n])' /\ (Noted(n)' <=> Noted(n))
    BY <1>3, <1>4, <1>5, <2>1 DEF Sound, Here, Noted, Agreed
  <2>3. ~Noted(n) => Tied(n, st[n], base[n], baseTime[n])'
    BY <1>3, <1>5, <2>1 DEF Tied, Will, WillTime
  <2>4. QED
    BY <2>2, <2>3 DEF Kept
<1>10. Done(n)'
  BY <1>8 DEF Done
<1>11. res[n].src # "local"
  BY DEF Lost
<1>12. QED
  BY <1>1, <1>7, <1>9, <1>10, <1>11, WalkStep

\* What moves on the disk: it is gone there, it is still here, and its turn is over.
LEMMA MovedHere ==
    ASSUME Flat, TypeOK, FlatInv, ~Dry, NEW n \in Node, ~Lost(n), Turn(n), NEW m \in Moved(n),
           res[n].state = "remote_new", Here(m)
    PROVE  /\ m \in Node /\ m # n /\ m \notin pending /\ Judged(m, res[m], st[m])
           /\ res[m].src # "none" /\ res[m].state = "remote_deleted" /\ res[m].mtime <= ver
           /\ ~There(m) /\ local[m] = Partial
           /\ remote[n].thing = Partial /\ Partial \in Own(n)
<1>1. /\ phase = "sync" /\ RestInv /\ DataOK(n) /\ Judged(n, res[n], st[n])
      /\ res[n].src # "none" /\ Facts(n, res[n].state, st[n].md5, st[n].srv)
  BY Pending
<1>2. /\ m \in Node /\ m # n /\ res[m].src # "none" /\ res[m].md5 = remote[n].thing
      /\ res[m].state = "remote_deleted"
  BY MovedFlat
<1>3. ~Here(n) /\ There(n) /\ res[n].src # "local"
  BY <1>1 DEF Judged, Facts
<1>4. m \notin pending
  <2>1. m \in pending => res[m].src = "local"
    BY <1>1, <1>2 DEF FlatInv, WalkInv, Walk, Judged, Facts, Lost
  <2>2. m \in pending => Rank(m) >= Rank(n)
    BY <1>2 DEF Turn, Flat, OneFolder
  <2>3. QED
    BY <1>3, <2>1, <2>2 DEF Rank
<1>5. Judged(m, res[m], st[m]) /\ DataOK(m)
  BY <1>1, <1>2, <1>4 DEF FlatInv, WalkInv, Walk, Done, RestInv
<1>6. ~There(m) /\ res[m].mtime <= ver /\ res[m].md5 \in {local[m], NoMD5}
  BY <1>2, <1>5 DEF Judged, Facts
<1>7. remote[n].thing = Partial /\ local[m] = Partial /\ Partial \in Own(n)
  <2>1. remote[n].thing \in Own(n)
    BY <1>1, <1>3 DEF DataOK, There
  <2>2. local[m] = remote[n].thing /\ local[m] \in Own(m)
    BY <1>2, <1>5, <1>6, <2>1, OwnFiles DEF DataOK, Here
  <2>3. QED
    BY <1>2, <2>1, <2>2, OwnFiles
<1>8. QED
  BY <1>2, <1>4, <1>5, <1>6, <1>7

\* A file that moves on the disk follows an object that moved on the server.
LEMMA MoveLocalFlat ==
    ASSUME Flat, TypeOK, TypeOK', FlatInv, ~Dry, NEW n \in Node, ~Lost(n), NEW m \in Node,
           MoveLocal(n, m), UNCHANGED <<base, baseTime, began>>
    PROVE  FlatInv'
<1>1. /\ Turn(n) /\ m \in Moved(n) /\ res[n].state = "remote_new" /\ Here(m) /\ DiskMove(m, n)
      /\ UNCHANGED server /\ index' = index /\ edits' = edits /\ faults' = faults
  BY DEF MoveLocal, CanMoveLocal, Here, saved, bounds
<1>2. /\ phase = "sync" /\ RestInv /\ DataOK(n) /\ Judged(n, res[n], st[n])
      /\ res[n].src # "none" /\ res[n].kind = "file" /\ res[n] \in ResourceRec
      /\ Facts(n, res[n].state, st[n].md5, st[n].srv)
  BY <1>1, Pending
<1>3. /\ m # n /\ m \notin pending /\ res[m].src # "none" /\ res[m].mtime <= ver
      /\ ~There(m) /\ local[m] = Partial /\ remote[n].thing = Partial /\ Partial \in Own(n)
  BY <1>1, MovedHere
<1>4. res[n].md5 = Partial /\ res[n].size = SizeOf(Partial) /\ res[n].src # "local"
  <2>1. Partial # Absent
    BY ThingAssumption DEF Files
  <2>2. QED
    BY <1>1, <1>2, <1>3, <2>1 DEF Judged, Facts, There
<1>5. /\ local'[m] = Absent /\ local'[n] = Partial /\ ctime'[n] = lclock + 1
      /\ DiskNew(m) /\ DiskNew(n) /\ lclock' = lclock + 1
      /\ \A k \in Node \ {n, m} : DiskOld(k)
      /\ \A k \in Node : ctime'[k] <= lclock'
  BY <1>1, <1>2, <1>3, MoveHere
<1>6. PICK r : r = [res[n] EXCEPT !.ctime = ctime'[n]]
  OBVIOUS
<1>7. /\ r \in ResourceRec /\ ~IsFolder(r) /\ r.md5 = Partial /\ r.ctime = lclock + 1
       /\ r.size = SizeOf(Partial)
  <2>1. ctime'[n] \in Nat
    BY DEF TypeOK, DiskOK
  <2>2. /\ r.md5 = res[n].md5 /\ r.ctime = ctime'[n] /\ r.size = res[n].size /\ r.kind = "file"
    BY <1>2, <1>6 DEF ResourceRec
  <2>3. r \in ResourceRec
    BY <1>2, <1>6, <2>1 DEF ResourceRec
  <2>4. QED
    BY <1>4, <1>5, <2>2, <2>3 DEF IsFolder
<1>8. st' = Reindexed(n, m, r) /\ Visited(n, Renamed(n, m, r))
  <2>1. HasJson(Parent[n]) = TRUE /\ HasJson(Parent[m]) = TRUE
    BY FlatTree
  <2>2. QED
    BY <1>6, <2>1 DEF MoveLocal
<1>9. pending' = pending \ {n} /\ res' = Renamed(n, m, r) /\ opt' = opt /\ phase' = phase
  BY <1>8, VisitedFlat
<1>10. /\ res'[n].state = "sync"
       /\ res'[m].state = "both_deleted" /\ res'[m].src = res[m].src
       /\ \A k \in Node \ {n, m} : res'[k] = res[k]
  BY <1>3, <1>7, <1>9, RenamedFlat
<1>11. /\ st'[n].has = TRUE /\ st'[n].ctime = r.ctime /\ st'[n].md5 = r.md5
       /\ st'[n].size = r.size /\ st'[n].srv = res[m].mtime /\ st'[n].tree = FALSE
       /\ st'[m] = NoRec
       /\ \A k \in Node \ {n, m} : st'[k] = st[k]
  BY <1>3, <1>7, <1>8, ReindexedFlat
<1>12. ver' = ver /\ remote' = remote /\ \A k \in Node : NetOld(k)
  BY <1>1, ServerStill
<1>13. lclock \in Nat /\ ver \in Nat /\ faults \in Nat
  BY GriveAssumption DEF TypeOK, DiskOK, ServerOK
<1>14. Frame(n, m)
  <2>1. Later /\ faults' >= faults
    BY <1>1, <1>5, <1>12, <1>13 DEF Later
  <2>2. DataStep(n) /\ DataStep(m)
    BY <1>3, <1>5, <1>12 DEF DataStep
  <2>3. ASSUME NEW k \in Node \ {n, m} PROVE DataStep(k)
    <3>1. local[k] \in Own(k) \cup {Absent} /\ local'[k] = local[k]
      BY <1>2, <1>5 DEF RestInv, DataOK, DiskOld
    <3>2. QED
      BY <1>5, <1>12, <3>1 DEF DataStep
  <2>4. QED
    BY <1>1, <1>2, <1>5, <1>9, <1>10, <1>11, <1>12, <2>1, <2>2, <2>3 DEF Frame
<1>15. Kept(n) /\ Done(n)'
  <2>1. PICK t, c, s : t \in Own(n) /\ t = Partial /\ c = lclock + 1 /\ s = res[m].mtime
    BY <1>3
  <2>2. t \in Own(n) /\ c <= lclock' /\ s <= ver' /\ t \notin Content
    BY <1>3, <1>5, <1>12, <1>13, <2>1, ThingAssumption
  <2>3. /\ local'[n] = t /\ remote'[n].thing = t
        /\ st'[n].has = TRUE /\ st'[n].ctime = c /\ st'[n].md5 = t /\ st'[n].size = SizeOf(t)
        /\ st'[n].srv = s /\ st'[n].tree = FALSE
    BY <1>3, <1>5, <1>7, <1>11, <1>12, <2>1
  <2>4. QED
    BY <1>10, <2>2, <2>3, RecordedEnds
<1>16. local'[m] = Absent /\ remote'[m].thing = Absent
  BY <1>3, <1>5, <1>12 DEF There
<1>17. Kept(m) /\ Done(m)'
  BY <1>10, <1>11, <1>16, ForgottenEnds
<1>18. QED
  BY <1>1, <1>3, <1>10, <1>14, <1>15, <1>17, WalkStep

-------------------------------------------------------------------------------
(* The walk.                                                               *)

\* Nothing that SyncSelf asserts fails: no resource is a folder but the root, and the
\* states say what is where.
LEMMA AbortFlat ==
    ASSUME Flat, TypeOK, FlatInv, NEW n \in Node
    PROVE  ~AssertFails(n)
<1>1. HasJson(Parent[n]) = TRUE /\ Res(Parent[n]) = RootRes
  BY FlatTree
<1>2. Turn(n) => ~IsFolder(res[n])
  <2>1. CASE Dry
    BY <2>1 DEF Turn, FlatInv, WalkInv, IsFolder
  <2>2. CASE ~Dry
    BY <2>2, Pending DEF Lost, IsFolder
  <2>3. QED
    BY <2>1, <2>2
<1>3. ASSUME Visiting(n, "local_new") PROVE MayCreate(n)
  <2>1. Turn(n) /\ ~Dry /\ res[n].state = "local_new" /\ ~Lost(n)
    BY <1>3 DEF Visiting, Lost
  <2>2. Judged(n, res[n], st[n]) /\ res[n].src # "none" /\ Facts(n, res[n].state, st[n].md5, st[n].srv)
    BY <2>1, Pending
  <2>3. ~res[n].id
    BY <2>1, <2>2 DEF Judged, Facts
  <2>4. QED
    BY <1>1, <2>3, FlatRoot DEF MayCreate
<1>4. ASSUME Visiting(n, "local_changed") PROVE MayEdit(n)
  <2>1. Turn(n) /\ ~Dry /\ res[n].state = "local_changed" /\ ~Lost(n)
    BY <1>4 DEF Visiting, Lost
  <2>2. Judged(n, res[n], st[n]) /\ res[n].src # "none" /\ Facts(n, res[n].state, st[n].md5, st[n].srv)
    BY <2>1, Pending
  <2>3. res[n].id
    BY <2>1, <2>2 DEF Judged, Facts
  <2>4. QED
    BY <1>1, <2>3, FlatRoot DEF MayEdit
<1>5. QED
  BY <1>1, <1>2, <1>3, <1>4 DEF AssertFails

\* A visit of a dry run: only what is in the memory changes.
LEMMA DryFlat ==
    ASSUME Flat, TypeOK, TypeOK', FlatInv, Dry, NEW n \in Node, DryVisit(n),
           UNCHANGED <<base, baseTime, began>>
    PROVE  FlatInv'
<1>1. /\ phase = "sync" /\ RestInv /\ UNCHANGED disk /\ UNCHANGED server
      /\ index' = index /\ edits' = edits /\ faults' = faults
      /\ \A k \in Node : res[k].kind # "folder" /\ res[k] \in ResourceRec
  BY DEF DryVisit, Turn, saved, bounds, FlatInv, WalkInv, TypeOK, MemoryOK
<1>2. \E r : Visited(n, r) /\ \A k \in Node : r[k].kind = res[k].kind
  <2>1. ASSUME NEW m \in Moved(n)
        PROVE  \A k \in Node : [res EXCEPT ![n].state = "sync", ![m].state = "both_deleted"][k].kind
                               = res[k].kind
    BY <1>1, ZenonT(30) DEF TypeOK, MemoryOK, ResourceRec, Moved, FindByMD5
  <2>2. ASSUME NEW v
        PROVE  \A k \in Node : [res EXCEPT ![n].json = v][k].kind = res[k].kind
    BY <1>1 DEF TypeOK, MemoryOK, ResourceRec
  <2>3. \/ \E m \in Moved(n) :
              Visited(n, [res EXCEPT ![n].state = "sync", ![m].state = "both_deleted"])
        \/ Visited(n, [res EXCEPT ![n].json = @ \/ res[n].state = "sync"])
    BY DEF DryVisit
  <2>4. CASE \E m \in Moved(n) :
              Visited(n, [res EXCEPT ![n].state = "sync", ![m].state = "both_deleted"])
    BY <2>1, <2>4
  <2>5. CASE Visited(n, [res EXCEPT ![n].json = @ \/ res[n].state = "sync"])
    <3>1. PICK v : v = (res[n].json \/ res[n].state = "sync")
      OBVIOUS
    <3>2. [res EXCEPT ![n].json = @ \/ res[n].state = "sync"] = [res EXCEPT ![n].json = v]
      BY <3>1
    <3>3. PICK r : r = [res EXCEPT ![n].json = v]
      OBVIOUS
    <3>4. Visited(n, r) /\ \A k \in Node : r[k].kind = res[k].kind
      BY <2>2, <2>5, <3>2, <3>3
    <3>5. QED
      BY <3>4
  <2>6. QED
    BY <2>3, <2>4, <2>5
<1>3. phase' = "sync" /\ Dry' /\ \A k \in Node : res'[k].kind # "folder"
  BY <1>1, <1>2 DEF Visited, Dry
<1>4. \A k \in Node : DiskOld(k) /\ local'[k] \in Own(k) \cup {Absent} /\ ctime'[k] <= lclock'
  BY <1>1, DiskStill
<1>5. \A k \in Node : NetOld(k)
  BY <1>1, ServerStill
<1>6. Later /\ edits' >= edits /\ faults' >= faults
  BY <1>1, GriveAssumption DEF Later, disk, server, TypeOK, DiskOK, ServerOK
<1>7. RestInv'
  <2>1. \A k \in Node : DataStep(k)
    BY <1>4, <1>5 DEF DataStep
  <2>2. UNCHANGED <<index, base, baseTime, began>>
    BY <1>1
  <2>3. QED
    BY <1>1, <1>6, <2>1, <2>2, RestStays
<1>8. QED
  BY <1>3, <1>7 DEF FlatInv, NoAbort, MemoryInv, ScanInv, JudgeInv, WalkInv

\* A visit.
LEMMA SyncSelfFlat ==
    ASSUME Flat, TypeOK, TypeOK', FlatInv, NEW n \in Node, SyncSelf(n),
           UNCHANGED <<base, baseTime, began>>
    PROVE  FlatInv'
<1>1. ~Abort(n)
  BY AbortFlat DEF Abort
<1>2. CASE Dry
  <2>1. ~Calls(n) /\ \A s : ~Visiting(n, s)
    BY <1>2 DEF Calls, Visiting
  <2>2. ~LeftAlone(n)
    BY <2>1 DEF LeftAlone
  <2>3. DryVisit(n)
    BY <1>1, <1>2, <2>1, <2>2 DEF SyncSelf, MarkSync, Create, EditContent, DeleteRemote, MakeDir,
       Download, Skip, DeleteLocal, ForgetDeleted, MoveRemote, MoveLocal, CallFails, LostReply,
       LostMove
  <2>4. QED
    BY <1>2, <2>3, DryFlat
<1>3. CASE ~Dry /\ ~Lost(n)
  <2>1. ~DryVisit(n)
    BY <1>3 DEF DryVisit
  <2>2. ~MakeDir(n)
    <3>1. Turn(n) => ~IsFolder(res[n])
      BY <1>3, Pending
    <3>2. QED
      BY <3>1 DEF MakeDir, Visiting
  <2>3. ASSUME Turn(n), Settles(n) PROVE FlatInv'
    BY <1>3, <2>3, WalkStep DEF Settles
  <2>4. CASE MarkSync(n)
    BY <1>3, <2>3, <2>4, MarkSyncFlat DEF MarkSync, Visiting
  <2>5. CASE Create(n)
    BY <1>3, <2>3, <2>5, CreateFlat DEF Create, Visiting
  <2>6. CASE EditContent(n)
    BY <1>3, <2>3, <2>6, EditContentFlat DEF EditContent, Visiting
  <2>7. CASE DeleteRemote(n) \/ DeleteLocal(n) \/ ForgetDeleted(n)
    <3>1. Turn(n)
      BY <2>7 DEF DeleteRemote, DeleteLocal, ForgetDeleted, Visiting
    <3>2. QED
      BY <1>3, <2>3, <2>7, <3>1, DeletesFlat
  <2>8. CASE Download(n)
    BY <1>3, <2>3, <2>8, DownloadFlat DEF Download, Visiting
  <2>9. CASE Skip(n)
    BY <1>3, <2>3, <2>9, SkipFlat DEF Skip, LeftAlone, Visiting
  <2>10. CASE CallFails(n)
    BY <1>3, <2>3, <2>10, CallFailsFlat
  <2>11. CASE LostReply(n)
    BY <1>3, <2>3, <2>11, LostReplyFlat
  <2>12. CASE \E m \in Node : MoveRemote(n, m) \/ MoveLocal(n, m)
    BY <1>3, <2>12, MoveRemoteFlat, MoveLocalFlat
  <2>13. CASE \E m \in Node : LostMove(n, m)
    BY <1>3, <2>13, LostMoveFlat
  <2>14. QED
    BY <1>1, <2>1, <2>2, <2>4, <2>5, <2>6, <2>7, <2>8, <2>9, <2>10, <2>11, <2>12, <2>13
    DEF SyncSelf
<1>4. CASE ~Dry /\ Lost(n)
  BY <1>4, LostVisitFlat
<1>5. QED
  BY <1>2, <1>3, <1>4

-------------------------------------------------------------------------------
(* Every step.                                                             *)

\* The history that a step leaves.
LEMMA HistoryFlat ==
    ASSUME TypeOK, HNext
    PROVE  /\ ~Saves /\ ~TornSave => UNCHANGED <<base, baseTime>>
           /\ Saves => /\ base' = [n \in Node |-> Will(n)]
                       /\ baseTime' = [n \in Node |-> WillTime(n)]
           /\ TornSave /\ ~Saves => /\ base' = [n \in Node |-> Absent]
                                    /\ baseTime' = [n \in Node |-> 0]
           /\ ~Between \/ Between' => began' = began
           /\ Between /\ ~Between' => began' = bounds
BY DEF HNext, Will, WillTime

\* Only a start begins a run.
LEMMA Beginning ==
    ASSUME Next, Between, ~Between'
    PROVE  \E o \in Options, i \in Ignores : Start(o, i)
<1>1. ~People
  <2>1. \A op : Act(op) => UNCHANGED memory
    BY DEF Act
  <2>2. People => UNCHANGED memory
    BY <2>1 DEF People, LocalPut, RemotePut, LocalRemove, RemoteTrash, RemoteShare,
       LocalMove, RemoteMove
  <2>3. QED
    BY <2>2 DEF memory, Between
<1>2. phase \notin {"list", "resolve", "sync"}
  BY DEF Between
<1>3. ~Die
  BY DEF Die
<1>4. \A n \in Node : ~SyncSelf(n)
  BY <1>2, VisitNeedsWalk
<1>5. QED
  BY <1>1, <1>2, <1>3, <1>4 DEF Next, Run, GetAll, ListEntry, ResolveEntry, SaveState, TornSave, WalkDone

\* Every step keeps the invariant.
LEMMA FlatStep ==
    ASSUME Flat, TypeOK, TypeOK', FlatInv, HNext
    PROVE  FlatInv'
<1>1. Next
  BY DEF HNext
<1>2. CASE People
  <2>1. ~SaveState /\ ~TornSave /\ (Between' <=> Between)
    <3>1. \A op : Act(op) => phase' = phase /\ edits' # edits
      BY GriveAssumption DEF Act, memory, TypeOK
    <3>2. phase' = phase /\ edits' # edits
      BY <1>2, <3>1 DEF People, LocalPut, RemotePut, LocalRemove, RemoteTrash, RemoteShare,
         LocalMove, RemoteMove
    <3>3. QED
      BY <3>2 DEF SaveState, TornSave, Fault, bounds, Between
  <2>2. UNCHANGED <<base, baseTime, began>>
    BY <2>1, HistoryFlat DEF Saves
  <2>3. RestInv' /\ Between /\ UNCHANGED memory
    BY <1>2, <2>2, PeopleRest DEF FlatInv
  <2>4. phase' = phase /\ phase # "aborted" /\ phase = "idle"
    BY <2>3 DEF memory, FlatInv, NoAbort, Between
  <2>5. QED
    BY <2>3, <2>4 DEF FlatInv, NoAbort, MemoryInv, ScanInv, JudgeInv, WalkInv, Running, Between
<1>3. ASSUME NEW o \in Options, NEW i \in Ignores, Start(o, i) PROVE FlatInv'
  <2>1. Between /\ ~Between' /\ ~SaveState /\ ~TornSave
    BY <1>3 DEF Start, SaveState, TornSave, WalkDone, Between
  <2>2. UNCHANGED <<base, baseTime>> /\ began' = bounds
    BY <2>1, HistoryFlat DEF Saves
  <2>3. QED
    BY <1>3, <2>2, StartFlat
<1>4. ASSUME ~Between, ~SaveState, ~TornSave PROVE UNCHANGED <<base, baseTime, began>>
  BY <1>4, HistoryFlat DEF Saves
<1>5. CASE GetAll
  <2>1. UNCHANGED <<base, baseTime, began>>
    BY <1>4, <1>5 DEF GetAll, Between, SaveState, TornSave, WalkDone
  <2>2. QED
    BY <1>5, <2>1, GetAllFlat
<1>6. ASSUME NEW n \in Node, ListEntry(n) PROVE FlatInv'
  <2>1. UNCHANGED <<base, baseTime, began>>
    BY <1>4, <1>6 DEF ListEntry, Between, SaveState, TornSave, WalkDone
  <2>2. QED
    BY <1>6, <2>1, ListEntryFlat
<1>7. CASE ResolveEntry
  <2>1. UNCHANGED <<base, baseTime, began>>
    BY <1>4, <1>7 DEF ResolveEntry, Between, SaveState, TornSave, WalkDone
  <2>2. QED
    BY <1>7, <2>1, ResolveFlat
<1>8. ASSUME NEW n \in Node, SyncSelf(n) PROVE FlatInv'
  <2>1. phase = "sync"
    BY <1>8, VisitNeedsWalk
  <2>2. ~SaveState /\ ~TornSave
    BY <1>8, VisitEffect DEF Turn, SaveState, TornSave, WalkDone
  <2>3. UNCHANGED <<base, baseTime, began>>
    BY <1>4, <2>1, <2>2 DEF Between
  <2>4. QED
    BY <1>8, <2>3, SyncSelfFlat
<1>9. CASE SaveState
  <2>1. ~Between /\ ~TornSave /\ (Saves <=> ~Dry)
    BY <1>9, GriveAssumption DEF SaveState, TornSave, WalkDone, Between, Fault, bounds, Saves, TypeOK
  <2>2. UNCHANGED began
    BY <2>1, HistoryFlat
  <2>3. /\ base' = (IF ~Dry THEN [n \in Node |-> Will(n)] ELSE base)
        /\ baseTime' = (IF ~Dry THEN [n \in Node |-> WillTime(n)] ELSE baseTime)
    BY <2>1, HistoryFlat
  <2>4. QED
    BY <1>9, <2>2, <2>3, SaveFlat
<1>10. CASE Die \/ TornSave
  <2>1. ~Between /\ ~SaveState
    BY <1>10, GriveAssumption DEF SaveState, TornSave, WalkDone, Die, Between, Fault, bounds, TypeOK
  <2>2. UNCHANGED began
    BY <2>1, HistoryFlat
  <2>3. /\ base' = (IF TornSave THEN [n \in Node |-> Absent] ELSE base)
        /\ baseTime' = (IF TornSave THEN [n \in Node |-> 0] ELSE baseTime)
    BY <2>1, HistoryFlat DEF Saves
  <2>4. QED
    BY <1>10, <2>2, <2>3, KilledFlat
<1>11. QED
  BY <1>1, <1>2, <1>3, <1>5, <1>6, <1>7, <1>8, <1>9, <1>10 DEF Next, Run

\* In one folder of files nothing but news is recorded of a file, and what the walk has
\* visited is noted or was disturbed.
LEMMA FlatInvariant ==
    ASSUME Flat
    PROVE  HSpec => [](TypeOK /\ FlatInv)
<1>1. HInit => FlatInv
  BY InitFlat
<1>2. TypeOK /\ TypeOK' /\ FlatInv /\ [HNext]_allvars => FlatInv'
  <2>1. CASE HNext
    BY <2>1, FlatStep
  <2>2. CASE UNCHANGED allvars
    <3>1. /\ UNCHANGED <<local, ctime, lclock, remote, ver, index, st, res, feed, pending, phase, opt>>
          /\ UNCHANGED <<edits, faults, base, baseTime, began>>
      BY <2>2 DEF allvars, vars, history
    <3>2. (RestInv' <=> RestInv) /\ (MemoryInv' <=> MemoryInv)
      BY <3>1 DEF RestInv, MemoryInv, DataOK, Sound, Tied, Here, There, Running, Between, Dry, Will,
         WillTime, Noted, Agreed
    <3>3. \A n \in Node : Judged(n, res[n], st[n])' <=> Judged(n, res[n], st[n])
      BY <3>1 DEF Judged, Facts, Here, There
    <3>4. (ScanInv' <=> ScanInv) /\ (JudgeInv' <=> JudgeInv)
      BY <3>1, <3>3 DEF ScanInv, JudgeInv, Scans, Here, There
    <3>5. \A n \in Node : Done(n)' <=> Done(n)
      BY <3>1, <3>3 DEF Done, Disturbed, bounds, Noted, Agreed, Here
    <3>6. \A n \in Node : Walk(n)' <=> Walk(n)
      BY <3>1, <3>3, <3>5 DEF Walk, Lost, There, Disturbed, bounds
    <3>7. (WalkInv' <=> WalkInv) /\ (NoAbort' <=> NoAbort)
      BY <3>1, <3>6 DEF WalkInv, NoAbort, Dry
    <3>8. QED
      BY <3>2, <3>4, <3>7 DEF FlatInv
  <2>3. QED
    BY <2>1, <2>2
<1>3. QED
  BY <1>1, <1>2, SeenInvariant, PTL DEF HSpec

-------------------------------------------------------------------------------
(* What it gives.                                                          *)

\* In one folder of files no assertion of Resource.cc, State.cc or Syncer2.cc fails,
\* whatever people do between the runs, whatever fails, and whatever the order of the walk.
THEOREM OneFolderNeverAborts ==
    ASSUME Flat
    PROVE  HSpec => []NoAbort
<1>1. FlatInv => NoAbort
  BY DEF FlatInv
<1>2. QED
  BY <1>1, FlatInvariant, PTL

\* In one folder of files the index hides nothing at rest: what the next scan takes for
\* unchanged by its ctime, and what the next listing takes for unchanged by its time, is
\* what both sides agreed on (Resource::FromLocal, FromRemote, SetIndex).
THEOREM OneFolderIsHonest ==
    ASSUME Flat
    PROVE  HSpec => []IndexHonest
<1>1. TypeOK /\ FlatInv => IndexHonest
  <2> SUFFICES ASSUME TypeOK, FlatInv, Between, NEW n \in Node
               PROVE  /\ local[n] \in Files /\ index[n].md5 # Missing /\ ctime[n] <= index[n].ctime
                            => local[n] = base[n]
                      /\ remote[n].thing \in Content /\ index[n].has
                         /\ remote[n].mtime <= index[n].srv
                            => remote[n].thing = base[n]
    BY DEF IndexHonest
  <2>1. Sound(n, index[n]) /\ Tied(n, index[n], base[n], baseTime[n])
    BY DEF FlatInv, RestInv
  <2>2. Absent \notin Files
    BY ThingAssumption
  <2>3. QED
    BY <2>1, <2>2 DEF Sound, Tied, Here
<1>2. QED
  BY <1>1, FlatInvariant, PTL

\* In one folder of files that may all be edited, and where no request is cut off, a run
\* that nobody disturbs leaves both sides equal, whatever earlier runs went through: the
\* answers that were lost, the end of the process, the index cut short.
THEOREM OneFolderSettles ==
    ASSUME Flat, Sure
    PROVE  HSpec => []OneRunSettles
<1>1. TypeOK /\ FlatInv => OneRunSettles
  <2> SUFFICES ASSUME TypeOK, FlatInv, WalkDone, opt = {}, began = bounds, NEW n \in Node
               PROVE  Agreed(n)
    BY DEF OneRunSettles
  <2>1. Done(n) /\ ~Disturbed
    BY DEF FlatInv, WalkInv, Walk, WalkDone, Dry, Disturbed
  <2>2. QED
    BY <2>1 DEF Done, Noted
<1>2. QED
  BY <1>1, FlatInvariant, PTL

-------------------------------------------------------------------------------
(* The promise.                                                            *)

\* What a visit knows of a path that is not equal: what was agreed on is what is on record,
\* and the time of the server is that of then, or later.
LEMMA OnRecord ==
    ASSUME Flat, TypeOK, FlatInv, ~Dry, NEW n \in Node, ~Agreed(n), phase = "sync"
    PROVE  /\ base[n] = IF st[n].md5 = Missing THEN Absent ELSE st[n].md5
           /\ remote[n].thing \in Content =>
                (remote[n].mtime <= st[n].srv <=> remote[n].thing = base[n]
                                                  /\ remote[n].mtime = baseTime[n])
<1>1. Tied(n, st[n], Will(n), WillTime(n))
  BY DEF FlatInv, MemoryInv, Running, Between
<1>2. Will(n) = base[n] /\ WillTime(n) = baseTime[n]
  BY DEF Will, WillTime, Noted
<1>3. QED
  BY <1>1, <1>2 DEF Tied

\* There is something new here, and nothing there that was not agreed on.
MayPush(n) ==
    \/ remote[n].thing = Partial
    \/ /\ local[n] # base[n]
       /\ \/ remote[n].thing = Absent
          \/ remote[n].thing = base[n] /\ remote[n].mtime = baseTime[n]

\* There is something new there; where it was deleted, nothing is new here.
MayPull(n) ==
    /\ \/ remote[n].thing # base[n] \/ remote[n].mtime # baseTime[n]
       \/ remote[n].thing = Partial
    /\ remote[n].thing = Absent => local[n] \in {base[n], Partial}

\* What is sent, or trashed there, has news here and none there.
LEMMA PushFlat ==
    ASSUME Flat, TypeOK, FlatInv, ~Dry, NEW n \in Node, ~Lost(n), Turn(n),
           res[n].state \in {"local_new", "local_changed", "local_deleted"}
    PROVE  MayPush(n)
<1>1. /\ phase = "sync" /\ DataOK(n) /\ Sound(n, st[n])
      /\ Facts(n, res[n].state, st[n].md5, st[n].srv)
  BY Pending
<1>2. ~Agreed(n)
  BY <1>1 DEF Facts, Agreed, Here, There
<1>3. /\ base[n] = IF st[n].md5 = Missing THEN Absent ELSE st[n].md5
      /\ remote[n].thing \in Content =>
            (remote[n].mtime <= st[n].srv <=> remote[n].thing = base[n]
                                              /\ remote[n].mtime = baseTime[n])
  BY <1>1, <1>2, OnRecord
<1>4. remote[n].thing \in Content \cup {Partial, Absent}
  BY <1>1 DEF DataOK, Own, Flat, OneFolder
<1>5. Missing \notin Own(n) /\ Absent \notin Own(n)
  BY OwnFiles
<1>6. remote[n].mtime \in Nat /\ st[n].srv \in Nat
  BY DEF TypeOK, MemoryOK, ServerOK, RemoteObj, IndexRec
<1>7. CASE res[n].state = "local_new"
  BY <1>1, <1>3, <1>7 DEF Facts, Here, There, MayPush
<1>8. CASE res[n].state = "local_changed"
  BY <1>1, <1>3, <1>4, <1>6, <1>8 DEF Facts, Here, There, MayPush
<1>9. CASE res[n].state = "local_deleted"
  BY <1>1, <1>3, <1>4, <1>6, <1>9 DEF Facts, Here, There, MayPush
<1>10. QED
  BY <1>7, <1>8, <1>9

\* What is fetched, or removed here, has news there; and none here, where it is removed.
LEMMA PullFlat ==
    ASSUME Flat, TypeOK, FlatInv, ~Dry, NEW n \in Node, phase = "sync",
           Judged(n, res[n], st[n]), res[n].src # "none",
           res[n].state \in {"remote_new", "remote_changed", "remote_deleted"}
    PROVE  MayPull(n)
<1>1. DataOK(n) /\ Sound(n, st[n]) /\ Facts(n, res[n].state, st[n].md5, st[n].srv)
  BY DEF Judged, FlatInv, RestInv, MemoryInv, Running, Between
<1>2. ~Agreed(n)
  BY <1>1 DEF Facts, Agreed, Here, There
<1>3. /\ base[n] = IF st[n].md5 = Missing THEN Absent ELSE st[n].md5
      /\ remote[n].thing \in Content =>
            (remote[n].mtime <= st[n].srv <=> remote[n].thing = base[n]
                                              /\ remote[n].mtime = baseTime[n])
  BY <1>2, OnRecord
<1>4. remote[n].thing \in Content \cup {Partial, Absent}
  BY <1>1 DEF DataOK, Own, Flat, OneFolder
<1>5. Missing \notin Own(n) /\ Absent \notin Own(n) /\ st[n].md5 \in Own(n) \cup {Missing}
      /\ local[n] \in Own(n) \cup {Absent}
  BY <1>1, OwnFiles DEF Sound, DataOK
<1>6. remote[n].mtime \in Nat /\ st[n].srv \in Nat
  BY DEF TypeOK, MemoryOK, ServerOK, RemoteObj, IndexRec
<1>7. CASE res[n].state = "remote_new"
  BY <1>1, <1>3, <1>4, <1>5, <1>6, <1>7 DEF Facts, Here, There, MayPull
<1>8. CASE res[n].state = "remote_changed"
  BY <1>1, <1>3, <1>4, <1>5, <1>6, <1>8 DEF Facts, Here, There, MayPull
<1>9. CASE res[n].state = "remote_deleted"
  BY <1>1, <1>3, <1>5, <1>9 DEF Facts, Here, There, MayPull
<1>10. QED
  BY <1>7, <1>8, <1>9

\* Why a visit changes the disk.
DiskCause(n) ==
    \/ UNCHANGED disk
    \/ /\ res[n].state \in {"remote_new", "remote_changed"}
       /\ DiskPut(n, remote[n].thing) \/ DiskPut(n, Partial)
    \/ res[n].state = "remote_deleted" /\ DiskRemove(n)
    \/ \E m \in Moved(n) : res[n].state = "remote_new" /\ Here(m) /\ DiskMove(m, n)

\* Every change of the disk has its cause in the state of the resource.
LEMMA VisitCause ==
    ASSUME Flat, TypeOK, FlatInv, ~Dry, NEW n \in Node, SyncSelf(n)
    PROVE  DiskCause(n)
<1>1. ~Abort(n) /\ (Turn(n) => ~IsFolder(res[n]))
  BY AbortFlat, Pending DEF Abort, Lost, IsFolder
<1>2. CASE \/ MarkSync(n) \/ Create(n) \/ EditContent(n) \/ DeleteRemote(n) \/ Skip(n)
           \/ ForgetDeleted(n) \/ DryVisit(n) \/ LostReply(n)
           \/ \E m \in Node : MoveRemote(n, m) \/ LostMove(n, m)
  BY <1>2 DEF DiskCause, MarkSync, Create, EditContent, DeleteRemote, Skip, ForgetDeleted,
     DryVisit, LostReply, LostMove, MoveRemote
<1>3. CASE Download(n)
  BY <1>3 DEF DiskCause, Download, Visiting
<1>4. CASE DeleteLocal(n)
  BY <1>4 DEF DiskCause, DeleteLocal, Visiting
<1>5. ASSUME NEW m \in Node, MoveLocal(n, m) PROVE DiskCause(n)
  BY <1>5 DEF DiskCause, MoveLocal, CanMoveLocal, Here
<1>6. CASE CallFails(n)
  BY <1>6 DEF DiskCause, CallFails, Truncates, Fetches
<1>7. ~MakeDir(n)
  BY <1>1 DEF MakeDir, Visiting
<1>8. QED
  BY <1>1, <1>2, <1>3, <1>4, <1>5, <1>6, <1>7 DEF SyncSelf

\* What a visit changes of a path on one side it takes from the other, and may.
Propagates(k) ==
    /\ local'[k] # local[k] => local'[k] \in {remote[k].thing, Partial} /\ MayPull(k)
    /\ remote'[k].thing # remote[k].thing => remote'[k].thing = local[k] /\ MayPush(k)

\* A visit changes one side only where the promise allows it.
LEMMA VisitPropagates ==
    ASSUME Flat, TypeOK, FlatInv, NEW n \in Node, SyncSelf(n)
    PROVE  \A k \in Node : Propagates(k)
<1>1. phase = "sync" /\ Turn(n) /\ ServerEffect(n)
  BY VisitNeedsWalk, VisitEffect
<1>2. CASE Dry
  BY <1>2, DryVisits DEF disk, server, Propagates
<1>3. CASE ~Dry /\ ~Lost(n)
  <2>1. /\ DataOK(n) /\ Judged(n, res[n], st[n]) /\ res[n].src # "none" /\ ~IsFolder(res[n])
        /\ Facts(n, res[n].state, st[n].md5, st[n].srv)
    BY <1>1, <1>3, Pending
  <2>2. res[n].state \in {"remote_new", "remote_changed", "remote_deleted"} => MayPull(n)
    BY <1>1, <1>3, <2>1, PullFlat
  <2>3. res[n].state \in {"local_new", "local_changed", "local_deleted"} => MayPush(n)
    BY <1>1, <1>3, PushFlat
  <2>4. /\ local \in [Node -> LocalThing] /\ remote \in [Node -> RemoteObj]
        /\ Under[n] = {} /\ NoObj.thing = Absent
    BY FlatTree DEF TypeOK, DiskOK, ServerOK, NoObj
  <2>5. ASSUME NEW k \in Node, local'[k] # local[k]
        PROVE  local'[k] \in {remote[k].thing, Partial} /\ MayPull(k)
    <3>1. DiskCause(n) /\ ~UNCHANGED disk
      BY <1>3, <2>5, VisitCause DEF disk
    <3>2. CASE /\ res[n].state \in {"remote_new", "remote_changed"}
               /\ DiskPut(n, remote[n].thing) \/ DiskPut(n, Partial)
      BY <2>2, <2>4, <2>5, <3>2 DEF DiskPut, WriteDisk
    <3>3. CASE res[n].state = "remote_deleted" /\ DiskRemove(n)
      <4>1. k = n /\ local'[n] = Absent
        BY <2>4, <2>5, <3>3 DEF DiskRemove, WriteDisk
      <4>2. remote[n].thing = Absent
        BY <2>1, <3>3 DEF Facts, There
      <4>3. QED
        BY <2>2, <3>3, <4>1, <4>2
    <3>4. ASSUME NEW m \in Moved(n), res[n].state = "remote_new", Here(m), DiskMove(m, n)
          PROVE  local'[k] \in {remote[k].thing, Partial} /\ MayPull(k)
      <4>1. /\ m \in Node /\ m # n /\ Judged(m, res[m], st[m])
            /\ res[m].src # "none" /\ res[m].state = "remote_deleted"
            /\ ~There(m) /\ local[m] = Partial /\ remote[n].thing = Partial
        BY <1>1, <1>3, <3>4, MovedHere
      <4>2. MayPull(m)
        BY <1>1, <1>3, <4>1, PullFlat
      <4>3. local'[m] = Absent /\ local'[n] = Partial /\ k \in {n, m}
        BY <2>4, <2>5, <3>4, <4>1 DEF DiskMove, WriteDisk
      <4>4. QED
        BY <2>2, <3>4, <4>1, <4>2, <4>3 DEF There
    <3>5. QED
      BY <3>1, <3>2, <3>3, <3>4 DEF DiskCause
  <2>6. ASSUME NEW k \in Node, remote'[k].thing # remote[k].thing
        PROVE  remote'[k].thing = local[k] /\ MayPush(k)
    <3>1. ~UNCHANGED server
      BY <2>6 DEF server
    <3>2. CASE res[n].state = "local_new" /\ SendNew(n)
      <4>1. ServerAdd(n, local[n])
        BY <2>1, <3>2 DEF SendNew
      <4>2. k = n /\ remote'[n].thing = local[n]
        BY <2>4, <2>6, <4>1 DEF ServerAdd, WriteServer
      <4>3. QED
        BY <2>3, <3>2, <4>2
    <3>3. CASE res[n].state = "local_changed" /\ SendEdit(n)
      <4>1. ServerPut(n, local[n])
        BY <2>1, <3>3 DEF SendEdit
      <4>2. PICK o : o = [remote[n] EXCEPT !.thing = local[n], !.etag = ver + 1, !.mtime = ver + 1]
        OBVIOUS
      <4>3. o.thing = local[n]
        BY <2>4, <4>2 DEF RemoteObj
      <4>4. remote' = [remote EXCEPT ![n] = o]
        BY <4>1, <4>2 DEF ServerPut, WriteServer
      <4>5. k = n /\ remote'[n].thing = local[n]
        BY <2>4, <2>6, <4>3, <4>4
      <4>6. QED
        BY <2>3, <3>3, <4>5
    <3>4. CASE res[n].state = "local_deleted" /\ ServerTrash(n)
      <4>1. k = n /\ remote'[n].thing = Absent
        BY <2>4, <2>6, <3>4 DEF ServerTrash, WriteServer
      <4>2. local[n] = Absent
        BY <2>1, <3>4 DEF Facts, Here
      <4>3. QED
        BY <2>3, <3>4, <4>1, <4>2
    <3>5. ASSUME NEW m \in Moved(n), res[n].state = "local_new", ServerMove(m, n)
          PROVE  remote'[k].thing = local[k] /\ MayPush(k)
      <4>1. m \in Node /\ m # n /\ ~Here(m) /\ remote[m].thing = Partial /\ local[n] = Partial
        BY <1>1, <1>3, <3>5, MovedThere
      <4>2. remote'[m].thing = Absent /\ remote'[n].thing = Partial /\ k \in {n, m}
        <5>1. PICK o : o = [remote[m] EXCEPT !.etag = ver + 1]
          OBVIOUS
        <5>2. o.thing = Partial
          BY <2>4, <4>1, <5>1 DEF RemoteObj
        <5>3. remote' = [remote EXCEPT ![m] = NoObj, ![n] = o]
          BY <3>5, <5>1 DEF ServerMove, WriteServer
        <5>4. QED
          BY <2>4, <2>6, <4>1, <5>2, <5>3
      <4>3. MayPush(m)
        BY <4>1 DEF MayPush
      <4>4. QED
        BY <2>3, <3>5, <4>1, <4>2, <4>3 DEF Here
    <3>6. QED
      BY <1>1, <3>1, <3>2, <3>3, <3>4, <3>5 DEF ServerEffect
  <2>7. QED
    BY <2>5, <2>6 DEF Propagates
<1>4. CASE ~Dry /\ Lost(n)
  BY <1>4, LostVisit DEF disk, server, Propagates
<1>5. QED
  BY <1>2, <1>3, <1>4

\* Every step is one that the promise allows.
LEMMA PromiseStep ==
    ASSUME Flat, TypeOK, FlatInv, HNext
    PROVE  TwoWay!Next \/ UNCHANGED TwoWay!vars
<1>1. Next
  BY DEF HNext
<1>2. CASE People
  <2>1. edits' = edits + 1
    <3>1. \A op : Act(op) => edits' = edits + 1
      BY DEF Act
    <3>2. QED
      BY <1>2, <3>1 DEF People, LocalPut, RemotePut, LocalRemove, RemoteTrash, RemoteShare,
         LocalMove, RemoteMove
  <2>2. ~SaveState /\ ~TornSave
    BY <2>1, GriveAssumption DEF SaveState, TornSave, Fault, bounds, TypeOK
  <2>3. UNCHANGED <<base, baseTime>>
    BY <2>2, HistoryFlat DEF Saves
  <2>4. QED
    BY <2>1, <2>3 DEF TwoWay!Next, TwoWay!PeopleChange
<1>3. ASSUME UNCHANGED <<disk, server, edits>>, ~Saves, ~TornSave
      PROVE  UNCHANGED TwoWay!vars
  BY <1>3, HistoryFlat DEF disk, server, TwoWay!vars
<1>4. CASE \/ \E o \in Options, i \in Ignores : Start(o, i)
           \/ GetAll \/ ResolveEntry \/ \E n \in Node : ListEntry(n)
  <2>1. UNCHANGED <<disk, server, edits>> /\ phase' # "idle"
    BY <1>4 DEF Start, GetAll, ResolveEntry, ListEntry, bounds
  <2>2. QED
    BY <1>3, <2>1 DEF Saves, SaveState, TornSave
<1>5. ASSUME NEW n \in Node, SyncSelf(n) PROVE TwoWay!Next
  <2>1. ~SaveState /\ ~TornSave
    BY <1>5, VisitEffect DEF Turn, SaveState, TornSave, WalkDone
  <2>2. UNCHANGED <<base, baseTime>> /\ edits' = edits
    <3>1. edits' = edits
      BY <1>5 DEF SyncSelf, MarkSync, Create, EditContent, DeleteRemote, MakeDir, Download, Skip,
         DeleteLocal, ForgetDeleted, DryVisit, MoveRemote, MoveLocal, CallFails, LostReply, LostMove,
         Abort, Fault, bounds
    <3>2. QED
      BY <2>1, <3>1, HistoryFlat DEF Saves
  <2>3. ASSUME NEW k \in Node
        PROVE  /\ TwoWay!Concerns(local[k], local'[k]) => TwoWay!Pulls(k)
               /\ TwoWay!Concerns(remote[k].thing, remote'[k].thing) => TwoWay!Pushes(k)
    <3>1. Propagates(k)
      BY <1>5, VisitPropagates
    <3>2. ASSUME local'[k] # local[k] PROVE TwoWay!Pulls(k)
      BY <3>1, <3>2 DEF Propagates, MayPull, TwoWay!Pulls, TwoWay!RightNew
    <3>3. ASSUME remote'[k].thing # remote[k].thing PROVE TwoWay!Pushes(k)
      BY <3>1, <3>3 DEF Propagates, MayPush, TwoWay!Pushes, TwoWay!RightNew, TwoWay!LeftNew
    <3>4. QED
      BY <3>2, <3>3 DEF TwoWay!Concerns
  <2>4. QED
    BY <2>2, <2>3 DEF TwoWay!Next, TwoWay!Propagate
<1>6. CASE SaveState
  <2>1. UNCHANGED <<disk, server, edits>> /\ phase = "sync" /\ pending = {}
    BY <1>6 DEF SaveState, WalkDone, bounds
  <2>2. ~TornSave
    BY <1>6, GriveAssumption DEF SaveState, TornSave, Fault, bounds, TypeOK
  <2>3. CASE Dry
    BY <1>3, <2>1, <2>2, <2>3 DEF Saves
  <2>4. CASE ~Dry
    <3>1. /\ base' = [n \in Node |-> Will(n)] /\ baseTime' = [n \in Node |-> WillTime(n)]
      BY <1>6, <2>4, HistoryFlat DEF Saves
    <3>2. ASSUME NEW k \in Node
          PROVE  \/ /\ local[k] = remote[k].thing /\ base'[k] = local[k]
                    /\ baseTime'[k] = remote[k].mtime
                 \/ /\ base'[k] = base[k] /\ baseTime'[k] = baseTime[k]
                    /\ local[k] = remote[k].thing => bounds # began
      <4>1. Done(k)
        BY <2>1, <2>4 DEF FlatInv, WalkInv, Walk
      <4>2. CASE Noted(k)
        BY <3>1, <4>2 DEF Will, WillTime, Noted, Agreed
      <4>3. CASE ~Noted(k)
        BY <3>1, <4>1, <4>3 DEF Will, WillTime, Done, Disturbed, Agreed
      <4>4. QED
        BY <4>2, <4>3
    <3>3. TwoWay!Agree
      BY <2>1, <3>2 DEF TwoWay!Agree, disk, server
    <3>4. QED
      BY <3>3 DEF TwoWay!Next
  <2>5. QED
    BY <2>3, <2>4
<1>7. CASE Die \/ TornSave
  <2>1. UNCHANGED <<disk, server, edits>> /\ ~SaveState
    BY <1>7, GriveAssumption DEF Die, TornSave, SaveState, Fault, bounds, TypeOK
  <2>2. CASE TornSave
    <3>1. base' = [n \in Node |-> Absent] /\ baseTime' = [n \in Node |-> 0]
      BY <2>1, <2>2, HistoryFlat DEF Saves
    <3>2. TwoWay!Forget
      BY <2>1, <3>1 DEF TwoWay!Forget, disk, server
    <3>3. QED
      BY <3>2 DEF TwoWay!Next
  <2>3. CASE ~TornSave
    BY <1>3, <2>1, <2>3 DEF Saves
  <2>4. QED
    BY <2>2, <2>3
<1>8. QED
  BY <1>1, <1>2, <1>4, <1>5, <1>6, <1>7 DEF Next, Run

\* In one folder of files grive keeps the promise of two-way synchronisation: it writes over
\* or deletes a file only where the other side has news, whatever people do between the runs,
\* whatever fails, and however often.
THEOREM OneFolderIsSynced ==
    ASSUME Flat
    PROVE  HSpec => TwoWaySpec
<1>1. HInit => TwoWay!Init
  BY DEF HInit, TwoWay!Init
<1>2. TypeOK /\ FlatInv /\ [HNext]_allvars => [TwoWay!Next]_(TwoWay!vars)
  <2>1. CASE HNext
    BY <2>1, PromiseStep
  <2>2. CASE UNCHANGED allvars
    BY <2>2 DEF allvars, vars, history, TwoWay!vars
  <2>3. QED
    BY <2>1, <2>2
<1>3. QED
  BY <1>1, <1>2, FlatInvariant, PTL DEF HSpec, TwoWaySpec, TwoWay!Spec

-------------------------------------------------------------------------------
(* What a cut download left is never sent, not even when people write to   *)
(* either side while a run is under way: until it is fetched again, the    *)
(* server has something later than all that is recorded.  That fails when  *)
(* people trash the object, or when it gets a second parent and is no      *)
(* longer listed: then the empty file is what somebody made.               *)

\* Nobody takes away or hides what a cut download needs to be repaired from.
Repaired == OneFolder /\ {"remote_trash", "remote_share"} \cap UserOps = {}

\* The file was cut short by a download, and nobody has put anything there since.
Cut(n) == local[n] = Partial

\* What is at n, on the disk and on the server.
Place(n) ==
    /\ local[n] \in Holds[n] \cup {Absent, Partial} /\ ctime[n] <= lclock
    /\ ~remote[n].multi /\ remote[n].mtime <= ver /\ (There(n) => remote[n].mtime > 0)

\* The object o against the record rec: it is the one recorded unless it is later; and a
\* file that was cut has an object that is later.
Against(n, o, rec) ==
    /\ o.thing \in Holds[n] \cup {Absent}
    /\ o.thing # Absent /\ o.mtime <= rec.srv => rec.md5 = o.thing
    /\ Cut(n) => o.thing # Absent /\ o.mtime > rec.srv

\* A record of n: nothing in it vouches for a file that was cut.
Truthful(n, rec) ==
    /\ rec.srv <= ver /\ rec.ctime <= lclock /\ ~rec.tree
    /\ rec.md5 \in Holds[n] \cup {Missing} /\ (~rec.has => rec.srv = 0)
    /\ Against(n, remote[n], rec)
    /\ Cut(n) => ctime[n] > rec.ctime

\* What the scan left of n as r, where the object is o and the record rec.
Raw(n, r, o, rec) ==
    /\ r.src \in {"none", "local", "index"} /\ ~r.id /\ (r.json => rec.has)
    /\ r.md5 \in Holds[n] \cup {NoMD5, Partial}
    /\ r.md5 = Partial \/ Cut(n) => o.thing # Absent
    /\ r.src = "none" => r.kind # "folder" /\ r.md5 = NoMD5 /\ ~rec.has /\ ~Cut(n)
    /\ r.src # "none" => r.kind = "file" /\ r.mtime = rec.srv /\ r.ctime <= lclock
    /\ r.src = "local" =>
          /\ r.exists /\ r.state \in {"local_new", "remote_deleted"}
          /\ Cut(n) => r.md5 \in {NoMD5, Partial}
    /\ r.src = "index" =>
          /\ ~r.exists /\ r.state = "both_deleted" /\ ~Cut(n)
          /\ r.md5 = IF rec.md5 = Missing THEN NoMD5 ELSE rec.md5

\* What was made of it with the listing, where the object was o: a file that was cut is
\* fetched again.
Classed(n, r, o, rec) ==
    /\ r.src # "none" /\ r.kind = "file" /\ r.ctime <= lclock /\ (r.json => rec.has)
    /\ r.md5 \in Holds[n] \cup {NoMD5}
    /\ r.id <=> o.thing # Absent
    /\ r.id => r.md5 = o.thing /\ r.mtime = o.mtime
    /\ r.state \in IF r.id THEN {"sync", "local_changed", "local_deleted", "remote_new", "remote_changed"}
                   ELSE {"local_new", "remote_deleted", "both_deleted"}
    /\ r.state \in {"remote_new", "remote_changed"} => o.mtime > rec.srv
    /\ r.state = "local_changed" => o.mtime <= rec.srv
    /\ Cut(n) => r.state = "remote_changed"

\* The object listed is there, or a later one.
Since(n) ==
    \/ remote[n] = seen[n]
    \/ seen[n].thing # Absent /\ There(n) /\ remote[n].mtime > seen[n].mtime

\* What is to be visited, while nothing was recorded of it.
Ahead(n) ==
    /\ Against(n, seen[n], st[n]) /\ st[n].srv = index[n].srv
    /\ Since(n) /\ ~seen[n].multi /\ seen[n].mtime <= ver
    /\ seen[n].thing # Absent => seen[n].mtime > 0

WholeAt(n) ==
    /\ Place(n) /\ Truthful(n, index[n])
    /\ Running /\ (Dry => phase # "sync") => Truthful(n, st[n])
    /\ phase = "list" => st[n].srv = index[n].srv /\ Raw(n, res[n], remote[n], st[n])
    /\ phase = "resolve" =>
          /\ Ahead(n)
          /\ \/ feed[n] = seen[n] /\ Raw(n, res[n], seen[n], st[n])
             \/ feed[n] = NoObj /\ seen[n].thing # Absent /\ Classed(n, res[n], seen[n], st[n])
    /\ phase = "sync" /\ ~Dry =>
          /\ res[n].kind # "folder" /\ res[n].md5 \in Holds[n] \cup {NoMD5}
          /\ n \in pending => Ahead(n) /\ Classed(n, res[n], seen[n], st[n])

WholeInv == \A n \in Node : WholeAt(n)

\* A content of a path is a file that was not cut, and the content of no other path.
LEMMA HoldsFiles ==
    ASSUME OneFolder, NEW n \in Node
    PROVE  /\ Holds[n] \subseteq Content /\ Content \subseteq Files /\ Partial \in Files
           /\ {Absent, Dir, Bad, Partial, NoMD5, Missing} \cap Holds[n] = {}
           /\ Partial \notin {Absent, Dir, Bad, NoMD5, Missing} /\ NoMD5 # Missing
           /\ Absent \notin {Dir, Bad, NoMD5, Missing} /\ Dir # Bad
           /\ Absent \notin Files /\ Dir \notin Files /\ Bad \notin Files
           /\ \A m \in Node : m # n => Holds[n] \cap Holds[m] = {}
BY ThingAssumption DEF OneFolder, Files

\* The values whose order matters.
LEMMA Counted ==
    ASSUME TypeOK, NEW n \in Node
    PROVE  /\ lclock \in Nat /\ ver \in Nat /\ ctime[n] \in Nat /\ remote[n] \in RemoteObj
           /\ remote[n].mtime \in Nat /\ st[n] \in IndexRec /\ index[n] \in IndexRec
           /\ res[n] \in ResourceRec /\ feed[n] \in RemoteObj
BY DEF TypeOK, DiskOK, ServerOK, MemoryOK, RemoteObj

\* What a step may do to n that cuts nothing: leave the file or write another one, and
\* leave the object, write a later one, or trash it where no file needs it.
Gentle(n) ==
    /\ Later /\ ctime'[n] <= lclock'
    /\ DiskOld(n) \/ local'[n] \in Holds[n] \cup {Absent}
    /\ \/ NetOld(n)
       \/ /\ remote'[n].thing \in Holds[n] /\ remote'[n].mtime = ver' /\ ~remote'[n].multi
          /\ ver' > ver
       \/ remote'[n] = NoObj /\ ~Cut(n)

\* And what people may do to it while a run is under way.
Mild(n) ==
    /\ Gentle(n)
    /\ \/ NetOld(n)
       \/ remote'[n].thing # Absent /\ (phase \in {"resolve", "sync"} => There(n))

\* Then a file that is cut was cut before.
LEMMA GentleCut ==
    ASSUME OneFolder, NEW n \in Node, Gentle(n), Cut(n)'
    PROVE  Cut(n) /\ ctime'[n] = ctime[n]
BY HoldsFiles DEF Gentle, Cut, DiskOld, Here

\* What is there stays in order.
LEMMA PlaceStays ==
    ASSUME OneFolder, TypeOK, TypeOK', NEW n \in Node, Place(n), Gentle(n)
    PROVE  Place(n)'
<1>1. local'[n] \in Holds[n] \cup {Absent, Partial} /\ ctime'[n] <= lclock'
  BY DEF Gentle, DiskOld, Place
<1>2. /\ ver \in Nat /\ ver' \in Nat /\ remote[n].mtime \in Nat /\ ver' >= ver
  BY Counted DEF TypeOK, ServerOK, Gentle, Later
<1>3. CASE NetOld(n)
  BY <1>1, <1>2, <1>3 DEF NetOld, Place, There
<1>4. CASE remote'[n].mtime = ver' /\ ~remote'[n].multi /\ ver' > ver
  BY <1>1, <1>2, <1>4 DEF Place, There
<1>5. CASE remote'[n] = NoObj
  <2>1. NoObj.thing = Absent /\ NoObj.mtime = 0 /\ NoObj.multi = FALSE
    BY DEF NoObj
  <2>2. QED
    BY <1>1, <1>2, <1>5, <2>1 DEF Place, There
<1>6. QED
  BY <1>3, <1>4, <1>5 DEF Gentle

\* A record tells the truth still.
LEMMA TruthStays ==
    ASSUME OneFolder, TypeOK, TypeOK', NEW n \in Node, NEW rec \in IndexRec,
           Truthful(n, rec), Gentle(n)
    PROVE  Truthful(n, rec)'
<1>1. /\ ver \in Nat /\ ver' \in Nat /\ lclock \in Nat /\ lclock' \in Nat /\ rec.srv \in Nat
      /\ rec.ctime \in Nat /\ ver' >= ver /\ lclock' >= lclock
  BY DEF TypeOK, ServerOK, DiskOK, IndexRec, Gentle, Later
<1>2. rec.srv <= ver' /\ rec.ctime <= lclock'
  BY <1>1 DEF Truthful
<1>3. Cut(n)' => Cut(n) /\ ctime'[n] = ctime[n]
  BY GentleCut
<1>4. Against(n, remote[n], rec)'
  <2>1. CASE NetOld(n)
    BY <1>3, <2>1 DEF NetOld, Truthful, Against
  <2>2. CASE remote'[n].thing \in Holds[n] /\ remote'[n].mtime = ver' /\ ver' > ver
    <3>1. remote'[n].thing # Absent /\ remote'[n].mtime > rec.srv /\ ~(remote'[n].mtime <= rec.srv)
      BY <1>1, <2>2, HoldsFiles DEF Truthful
    <3>2. QED
      BY <2>2, <3>1 DEF Against
  <2>3. CASE remote'[n] = NoObj /\ ~Cut(n)
    <3>1. NoObj.thing = Absent
      BY DEF NoObj
    <3>2. QED
      BY <1>3, <2>3, <3>1 DEF Against
  <2>4. QED
    BY <2>1, <2>2, <2>3 DEF Gentle
<1>5. QED
  BY <1>2, <1>3, <1>4 DEF Truthful

\* What the scan found holds for an object that is there if the other was.
LEMMA RawStays ==
    ASSUME OneFolder, TypeOK, TypeOK', NEW n \in Node, NEW r \in ResourceRec, NEW o, NEW p, NEW rec,
           Raw(n, r, o, rec), Gentle(n), o.thing # Absent => p.thing # Absent
    PROVE  Raw(n, r, p, rec)'
<1>1. lclock \in Nat /\ lclock' \in Nat /\ lclock' >= lclock /\ r.ctime \in Nat
  BY DEF TypeOK, DiskOK, ResourceRec, Gentle, Later
<1>2. Cut(n)' => Cut(n)
  BY GentleCut
<1>3. r.ctime <= lclock => r.ctime <= lclock'
  BY <1>1
<1>4. QED
  BY <1>2, <1>3 DEF Raw

\* A resource that was classified stays so.
LEMMA ClassedStays ==
    ASSUME OneFolder, TypeOK, TypeOK', NEW n \in Node, NEW r \in ResourceRec, NEW o, NEW rec,
           Classed(n, r, o, rec), Gentle(n)
    PROVE  Classed(n, r, o, rec)'
<1>1. lclock \in Nat /\ lclock' \in Nat /\ lclock' >= lclock /\ r.ctime \in Nat
  BY DEF TypeOK, DiskOK, ResourceRec, Gentle, Later
<1>2. Cut(n)' => Cut(n)
  BY GentleCut
<1>3. r.ctime <= lclock => r.ctime <= lclock'
  BY <1>1
<1>4. QED
  BY <1>2, <1>3 DEF Classed

\* What was listed is still to be visited.
LEMMA AheadStays ==
    ASSUME OneFolder, TypeOK, TypeOK', NEW n \in Node, Ahead(n), Mild(n), seen[n] \in RemoteObj,
           seen'[n] = seen[n], st'[n] = st[n], index'[n] = index[n], phase \in {"resolve", "sync"}
    PROVE  Ahead(n)'
<1>1. /\ ver \in Nat /\ ver' \in Nat /\ ver' >= ver /\ seen[n].mtime \in Nat
  BY DEF TypeOK, ServerOK, RemoteObj, Mild, Gentle, Later
<1>2. seen'[n].mtime <= ver'
  BY <1>1 DEF Ahead
<1>3. Cut(n)' => Cut(n)
  BY GentleCut DEF Mild
<1>4. Against(n, seen[n], st[n])'
  BY <1>3 DEF Ahead, Against
<1>5. Since(n)'
  <2>1. CASE NetOld(n)
    BY <2>1 DEF NetOld, Ahead, Since, There
  <2>2. CASE ~NetOld(n)
    <3>1. remote'[n].thing \in Holds[n] /\ remote'[n].mtime = ver' /\ ver' > ver /\ There(n)
      <4>1. remote'[n] # NoObj
        BY <2>2 DEF Mild, NoObj
      <4>2. QED
        BY <2>2, <4>1 DEF Mild, Gentle
    <3>2. remote'[n].thing # Absent /\ seen[n].thing # Absent
      BY <3>1, HoldsFiles DEF Ahead, Since, There
    <3>3. remote'[n].mtime > seen[n].mtime
      BY <1>1, <3>1 DEF Ahead
    <3>4. QED
      BY <3>2, <3>3 DEF Since, There
  <2>3. QED
    BY <2>1, <2>2
<1>6. QED
  BY <1>2, <1>4, <1>5 DEF Ahead

\* So all is well with a path of which the run does nothing.
LEMMA WholeStays ==
    ASSUME OneFolder, TypeOK, TypeOK', NEW n \in Node, WholeAt(n), Mild(n),
           index'[n] = index[n], st'[n] = st[n], res'[n] = res[n], feed'[n] = feed[n],
           phase' = phase, opt' = opt, n \in pending' => n \in pending,
           seen[n] \in RemoteObj, ~Between => seen'[n] = seen[n]
    PROVE  WholeAt(n)'
<1>1. st[n] \in IndexRec /\ index[n] \in IndexRec /\ res[n] \in ResourceRec
  BY Counted
<1>2. Place(n)'
  BY PlaceStays DEF WholeAt, Mild
<1>3. Truthful(n, index[n])'
  <2>1. PICK rec \in IndexRec : rec = index[n]
    BY <1>1
  <2>2. Truthful(n, rec)'
    BY <2>1, TruthStays DEF WholeAt, Mild
  <2>3. QED
    BY <2>1, <2>2
<1>4. (Running /\ (Dry => phase # "sync") => Truthful(n, st[n]))'
  <2>1. PICK rec \in IndexRec : rec = st[n]
    BY <1>1
  <2>2. Truthful(n, rec) => Truthful(n, rec)'
    BY TruthStays DEF Mild
  <2>3. QED
    BY <2>1, <2>2 DEF WholeAt, Running, Between, Dry
<1>5. PICK r, rec, o, q : r \in ResourceRec /\ r = res[n] /\ rec = st[n] /\ o = seen[n] /\ q = remote[n]
  BY <1>1
<1>6. remote[n].thing # Absent => remote'[n].thing # Absent
  BY HoldsFiles DEF Mild, NetOld
<1>7. (phase = "list" => st[n].srv = index[n].srv /\ Raw(n, res[n], remote[n], st[n]))'
  <2>1. PICK p : p = remote'[n]
    OBVIOUS
  <2>2. Raw(n, r, q, rec) => Raw(n, r, p, rec)'
    BY <1>5, <1>6, <2>1, RawStays DEF Mild
  <2>3. QED
    BY <1>5, <2>1, <2>2 DEF WholeAt
<1>8. phase \in {"resolve", "sync"} => seen'[n] = seen[n] /\ (Ahead(n) => Ahead(n)')
  BY AheadStays DEF Between
<1>9. Raw(n, r, o, rec) => Raw(n, r, o, rec)'
  BY <1>5, RawStays DEF Mild
<1>10. Classed(n, r, o, rec) => Classed(n, r, o, rec)'
  BY <1>5, ClassedStays DEF Mild
<1>11. (phase = "resolve" =>
          /\ Ahead(n)
          /\ \/ feed[n] = seen[n] /\ Raw(n, res[n], seen[n], st[n])
             \/ feed[n] = NoObj /\ seen[n].thing # Absent /\ Classed(n, res[n], seen[n], st[n]))'
  BY <1>5, <1>8, <1>9, <1>10 DEF WholeAt
<1>12. (phase = "sync" /\ ~Dry =>
          /\ res[n].kind # "folder" /\ res[n].md5 \in Holds[n] \cup {NoMD5}
          /\ n \in pending => Ahead(n) /\ Classed(n, res[n], seen[n], st[n]))'
  BY <1>5, <1>8, <1>10 DEF WholeAt, Dry
<1>13. QED
  BY <1>2, <1>3, <1>4, <1>7, <1>11, <1>12 DEF WholeAt

\* A content sent is later than all that is recorded.
LEMMA SentThere ==
    ASSUME OneFolder, TypeOK, NEW n \in Node, ~remote[n].multi, NEW t,
           ServerPut(n, t) \/ ServerAdd(n, t)
    PROVE  /\ remote'[n].thing = t /\ remote'[n].mtime = ver' /\ ~remote'[n].multi
           /\ ver' > ver /\ \A k \in Node \ {n} : NetOld(k)
<1>1. ver \in Nat /\ remote \in [Node -> RemoteObj]
  BY DEF TypeOK, ServerOK
<1>2. PICK o : o = IF ServerPut(n, t)
                   THEN [remote[n] EXCEPT !.thing = t, !.etag = ver + 1, !.mtime = ver + 1]
                   ELSE [thing |-> t, etag |-> ver + 1, mtime |-> ver + 1, multi |-> FALSE]
  OBVIOUS
<1>3. o.thing = t /\ o.mtime = ver + 1 /\ ~o.multi
  BY <1>1, <1>2 DEF RemoteObj
<1>4. remote' = [remote EXCEPT ![n] = o] /\ ver' = ver + 1
  BY <1>2 DEF ServerPut, ServerAdd, WriteServer
<1>5. remote'[n] = o /\ \A k \in Node \ {n} : remote'[k] = remote[k]
  BY <1>1, <1>4
<1>6. QED
  BY <1>1, <1>3, <1>4, <1>5 DEF NetOld

\* People do nothing else, whether a run is under way or not.
LEMMA PeopleMild ==
    ASSUME Repaired, TypeOK, TypeOK', WholeInv, People
    PROVE  /\ \A n \in Node : Mild(n)
           /\ UNCHANGED memory /\ UNCHANGED saved
<1>1. OneFolder
  BY DEF Repaired
<1>2. \A n \in Node : Place(n) /\ remote[n].thing \in Holds[n] \cup {Absent} /\ ctime[n] <= lclock
  BY DEF WholeInv, WholeAt, Place, Truthful, Against
<1>3. /\ lclock \in Nat /\ ver \in Nat
      /\ \A op : Act(op) => op \in UserOps /\ UNCHANGED memory /\ UNCHANGED saved
  BY DEF TypeOK, DiskOK, ServerOK, Act
<1>4. UNCHANGED disk => lclock' = lclock /\ \A n \in Node : DiskOld(n) /\ ctime'[n] <= lclock'
  BY <1>2 DEF disk, DiskOld
<1>5. UNCHANGED server => ver' = ver /\ \A n \in Node : NetOld(n)
  BY DEF server, NetOld
<1>6. ASSUME NEW n \in Node, NEW t \in Holds[n], LocalPut(n, t)
      PROVE  (\A k \in Node : Mild(k)) /\ UNCHANGED memory /\ UNCHANGED saved
  <2>1. Act("local_put") /\ DiskPut(n, t) /\ UNCHANGED server /\ t \in Files
    BY <1>1, <1>6, HoldsFiles DEF LocalPut
  <2>2. /\ local'[n] = t /\ lclock' = lclock + 1 /\ \A k \in Node \ {n} : DiskOld(k)
        /\ \A k \in Node : ctime'[k] <= lclock'
    BY <1>1, <1>2, <2>1, FolderPut
  <2>3. Later
    BY <1>3, <1>5, <2>1, <2>2 DEF Later
  <2>4. QED
    BY <1>3, <1>5, <2>1, <2>2, <2>3 DEF Mild, Gentle
<1>7. ASSUME NEW n \in Node, LocalRemove(n)
      PROVE  (\A k \in Node : Mild(k)) /\ UNCHANGED memory /\ UNCHANGED saved
  <2>1. Act("local_remove") /\ DiskRemove(n) /\ UNCHANGED server
    BY <1>7 DEF LocalRemove
  <2>2. /\ local'[n] = Absent /\ lclock' = lclock + 1 /\ \A k \in Node \ {n} : DiskOld(k)
        /\ \A k \in Node : ctime'[k] <= lclock'
    BY <1>1, <1>2, <2>1, FolderRemove
  <2>3. Later
    BY <1>3, <1>5, <2>1, <2>2 DEF Later
  <2>4. QED
    BY <1>3, <1>5, <2>1, <2>2, <2>3 DEF Mild, Gentle
<1>8. ASSUME NEW n \in Node, NEW t \in Holds[n], RemotePut(n, t)
      PROVE  (\A k \in Node : Mild(k)) /\ UNCHANGED memory /\ UNCHANGED saved
  <2>1. /\ Act("remote_put") /\ ServerPut(n, t) /\ UNCHANGED disk
        /\ phase \in {"resolve", "sync"} => There(n)
    BY <1>8 DEF RemotePut, There
  <2>2. /\ remote'[n].thing = t /\ remote'[n].mtime = ver' /\ ~remote'[n].multi
        /\ ver' > ver /\ \A k \in Node \ {n} : NetOld(k)
    BY <1>1, <1>2, <2>1, SentThere DEF Place
  <2>3. Later
    BY <1>3, <1>4, <2>1, <2>2 DEF Later, TypeOK, ServerOK
  <2>4. QED
    BY <1>1, <1>3, <1>4, <2>1, <2>2, <2>3, HoldsFiles DEF Mild, Gentle
<1>9. ASSUME NEW n \in Node, RemoteTrash(n) \/ RemoteShare(n) PROVE FALSE
  BY <1>3, <1>9 DEF RemoteTrash, RemoteShare, Repaired
<1>10. ASSUME NEW n \in Node, NEW m \in Node, LocalMove(n, m) \/ RemoteMove(n, m) PROVE FALSE
  <2>1. n # m /\ (local[n] \in Holds[m] \cap Content \/ remote[n].thing \in Holds[m] \cap Content)
    BY <1>10 DEF LocalMove, RemoteMove
  <2>2. local[n] \in Holds[n] \cup {Absent, Partial} /\ remote[n].thing \in Holds[n] \cup {Absent}
    BY <1>2 DEF Place
  <2>3. QED
    BY <1>1, <2>1, <2>2, HoldsFiles
<1>11. QED
  BY <1>6, <1>7, <1>8, <1>9, <1>10 DEF People

\* What the scan makes of a path.
LEMMA ScanRaw ==
    ASSUME OneFolder, TypeOK, NEW n \in Node, NEW s, NEW rec \in IndexRec, rec = s[n],
           Place(n), Truthful(n, rec), Here(n) => rec.has
    PROVE  Raw(n, ScannedRes(s, n, NoIgnore), remote[n], rec)
<1>1. Hides[NoIgnore] = {} /\ Under[n] = {} /\ DirAt(local, Parent[n])
  BY FolderTree, GriveAssumption
<1>2. Found(n, NoIgnore) <=> Here(n)
  BY <1>1 DEF Found, Here
<1>3. Missed(rec, n, NoIgnore) <=> rec.has /\ ~Here(n)
  BY <1>1 DEF Missed, Here
<1>4. NewBelow(s, n, NoIgnore) = FALSE
  BY <1>1 DEF NewBelow
<1>5. PICK r : r = ScannedRes(s, n, NoIgnore)
  OBVIOUS
<1>6. Cut(n) => Here(n) /\ remote[n].thing # Absent
  BY HoldsFiles DEF Cut, Here, Truthful, Against
<1>7. CASE Here(n)
  <2>1. r = FromLocal(rec, local[n], ctime[n], FALSE)
    BY <1>2, <1>4, <1>5, <1>7 DEF ScannedRes
  <2>2. local[n] \in Holds[n] \cup {Partial} /\ local[n] \notin {Dir, Bad} /\ local[n] \in Files
    BY <1>7, HoldsFiles DEF Place, Here
  <2>3. r = [src |-> "local", exists |-> TRUE, kind |-> "file",
             state |-> IF Changed(rec, local[n], ctime[n]) THEN "local_new" ELSE "remote_deleted",
             md5 |-> IF Hashed(rec, local[n], ctime[n]) THEN local[n]
                     ELSE IF Vouched(rec, local[n], ctime[n]) THEN rec.md5 ELSE NoMD5,
             size |-> SizeOf(local[n]), ctime |-> ctime[n], mtime |-> rec.srv,
             id |-> FALSE, etag |-> 0, json |-> TRUE]
    BY <2>1, <2>2 DEF FromLocal
  <2>4. Vouched(rec, local[n], ctime[n]) => rec.md5 \in Holds[n] /\ ~Cut(n)
    <3>1. Vouched(rec, local[n], ctime[n]) => rec.md5 # Missing /\ ctime[n] <= rec.ctime
      BY <2>2 DEF Vouched
    <3>2. ctime[n] > rec.ctime => ~(ctime[n] <= rec.ctime)
      BY Counted DEF IndexRec
    <3>3. QED
      BY <3>1, <3>2 DEF Truthful
  <2>5. r.md5 \in Holds[n] \cup {NoMD5, Partial} /\ (Cut(n) => r.md5 \in {NoMD5, Partial})
    BY <2>2, <2>3, <2>4 DEF Cut
  <2>6. /\ r.src = "local" /\ r.exists = TRUE /\ r.kind = "file" /\ ~r.id
        /\ r.state \in {"local_new", "remote_deleted"} /\ r.mtime = rec.srv /\ r.ctime <= lclock
    BY <2>3 DEF Place
  <2>7. r.md5 = Partial => Cut(n)
    BY <2>3, <2>4, HoldsFiles DEF Cut
  <2>8. QED
    BY <1>5, <1>6, <1>7, <2>5, <2>6, <2>7 DEF Raw
<1>8. CASE ~Here(n) /\ rec.has
  <2>1. r = FromDeleted(rec)
    BY <1>2, <1>3, <1>5, <1>8 DEF ScannedRes
  <2>2. /\ r.src = "index" /\ r.exists = FALSE /\ r.kind = "file" /\ r.state = "both_deleted"
        /\ r.md5 = (IF rec.md5 = Missing THEN NoMD5 ELSE rec.md5) /\ r.mtime = rec.srv
        /\ r.ctime = rec.ctime /\ ~r.id
    BY <2>1 DEF FromDeleted, NoRes, Truthful
  <2>3. r.md5 \in Holds[n] \cup {NoMD5} /\ r.ctime <= lclock
    BY <2>2 DEF Truthful
  <2>4. r.md5 # Partial
    BY <2>3, HoldsFiles
  <2>5. QED
    BY <1>5, <1>6, <1>8, <2>2, <2>3, <2>4 DEF Raw
<1>9. CASE ~Here(n) /\ ~rec.has
  <2>1. r = NoRes
    BY <1>2, <1>3, <1>5, <1>9 DEF ScannedRes
  <2>2. /\ NoRes.src = "none" /\ NoRes.kind # "folder" /\ NoRes.md5 = NoMD5
        /\ NoRes.id = FALSE /\ NoRes.json = FALSE
    BY DEF NoRes
  <2>3. Raw(n, NoRes, remote[n], rec)
    BY <1>6, <1>9, <2>2, HoldsFiles DEF Raw
  <2>4. QED
    BY <1>5, <2>1, <2>3
<1>10. QED
  BY <1>7, <1>8, <1>9

\* What a step leaves alone.
LEMMA RawStill ==
    ASSUME NEW n \in Node, NEW r \in ResourceRec, NEW rec, UNCHANGED <<local, lclock, remote>>,
           Raw(n, r, remote[n], rec)
    PROVE  Raw(n, r, remote[n], rec)'
BY DEF Raw, Cut

\* The scan keeps the times of the server: no option makes it forget them.
LEMMA StartWhole ==
    ASSUME Repaired, TypeOK, TypeOK', WholeInv, NEW o \in Options, NEW i \in Ignores, Start(o, i)
    PROVE  WholeInv'
<1> SUFFICES ASSUME NEW n \in Node PROVE WholeAt(n)'
  BY DEF WholeInv
<1>1. /\ OneFolder /\ phase' = "list" /\ i = NoIgnore /\ "force" \notin o /\ ignored = NoIgnore
      /\ UNCHANGED <<local, ctime, lclock, remote, ver, index>>
      /\ st' = [k \in Node |-> Scanned(index[k], k, o, i)]
      /\ res' = [k \in Node |-> ScannedRes(st', k, i)]
  BY FolderOptions DEF Start, disk, server, saved, Repaired, OneFolder
<1>2. Place(n) /\ Truthful(n, index[n]) /\ index[n] \in IndexRec
  BY Counted DEF WholeInv, WholeAt
<1>3. local[n] # Dir
  BY <1>1, <1>2, HoldsFiles DEF Place
<1>4. /\ st'[n].md5 = index[n].md5 /\ st'[n].srv = index[n].srv /\ st'[n].ctime = index[n].ctime
      /\ st'[n].tree = index[n].tree /\ (index[n].has \/ Here(n) => st'[n].has)
  <2>1. Found(n, i) <=> Here(n)
    BY <1>1, GriveAssumption DEF Found, Here
  <2>2. st'[n] = Scanned(index[n], n, o, i) /\ i = NoIgnore /\ ignored = NoIgnore /\ "force" \notin o
    BY <1>1
  <2>3. /\ st'[n].md5 = index[n].md5 /\ st'[n].srv = index[n].srv /\ st'[n].ctime = index[n].ctime
        /\ st'[n].tree = index[n].tree /\ (index[n].has => st'[n].has)
    BY <1>2, <1>3, <2>2 DEF Scanned, IgnChanged, IndexRec
  <2>4. Found(n, i) => st'[n].has
    BY <1>2, <2>2 DEF Scanned, IndexRec
  <2>5. QED
    BY <2>1, <2>3, <2>4
<1>5. PICK rec, s : rec \in IndexRec /\ rec = s[n] /\ s = st'
  BY DEF TypeOK, MemoryOK
<1>6. Truthful(n, rec)
  BY <1>2, <1>4, <1>5 DEF Truthful, Against
<1>7. PICK r \in ResourceRec : r = res'[n]
  BY DEF TypeOK, MemoryOK
<1>8. Raw(n, r, remote[n], rec)
  <2>1. r = ScannedRes(s, n, NoIgnore)
    BY <1>1, <1>5, <1>7
  <2>2. QED
    BY <1>1, <1>2, <1>4, <1>5, <1>6, <2>1, ScanRaw
<1>9. Place(n)' /\ Truthful(n, index[n])' /\ Truthful(n, rec)'
  BY <1>1, <1>2, <1>6 DEF Place, Truthful, Against, Cut, There
<1>10. Raw(n, r, remote[n], rec)'
  <2>1. remote' = remote /\ local' = local /\ lclock' = lclock
    BY <1>1
  <2>2. QED
    BY <1>5, <1>7, <1>8, <2>1, RawStill
<1>11. QED
  BY <1>1, <1>4, <1>5, <1>7, <1>9, <1>10 DEF WholeAt

\* The listing is of the server as it is.
LEMMA GetAllWhole ==
    ASSUME TypeOK, WholeInv, GetAll, seen' = remote
    PROVE  WholeInv'
<1> SUFFICES ASSUME NEW n \in Node PROVE WholeAt(n)'
  BY DEF WholeInv
<1>1. /\ phase = "list" /\ phase' = "resolve" /\ feed' = remote
      /\ UNCHANGED <<local, ctime, lclock, remote, ver, index, st, res, opt>>
  BY DEF GetAll, disk, server, saved
<1>2. /\ Place(n) /\ Truthful(n, index[n]) /\ Truthful(n, st[n]) /\ st[n].srv = index[n].srv
      /\ Raw(n, res[n], remote[n], st[n])
  BY <1>1 DEF WholeInv, WholeAt, Running, Between
<1>3. Place(n)' /\ Truthful(n, index[n])' /\ Truthful(n, st[n])'
  BY <1>1, <1>2 DEF Place, Truthful, Against, Cut, There
<1>4. Ahead(n)'
  BY <1>1, <1>2 DEF Ahead, Place, Truthful, Against, Since, Cut, There
<1>5. feed'[n] = seen'[n] /\ Raw(n, res[n], seen[n], st[n])'
  BY <1>1, <1>2 DEF Raw, Cut
<1>6. QED
  BY <1>1, <1>3, <1>4, <1>5 DEF WholeAt

\* What was not scanned is a resource all the same.
LEMMA NewType == \A o : NewResource(o) \in ResourceRec
<1>1. [NoRes EXCEPT !.src = "remote", !.kind = "folder"] \in ResourceRec
  BY NoResType DEF ResourceRec
<1>2. [NoRes EXCEPT !.src = "remote", !.kind = "file"] \in ResourceRec
  BY NoResType DEF ResourceRec
<1>3. QED
  BY <1>1, <1>2 DEF NewResource

\* What State::FromRemote makes of a path: where the object is not later than the record,
\* it is the one recorded; a file that was cut has a later one, and is not the same.
LEMMA ListedClassed ==
    ASSUME OneFolder, NEW n \in Node, NEW r \in ResourceRec, NEW o \in RemoteObj,
           NEW rec \in IndexRec, Raw(n, r, o, rec), Against(n, o, rec), ~rec.has => rec.srv = 0,
           o.thing # Absent, o.mtime > 0, NEW old \in ResourceRec,
           old = IF r.src = "none" THEN NewResource(o) ELSE r,
           NEW md5, Cut(n) => md5 = Partial, lclock \in Nat
    PROVE  Classed(n, FromRemote(old, o, "sync", md5), o, rec)
<1>1. /\ o.thing \in Holds[n] /\ o.thing \in Files /\ o.thing \notin {Dir, NoMD5, Missing, Partial}
      /\ MD5Of(o) = o.thing /\ o.mtime \in Nat /\ rec.srv \in Nat
      /\ ~(o.mtime > rec.srv) <=> o.mtime <= rec.srv
  BY HoldsFiles DEF Against, MD5Of, RemoteObj, IndexRec
<1>2. /\ NewResource(o).src = "remote" /\ NewResource(o).kind = "file"
      /\ NewResource(o).exists = FALSE /\ NewResource(o).md5 = NoMD5 /\ NewResource(o).mtime = 0
      /\ NewResource(o).ctime = 0 /\ NewResource(o).json = FALSE
  BY <1>1 DEF NewResource, NoRes
<1>3. /\ old.src # "none" /\ old.kind = "file" /\ old.ctime <= lclock /\ (old.json => rec.has)
      /\ (Cut(n) => old.exists)
      /\ old.exists => old.mtime = rec.srv /\ old.state \in {"local_new", "remote_deleted"}
  BY <1>2 DEF Raw
<1>4. ~old.exists => (o.mtime > old.mtime \/ o.thing # old.md5 => o.mtime > rec.srv)
  <2>1. CASE r.src = "none"
    <3>1. ~rec.has
      BY <2>1 DEF Raw
    <3>2. o.mtime > rec.srv
      BY <3>1
    <3>3. QED
      BY <3>2
  <2>2. CASE r.src = "index"
    BY <1>1, <2>2 DEF Raw, Against
  <2>3. CASE r.src = "local"
    BY <2>3 DEF Raw
  <2>4. QED
    BY <2>1, <2>2, <2>3 DEF Raw
<1> DEFINE s == RemoteFileState(old, o, "sync", md5)
<1>5. PICK new : new = FromRemote(old, o, "sync", md5)
  OBVIOUS
<1>6. /\ new.src = old.src /\ new.kind = "file" /\ new.ctime = old.ctime /\ new.json = old.json
      /\ new.md5 = MD5Of(o) /\ new.mtime = o.mtime /\ new.id = TRUE /\ new.state = s
  <2>1. PICK c \in ResourceRec : c = old
    OBVIOUS
  <2>2. PICK v, m, w, t, g : /\ v = s /\ m = MD5Of(o) /\ w = RemoteFileSize(old, o, "sync", s)
                             /\ t = o.mtime /\ g = o.etag
    OBVIOUS
  <2>3. new = [c EXCEPT !.state = v, !.md5 = m, !.size = w, !.mtime = t, !.id = TRUE, !.etag = g]
    BY <1>1, <1>3, <1>5, <2>1, <2>2 DEF FromRemote, IsFolder
  <2>4. /\ new.src = c.src /\ new.kind = c.kind /\ new.ctime = c.ctime /\ new.json = c.json
        /\ new.state = v /\ new.md5 = m /\ new.mtime = t /\ new.id = TRUE
    BY <2>3, ZenonT(30) DEF ResourceRec
  <2>5. QED
    BY <1>3, <2>1, <2>2, <2>4
<1> HIDE DEF s
<1>7. CASE old.exists
  <2>1. s = IF SameFile(old, o, md5) THEN "sync"
            ELSE IF o.mtime > rec.srv THEN "remote_changed" ELSE "local_changed"
    BY <1>1, <1>3, <1>7 DEF s, RemoteFileState, Newer
  <2>2. Cut(n) => s = "remote_changed"
    BY <1>1, <2>1 DEF SameFile, Against
  <2>3. s = "local_changed" => o.mtime <= rec.srv
    BY <1>1, <2>1
  <2>4. QED
    BY <1>1, <1>3, <1>5, <1>6, <2>1, <2>2, <2>3 DEF Classed
<1>8. CASE ~old.exists
  <2>1. s = IF o.mtime > old.mtime \/ o.thing # old.md5 THEN "remote_new" ELSE "local_deleted"
    BY <1>1, <1>3, <1>8 DEF s, RemoteFileState, Newer
  <2>2. QED
    BY <1>1, <1>3, <1>4, <1>5, <1>6, <1>8, <2>1 DEF Classed
<1>9. QED
  BY <1>7, <1>8

\* Every entry is applied to its resource alone.
LEMMA ListEntryWhole ==
    ASSUME Repaired, TypeOK, TypeOK', WholeInv, NEW n \in Node, ListEntry(n), seen' = seen,
           seen \in [Node -> RemoteObj]
    PROVE  WholeInv'
<1>1. /\ OneFolder /\ phase = "resolve" /\ Listed(n) /\ Res(Parent[n]) = RootRes
      /\ res[n] \in ResourceRec /\ st[n] \in IndexRec /\ lclock \in Nat
  BY FolderTree, Counted DEF ListEntry, Repaired
<1>2. /\ feed[n] = seen[n] /\ seen[n].thing # Absent /\ Ahead(n) /\ Raw(n, res[n], seen[n], st[n])
      /\ Against(n, seen[n], st[n]) /\ seen[n].mtime > 0 /\ ~seen[n].multi
      /\ (~st[n].has => st[n].srv = 0)
  <2>1. NoObj.thing = Absent
    BY DEF NoObj
  <2>2. QED
    BY <1>1, <2>1 DEF WholeInv, WholeAt, Listed, Ahead, Truthful, Running, Between
<1>3. seen[n].thing # Dir /\ ~IsIgnore(n)
  BY <1>1, <1>2, HoldsFiles, FolderOptions DEF Against, IsIgnore
<1>4. PICK old \in ResourceRec : old = IF res[n].src = "none" THEN NewResource(seen[n]) ELSE res[n]
  <2>1. NewResource(seen[n]) \in ResourceRec
    BY NewType
  <2>2. QED
    BY <1>1, <2>1
<1>5. PICK new : new = FromRemote(old, seen[n], "sync", GetMD5(n))
  OBVIOUS
<1>6. /\ feed' = [feed EXCEPT ![n] = NoObj] /\ res' = [res EXCEPT ![n] = new]
      /\ UNCHANGED <<local, ctime, lclock, remote, ver, index, st, phase, pending, opt>>
  BY <1>1, <1>2, <1>3, <1>4, <1>5, FlatRoot DEF ListEntry, disk, server, saved
<1>7. Cut(n) => GetMD5(n) = Partial
  BY <1>1, <1>2, HoldsFiles DEF Raw, Cut, GetMD5, IsFolder
<1>8. Classed(n, new, seen[n], st[n])
  <2>1. PICK h, o : o \in RemoteObj /\ h = GetMD5(n) /\ o = seen[n]
    OBVIOUS
  <2>2. Classed(n, FromRemote(old, o, "sync", h), o, st[n])
    BY <1>1, <1>2, <1>4, <1>7, <2>1, ListedClassed
  <2>3. QED
    BY <1>5, <2>1, <2>2
<1>9. /\ feed'[n] = NoObj /\ res'[n] = new
      /\ \A k \in Node \ {n} : feed'[k] = feed[k] /\ res'[k] = res[k]
  BY <1>6 DEF TypeOK, MemoryOK
<1>10. ASSUME NEW k \in Node PROVE Mild(k)
  <2>1. lclock' >= lclock /\ ver' >= ver /\ ctime[k] <= lclock
    BY <1>6 DEF TypeOK, DiskOK, ServerOK, WholeInv, WholeAt, Place
  <2>2. QED
    BY <1>6, <2>1 DEF Mild, Gentle, Later, DiskOld, NetOld
<1>11. ASSUME NEW k \in Node, k # n PROVE WholeAt(k)'
  BY <1>1, <1>6, <1>9, <1>10, <1>11, WholeStays DEF WholeInv
<1>12. WholeAt(n)'
  <2>1. Place(n) /\ Truthful(n, index[n]) /\ Truthful(n, st[n])
    BY <1>1 DEF WholeInv, WholeAt, Running, Between
  <2>2. Place(n)' /\ Truthful(n, index[n])' /\ Truthful(n, st[n])'
    BY <1>6, <2>1 DEF Place, Truthful, Against, Cut, There
  <2>3. Ahead(n)'
    BY <1>2, <1>6 DEF Ahead, Against, Since, Cut, There
  <2>4. Classed(n, new, seen[n], st[n])'
    <3>1. PICK r, o, rec : r = new /\ o = seen[n] /\ rec = st[n]
      OBVIOUS
    <3>2. Classed(n, r, o, rec)'
      BY <1>6, <1>8, <3>1 DEF Classed, Cut
    <3>3. QED
      BY <1>6, <3>1, <3>2
  <2>5. QED
    BY <1>1, <1>2, <1>6, <1>9, <2>2, <2>3, <2>4 DEF WholeAt
<1>13. QED
  BY <1>11, <1>12 DEF WholeInv

\* What is not listed stays as the scan left it.
LEMMA ResolveWhole ==
    ASSUME Repaired, TypeOK, WholeInv, ResolveEntry, seen' = seen
    PROVE  WholeInv'
<1> SUFFICES ASSUME NEW n \in Node PROVE WholeAt(n)'
  BY DEF WholeInv
<1>1. /\ OneFolder /\ phase = "resolve" /\ phase' = "sync" /\ ~Listed(n)
      /\ UNCHANGED <<local, ctime, lclock, remote, ver, index, st, res, opt>>
      /\ pending' = Children(Root)
  BY FolderTree, FlatRoot DEF ResolveEntry, disk, server, saved, Repaired
<1>2. /\ Place(n) /\ Truthful(n, index[n]) /\ Truthful(n, st[n]) /\ Ahead(n)
      /\ \/ feed[n] = seen[n] /\ Raw(n, res[n], seen[n], st[n])
         \/ feed[n] = NoObj /\ seen[n].thing # Absent /\ Classed(n, res[n], seen[n], st[n])
  BY <1>1 DEF WholeInv, WholeAt, Running, Between
<1>3. n \in pending' => res[n].src # "none"
  BY <1>1 DEF Children
<1>4. PICK r, o, rec : r = res[n] /\ o = seen[n] /\ rec = st[n]
  OBVIOUS
<1>5. /\ r.kind # "folder" /\ r.md5 \in Holds[n] \cup {NoMD5}
      /\ r.src # "none" => Classed(n, r, o, rec)
  <2>1. CASE feed[n] = NoObj /\ Classed(n, res[n], seen[n], st[n])
    BY <1>4, <2>1 DEF Classed
  <2>2. CASE feed[n] = seen[n] /\ Raw(n, res[n], seen[n], st[n])
    <3>1. o.thing = Absent /\ Raw(n, r, o, rec)
      BY <1>1, <1>4, <2>2 DEF Listed
    <3>2. QED
      BY <3>1 DEF Raw, Classed
  <2>3. QED
    BY <1>2, <2>1, <2>2
<1>6. Place(n)' /\ Truthful(n, index[n])'
  BY <1>1, <1>2 DEF Place, Truthful, Against, Cut, There
<1>7. Truthful(n, st[n])'
  BY <1>1, <1>2 DEF Truthful, Against, Cut
<1>8. Ahead(n)'
  BY <1>1, <1>2 DEF Ahead, Against, Since, Cut, There
<1>9. Classed(n, r, o, rec) => Classed(n, r, o, rec)'
  BY <1>1 DEF Classed, Cut
<1>10. QED
  BY <1>1, <1>3, <1>4, <1>5, <1>6, <1>7, <1>8, <1>9 DEF WholeAt

\* The records that are left when a run ends tell the truth.
LEMMA EndWhole ==
    ASSUME Repaired, TypeOK, WholeInv, SaveState \/ Die \/ TornSave
    PROVE  WholeInv'
<1> SUFFICES ASSUME NEW n \in Node PROVE WholeAt(n)'
  BY DEF WholeInv
<1>1. /\ phase' = "idle" /\ UNCHANGED <<local, ctime, lclock, remote, ver>>
      /\ \/ index' = index
         \/ index' = st /\ phase = "sync" /\ ~Dry
         \/ index' = NoIndex
  BY DEF SaveState, Die, TornSave, WalkDone, disk, server, saved
<1>2. Place(n) /\ Truthful(n, index[n])
  BY DEF WholeInv, WholeAt
<1>3. CASE index' = index
  BY <1>1, <1>2, <1>3 DEF WholeAt, Place, Truthful, Against, Cut, There, Running, Between
<1>4. CASE index' = st /\ phase = "sync" /\ ~Dry
  <2>1. Truthful(n, st[n])
    BY <1>4 DEF WholeInv, WholeAt, Running, Between
  <2>2. QED
    BY <1>1, <1>2, <1>4, <2>1 DEF WholeAt, Place, Truthful, Against, Cut, There, Running, Between
<1>5. CASE index' = NoIndex
  <2>1. index'[n] = NoRec
    BY <1>5 DEF NoIndex
  <2>2. Truthful(n, NoRec)
    <3>1. /\ NoRec.srv = 0 /\ NoRec.ctime = 0 /\ NoRec.md5 = Missing /\ NoRec.tree = FALSE
      BY DEF NoRec
    <3>2. /\ ver \in Nat /\ lclock \in Nat /\ ctime[n] \in Nat /\ remote[n].mtime \in Nat
          /\ index[n].ctime \in Nat
      BY Counted DEF IndexRec
    <3>3. remote[n].thing # Absent => remote[n].mtime > 0 /\ ~(remote[n].mtime <= 0)
      BY <1>2, <3>2 DEF Place, There
    <3>4. Cut(n) => remote[n].thing # Absent /\ ctime[n] > 0
      BY <1>2, <3>2 DEF Truthful, Against
    <3>5. 0 <= ver /\ 0 <= lclock
      BY <3>2
    <3>6. QED
      BY <1>2, <3>1, <3>3, <3>4, <3>5 DEF Truthful, Against
  <2>3. QED
    BY <1>1, <1>2, <2>1, <2>2 DEF WholeAt, Place, Truthful, Against, Cut, There, Running, Between
<1>6. QED
  BY <1>1, <1>3, <1>4, <1>5

\* Nothing is cut before the first run.
LEMMA InitWhole ==
    ASSUME Repaired, HInit
    PROVE  WholeInv
<1> SUFFICES ASSUME NEW n \in Node PROVE WholeAt(n)
  BY DEF WholeInv
<1>1. OneFolder /\ phase = "idle" /\ lclock = 1 /\ ver = 1
  BY DEF HInit, Init, Repaired
<1>2. ASSUME NEW f \in Trees
      PROVE  /\ f[n] \in Holds[n] \cup {Absent}
             /\ Objects(f)[n] = IF f[n] = Absent THEN NoObj
                    ELSE [thing |-> f[n], etag |-> 1, mtime |-> 1, multi |-> FALSE]
             /\ Records(f)[n] = IF f[n] = Absent THEN NoRec
                    ELSE [has |-> TRUE, ctime |-> 1, srv |-> 1, md5 |-> f[n],
                          size |-> SizeOf(f[n]), tree |-> FALSE]
  <2>1. f[n] # Absent => f[n] \in Holds[n]
    BY DEF Trees
  <2>2. f[n] \in Holds[n] => f[n] # Dir
    BY <1>1, HoldsFiles
  <2>3. QED
    BY <2>1, <2>2 DEF Objects, Records
<1>3. /\ local \in Trees /\ local[n] \in Holds[n] \cup {Absent}
      /\ ctime[n] = IF local[n] = Absent THEN 0 ELSE 1
  BY <1>2 DEF HInit, Init
<1>4. NoRec.has = FALSE /\ NoRec.md5 = Missing /\ NoRec.tree = FALSE /\ NoRec.ctime = 0 /\ NoRec.srv = 0
  BY DEF NoRec
<1>5. NoObj.thing = Absent /\ NoObj.mtime = 0 /\ NoObj.multi = FALSE
  BY DEF NoObj
<1>6. ~Cut(n) /\ Absent \notin Holds[n]
  BY <1>1, <1>3, HoldsFiles DEF Cut
<1>7. CASE remote = Objects(local) /\ index = Records(local)
  <2>1. /\ remote[n] = IF local[n] = Absent THEN NoObj
                    ELSE [thing |-> local[n], etag |-> 1, mtime |-> 1, multi |-> FALSE]
        /\ index[n] = IF local[n] = Absent THEN NoRec
                    ELSE [has |-> TRUE, ctime |-> 1, srv |-> 1, md5 |-> local[n],
                          size |-> SizeOf(local[n]), tree |-> FALSE]
    BY <1>2, <1>3, <1>7
  <2>2. Place(n)
    BY <1>1, <1>3, <1>5, <2>1 DEF Place, There
  <2>3. Truthful(n, index[n])
    BY <1>1, <1>3, <1>4, <1>5, <1>6, <2>1 DEF Truthful, Against
  <2>4. QED
    BY <1>1, <2>2, <2>3 DEF WholeAt, Running, Between
<1>8. CASE (\E f \in Trees : remote = Objects(f)) /\ index = NoIndex
  <2>1. PICK f \in Trees : remote = Objects(f)
    BY <1>8
  <2>2. /\ remote[n] = IF f[n] = Absent THEN NoObj
                    ELSE [thing |-> f[n], etag |-> 1, mtime |-> 1, multi |-> FALSE]
        /\ f[n] \in Holds[n] \cup {Absent} /\ index[n] = NoRec
    BY <1>2, <1>8, <2>1 DEF NoIndex
  <2>3. Place(n)
    BY <1>1, <1>3, <1>5, <2>2 DEF Place, There
  <2>4. Truthful(n, index[n])
    BY <1>1, <1>4, <1>5, <1>6, <2>2 DEF Truthful, Against
  <2>5. QED
    BY <1>1, <2>3, <2>4 DEF WholeAt, Running, Between
<1>9. QED
  BY <1>7, <1>8 DEF HInit, Init
\* What a visit starts from.
LEMMA ToVisit ==
    ASSUME Repaired, TypeOK, WholeInv, ~Dry, NEW n \in Node, Turn(n)
    PROVE  /\ OneFolder /\ phase = "sync" /\ ~Between /\ n \in pending
           /\ Place(n) /\ Truthful(n, index[n]) /\ Truthful(n, st[n])
           /\ Ahead(n) /\ Classed(n, res[n], seen[n], st[n])
           /\ res[n].src # "none" /\ res[n].kind = "file" /\ ~IsFolder(res[n])
           /\ HasJson(Parent[n]) /\ Parent[n] \notin Node
<1>1. OneFolder /\ phase = "sync" /\ ~Between /\ Running /\ n \in pending
  BY DEF Repaired, Turn, Running, Between
<1>2. WholeAt(n)
  BY DEF WholeInv
<1>3. Classed(n, res[n], seen[n], st[n])
  BY <1>1, <1>2 DEF WholeAt
<1>4. HasJson(Parent[n]) /\ Parent[n] \notin Node
  BY <1>1, FolderTree, TreeAssumption
<1>5. QED
  BY <1>1, <1>2, <1>3, <1>4 DEF WholeAt, Classed, IsFolder

\* No path has the contents of another, so that nothing is taken for a rename: what was
\* cut is to be fetched, and is compared with nothing.
LEMMA NothingMoved ==
    ASSUME Repaired, TypeOK, WholeInv, ~Dry, NEW n \in Node, Turn(n)
    PROVE  Moved(n) = {}
<1> SUFFICES ASSUME NEW m \in Moved(n) PROVE FALSE
  OBVIOUS
<1>1. /\ m \in Node /\ GetMD5(n) # NoMD5 /\ res[m].md5 = GetMD5(n)
      /\ res[n].state \in {"local_new", "remote_new"}
      /\ res[m].state = IF res[n].state = "local_new" THEN "local_deleted" ELSE "remote_deleted"
  BY DEF Moved, FindByMD5
<1>2. /\ OneFolder /\ phase = "sync" /\ Place(n) /\ Classed(n, res[n], seen[n], st[n])
  BY ToVisit
<1>3. m # n
  BY <1>1
<1>4. res[m].md5 \in Holds[m] \cup {NoMD5}
  BY <1>1, <1>2 DEF WholeInv, WholeAt
<1>5. GetMD5(n) \in Holds[n]
  <2>1. CASE res[n].md5 # NoMD5
    BY <1>2, <2>1 DEF Classed, GetMD5
  <2>2. CASE res[n].md5 = NoMD5
    <3>1. GetMD5(n) = local[n] /\ local[n] \in Files
      BY <1>1, <2>2 DEF GetMD5
    <3>2. local[n] # Partial
      BY <1>1, <1>2 DEF Classed, Cut
    <3>3. QED
      BY <1>2, <3>1, <3>2, HoldsFiles DEF Place
  <2>3. QED
    BY <2>1, <2>2
<1>6. Holds[n] \cap Holds[m] = {}
  BY <1>1, <1>2, <1>3, HoldsFiles
<1>7. QED
  BY <1>1, <1>4, <1>5, <1>6

\* A step that touches nothing outside.
LEMMA StillMild ==
    ASSUME TypeOK, WholeInv, UNCHANGED disk, UNCHANGED server
    PROVE  \A k \in Node : Mild(k)
<1> TAKE k \in Node
<1>1. lclock \in Nat /\ ver \in Nat /\ ctime[k] <= lclock
  BY DEF TypeOK, DiskOK, ServerOK, WholeInv, WholeAt, Place
<1>2. Later /\ DiskOld(k) /\ NetOld(k) /\ ctime'[k] <= lclock'
  BY <1>1 DEF disk, server, Later, DiskOld, NetOld
<1>3. QED
  BY <1>2 DEF Mild, Gentle

\* A visit leaves the other paths alone.
LEMMA VisitWhole ==
    ASSUME Repaired, TypeOK, TypeOK', WholeInv, ~Dry, NEW n \in Node, Turn(n),
           seen \in [Node -> RemoteObj], seen' = seen, phase' = phase, opt' = opt,
           index' = index, feed' = feed, pending' = pending \ {n},
           \A k \in Node \ {n} : res'[k] = res[k] /\ st'[k] = st[k] /\ Mild(k),
           Place(n)', Truthful(n, index[n])', Truthful(n, st[n])',
           res'[n].kind # "folder", res'[n].md5 \in Holds[n] \cup {NoMD5}
    PROVE  WholeInv'
<1>1. OneFolder /\ phase = "sync"
  BY ToVisit
<1>2. ASSUME NEW k \in Node, k # n PROVE WholeAt(k)'
  <2>1. /\ WholeAt(k) /\ Mild(k) /\ res'[k] = res[k] /\ st'[k] = st[k]
        /\ index'[k] = index[k] /\ feed'[k] = feed[k]
    BY <1>2 DEF WholeInv
  <2>2. (k \in pending' => k \in pending) /\ seen[k] \in RemoteObj /\ seen'[k] = seen[k]
    OBVIOUS
  <2>3. QED
    BY <1>1, <2>1, <2>2, WholeStays
<1>3. WholeAt(n)'
  BY <1>1 DEF WholeAt
<1>4. QED
  BY <1>2, <1>3 DEF WholeInv

\* What a visit does to n that cuts nothing leaves what is there and what is saved in order.
LEMMA GentlePlace ==
    ASSUME Repaired, TypeOK, TypeOK', WholeInv, NEW n \in Node, Gentle(n), index' = index
    PROVE  Place(n)' /\ Truthful(n, index[n])'
<1>1. OneFolder /\ Place(n) /\ Truthful(n, index[n])
  BY DEF Repaired, WholeInv, WholeAt
<1>2. PICK rec \in IndexRec : rec = index[n]
  BY Counted
<1>3. Truthful(n, rec)'
  BY <1>1, <1>2, TruthStays
<1>4. QED
  BY <1>1, <1>2, <1>3, PlaceStays

\* A record that the visit left.
LEMMA GentleRecord ==
    ASSUME Repaired, TypeOK, TypeOK', NEW n \in Node, Truthful(n, st[n]), Gentle(n),
           st'[n] = st[n]
    PROVE  Truthful(n, st[n])'
<1>1. OneFolder
  BY DEF Repaired
<1>2. PICK rec \in IndexRec : rec = st[n]
  BY Counted
<1>3. Truthful(n, rec)'
  BY <1>1, <1>2, TruthStays
<1>4. QED
  BY <1>2, <1>3

\* A record that the visit removed.
LEMMA NoRecord ==
    ASSUME OneFolder, TypeOK', NEW n \in Node, Place(n)', ~Cut(n)',
           remote'[n].thing \in Holds[n] \cup {Absent}, st'[n] = NoRec
    PROVE  Truthful(n, st[n])'
<1>1. NoRec.srv = 0 /\ NoRec.ctime = 0 /\ NoRec.md5 = Missing /\ NoRec.tree = FALSE
  BY DEF NoRec
<1>2. ver' \in Nat /\ lclock' \in Nat /\ remote'[n].mtime \in Nat
  BY DEF TypeOK, DiskOK, ServerOK, RemoteObj
<1>3. remote'[n].thing # Absent => ~(remote'[n].mtime <= 0)
  BY <1>2 DEF Place, There
<1>4. 0 <= ver' /\ 0 <= lclock'
  BY <1>2
<1>5. QED
  BY <1>1, <1>3, <1>4 DEF Truthful, Against

\* A record that the visit made.
LEMMA NewRecord ==
    ASSUME NEW n \in Node, ~Cut(n)', remote'[n].thing \in Holds[n] \cup {Absent},
           st'[n].has, st'[n].srv <= ver', st'[n].ctime <= lclock', ~st'[n].tree,
           st'[n].md5 \in Holds[n],
           remote'[n].thing # Absent /\ remote'[n].mtime <= st'[n].srv => st'[n].md5 = remote'[n].thing
    PROVE  Truthful(n, st[n])'
BY DEF Truthful, Against
\* An object that was listed is there still, as it was or later.
LEMMA SeenThere ==
    ASSUME Repaired, TypeOK, WholeInv, ~Dry, NEW n \in Node, Turn(n), res[n].id,
           seen \in [Node -> RemoteObj]
    PROVE  /\ res[n].md5 \in Holds[n] /\ res[n].mtime <= ver /\ res[n].mtime \in Nat
           /\ There(n) /\ remote[n].thing \in Holds[n] /\ remote[n].mtime >= res[n].mtime
           /\ remote[n].mtime <= res[n].mtime => res[n].md5 = remote[n].thing
<1>1. Ahead(n) /\ Classed(n, res[n], seen[n], st[n]) /\ Truthful(n, index[n])
  BY ToVisit
<1>2. /\ seen[n].thing # Absent /\ res[n].md5 = seen[n].thing /\ res[n].mtime = seen[n].mtime
  BY <1>1 DEF Classed
<1>3. seen[n].thing \in Holds[n] /\ seen[n].mtime <= ver
  BY <1>1, <1>2 DEF Ahead, Against
<1>4. There(n) /\ (remote[n] = seen[n] \/ remote[n].mtime > seen[n].mtime)
  BY <1>1, <1>2 DEF Ahead, Since, There
<1>5. remote[n].thing \in Holds[n]
  BY <1>1, <1>4 DEF Truthful, Against, There
<1>6. seen[n].mtime \in Nat /\ remote[n].mtime \in Nat
  BY Counted DEF RemoteObj
<1>7. QED
  BY <1>2, <1>3, <1>4, <1>5, <1>6

\* What is equal is recorded.
LEMMA MarkWhole ==
    ASSUME Repaired, TypeOK, TypeOK', WholeInv, ~Dry, NEW n \in Node, MarkSync(n),
           seen \in [Node -> RemoteObj], seen' = seen
    PROVE  WholeInv'
<1>1. /\ Turn(n) /\ res[n].state = "sync" /\ st' = Record(n, res[n])
      /\ Visited(n, [res EXCEPT ![n].json = TRUE])
      /\ UNCHANGED disk /\ UNCHANGED server /\ index' = index /\ feed' = feed
  BY DEF MarkSync, Visiting, saved, Visited
<1>2. /\ OneFolder /\ phase = "sync" /\ ~IsFolder(res[n]) /\ res[n].kind = "file"
      /\ Classed(n, res[n], seen[n], st[n])
  BY <1>1, ToVisit
<1>3. res[n].id /\ ~Cut(n) /\ res[n].ctime <= lclock
  BY <1>1, <1>2 DEF Classed
<1>4. /\ res[n].md5 \in Holds[n] /\ res[n].mtime <= ver /\ remote[n].thing \in Holds[n]
      /\ remote[n].mtime <= res[n].mtime => res[n].md5 = remote[n].thing
  BY <1>1, <1>3, SeenThere
<1>5. /\ pending' = pending \ {n} /\ opt' = opt /\ phase' = phase
      /\ res' = [res EXCEPT ![n].json = TRUE]
  BY <1>1, <1>2, FolderVisited
<1>6. /\ res'[n].md5 = res[n].md5 /\ res'[n].kind = res[n].kind
      /\ \A k \in Node \ {n} : res'[k] = res[k]
  BY <1>5, JsonFlat
<1>7. /\ st'[n].has = TRUE /\ st'[n].ctime = res[n].ctime /\ st'[n].md5 = res[n].md5
      /\ st'[n].srv = res[n].mtime /\ st'[n].tree = FALSE
      /\ \A k \in Node \ {n} : st'[k] = st[k]
  BY <1>1, <1>2, FolderRecord
<1>8. \A k \in Node : Mild(k)
  BY <1>1, StillMild
<1>9. Place(n)' /\ Truthful(n, index[n])'
  BY <1>1, <1>8, GentlePlace DEF Mild
<1>10. Truthful(n, st[n])'
  <2>1. /\ local' = local /\ lclock' = lclock /\ remote' = remote /\ ver' = ver
    BY <1>1 DEF disk, server
  <2>2. ~Cut(n)'
    BY <1>3, <2>1 DEF Cut
  <2>3. QED
    BY <1>3, <1>4, <1>7, <2>1, <2>2, NewRecord
<1>11. QED
  BY <1>1, <1>2, <1>4, <1>5, <1>6, <1>7, <1>8, <1>9, <1>10, VisitWhole

\* What is sent is what is there: it is not a file that was cut.
LEMMA SendsWhole ==
    ASSUME Repaired, TypeOK, TypeOK', WholeInv, ~Dry, NEW n \in Node, Turn(n), UNCHANGED disk,
           \/ res[n].state = "local_new" /\ SendNew(n)
           \/ res[n].state = "local_changed" /\ SendEdit(n)
    PROVE  /\ remote'[n].thing \in Holds[n] /\ remote'[n].mtime = ver' /\ MD5Of(remote'[n]) \in Holds[n]
           /\ MD5Of(remote'[n]) = remote'[n].thing /\ ~Cut(n)'
           /\ Gentle(n) /\ \A k \in Node \ {n} : Mild(k)
<1>1. /\ OneFolder /\ ~IsFolder(res[n]) /\ Place(n) /\ Classed(n, res[n], seen[n], st[n])
  BY ToVisit
<1>2. ~Cut(n) /\ Readable(n) /\ (ServerAdd(n, local[n]) \/ ServerPut(n, local[n]))
  BY <1>1 DEF Classed, SendNew, SendEdit, CanCreate, CanEdit
<1>3. local[n] \in Holds[n]
  BY <1>1, <1>2, HoldsFiles DEF Readable, Place, Cut
<1>4. /\ remote'[n].thing = local[n] /\ remote'[n].mtime = ver' /\ ~remote'[n].multi
      /\ ver' > ver /\ \A k \in Node \ {n} : NetOld(k)
  BY <1>1, <1>2, SentThere DEF Place
<1>5. MD5Of(remote'[n]) = remote'[n].thing
  BY <1>1, <1>3, <1>4, HoldsFiles DEF MD5Of
<1>6. /\ Later /\ \A k \in Node : DiskOld(k) /\ ctime'[k] <= lclock'
  <2>1. /\ lclock \in Nat /\ ver \in Nat /\ ver' \in Nat
        /\ \A k \in Node : ctime[k] <= lclock
    BY DEF TypeOK, DiskOK, ServerOK, WholeInv, WholeAt, Place
  <2>2. QED
    BY <1>4, <2>1 DEF disk, Later, DiskOld
<1>7. ~Cut(n)'
  BY <1>2 DEF Cut, disk
<1>8. Gentle(n) /\ \A k \in Node \ {n} : Mild(k)
  BY <1>3, <1>4, <1>6 DEF Gentle, Mild
<1>9. QED
  BY <1>3, <1>4, <1>5, <1>7, <1>8

\* The record of what was sent is the object.
LEMMA UploadWhole ==
    ASSUME Repaired, TypeOK, TypeOK', WholeInv, ~Dry, NEW n \in Node, Create(n) \/ EditContent(n),
           seen \in [Node -> RemoteObj], seen' = seen
    PROVE  WholeInv'
<1>1. /\ Turn(n) /\ st' = Record(n, Uploaded(n)) /\ Visited(n, [res EXCEPT ![n] = Uploaded(n)])
      /\ UNCHANGED disk /\ index' = index /\ feed' = feed
      /\ \/ res[n].state = "local_new" /\ SendNew(n)
         \/ res[n].state = "local_changed" /\ SendEdit(n)
  BY DEF Create, EditContent, Visiting, saved, Visited
<1>2. /\ OneFolder /\ phase = "sync" /\ res[n].kind = "file" /\ res[n] \in ResourceRec
      /\ Classed(n, res[n], seen[n], st[n])
  BY <1>1, ToVisit, Counted
<1>3. /\ remote'[n].thing \in Holds[n] /\ remote'[n].mtime = ver' /\ MD5Of(remote'[n]) \in Holds[n]
      /\ MD5Of(remote'[n]) = remote'[n].thing /\ ~Cut(n)'
      /\ Gentle(n) /\ \A k \in Node \ {n} : Mild(k)
  BY <1>1, SendsWhole
<1>4. PICK r : r = Uploaded(n)
  OBVIOUS
<1>5. /\ r.kind = "file" /\ r.ctime = res[n].ctime /\ r.md5 = MD5Of(remote'[n]) /\ r.mtime = ver'
  BY <1>2, <1>4 DEF Uploaded, ResourceRec
<1>6. /\ pending' = pending \ {n} /\ opt' = opt /\ phase' = phase /\ res' = [res EXCEPT ![n] = r]
  BY <1>1, <1>2, <1>4, FolderVisited
<1>7. res'[n] = r /\ \A k \in Node \ {n} : res'[k] = res[k]
  BY <1>6, ReplacedFlat
<1>8. /\ st'[n].has = TRUE /\ st'[n].ctime = r.ctime /\ st'[n].md5 = r.md5
      /\ st'[n].srv = r.mtime /\ st'[n].tree = FALSE
      /\ \A k \in Node \ {n} : st'[k] = st[k]
  BY <1>1, <1>2, <1>4, <1>5, FolderRecord DEF IsFolder
<1>9. Place(n)' /\ Truthful(n, index[n])'
  BY <1>1, <1>3, GentlePlace
<1>10. Truthful(n, st[n])'
  <2>1. st'[n].srv <= ver' /\ st'[n].ctime <= lclock'
    BY <1>1, <1>2, <1>5, <1>8 DEF Classed, disk, TypeOK, ServerOK
  <2>2. QED
    BY <1>3, <1>5, <1>8, <2>1, NewRecord
<1>11. QED
  BY <1>1, <1>2, <1>3, <1>5, <1>6, <1>7, <1>8, <1>9, <1>10, VisitWhole

\* What is fetched is whole, and the time recorded is no later than what was fetched.
LEMMA DownloadWhole ==
    ASSUME Repaired, TypeOK, TypeOK', WholeInv, ~Dry, NEW n \in Node, Download(n),
           seen \in [Node -> RemoteObj], seen' = seen
    PROVE  WholeInv'
<1>1. /\ Turn(n) /\ res[n].state \in {"remote_new", "remote_changed"} /\ CanDownload(n)
      /\ DiskPut(n, remote[n].thing) /\ UNCHANGED server /\ index' = index /\ feed' = feed
      /\ st' = Record(n, Fetched(n)) /\ Visited(n, [res EXCEPT ![n] = Fetched(n)])
  BY DEF Download, Visiting, saved, Visited
<1>2. /\ OneFolder /\ phase = "sync" /\ res[n].kind = "file" /\ res[n] \in ResourceRec
      /\ Classed(n, res[n], seen[n], st[n])
  BY <1>1, ToVisit, Counted
<1>3. /\ res[n].md5 \in Holds[n] /\ res[n].mtime <= ver /\ remote[n].thing \in Holds[n]
      /\ remote[n].mtime <= res[n].mtime => res[n].md5 = remote[n].thing
  BY <1>1, <1>2, SeenThere DEF Classed
<1>4. /\ local'[n] = remote[n].thing /\ ctime'[n] = lclock + 1 /\ lclock' = lclock + 1
      /\ \A k \in Node \ {n} : DiskOld(k)
      /\ \A k \in Node : ctime'[k] <= lclock'
  <2>1. remote[n].thing \in Files /\ \A k \in Node : ctime[k] <= lclock
    BY <1>1 DEF CanDownload, WholeInv, WholeAt, Place
  <2>2. QED
    BY <1>1, <1>2, <2>1, FolderPut
<1>5. remote' = remote /\ ver' = ver /\ Later /\ \A k \in Node : NetOld(k)
  BY <1>1, <1>4 DEF server, Later, NetOld, TypeOK, DiskOK, ServerOK
<1>6. Gentle(n) /\ \A k \in Node \ {n} : Mild(k)
  BY <1>3, <1>4, <1>5 DEF Gentle, Mild
<1>7. PICK r : r = Fetched(n)
  OBVIOUS
<1>8. /\ r.kind = "file" /\ r.ctime = ctime'[n] /\ r.md5 = res[n].md5 /\ r.mtime = res[n].mtime
  BY <1>2, <1>7 DEF Fetched, ResourceRec
<1>9. /\ pending' = pending \ {n} /\ opt' = opt /\ phase' = phase /\ res' = [res EXCEPT ![n] = r]
  BY <1>1, <1>2, <1>7, FolderVisited
<1>10. res'[n] = r /\ \A k \in Node \ {n} : res'[k] = res[k]
  BY <1>9, ReplacedFlat
<1>11. /\ st'[n].has = TRUE /\ st'[n].ctime = r.ctime /\ st'[n].md5 = r.md5
       /\ st'[n].srv = r.mtime /\ st'[n].tree = FALSE
       /\ \A k \in Node \ {n} : st'[k] = st[k]
  BY <1>1, <1>2, <1>7, <1>8, FolderRecord DEF IsFolder
<1>12. Place(n)' /\ Truthful(n, index[n])'
  BY <1>1, <1>6, GentlePlace
<1>13. Truthful(n, st[n])'
  <2>1. ~Cut(n)'
    BY <1>2, <1>3, <1>4, HoldsFiles DEF Cut
  <2>2. QED
    BY <1>3, <1>4, <1>5, <1>8, <1>11, <2>1, NewRecord
<1>14. QED
  BY <1>1, <1>2, <1>3, <1>6, <1>8, <1>9, <1>10, <1>11, <1>12, <1>13, VisitWhole
\* What is deleted on either side was not cut, and nothing is recorded of it any more.
LEMMA GoneWhole ==
    ASSUME Repaired, TypeOK, TypeOK', WholeInv, ~Dry, NEW n \in Node,
           DeleteRemote(n) \/ DeleteLocal(n) \/ ForgetDeleted(n),
           seen \in [Node -> RemoteObj], seen' = seen
    PROVE  WholeInv'
<1>1. /\ Turn(n) /\ res[n].state \in {"local_deleted", "remote_deleted", "both_deleted"}
      /\ st' = DeleteIndex(st, n) /\ Visited(n, [res EXCEPT ![n].json = FALSE])
      /\ index' = index /\ feed' = feed
      /\ \/ UNCHANGED disk /\ ServerTrash(n)
         \/ UNCHANGED server /\ DiskRemove(n)
         \/ UNCHANGED disk /\ UNCHANGED server
  BY DEF DeleteRemote, DeleteLocal, ForgetDeleted, Visiting, saved, Visited
<1>2. /\ OneFolder /\ phase = "sync" /\ res[n].kind = "file" /\ Truthful(n, index[n])
      /\ Classed(n, res[n], seen[n], st[n])
  BY <1>1, ToVisit
<1>3. ~Cut(n) /\ res[n].md5 \in Holds[n] \cup {NoMD5} /\ remote[n].thing \in Holds[n] \cup {Absent}
  BY <1>1, <1>2 DEF Classed, Truthful, Against
<1>4. /\ pending' = pending \ {n} /\ opt' = opt /\ phase' = phase
      /\ res' = [res EXCEPT ![n].json = FALSE]
  BY <1>1, <1>2, FolderVisited
<1>5. /\ res'[n].md5 = res[n].md5 /\ res'[n].kind = res[n].kind
      /\ \A k \in Node \ {n} : res'[k] = res[k]
  BY <1>4, JsonFlat
<1>6. st'[n] = NoRec /\ \A k \in Node \ {n} : st'[k] = st[k]
  BY <1>1, <1>2, FolderDeleted
<1>7. lclock \in Nat /\ ver \in Nat /\ \A k \in Node : ctime[k] <= lclock
  BY DEF TypeOK, DiskOK, ServerOK, WholeInv, WholeAt, Place
<1>8. /\ Gentle(n) /\ (\A k \in Node \ {n} : Mild(k))
      /\ remote'[n].thing \in Holds[n] \cup {Absent}
  <2>1. CASE UNCHANGED disk /\ ServerTrash(n)
    <3>1. remote'[n] = NoObj /\ ver' = ver + 1 /\ \A k \in Node \ {n} : NetOld(k)
      BY <1>2, <2>1, FolderTrash
    <3>2. Later /\ \A k \in Node : DiskOld(k) /\ ctime'[k] <= lclock'
      BY <1>7, <2>1, <3>1 DEF disk, Later, DiskOld
    <3>3. NoObj.thing = Absent
      BY DEF NoObj
    <3>4. QED
      BY <1>3, <3>1, <3>2, <3>3 DEF Gentle, Mild
  <2>2. CASE UNCHANGED server /\ DiskRemove(n)
    <3>1. /\ local'[n] = Absent /\ lclock' = lclock + 1 /\ \A k \in Node \ {n} : DiskOld(k)
          /\ \A k \in Node : ctime'[k] <= lclock'
      BY <1>2, <1>7, <2>2, FolderRemove
    <3>2. Later /\ \A k \in Node : NetOld(k)
      BY <1>7, <2>2, <3>1 DEF server, Later, NetOld
    <3>3. QED
      BY <1>3, <3>1, <3>2 DEF Gentle, Mild, NetOld
  <2>3. CASE UNCHANGED disk /\ UNCHANGED server
    <3>1. \A k \in Node : Mild(k)
      BY <2>3, StillMild
    <3>2. QED
      BY <1>3, <2>3, <3>1 DEF Mild, server
  <2>4. QED
    BY <1>1, <2>1, <2>2, <2>3
<1>9. Place(n)' /\ Truthful(n, index[n])'
  BY <1>1, <1>8, GentlePlace
<1>10. ~Cut(n)'
  BY <1>2, <1>3, <1>8, GentleCut
<1>11. Truthful(n, st[n])'
  BY <1>2, <1>6, <1>8, <1>9, <1>10, NoRecord
<1>12. QED
  BY <1>1, <1>2, <1>3, <1>4, <1>5, <1>6, <1>8, <1>9, <1>11, VisitWhole

\* What may not be sent was not cut, and the time recorded is no later than it was.
LEMMA SkipWhole ==
    ASSUME Repaired, TypeOK, TypeOK', WholeInv, ~Dry, NEW n \in Node, Skip(n),
           seen \in [Node -> RemoteObj], seen' = seen
    PROVE  WholeInv'
<1>1. /\ LeftAlone(n) /\ Turn(n) /\ Visited(n, res)
      /\ st' = (IF res[n].json THEN SetSrv(st, n, res[n].mtime) ELSE st)
      /\ UNCHANGED disk /\ UNCHANGED server /\ index' = index /\ feed' = feed
  BY DEF Skip, LeftAlone, Visiting, saved, Visited
<1>2. /\ OneFolder /\ phase = "sync" /\ res[n].kind = "file"
      /\ Classed(n, res[n], seen[n], st[n]) /\ Truthful(n, st[n]) /\ Ahead(n)
  BY <1>1, ToVisit
<1>3. res[n].state = "local_changed"
  <2>1. Editable(Parent[n])
    BY <1>2, FolderTree
  <2>2. "upload-only" \notin opt /\ "no-remote-new" \notin opt
    BY <1>2, FolderOptions
  <2>3. QED
    BY <1>1, <2>1, <2>2 DEF LeftAlone, Visiting, Fetches
<1>4. /\ res[n].id /\ ~Cut(n) /\ res[n].md5 \in Holds[n] \cup {NoMD5}
      /\ seen[n].mtime <= st[n].srv /\ res[n].mtime = seen[n].mtime /\ (res[n].json => st[n].has)
  BY <1>2, <1>3 DEF Classed
<1>5. pending' = pending \ {n} /\ opt' = opt /\ phase' = phase /\ res' = res
  BY <1>1, <1>2, FolderVisited
<1>6. \A k \in Node : Mild(k)
  BY <1>1, StillMild
<1>7. Place(n)' /\ Truthful(n, index[n])'
  BY <1>1, <1>6, GentlePlace DEF Mild
<1>8. CASE ~res[n].json
  <2>1. st' = st
    BY <1>1, <1>8
  <2>2. Truthful(n, st[n])'
    BY <1>2, <1>6, <2>1, GentleRecord DEF Mild
  <2>3. QED
    BY <1>1, <1>2, <1>4, <1>5, <1>6, <1>7, <2>1, <2>2, VisitWhole
<1>9. CASE res[n].json
  <2>1. PICK q : q = [st[n] EXCEPT !.srv = res[n].mtime]
    OBVIOUS
  <2>2. st' = [st EXCEPT ![n] = q]
    BY <1>1, <1>9, <2>1 DEF SetSrv
  <2>3. st'[n] = q /\ \A k \in Node \ {n} : st'[k] = st[k]
    BY <2>2 DEF TypeOK, MemoryOK
  <2>4. /\ q.srv = seen[n].mtime /\ q.has = st[n].has /\ q.ctime = st[n].ctime
        /\ q.tree = st[n].tree /\ q.md5 = st[n].md5
    BY <1>4, <2>1, Counted DEF IndexRec
  <2>5. /\ local' = local /\ lclock' = lclock /\ remote' = remote /\ ver' = ver /\ ~Cut(n)'
    BY <1>1, <1>4 DEF disk, server, Cut
  <2>6. remote[n].thing # Absent /\ remote[n].mtime <= seen[n].mtime => st[n].md5 = remote[n].thing
    <3>1. remote[n].mtime \in Nat /\ seen[n].mtime \in Nat /\ st[n].srv \in Nat
      BY Counted DEF RemoteObj, IndexRec
    <3>2. remote[n].mtime <= seen[n].mtime => remote[n].mtime <= st[n].srv
      BY <1>4, <3>1
    <3>3. QED
      BY <1>2, <3>2 DEF Truthful, Against
  <2>7. Truthful(n, q)'
    BY <1>2, <1>4, <1>9, <2>4, <2>5, <2>6 DEF Truthful, Against, Ahead
  <2>8. Truthful(n, st[n])'
    BY <2>3, <2>7
  <2>9. QED
    BY <1>1, <1>2, <1>4, <1>5, <1>6, <1>7, <2>3, <2>8, VisitWhole
<1>10. QED
  BY <1>8, <1>9

\* A download that fails cuts the file, later than all that was recorded, and what is to be
\* fetched again is on the server, later than all that was recorded.
LEMMA FailsWhole ==
    ASSUME Repaired, TypeOK, TypeOK', WholeInv, ~Dry, NEW n \in Node, CallFails(n),
           seen \in [Node -> RemoteObj], seen' = seen
    PROVE  WholeInv'
<1>1. /\ Turn(n) /\ Threw(n) /\ UNCHANGED server /\ index' = index
      /\ IF Truncates(n) THEN DiskPut(n, Partial) ELSE UNCHANGED disk
  BY DEF CallFails, Calls, Visiting, saved
<1>2. /\ pending' = pending \ {n} /\ st' = st /\ res' = res /\ feed' = feed
      /\ phase' = phase /\ opt' = opt
  BY <1>1 DEF Threw
<1>3. /\ OneFolder /\ phase = "sync" /\ res[n].kind = "file" /\ Place(n) /\ Ahead(n)
      /\ Classed(n, res[n], seen[n], st[n]) /\ Truthful(n, st[n]) /\ Truthful(n, index[n])
  BY <1>1, ToVisit
<1>4. res[n].md5 \in Holds[n] \cup {NoMD5}
  BY <1>3 DEF Classed
<1>5. CASE ~Truncates(n)
  <2>1. \A k \in Node : Mild(k)
    BY <1>1, <1>5, StillMild
  <2>2. Place(n)' /\ Truthful(n, index[n])'
    BY <1>1, <2>1, GentlePlace DEF Mild
  <2>3. Truthful(n, st[n])'
    BY <1>2, <1>3, <2>1, GentleRecord DEF Mild
  <2>4. QED
    BY <1>1, <1>2, <1>3, <1>4, <2>1, <2>2, <2>3, VisitWhole
<1>6. CASE Truncates(n)
  <2>1. DiskPut(n, Partial) /\ Partial \in Files /\ \A k \in Node : ctime[k] <= lclock
    BY <1>1, <1>3, <1>6, HoldsFiles DEF WholeInv, WholeAt, Place
  <2>2. /\ local'[n] = Partial /\ ctime'[n] = lclock + 1 /\ lclock' = lclock + 1
        /\ \A k \in Node \ {n} : DiskOld(k)
        /\ \A k \in Node : ctime'[k] <= lclock'
    BY <1>3, <2>1, FolderPut
  <2>3. remote' = remote /\ ver' = ver /\ Later /\ \A k \in Node : NetOld(k)
    BY <1>1, <2>2 DEF server, Later, NetOld, TypeOK, DiskOK, ServerOK
  <2>4. \A k \in Node \ {n} : Mild(k)
    BY <2>2, <2>3 DEF Gentle, Mild
  <2>5. /\ lclock \in Nat /\ ver \in Nat /\ remote[n].mtime \in Nat /\ seen[n].mtime \in Nat
        /\ st[n].srv \in Nat /\ st[n].ctime \in Nat /\ index[n].ctime \in Nat /\ index[n].srv \in Nat
    BY Counted DEF RemoteObj, IndexRec
  <2>6. /\ remote[n].thing # Absent /\ remote[n].mtime > st[n].srv /\ remote[n].mtime > index[n].srv
    <3>1. res[n].state \in {"remote_new", "remote_changed"}
      BY <1>6 DEF Truncates, Fetches
    <3>2. seen[n].thing # Absent /\ seen[n].mtime > st[n].srv
      BY <1>3, <3>1 DEF Classed
    <3>3. remote[n].thing # Absent /\ remote[n].mtime >= seen[n].mtime
      BY <1>3, <2>5, <3>2 DEF Ahead, Since, There
    <3>4. st[n].srv = index[n].srv
      BY <1>3 DEF Ahead
    <3>5. QED
      BY <2>5, <3>2, <3>3, <3>4
  <2>7. Place(n)'
    BY <1>3, <2>2, <2>3 DEF Place, There
  <2>8. Truthful(n, index[n])'
    <3>1. index[n].ctime <= lclock' /\ ctime'[n] > index[n].ctime
      BY <1>3, <2>2, <2>5 DEF Truthful
    <3>2. QED
      BY <1>1, <1>3, <2>3, <2>6, <3>1 DEF Truthful, Against
  <2>9. Truthful(n, st[n])'
    <3>1. st[n].ctime <= lclock' /\ ctime'[n] > st[n].ctime
      BY <1>3, <2>2, <2>5 DEF Truthful
    <3>2. QED
      BY <1>2, <1>3, <2>3, <2>6, <3>1 DEF Truthful, Against
  <2>10. QED
    BY <1>1, <1>2, <1>3, <1>4, <2>4, <2>7, <2>8, <2>9, VisitWhole
<1>7. QED
  BY <1>5, <1>6

\* A call of which the answer is lost: what was sent was whole, what was trashed is gone.
LEMMA LostWhole ==
    ASSUME Repaired, TypeOK, TypeOK', WholeInv, ~Dry, NEW n \in Node, LostReply(n),
           seen \in [Node -> RemoteObj], seen' = seen
    PROVE  WholeInv'
<1>1. /\ Turn(n) /\ Threw(n) /\ UNCHANGED disk /\ index' = index
      /\ \/ res[n].state = "local_new" /\ SendNew(n)
         \/ res[n].state = "local_changed" /\ SendEdit(n)
         \/ res[n].state = "local_deleted" /\ ServerTrash(n)
  BY DEF LostReply, Calls, Visiting, saved
<1>2. /\ pending' = pending \ {n} /\ st' = st /\ res' = res /\ feed' = feed
      /\ phase' = phase /\ opt' = opt
  BY <1>1 DEF Threw
<1>3. /\ OneFolder /\ phase = "sync" /\ res[n].kind = "file" /\ Place(n)
      /\ Classed(n, res[n], seen[n], st[n]) /\ Truthful(n, st[n])
  BY <1>1, ToVisit
<1>4. res[n].md5 \in Holds[n] \cup {NoMD5}
  BY <1>3 DEF Classed
<1>5. Gentle(n) /\ \A k \in Node \ {n} : Mild(k)
  <2>1. CASE res[n].state = "local_deleted" /\ ServerTrash(n)
    <3>1. remote'[n] = NoObj /\ ver' = ver + 1 /\ \A k \in Node \ {n} : NetOld(k)
      BY <1>3, <2>1, FolderTrash
    <3>2. lclock \in Nat /\ ver \in Nat /\ \A k \in Node : ctime[k] <= lclock
      BY DEF TypeOK, DiskOK, ServerOK, WholeInv, WholeAt, Place
    <3>3. Later /\ \A k \in Node : DiskOld(k) /\ ctime'[k] <= lclock'
      BY <1>1, <3>1, <3>2 DEF disk, Later, DiskOld
    <3>4. ~Cut(n)
      BY <1>3, <2>1 DEF Classed
    <3>5. QED
      BY <3>1, <3>3, <3>4 DEF Gentle, Mild
  <2>2. CASE ~(res[n].state = "local_deleted" /\ ServerTrash(n))
    BY <1>1, <2>2, SendsWhole
  <2>3. QED
    BY <2>1, <2>2
<1>6. Place(n)' /\ Truthful(n, index[n])'
  BY <1>1, <1>5, GentlePlace
<1>7. Truthful(n, st[n])'
  BY <1>2, <1>3, <1>5, GentleRecord
<1>8. QED
  BY <1>1, <1>2, <1>3, <1>4, <1>5, <1>6, <1>7, VisitWhole
\* A run that only looks, or that an assertion ended, leaves what it found.
LEMMA LooksWhole ==
    ASSUME WholeInv, UNCHANGED disk, UNCHANGED server, UNCHANGED saved,
           Between' \/ (Dry' /\ phase' = "sync")
    PROVE  WholeInv'
<1> SUFFICES ASSUME NEW n \in Node PROVE WholeAt(n)'
  BY DEF WholeInv
<1>1. Place(n) /\ Truthful(n, index[n])
  BY DEF WholeInv, WholeAt
<1>2. Place(n)' /\ Truthful(n, index[n])'
  BY <1>1 DEF disk, server, saved, Place, Truthful, Against, Cut, There
<1>3. QED
  BY <1>2 DEF WholeAt, Running, Between

\* Every outcome of a visit.
LEMMA SyncSelfWhole ==
    ASSUME Repaired, TypeOK, TypeOK', WholeInv, NEW n \in Node, SyncSelf(n),
           seen \in [Node -> RemoteObj], ~Between' => seen' = seen
    PROVE  WholeInv'
<1>1. Turn(n) /\ phase = "sync" /\ OneFolder
  BY VisitNeedsWalk, VisitEffect DEF Repaired
<1>2. CASE Abort(n)
  BY <1>2, LooksWhole DEF Abort, Died, Between
<1>3. CASE DryVisit(n)
  <2>1. Dry /\ UNCHANGED disk /\ UNCHANGED server /\ UNCHANGED saved /\ \E r : Visited(n, r)
    BY <1>3 DEF DryVisit
  <2>2. phase' = phase /\ opt' = opt
    BY <2>1 DEF Visited
  <2>3. QED
    BY <1>1, <2>1, <2>2, LooksWhole DEF Dry
<1>4. CASE ~Abort(n) /\ ~DryVisit(n)
  <2>1. ~Dry
    BY <1>4 DEF SyncSelf, MarkSync, Create, EditContent, DeleteRemote, MakeDir, Download, Skip,
       LeftAlone, DeleteLocal, ForgetDeleted, MoveRemote, MoveLocal, CallFails, LostReply,
       LostMove, Calls, Visiting
  <2>2. Moved(n) = {} /\ ~IsFolder(res[n])
    BY <1>1, <2>1, NothingMoved, ToVisit
  <2>3. ~MakeDir(n) /\ \A m \in Node : ~MoveRemote(n, m) /\ ~MoveLocal(n, m) /\ ~LostMove(n, m)
    BY <2>2 DEF MakeDir, MoveRemote, MoveLocal, LostMove
  <2>4. \/ MarkSync(n) \/ Create(n) \/ EditContent(n) \/ DeleteRemote(n) \/ Download(n)
        \/ Skip(n) \/ DeleteLocal(n) \/ ForgetDeleted(n) \/ CallFails(n) \/ LostReply(n)
    BY <1>4, <2>3 DEF SyncSelf
  <2>5. phase' = phase
    BY <2>4 DEF MarkSync, Create, EditContent, DeleteRemote, Download, Skip, DeleteLocal,
       ForgetDeleted, CallFails, LostReply, Visited, Threw
  <2>6. seen' = seen
    BY <1>1, <2>5 DEF Between
  <2>7. QED
    BY <2>1, <2>4, <2>6, MarkWhole, UploadWhole, GoneWhole, DownloadWhole, SkipWhole, FailsWhole,
       LostWhole
<1>5. QED
  BY <1>2, <1>3, <1>4

\* Every step leaves all paths in order.
LEMMA WholeStep ==
    ASSUME Repaired, TypeOK, TypeOK', WholeInv, HNext, seen \in [Node -> RemoteObj]
    PROVE  WholeInv'
<1>1. Next /\ seen' = (IF GetAll THEN remote ELSE IF Between' THEN NoFeed ELSE seen)
  BY DEF HNext
<1>2. phase # "list" => ~GetAll
  BY DEF GetAll
<1>3. CASE People
  <2>1. OneFolder /\ (\A n \in Node : Mild(n)) /\ UNCHANGED memory /\ UNCHANGED saved
    BY <1>3, PeopleMild DEF Repaired
  <2>2. /\ index' = index /\ st' = st /\ res' = res /\ feed' = feed /\ phase' = phase
        /\ opt' = opt /\ pending' = pending
    BY <2>1 DEF memory, saved
  <2>3. ~GetAll
    BY <2>2 DEF GetAll
  <2>4. ~Between => seen' = seen
    BY <1>1, <2>2, <2>3 DEF Between
  <2>5. ASSUME NEW n \in Node PROVE WholeAt(n)'
    <3>1. WholeAt(n) /\ Mild(n) /\ seen[n] \in RemoteObj /\ (~Between => seen'[n] = seen[n])
      BY <2>1, <2>4 DEF WholeInv
    <3>2. /\ index'[n] = index[n] /\ st'[n] = st[n] /\ res'[n] = res[n] /\ feed'[n] = feed[n]
          /\ (n \in pending' => n \in pending)
      BY <2>2
    <3>3. QED
      BY <2>1, <2>2, <3>1, <3>2, WholeStays
  <2>6. QED
    BY <2>5 DEF WholeInv
<1>4. ASSUME NEW o \in Options, NEW i \in Ignores, Start(o, i) PROVE WholeInv'
  BY <1>4, StartWhole
<1>5. CASE GetAll
  BY <1>1, <1>5, GetAllWhole
<1>6. ASSUME NEW n \in Node, ListEntry(n) PROVE WholeInv'
  <2>1. seen' = seen
    <3>1. IsFolder(Res(Parent[n]))
      BY FolderTree, FlatRoot DEF Repaired
    <3>2. phase = "resolve" /\ phase' = phase
      BY <1>6, <3>1 DEF ListEntry
    <3>3. QED
      BY <1>1, <1>2, <3>2 DEF Between
  <2>2. QED
    BY <1>6, <2>1, ListEntryWhole
<1>7. CASE ResolveEntry
  <2>1. seen' = seen
    BY <1>1, <1>2, <1>7 DEF ResolveEntry, Between
  <2>2. QED
    BY <1>7, <2>1, ResolveWhole
<1>8. ASSUME NEW n \in Node, SyncSelf(n) PROVE WholeInv'
  <2>1. ~Between' => seen' = seen
    BY <1>1, <1>2, <1>8, VisitNeedsWalk
  <2>2. QED
    BY <1>8, <2>1, SyncSelfWhole
<1>9. CASE SaveState \/ Die \/ TornSave
  BY <1>9, EndWhole
<1>10. QED
  BY <1>1, <1>3, <1>4, <1>5, <1>6, <1>7, <1>8, <1>9 DEF Next, Run

\* What a download cut is never sent (http::Download truncates before it asks): in one folder
\* of files it differs from the object, which is later than what was recorded of it, and so it
\* is fetched again, whatever people edit meanwhile, whatever fails and whenever runs die.
THEOREM OneFolderSendsNoGarbage ==
    ASSUME Repaired
    PROVE  HSpec => []NoGarbage
<1>1. HInit => WholeInv
  BY InitWhole
<1>2. TypeOK /\ TypeOK' /\ SeenInv /\ WholeInv /\ [HNext]_allvars => WholeInv'
  <2>1. CASE HNext
    BY <2>1, WholeStep DEF SeenInv
  <2>2. CASE UNCHANGED allvars
    <3>1. /\ UNCHANGED <<local, ctime, lclock, remote, ver, index, st, res, feed, pending, phase, opt>>
          /\ UNCHANGED seen
      BY <2>2 DEF allvars, vars, history
    <3>2. \A n \in Node : WholeAt(n)' <=> WholeAt(n)
      BY <3>1 DEF WholeAt, Place, Truthful, Against, Raw, Classed, Since, Ahead, Cut, There, Running,
         Between, Dry
    <3>3. QED
      BY <3>2 DEF WholeInv
  <2>3. QED
    BY <2>1, <2>2
<1>3. WholeInv => NoGarbage
  <2> SUFFICES ASSUME WholeInv, NEW n \in Node PROVE remote[n].thing # Partial
    BY DEF NoGarbage
  <2>1. OneFolder /\ remote[n].thing \in Holds[n] \cup {Absent}
    BY DEF Repaired, WholeInv, WholeAt, Truthful, Against
  <2>2. QED
    BY <2>1, HoldsFiles
<1>4. QED
  BY <1>1, <1>2, <1>3, SeenInvariant, PTL DEF HSpec


===============================================================================
