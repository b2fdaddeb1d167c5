------------------------------- MODULE Resource -------------------------------
(***************************************************************************)
(* What grive knows of one path, and how it classifies it.                 *)
(*                                                                         *)
(* gr::Resource (libgrive/src/base/Resource.cc) is one file or folder of   *)
(* the synchronised tree.  A run builds the resources in two passes: first *)
(* from the disk and from the index left by the previous run (FromLocal,   *)
(* FromDeleted), then from the listing of the server (FromRemote).  The    *)
(* result is a state that says what Resource::SyncSelf must do.  This      *)
(* module is those two passes, as pure operators on records; Grive.tla     *)
(* runs them.                                                              *)
(*                                                                         *)
(* A node stands for a path.  The checksum of a file is its content: MD5   *)
(* has no collisions here.                                                 *)
(***************************************************************************)
EXTENDS Integers, FiniteSets

CONSTANTS
    Node,       \* the paths below the synchronised folder
    Root,       \* the synchronised folder itself
    Parent,     \* Parent[n]: the folder n is in
    Under,      \* Under[n]: every path strictly below n
    Content,    \* the contents a file may have
    Size,       \* Size[f]: how many bytes a file of content f has
    ReadOnly,   \* the paths whose entries the server marks as not editable
    Absent,     \* nothing is at the path
    Dir,        \* a folder is at the path
    Bad,        \* something os::Stat fails on: a broken symlink, no permission
    Partial,    \* the file a failed download leaves behind: empty
    NoMD5,      \* the empty checksum string
    Missing     \* an index record without a "md5" key

Files       == Content \cup {Partial}
LocalThing  == Files \cup {Absent, Dir, Bad}
RemoteThing == Files \cup {Absent, Dir}

ASSUME TreeAssumption ==
    /\ Root \notin Node
    /\ Parent \in [Node -> Node \cup {Root}]
    /\ Under \in [Node -> SUBSET Node]
    /\ \A n, m \in Node :
          m \in Under[n] <=> Parent[m] = n \/ Parent[m] \in Under[n]
    /\ \A n \in Node : n \notin Under[n] /\ \A m \in Under[n] : Under[m] \subseteq Under[n]
    /\ ReadOnly \subseteq Node

\* A path has finitely many components.
ASSUME PathAssumption ==
    \A S \in SUBSET Node : S # {} => \E n \in S : Parent[n] \notin S

ASSUME ThingAssumption ==
    /\ Absent \notin Files \cup {Dir, Bad, NoMD5, Missing}
    /\ Dir \notin Files \cup {Bad, NoMD5, Missing}
    /\ Bad \notin Files \cup {NoMD5, Missing}
    /\ Partial \notin Content
    /\ NoMD5 \notin Files \cup {Missing}
    /\ Missing \notin Files
    /\ Size \in [Files -> Nat]

-------------------------------------------------------------------------------
(* The records.                                                            *)

State == {"sync", "local_new", "local_changed", "local_deleted", "remote_new",
          "remote_changed", "remote_deleted", "both_deleted", "unknown"}

\* A record of .grive_state.  A key that is absent reads as 0, except "md5":
\* Resource::FromLocal tells an absent md5 from an empty one.  "size" is written
\* and deleted together with "md5"; "tree" holds the records of the children.
IndexRec == [has : BOOLEAN, ctime : Nat, md5 : Files \cup {NoMD5, Missing},
             size : Nat, srv : Nat, tree : BOOLEAN]

NoRec == [has |-> FALSE, ctime |-> 0, md5 |-> Missing, size |-> 0, srv |-> 0,
          tree |-> FALSE]

\* An object of the server at a path.  multi: it has a second parent folder.
RemoteObj == [thing : RemoteThing, etag : Nat, mtime : Nat, multi : BOOLEAN]

NoObj == [thing |-> Absent, etag |-> 0, mtime |-> 0, multi |-> FALSE]

\* A gr::Resource.  src says which pass created it, "none" that there is none;
\* exists is m_local_exists, mtime is m_mtime (the server's time), id that
\* m_id and m_href are set, json that m_json is not NULL.
ResourceRec == [src : {"none", "local", "index", "remote"}, exists : BOOLEAN,
                kind : {"", "file", "folder", "bad"}, state : State,
                md5 : Files \cup {NoMD5}, size : Nat, ctime : Nat, mtime : Nat,
                id : BOOLEAN, etag : Nat, json : BOOLEAN]

NoRes == [src |-> "none", exists |-> FALSE, kind |-> "", state |-> "unknown",
          md5 |-> NoMD5, size |-> 0, ctime |-> 0, mtime |-> 0, id |-> FALSE,
          etag |-> 0, json |-> FALSE]

RootRes == [NoRes EXCEPT !.src = "local", !.exists = TRUE, !.kind = "folder",
                         !.state = "sync", !.id = TRUE, !.json = TRUE]

IsFolder(r) == r.kind = "folder"

SizeOf(t) == IF t \in Files THEN Size[t] ELSE 0

Below(p) == IF p = Root THEN Node ELSE Under[p]

-------------------------------------------------------------------------------
(* First pass: the disk against the index.                                 *)

\* The index vouches for the file: its ctime has not moved since it was recorded.
Vouched(rec, t, ctime) == ctime <= rec.ctime /\ (t = Dir \/ rec.md5 # Missing)

\* The content is hashed only when neither the ctime nor the size decides.
Hashed(rec, t, ctime) ==
    /\ t \in Files
    /\ ~Vouched(rec, t, ctime)
    /\ rec.md5 # Missing
    /\ rec.size = Size[t]

\* Faulty: a file is changed only if it was hashed, so that a new one is not.
ChangedIfHashed(rec, t, ctime) == Hashed(rec, t, ctime) /\ rec.md5 # t

\* is_changed of Resource::FromLocal.
Changed(rec, t, ctime) ==
    /\ t # Bad
    /\ ~Vouched(rec, t, ctime)
    /\ Hashed(rec, t, ctime) => rec.md5 # t

\* Resource::FromLocal for the thing t, where newBelow says that something under
\* it is local_new: FromLocal of a new child turns its remote_deleted ancestors
\* into local_new.
FromLocal(rec, t, ctime, newBelow) ==
    IF t = Bad
    THEN [NoRes EXCEPT !.src = "local", !.kind = "bad", !.state = "sync",
                       !.json = TRUE]
    ELSE [src    |-> "local",
          exists |-> TRUE,
          kind   |-> IF t = Dir THEN "folder" ELSE "file",
          state  |-> IF Changed(rec, t, ctime) \/ newBelow
                     THEN "local_new" ELSE "remote_deleted",
          md5    |-> IF Hashed(rec, t, ctime) THEN t
                     ELSE IF t # Dir /\ Vouched(rec, t, ctime) THEN rec.md5
                     ELSE NoMD5,
          size   |-> SizeOf(t),
          ctime  |-> ctime,
          mtime  |-> rec.srv,
          id     |-> FALSE,
          etag   |-> 0,
          json   |-> TRUE]

\* Resource::FromDeleted: the index has a record and the disk has nothing.
FromDeleted(rec) ==
    [NoRes EXCEPT !.src   = "index",
                  !.kind  = IF rec.tree THEN "folder" ELSE "file",
                  !.state = "both_deleted",
                  !.md5   = IF rec.md5 = Missing THEN NoMD5 ELSE rec.md5,
                  !.size  = rec.size,
                  !.ctime = rec.ctime,
                  !.mtime = rec.srv,
                  !.json  = TRUE]

-------------------------------------------------------------------------------
(* Second pass: the listing of the server.                                 *)

\* Faulty: a folder has a checksum.
MD5OfAny(e) == e.thing

MD5Of(e) == IF e.thing \in Files THEN e.thing ELSE NoMD5

\* State::Update: the resource an entry meets when the path has none yet.
NewResource(e) ==
    [NoRes EXCEPT !.src  = "remote",
                  !.kind = IF e.thing = Dir THEN "folder" ELSE "file"]

\* Faulty: the times compared the other way round; equal times taken for news.
Older(r, e) == e.mtime < r.mtime
NewerOrEqual(r, e) == e.mtime >= r.mtime

\* The server changed the object since the index recorded its time.
Newer(r, e) == e.mtime > r.mtime

\* Faulty: only the size is compared.
SameSize(r, e, md5) == SizeOf(e.thing) = r.size

\* The size and the checksum of the entry are those of the resource.
SameFile(r, e, md5) == SizeOf(e.thing) = r.size /\ MD5Of(e) = md5

\* Resource::FromRemoteFolder, for an entry and a resource that are both folders.
\* The new states are set on the whole subtree (Resource::SetState).
RemoteFolderState(r, e) ==
    IF r.exists THEN "sync"
    ELSE IF Newer(r, e) THEN "remote_new"
    ELSE "local_deleted"

\* Resource::FromRemoteFile: p is the state of the parent, md5 the checksum
\* Resource::GetMD5 gives for the resource.
RemoteFileState(r, e, p, md5) ==
    CASE p \in {"remote_new", "remote_deleted", "local_new", "local_deleted"} -> p
      [] OTHER ->
           IF r.kind = "bad" THEN "sync"
           ELSE IF ~r.exists
                THEN IF Newer(r, e) \/ MD5Of(e) # r.md5
                     THEN "remote_new" ELSE "local_deleted"
           ELSE IF MD5Of(e) = NoMD5 THEN "sync"
           ELSE IF SameFile(r, e, md5) THEN "sync"
           ELSE IF Newer(r, e) THEN "remote_changed"
           ELSE IF r.state \in {"local_new", "remote_deleted"} THEN "local_changed"
           ELSE r.state

\* m_size is taken from the entry only where FromRemoteFile itself decides that
\* the remote copy is wanted, not where the state comes from the parent.
RemoteFileSize(r, e, p, s) ==
    IF s \in {"remote_new", "remote_changed"} /\ p \notin {"remote_new"}
    THEN SizeOf(e.thing) ELSE r.size

\* Resource::FromRemote with Resource::AssignIDs.
FromRemote(r, e, p, md5) ==
    LET folder == e.thing = Dir /\ IsFolder(r)
        s == IF folder THEN RemoteFolderState(r, e)
             ELSE RemoteFileState(r, e, p, md5)
    IN [r EXCEPT !.state = s,
                 !.md5   = MD5Of(e),
                 !.size  = IF folder THEN @ ELSE RemoteFileSize(r, e, p, s),
                 !.mtime = e.mtime,
                 !.id    = TRUE,
                 !.etag  = e.etag]

===============================================================================
