--------------------------- MODULE AgreementProofs ---------------------------
(***************************************************************************)
(* What a run does to what others do meanwhile, for every tree, every      *)
(* sequence of runs and failures, and every order of the walk: what it     *)
(* hides it leaves alone, what somebody changed on the server after the    *)
(* listing is not lost, and what went from the disk while it was hidden is *)
(* not trashed when it is looked for again.                                *)
(*                                                                         *)
(* The second needs to know what the resources know of the listing, what   *)
(* the listing knows of the server, and that nothing is missing in it; the *)
(* third what the records of several runs know of what they missed.        *)
(***************************************************************************)
EXTENDS Agreement, RootedProofs

Known == phase \in {"resolve", "sync"}

\* The server: what is in a folder is in a folder; only files have two parents; an object
\* has an etag, and no later one than the server's clock.
ServerTree(f) ==
    \A n \in Node : f[n].thing # Absent /\ Parent[n] # Root => f[Parent[n]].thing = Dir
Shared(f) == \A n \in Node : f[n].multi => f[n].thing \in Files
Stamped ==
    \A n \in Node : remote[n].etag <= ver /\ (remote[n].thing # Absent => remote[n].etag > 0)

ServerInv == ServerTree(remote) /\ Shared(remote) /\ Stamped

\* Nothing that is hidden has a resource.
Visible == Running => \A n \in Node : res[n].src # "none" => n \notin Hides[m_ign]

\* What a resource knows of its entry: all, until it is settled by the walk.
Knows(r, e, walk) ==
    /\ ~r.id => r.etag = 0
    /\ r.id => r.state # "local_new"
    /\ r.id /\ (walk => r.state # "sync") => r.etag = e.etag /\ r.md5 = MD5Of(e)
    /\ r.state = "local_changed" => r.id /\ e.thing \in Files

\* Before the listing no resource knows anything of the server.
Unlisted ==
    phase = "list" =>
        \A n \in Node : ~res[n].id /\ res[n].etag = 0 /\ res[n].state # "local_changed"

\* Every entry gets to its resource, unless it is ignored (State::ResolveEntry).
Accounted(n) == seen[n].thing = Absent \/ seen[n].multi \/ n \in Hides[m_ign] \/ res[n].id

AllApplied ==
    \A n \in Node :
        /\ phase = "resolve" => feed[n] = seen[n] \/ (feed[n] = NoObj /\ Accounted(n))
        /\ phase = "sync" => Accounted(n)

\* The visit to n is still to come.
Waits(P, n) == n \in P \/ \E p \in P : n \in Under[p]

\* What the listing knows of the server: what has the etag it had is as it was; where there
\* was no folder there is none that the run did not make; and what is still to be
\* visited has not appeared.
UpToDate ==
    \A n \in Node :
        /\ seen[n].etag <= ver
        /\ remote[n] = seen[n] \/ remote[n].thing = Absent \/ remote[n].etag > seen[n].etag
        /\ remote[n].thing = Dir /\ seen[n].thing # Dir =>
              phase = "sync" /\ res[n].state \in {"local_new", "sync"}
        /\ (seen[n].thing = Absent \/ seen[n].multi) /\ (phase = "sync" => Waits(pending, n)) =>
              remote[n].thing = Absent \/ remote[n].multi

ListedInv ==
    /\ ServerTree(seen) /\ Shared(seen)
    /\ AllApplied /\ UpToDate
    /\ \A n \in Node : Knows(res[n], seen[n], phase = "sync")

SeenInv ==
    /\ seen \in [Node -> RemoteObj]
    /\ ServerInv /\ Visible /\ Unlisted
    /\ Known => ListedInv

-------------------------------------------------------------------------------
(* The server.                                                             *)

\* What a step may do to the object at k, seen from a listing: nothing; remove it; or
\* change it, which gives it a new etag, and makes no folder of it.
Softly(k) ==
    \/ remote'[k] = remote[k]
    \/ remote'[k].thing = Absent
    \/ /\ remote'[k].etag > ver /\ remote[k].thing # Absent
       /\ remote'[k].thing = Dir => remote[k].thing = Dir
       /\ remote[k].multi => remote'[k].multi

\* Put something else there.
Anew(k) == remote'[k].etag > ver

\* An object is written (Syncer2::Upload with PUT).
LEMMA ServerPutKeeps ==
    ASSUME ServerOK, ServerInv, NEW n \in Node, NEW t \in RemoteThing, ServerPut(n, t),
           remote[n].thing # Absent,
           t = remote[n].thing \/ (remote[n].thing \in Files /\ t \in Files)
    PROVE  ServerInv' /\ ver' = ver + 1 /\ \A k \in Node : Softly(k)
<1>1. remote[n] \in RemoteObj /\ ver \in Nat /\ remote \in [Node -> RemoteObj]
  BY DEF ServerOK
<1> DEFINE o == [remote[n] EXCEPT !.thing = t, !.etag = ver + 1, !.mtime = ver + 1]
<1>2. o.thing = t /\ o.etag = ver + 1 /\ o.multi = remote[n].multi
  BY <1>1 DEF RemoteObj
<1>3. remote' = [remote EXCEPT ![n] = o] /\ ver' = ver + 1
  BY DEF ServerPut, WriteServer
<1> HIDE DEF o
<1>4. remote'[n] = o /\ \A k \in Node : k # n => remote'[k] = remote[k]
  BY <1>1, <1>3
<1>5. t # Absent /\ (t = Dir <=> remote[n].thing = Dir) /\ (t \in Files <=> remote[n].thing \in Files)
  BY ThingAssumption
<1>6. ServerTree(remote')
  BY <1>4, <1>2, <1>5, TreeAssumption DEF ServerTree, ServerInv
<1>7. Shared(remote')
  BY <1>4, <1>2, <1>5 DEF Shared, ServerInv
<1>8. Stamped'
  BY <1>1, <1>2, <1>3, <1>4 DEF Stamped, ServerInv, ServerOK, RemoteObj
<1>9. \A k \in Node : Softly(k)
  BY <1>1, <1>2, <1>4, <1>5 DEF Softly
<1>10. QED
  BY <1>1, <1>3, <1>6, <1>7, <1>8, <1>9 DEF ServerInv, ServerTree, Shared

\* An object is made (Syncer2::Upload with POST, and people).
LEMMA ServerAddKeeps ==
    ASSUME ServerOK, ServerInv, NEW n \in Node, NEW t \in RemoteThing \ {Absent},
           NEW o \in RemoteObj, remote' = [remote EXCEPT ![n] = o], ver' = ver + 1,
           o.thing = t, o.etag = ver + 1, o.multi => t \in Files,
           OnServer(Parent[n]), remote[n].thing # Dir
    PROVE  ServerInv' /\ Anew(n) /\ \A k \in Node : k = n \/ Softly(k)
<1>1. ver \in Nat /\ remote \in [Node -> RemoteObj]
  BY DEF ServerOK
<1>2. remote'[n] = o /\ \A k \in Node : k # n => remote'[k] = remote[k]
  BY <1>1
<1>3. ServerTree(remote')
  <2> SUFFICES ASSUME NEW k \in Node, remote'[k].thing # Absent, Parent[k] # Root
               PROVE  remote'[Parent[k]].thing = Dir
    BY DEF ServerTree
  <2>1. remote[Parent[k]].thing = Dir
    BY <1>2 DEF ServerTree, ServerInv, OnServer
  <2>2. Parent[k] \in Node /\ Parent[k] # n
    BY <2>1, TreeAssumption
  <2>3. QED
    BY <1>2, <2>1, <2>2
<1>4. Shared(remote')
  BY <1>2 DEF Shared, ServerInv
<1>5. Stamped'
  BY <1>1, <1>2 DEF Stamped, ServerInv, RemoteObj
<1>6. Anew(n) /\ \A k \in Node : k = n \/ Softly(k)
  BY <1>1, <1>2 DEF Softly, Anew
<1>7. QED
  BY <1>3, <1>4, <1>5, <1>6 DEF ServerInv, ServerTree, Shared

\* An object is trashed, with what is below it.
LEMMA ServerTrashKeeps ==
    ASSUME ServerOK, ServerInv, NEW n \in Node, ServerTrash(n)
    PROVE  /\ ServerInv' /\ ver' = ver + 1 /\ \A k \in Node : Softly(k)
           /\ \A k \in Node : k = n \/ k \in Under[n] \/ remote'[k] = remote[k]
           /\ remote'[n].thing = Absent
<1>1. ver \in Nat /\ remote \in [Node -> RemoteObj]
  BY DEF ServerOK
<1>2. ver' = ver + 1
  BY DEF ServerTrash, WriteServer
<1>3. \A k \in Node : remote'[k] = IF k = n \/ k \in Under[n] THEN NoObj ELSE remote[k]
  BY DEF ServerTrash, WriteServer
<1>4. NoObj.thing = Absent /\ NoObj.etag = 0 /\ ~NoObj.multi
  BY DEF NoObj
<1>5. ServerTree(remote')
  <2> SUFFICES ASSUME NEW k \in Node, remote'[k].thing # Absent, Parent[k] # Root
               PROVE  remote'[Parent[k]].thing = Dir
    BY DEF ServerTree
  <2>1. remote'[k] = remote[k] /\ k \notin Under[n] /\ k # n
    BY <1>3, <1>4
  <2>2. Parent[k] \in Node /\ Parent[k] # n /\ Parent[k] \notin Under[n]
    BY <2>1, TreeAssumption
  <2>3. QED
    BY <1>3, <2>1, <2>2 DEF ServerTree, ServerInv
<1>6. Shared(remote')
  BY <1>3, <1>4 DEF Shared, ServerInv
<1>7. Stamped'
  BY <1>1, <1>2, <1>3, <1>4 DEF Stamped, ServerInv, RemoteObj
<1>8. \A k \in Node : Softly(k)
  BY <1>3, <1>4 DEF Softly
<1>9. QED
  BY <1>1, <1>2, <1>3, <1>4, <1>5, <1>6, <1>7, <1>8 DEF ServerInv, ServerTree, Shared

\* A file is moved into a folder, and takes the place of no folder.
LEMMA ServerMoveKeeps ==
    ASSUME ServerOK, ServerInv, NEW n \in Node, NEW m \in Node, n # m, ServerMove(n, m),
           remote[n].thing \in Files, OnServer(Parent[m]), remote[m].thing # Dir
    PROVE  /\ ServerInv' /\ ver' = ver + 1
           /\ Anew(m) /\ \A k \in Node : k = m \/ Softly(k)
           /\ remote'[m].thing = remote[n].thing
           /\ \A k \in Node : k \in {n, m} \/ remote'[k] = remote[k]
<1>1. ver \in Nat /\ remote \in [Node -> RemoteObj] /\ remote[n] \in RemoteObj
  BY DEF ServerOK
<1> DEFINE o == [remote[n] EXCEPT !.etag = ver + 1]
<1>2. o.thing = remote[n].thing /\ o.etag = ver + 1
  BY <1>1 DEF RemoteObj
<1>3. ver' = ver + 1 /\ remote' = [remote EXCEPT ![n] = NoObj, ![m] = o]
  BY DEF ServerMove, WriteServer
<1> HIDE DEF o
<1>4. /\ remote'[m] = o /\ remote'[n] = NoObj
      /\ \A k \in Node : k \in {n, m} \/ remote'[k] = remote[k]
  BY <1>1, <1>3
<1>5. NoObj.thing = Absent /\ NoObj.etag = 0 /\ ~NoObj.multi /\ Dir \notin Files /\ Absent \notin Files
  BY ThingAssumption DEF NoObj
<1>6. ServerTree(remote')
  <2> SUFFICES ASSUME NEW k \in Node, remote'[k].thing # Absent, Parent[k] # Root
               PROVE  remote'[Parent[k]].thing = Dir
    BY DEF ServerTree
  <2>1. remote[Parent[k]].thing = Dir
    BY <1>4, <1>5 DEF ServerTree, ServerInv, OnServer
  <2>2. Parent[k] \in Node /\ Parent[k] # n /\ Parent[k] # m
    BY <1>5, <2>1, TreeAssumption
  <2>3. QED
    BY <1>4, <2>1, <2>2
<1>7. Shared(remote')
  BY <1>2, <1>4, <1>5 DEF Shared, ServerInv
<1>8. Stamped'
  BY <1>1, <1>2, <1>3, <1>4, <1>5 DEF Stamped, ServerInv, RemoteObj
<1>9. Anew(m) /\ \A k \in Node : k = m \/ Softly(k)
  BY <1>1, <1>2, <1>4, <1>5 DEF Softly, Anew
<1>10. ServerInv'
  BY <1>6, <1>7, <1>8 DEF ServerInv, ServerTree, Shared
<1>11. ver' = ver + 1 /\ remote'[m].thing = remote[n].thing
  BY <1>1, <1>2, <1>3, <1>4
<1>12. QED
  BY <1>4, <1>9, <1>10, <1>11

\* A file gets a second parent.
LEMMA ShareKeeps ==
    ASSUME ServerOK, ServerInv, NEW n \in Node, RemoteShare(n)
    PROVE  ServerInv' /\ ver' = ver + 1 /\ \A k \in Node : Softly(k)
<1>1. remote[n] \in RemoteObj /\ ver \in Nat /\ remote \in [Node -> RemoteObj]
  BY DEF ServerOK
<1> DEFINE o == [remote[n] EXCEPT !.etag = ver + 1, !.multi = TRUE]
<1>2. o.thing = remote[n].thing /\ o.etag = ver + 1 /\ o.multi
  <2>1. \A q \in RemoteObj : \A v \in Nat :
            LET p == [q EXCEPT !.etag = v, !.multi = TRUE]
            IN p.thing = q.thing /\ p.etag = v /\ p.multi
    BY DEF RemoteObj
  <2>2. QED
    BY <1>1, <2>1
<1>3. remote' = [remote EXCEPT ![n] = o] /\ ver' = ver + 1
  <2>1. remote' = [remote EXCEPT ![n].etag = ver + 1, ![n].multi = TRUE] /\ ver' = ver + 1
    BY DEF RemoteShare, WriteServer
  <2>2. [remote EXCEPT ![n].etag = ver + 1, ![n].multi = TRUE] = [remote EXCEPT ![n] = o]
    BY <1>1
  <2>3. QED
    BY <2>1, <2>2
<1> HIDE DEF o
<1>4. remote'[n] = o /\ \A k \in Node : k # n => remote'[k] = remote[k]
  BY <1>1, <1>3
<1>5. remote[n].thing \in Files /\ Absent \notin Files
  BY ThingAssumption DEF RemoteShare
<1>6. ServerTree(remote')
  BY <1>4, <1>2, <1>5, TreeAssumption DEF ServerTree, ServerInv
<1>7. Shared(remote')
  BY <1>4, <1>2, <1>5 DEF Shared, ServerInv
<1>8. Stamped'
  BY <1>1, <1>2, <1>3, <1>4 DEF Stamped, ServerInv, ServerOK, RemoteObj
<1>9. \A k \in Node : Softly(k)
  BY <1>1, <1>2, <1>4, <1>5 DEF Softly
<1>10. ServerInv'
  BY <1>6, <1>7, <1>8 DEF ServerInv, ServerTree, Shared
<1>11. QED
  BY <1>1, <1>3, <1>9, <1>10

\* People keep the server in order, and during the run they only change what is there.
LEMMA PeopleServer ==
    ASSUME TypeOK, ServerInv, People
    PROVE  /\ ServerInv' /\ ver' >= ver /\ UNCHANGED memory
           /\ Known => \A k \in Node : Softly(k)
<1>1. ver \in Nat /\ ServerOK /\ remote \in [Node -> RemoteObj]
  BY DEF TypeOK, ServerOK
<1>2. UNCHANGED server => ServerInv' /\ ver' >= ver /\ \A k \in Node : Softly(k)
  BY <1>1 DEF server, ServerInv, ServerTree, Shared, Stamped, Softly
<1>3. \A op : Act(op) => UNCHANGED memory
  BY DEF Act
<1>4. ASSUME NEW n \in Node, NEW t \in Holds[n], RemotePut(n, t)
      PROVE  ServerInv' /\ ver' >= ver /\ UNCHANGED memory /\ (Known => \A k \in Node : Softly(k))
  <2>1. /\ t \in Content \cup {Dir} /\ ServerPut(n, t) /\ OnServer(Parent[n])
        /\ IF remote[n].thing = Absent THEN phase \notin {"resolve", "sync"}
           ELSE t # Dir /\ remote[n].thing # Dir
    BY <1>4, GriveAssumption DEF RemotePut
  <2>2. UNCHANGED memory
    BY <1>3, <1>4 DEF RemotePut
  <2>3. t \in RemoteThing \ {Absent} /\ remote[n] \in RemoteObj
    BY <1>1, <2>1, ThingAssumption DEF RemoteThing, Files
  <2>4. CASE remote[n].thing # Absent
    <3>1. remote[n].thing \in Files /\ t \in Files
      BY <2>1, <2>3, <2>4 DEF RemoteObj, RemoteThing, Files
    <3>2. QED
      BY <1>1, <2>1, <2>2, <2>3, <2>4, <3>1, ServerPutKeeps
  <2>5. CASE remote[n].thing = Absent
    <3> DEFINE o == [remote[n] EXCEPT !.thing = t, !.etag = ver + 1, !.mtime = ver + 1]
    <3>1. o \in RemoteObj /\ o.thing = t /\ o.etag = ver + 1 /\ o.multi = remote[n].multi
      <4>1. \A q \in RemoteObj : \A v \in Nat :
                LET p == [q EXCEPT !.thing = t, !.etag = v, !.mtime = v]
                IN p \in RemoteObj /\ p.thing = t /\ p.etag = v /\ p.multi = q.multi
        BY <2>3 DEF RemoteObj
      <4>2. remote[n] \in RemoteObj /\ ver + 1 \in Nat
        BY <1>1, <2>3
      <4>3. QED
        BY <4>1, <4>2, Zenon
    <3>2. ~remote[n].multi
      BY <2>5, ThingAssumption DEF ServerInv, Shared
    <3>3. remote' = [remote EXCEPT ![n] = o] /\ ver' = ver + 1
      BY <2>1 DEF ServerPut, WriteServer
    <3>4. ServerInv'
      <4> HIDE DEF o
      <4>1. remote[n].thing # Dir
        BY <2>5, ThingAssumption
      <4>2. QED
        BY <1>1, <2>1, <2>3, <3>1, <3>2, <3>3, <4>1, ServerAddKeeps
    <3>5. QED
      BY <1>1, <2>1, <2>2, <2>5, <3>3, <3>4 DEF Known
  <2>6. QED
    BY <2>4, <2>5
<1>5. ASSUME NEW n \in Node, RemoteTrash(n)
      PROVE  ServerInv' /\ ver' >= ver /\ UNCHANGED memory /\ (Known => \A k \in Node : Softly(k))
  BY <1>1, <1>3, <1>5, ServerTrashKeeps DEF RemoteTrash, TypeOK, ServerOK
<1>6. ASSUME NEW n \in Node, RemoteShare(n)
      PROVE  ServerInv' /\ ver' >= ver /\ UNCHANGED memory /\ (Known => \A k \in Node : Softly(k))
  <2>1. ServerInv' /\ ver' = ver + 1 /\ \A k \in Node : Softly(k)
    BY <1>1, <1>6, ShareKeeps
  <2>2. UNCHANGED memory /\ ver' = ver + 1
    BY <1>3, <1>6 DEF RemoteShare, WriteServer
  <2>3. QED
    BY <1>1, <2>1, <2>2
<1>7. ASSUME NEW n \in Node, NEW m \in Node, RemoteMove(n, m)
      PROVE  ServerInv' /\ ver' >= ver /\ UNCHANGED memory /\ (Known => \A k \in Node : Softly(k))
  <2>1. /\ n # m /\ remote[n].thing \in Files /\ remote[m].thing = Absent /\ OnServer(Parent[m])
        /\ ServerMove(n, m) /\ ~Known
    BY <1>7 DEF RemoteMove, Files, Known
  <2>2. ServerInv'
    BY <1>1, <2>1, ServerMoveKeeps, ThingAssumption
  <2>3. UNCHANGED memory /\ ver' = ver + 1
    BY <1>3, <1>7 DEF RemoteMove, ServerMove, WriteServer
  <2>4. QED
    BY <1>1, <2>1, <2>2, <2>3
<1>8. QED
  BY <1>2, <1>3, <1>4, <1>5, <1>6, <1>7 DEF People, LocalPut, LocalRemove, LocalMove

-------------------------------------------------------------------------------
(* The listing.                                                            *)

\* What the listing says of the server stays true of what changes softly, and of what a
\* visit makes, which is not to be visited any more.
LEMMA UpToDateAfter ==
    ASSUME seen \in [Node -> RemoteObj], ServerOK, ServerOK', UpToDate,
           Known, phase' \in {phase, "sync"}, seen' = seen, ver' >= ver,
           \A k \in Node :
               \/ Softly(k)
               \/ /\ Anew(k) /\ phase' = "sync" /\ ~Waits(pending', k)
                  /\ remote'[k].thing = Dir => res'[k].state \in {"local_new", "sync"},
           \A k \in Node : phase = "sync" /\ Waits(pending', k) => Waits(pending, k),
           \A k \in Node : phase = "sync" /\ res[k].state \in {"local_new", "sync"} =>
                               res'[k].state \in {"local_new", "sync"}
    PROVE  UpToDate'
<1> SUFFICES ASSUME NEW n \in Node
             PROVE  /\ seen[n].etag <= ver'
                    /\ \/ remote'[n] = seen[n] \/ remote'[n].thing = Absent
                       \/ remote'[n].etag > seen[n].etag
                    /\ remote'[n].thing = Dir /\ seen[n].thing # Dir =>
                          phase' = "sync" /\ res'[n].state \in {"local_new", "sync"}
                    /\ (seen[n].thing = Absent \/ seen[n].multi) /\ (phase' = "sync" => Waits(pending', n)) =>
                          remote'[n].thing = Absent \/ remote'[n].multi
  BY DEF UpToDate
<1>1. /\ ver \in Nat /\ ver' \in Nat /\ seen[n].etag \in Nat /\ remote'[n].etag \in Nat
      /\ remote[n].etag \in Nat /\ seen[n].etag <= ver
  BY DEF ServerOK, RemoteObj, UpToDate
<1>2. seen[n].etag <= ver'
  BY <1>1
<1>3. remote'[n] = seen[n] \/ remote'[n].thing = Absent \/ remote'[n].etag > seen[n].etag
  BY <1>1 DEF Softly, Anew, UpToDate
<1>4. remote'[n].thing = Dir /\ seen[n].thing # Dir =>
          phase' = "sync" /\ res'[n].state \in {"local_new", "sync"}
  BY ThingAssumption DEF Softly, UpToDate
<1>5. (seen[n].thing = Absent \/ seen[n].multi) /\ (phase' = "sync" => Waits(pending', n)) =>
          remote'[n].thing = Absent \/ remote'[n].multi
  BY DEF Softly, UpToDate, Known
<1>6. QED
  BY <1>2, <1>3, <1>4, <1>5

\* People do not upset what the run knows.
LEMMA PeopleSeen ==
    ASSUME TypeOK, TypeOK', SeenInv, People, seen' = seen
    PROVE  SeenInv'
<1>1. ServerInv' /\ ver' >= ver /\ UNCHANGED memory /\ (Known => \A k \in Node : Softly(k))
  BY PeopleServer DEF SeenInv
<1>2. UNCHANGED <<res, feed, pending, phase, m_ign>>
  BY <1>1 DEF memory
<1>3. Visible'
  BY <1>2 DEF Visible, SeenInv, Running, Between
<1>4. ASSUME Known PROVE UpToDate'
  BY <1>1, <1>2, <1>4, UpToDateAfter DEF SeenInv, ListedInv, TypeOK
<1>5. Unlisted'
  BY <1>2 DEF Unlisted, SeenInv
<1>6. QED
  BY <1>1, <1>2, <1>3, <1>4, <1>5 DEF SeenInv, ListedInv, Known, AllApplied, Accounted, ServerTree, Shared

\* The run starts with what the scan finds, which is not hidden.
LEMMA StartSeen ==
    ASSUME SeenInv, NEW o \in Options, NEW i \in Ignores, Start(o, i), seen' \in [Node -> RemoteObj]
    PROVE  SeenInv'
<1>1. /\ m_ign' = i /\ phase' = "list" /\ UNCHANGED <<remote, ver>>
      /\ res' = [n \in Node |-> ScannedRes(st', n, i)]
  BY DEF Start, server
<1>2. \A n \in Node : n \in Hides[i] => res'[n] = NoRes
  BY <1>1 DEF ScannedRes, Found, Missed
<1>3. Visible'
  <2>1. NoRes.src = "none"
    BY DEF NoRes
  <2>2. \A n \in Node : n \in Hides[m_ign'] => res'[n].src = "none"
    BY <1>1, <1>2, <2>1
  <2>3. QED
    BY <2>2 DEF Visible
<1>4. Unlisted'
  <2>1. \A n \in Node : LET r == ScannedRes(st', n, i)
                        IN ~r.id /\ r.etag = 0 /\ r.state # "local_changed"
    BY DEF ScannedRes, FromLocal, FromDeleted, NoRes
  <2>2. QED
    BY <1>1, <2>1 DEF Unlisted
<1>5. QED
  BY <1>1, <1>3, <1>4 DEF SeenInv, ServerInv, ServerTree, Shared, Stamped, Known

\* The listing is the server as it is.
LEMMA GetAllSeen ==
    ASSUME TypeOK, SeenInv, GetAll, seen' = remote
    PROVE  SeenInv'
<1>1. /\ phase = "list" /\ phase' = "resolve" /\ feed' = remote
      /\ UNCHANGED <<remote, ver, res, m_ign, pending>>
  BY DEF GetAll, server
<1>2. /\ seen' \in [Node -> RemoteObj] /\ ver \in Nat
      /\ \A n \in Node : remote[n].etag <= ver
  BY DEF TypeOK, ServerOK, SeenInv, ServerInv, Stamped
<1>3. ServerInv' /\ ServerTree(seen') /\ Shared(seen')
  BY <1>1 DEF SeenInv, ServerInv, ServerTree, Shared, Stamped
<1>4. Visible'
  BY <1>1 DEF SeenInv, Visible, Running, Between
<1>5. AllApplied'
  BY <1>1 DEF AllApplied
<1>6. UpToDate'
  <2>1. \A n \in Node : seen'[n] = remote'[n] /\ seen'[n].etag <= ver'
    BY <1>1, <1>2
  <2>2. QED
    BY <2>1 DEF UpToDate
<1>7. \A n \in Node : Knows(res'[n], seen'[n], phase' = "sync")
  BY <1>1 DEF Knows, Unlisted, SeenInv
<1>8. QED
  BY <1>1, <1>2, <1>3, <1>4, <1>5, <1>6, <1>7 DEF SeenInv, ListedInv, ServerTree, Shared, Unlisted

\* What FromRemote makes of a resource knows the entry, and is nothing new if the folder is
\* nothing new.
LEMMA FromRemoteKnows ==
    ASSUME NEW r \in ResourceRec, NEW e \in RemoteObj, NEW p, NEW md5, p # "local_new"
    PROVE  /\ Knows(FromRemote(r, e, p, md5), e, FALSE)
           /\ FromRemote(r, e, p, md5).id = TRUE /\ FromRemote(r, e, p, md5).src = r.src
           /\ e.thing = Dir /\ IsFolder(r) /\ FromRemote(r, e, p, md5).state # "sync" =>
                FromRemote(r, e, p, md5).state \in {"remote_new", "local_deleted"}
<1> DEFINE folder == e.thing = Dir /\ IsFolder(r)
           s == IF folder THEN RemoteFolderState(r, e) ELSE RemoteFileState(r, e, p, md5)
           size == IF folder THEN r.size ELSE RemoteFileSize(r, e, p, s)
           q == FromRemote(r, e, p, md5)
<1>1. s # "local_new" /\ (s = "local_changed" => p = "local_changed" \/ e.thing \in Files)
  BY DEF RemoteFolderState, RemoteFileState, MD5Of
<1>2. p = "local_changed" /\ s = "local_changed" => e.thing \in Files
  BY DEF RemoteFolderState, RemoteFileState, MD5Of
<1>3. folder => s \in {"sync", "remote_new", "local_deleted"}
  BY DEF RemoteFolderState
<1>4. q = [r EXCEPT !.state = s, !.md5 = MD5Of(e), !.size = size, !.mtime = e.mtime,
                    !.id = TRUE, !.etag = e.etag]
  BY DEF FromRemote, ResourceRec
<1> HIDE DEF s, size, q
<1>5. q.state = s /\ q.md5 = MD5Of(e) /\ q.id = TRUE /\ q.etag = e.etag /\ q.src = r.src
  BY <1>4 DEF ResourceRec
<1>6. QED
  BY <1>1, <1>2, <1>3, <1>5 DEF Knows, q

\* An entry gets to its resource (State::FromRemote).
LEMMA ListEntrySeen ==
    ASSUME TypeOK, TypeOK', SeenInv, NEW n \in Node, ListEntry(n), seen' = seen
    PROVE  SeenInv'
<1> DEFINE e == feed[n]
           old == IF res[n].src = "none" THEN NewResource(e) ELSE res[n]
           p == Res(Parent[n])
           r == FromRemote(old, e, p.state, GetMD5(n))
           tree == e.thing = Dir /\ IsFolder(old) /\ r.state # "sync"
           after == IF tree THEN SetState(n, r) ELSE [res EXCEPT ![n] = r]
           kept == [feed EXCEPT ![n] = NoObj]
<1>1. /\ phase = "resolve" /\ e.thing # Absent /\ (p.id \/ e.multi)
      /\ UNCHANGED <<remote, ver>>
      /\ \/ feed' = kept /\ UNCHANGED <<res, pending, phase, m_ign>>
            /\ (e.multi \/ n \in Hides[m_ign])
         \/ feed' = kept /\ res' = after /\ UNCHANGED <<pending, phase, m_ign>>
            /\ ~e.multi /\ n \notin Hides[m_ign]
         \/ phase' = "aborted"
  BY DEF ListEntry, Listed, IsIgnore, server
<1> HIDE DEF after, kept
<1>2. ListedInv
  BY <1>1 DEF SeenInv, Known
<1>3. NoObj.thing = Absent
  BY DEF NoObj
<1>4. e = seen[n] /\ e \in RemoteObj
  BY <1>1, <1>2, <1>3 DEF ListedInv, AllApplied, SeenInv
<1>5. ServerInv'
  BY <1>1 DEF SeenInv, ServerInv, ServerTree, Shared, Stamped
<1>6. ASSUME phase' = "resolve" PROVE UpToDate'
  <2>1. \A k \in Node : Softly(k)
    BY <1>1 DEF Softly
  <2>2. ver' >= ver
    BY <1>1 DEF TypeOK, ServerOK
  <2>3. QED
    BY <1>1, <1>2, <1>6, <2>1, <2>2, UpToDateAfter DEF SeenInv, ListedInv, TypeOK, Known
<1>7. feed' = kept => feed'[n] = NoObj /\ \A k \in Node : k # n => feed'[k] = feed[k]
  BY DEF kept, TypeOK, MemoryOK
<1>8. CASE feed' = kept /\ UNCHANGED <<res, pending, phase, m_ign>>
           /\ (e.multi \/ n \in Hides[m_ign])
  <2>1. AllApplied'
    BY <1>1, <1>2, <1>4, <1>7, <1>8 DEF ListedInv, AllApplied, Accounted
  <2>2. Visible'
    BY <1>8 DEF SeenInv, Visible, Running, Between
  <2>3. \A k \in Node : Knows(res'[k], seen'[k], phase' = "sync")
    BY <1>2, <1>8 DEF ListedInv
  <2>4. QED
    BY <1>1, <1>2, <1>5, <1>6, <1>8, <2>1, <2>2, <2>3 DEF SeenInv, ListedInv, ServerTree, Shared, Unlisted
<1>9. CASE feed' = kept /\ res' = after /\ UNCHANGED <<pending, phase, m_ign>>
           /\ ~e.multi /\ n \notin Hides[m_ign]
  <2>1. p.id /\ p.state # "local_new"
    <3>1. RootRes.state = "sync"
      BY DEF RootRes, NoRes
    <3>2. QED
      BY <1>1, <1>2, <1>9, <3>1, TreeAssumption DEF Res, ListedInv, Knows
  <2>2. old \in ResourceRec /\ res \in [Node -> ResourceRec]
    BY NoResType DEF NewResource, ResourceRec, TypeOK, MemoryOK
  <2>3. /\ Knows(r, e, FALSE) /\ r.id = TRUE /\ r.src = old.src
        /\ tree => r.state \in {"remote_new", "local_deleted"}
    <3> HIDE DEF old, p, e
    <3>1. old \in ResourceRec /\ e \in RemoteObj /\ p.state # "local_new"
      BY <1>4, <2>1, <2>2
    <3>2. Knows(FromRemote(old, e, p.state, GetMD5(n)), e, FALSE)
      BY <3>1, FromRemoteKnows
    <3>3. r.id = TRUE
      BY <3>1, FromRemoteKnows, Zenon
    <3>4. r.src = old.src
      BY <3>1, EntryKeeps
    <3>5. tree => r.state \in {"remote_new", "local_deleted"}
      BY <3>1, FromRemoteKnows
    <3>6. QED
      BY <3>2, <3>3, <3>5, <3>4
  <2> HIDE DEF old, r
  <2>4. /\ res'[n] = r
        /\ \A k \in Node : k # n =>
              \/ res'[k] = res[k]
              \/ /\ res'[k] = [res[k] EXCEPT !.state = r.state]
                 /\ r.state \in {"remote_new", "local_deleted"}
    BY <1>9, <2>2, <2>3 DEF after, SetState
  <2>5. \A k \in Node : Knows(res'[k], seen'[k], FALSE)
    <3> SUFFICES ASSUME NEW k \in Node, k # n PROVE Knows(res'[k], seen[k], FALSE)
      BY <1>4, <2>3, <2>4
    <3>1. Knows(res[k], seen[k], FALSE)
      BY <1>1, <1>2 DEF ListedInv
    <3>2. res[k] \in ResourceRec
      BY <2>2
    <3>3. \A s : LET q == [res[k] EXCEPT !.state = s]
                IN q.state = s /\ q.id = res[k].id /\ q.etag = res[k].etag /\ q.md5 = res[k].md5
      BY <3>2 DEF ResourceRec
    <3>4. CASE res'[k] = res[k]
      BY <3>1, <3>4
    <3>5. CASE /\ res'[k] = [res[k] EXCEPT !.state = r.state]
               /\ r.state \in {"remote_new", "local_deleted"}
      <4>1. /\ res'[k].state \in {"remote_new", "local_deleted"} /\ res'[k].id = res[k].id
            /\ res'[k].etag = res[k].etag /\ res'[k].md5 = res[k].md5
        BY <3>3, <3>5
      <4>2. QED
        BY <3>1, <4>1 DEF Knows
    <3>6. QED
      BY <2>4, <3>4, <3>5
  <2>6. \A k \in Node : k # n => res'[k].src = res[k].src /\ res'[k].id = res[k].id
    BY <2>2, <2>4, ZenonT(30) DEF ResourceRec
  <2>7. Visible'
    BY <1>1, <1>9, <2>6 DEF SeenInv, Visible, Running, Between
  <2>8. AllApplied'
    BY <1>1, <1>2, <1>7, <1>9, <2>3, <2>4, <2>6 DEF ListedInv, AllApplied, Accounted
  <2>9. phase' = "resolve" /\ (phase' = "sync") = FALSE
    BY <1>1, <1>9
  <2>10. QED
    BY <1>2, <1>5, <1>6, <2>5, <2>7, <2>8, <2>9 DEF SeenInv, ListedInv, ServerTree, Shared, Unlisted
<1>10. CASE phase' = "aborted"
  BY <1>5, <1>10 DEF SeenInv, Visible, Running, Between, Known, Unlisted
<1>11. QED
  BY <1>1, <1>8, <1>9, <1>10

\* No entry is left over: the first folder on the way to it that were, would have been
\* applied (State::ResolveEntry).
LEMMA ResolveSeen ==
    ASSUME TypeOK, TypeOK', SeenInv, ResolveEntry, seen' = seen
    PROVE  SeenInv'
<1>1. /\ phase = "resolve" /\ phase' = "sync" /\ pending' = Children(Root)
      /\ UNCHANGED <<remote, ver, res, m_ign>>
      /\ \A n \in Node : feed[n].thing = Absent \/ (~Res(Parent[n]).id /\ ~feed[n].multi)
  BY DEF ResolveEntry, Listed, server
<1>2. ListedInv
  BY <1>1 DEF SeenInv, Known
<1>3. NoObj.thing = Absent /\ Dir \notin Files /\ Dir # Absent
  BY ThingAssumption DEF NoObj
<1>4. \A n \in Node : feed[n] = seen[n] \/ (feed[n] = NoObj /\ Accounted(n))
  BY <1>1, <1>2 DEF ListedInv, AllApplied
<1> DEFINE U == {n \in Node : feed[n].thing # Absent /\ n \notin Hides[m_ign]}
<1>5. U = {}
  <2> SUFFICES ASSUME U # {} PROVE FALSE
    OBVIOUS
  <2>1. PICK n \in U : Parent[n] \notin U
    BY PathAssumption
  <2>2. n \in Node /\ seen[n].thing # Absent /\ n \notin Hides[m_ign] /\ ~Res(Parent[n]).id
    BY <1>1, <1>3, <1>4
  <2>3. Parent[n] # Root
    BY <2>2 DEF Res, RootRes, NoRes
  <2>4. Parent[n] \in Node /\ n \in Under[Parent[n]] /\ ~res[Parent[n]].id
    BY <2>2, <2>3, TreeAssumption DEF Res
  <2>5. seen[Parent[n]].thing = Dir /\ ~seen[Parent[n]].multi
    BY <1>2, <1>3, <2>2, <2>3, <2>4 DEF ListedInv, ServerTree, Shared
  <2>6. Parent[n] \notin Hides[m_ign]
    BY <2>2, <2>4, GriveAssumption DEF TypeOK, MemoryOK
  <2>7. QED
    BY <1>3, <1>4, <2>1, <2>4, <2>5, <2>6 DEF Accounted
<1>6. \A n \in Node : Accounted(n)
  BY <1>4, <1>5 DEF Accounted
<1>7. AllApplied'
  BY <1>1, <1>6 DEF AllApplied, Accounted
<1>8. UpToDate'
  <2>1. (\A k \in Node : Softly(k)) /\ ver' >= ver
    BY <1>1 DEF Softly, TypeOK, ServerOK
  <2>2. QED
    BY <1>1, <1>2, <2>1, UpToDateAfter DEF SeenInv, ListedInv, TypeOK, Known
<1>9. \A n \in Node : Knows(res'[n], seen'[n], phase' = "sync")
  BY <1>1, <1>2 DEF ListedInv, Knows
<1>10. QED
  BY <1>1, <1>2, <1>7, <1>8, <1>9
  DEF SeenInv, ListedInv, ServerInv, ServerTree, Shared, Stamped, Visible, Running, Between, Unlisted

-------------------------------------------------------------------------------
(* The visits.                                                             *)

\* What a visit may do to the server: nothing, or what the state of the resource asks for.
ServerEffect(n) ==
    \/ UNCHANGED server
    \/ res[n].state = "local_new" /\ SendNew(n)
    \/ res[n].state = "local_changed" /\ SendEdit(n)
    \/ res[n].state = "local_deleted" /\ CanTrash(n) /\ ServerTrash(n)
    \/ \E m \in Moved(n) : /\ res[n].state = "local_new" /\ CanMoveRemote(n)
                          /\ remote[m].thing # Absent /\ ServerMove(m, n)

\* What it may do to the disk.
DiskEffect(n) ==
    \/ UNCHANGED disk
    \/ \E t : DiskPut(n, t)
    \/ DiskRemove(n)
    \/ \E m \in Moved(n) : DiskMove(m, n)

LEMMA VisitEffect ==
    ASSUME NEW n \in Node, SyncSelf(n)
    PROVE  Turn(n) /\ ServerEffect(n) /\ DiskEffect(n)
<1>1. UNCHANGED server => ServerEffect(n)
  BY DEF ServerEffect
<1>2. UNCHANGED disk => DiskEffect(n)
  BY DEF DiskEffect
<1>3. CASE MarkSync(n) \/ Skip(n) \/ ForgetDeleted(n) \/ DryVisit(n) \/ Abort(n)
  BY <1>1, <1>2, <1>3
  DEF MarkSync, Skip, LeftAlone, ForgetDeleted, DryVisit, Abort, AssertFails, Visiting
<1>4. CASE Create(n) \/ EditContent(n) \/ DeleteRemote(n)
  BY <1>2, <1>4 DEF Create, EditContent, DeleteRemote, Visiting, ServerEffect
<1>5. CASE MakeDir(n) \/ Download(n) \/ DeleteLocal(n)
  BY <1>1, <1>2, <1>5 DEF MakeDir, Download, DeleteLocal, Visiting, DiskEffect
<1>6. CASE \E m \in Node : MoveRemote(n, m) \/ MoveLocal(n, m)
  BY <1>1, <1>2, <1>6 DEF MoveRemote, MoveLocal, ServerEffect, DiskEffect
<1>7. CASE CallFails(n)
  BY <1>1, <1>2, <1>7 DEF CallFails, Calls, Visiting, DiskEffect
<1>8. CASE LostReply(n)
  BY <1>2, <1>8 DEF LostReply, Calls, Visiting, ServerEffect
<1>9. CASE \E m \in Node : LostMove(n, m)
  BY <1>2, <1>9 DEF LostMove, Calls, Visiting, ServerEffect
<1>10. QED
  BY <1>3, <1>4, <1>5, <1>6, <1>7, <1>8, <1>9 DEF SyncSelf

\* What becomes of a resource: it stays, it is settled, or another took its file.
Settled(r, r2) ==
    /\ r2.src = r.src /\ r2.kind = r.kind /\ (r.id => r2.id)
    /\ \/ r2.state = r.state /\ r2.id = r.id /\ r2.etag = r.etag /\ r2.md5 = r.md5
       \/ r2.state = "sync" /\ r.state \notin Deleted /\ (~r2.id => r2.etag = r.etag)
       \/ /\ r2.state = "both_deleted" /\ r.state \in Deleted /\ r.md5 # NoMD5
          /\ r2.id = r.id /\ r2.etag = r.etag /\ r2.md5 = r.md5

LEMMA SettledKnows ==
    ASSUME NEW r, NEW r2, NEW e, Knows(r, e, TRUE), Settled(r, r2)
    PROVE  Knows(r2, e, TRUE)
BY DEF Knows, Settled, Deleted

VisitMemory(n) ==
    \/ phase' = "aborted"
    \/ /\ phase' = phase /\ m_ign' = m_ign /\ opt' = opt
       /\ pending' \subseteq (pending \ {n}) \cup Children(n)
       /\ \A k \in Node : Settled(res[k], res'[k])

LEMMA VisitRemembers ==
    ASSUME TypeOK, NEW n \in Node, SyncSelf(n)
    PROVE  VisitMemory(n)
<1> DEFINE settles(r) == \A k \in Node : Settled(res[k], r[k])
<1>1. res \in [Node -> ResourceRec]
  BY DEF TypeOK, MemoryOK
<1>2. \A r : Visited(n, r) /\ settles(r) => VisitMemory(n)
  BY DEF Visited, VisitMemory
<1>3. settles(res)
  BY DEF Settled
<1>4. Threw(n) => VisitMemory(n)
  BY <1>3 DEF Threw, VisitMemory
<1>5. Died => VisitMemory(n)
  BY DEF Died, VisitMemory
<1>6. ASSUME NEW q, Settled(res[n], q) PROVE settles([res EXCEPT ![n] = q])
  BY <1>1, <1>3, <1>6
<1>7. ASSUME NEW b PROVE settles([res EXCEPT ![n].json = b])
  <2>1. Settled(res[n], [res[n] EXCEPT !.json = b])
    BY <1>1 DEF Settled, ResourceRec
  <2>2. [res EXCEPT ![n].json = b] = [res EXCEPT ![n] = [res[n] EXCEPT !.json = b]]
    OBVIOUS
  <2>3. QED
    BY <1>6, <2>1, <2>2
<1>8. \A q \in ResourceRec : \A s :
          LET q2 == [q EXCEPT !.state = s]
          IN /\ q2.state = s /\ q2.src = q.src /\ q2.kind = q.kind /\ q2.id = q.id
             /\ q2.etag = q.etag /\ q2.md5 = q.md5
  BY DEF ResourceRec
<1>9. ASSUME NEW r, NEW m \in Node, res[m].state \in Deleted, res[m].md5 # NoMD5,
             res[n].state \notin Deleted, r[n].state = "sync",
             r[n].src = res[n].src, r[n].kind = res[n].kind, r[n].id = res[n].id, r[n].etag = res[n].etag,
             r[m].state = "both_deleted", r[m].src = res[m].src, r[m].kind = res[m].kind, r[m].id = res[m].id,
             r[m].etag = res[m].etag, r[m].md5 = res[m].md5,
             \A k \in Node \ {n, m} : r[k] = res[k]
      PROVE  settles(r)
  <2>1. Settled(res[n], r[n]) /\ Settled(res[m], r[m])
    BY <1>9 DEF Settled
  <2>2. QED
    BY <1>3, <1>9, <2>1
<1>10. \A m \in Moved(n) : /\ m \in Node /\ m # n /\ res[m].state \in Deleted
                           /\ res[m].md5 # NoMD5 /\ res[n].state \notin Deleted
  BY DEF Moved, FindByMD5, Deleted
<1>11. CASE MarkSync(n) \/ DeleteRemote(n) \/ DeleteLocal(n) \/ ForgetDeleted(n)
  <2>1. \E b \in BOOLEAN : Visited(n, [res EXCEPT ![n].json = b])
    BY <1>11 DEF MarkSync, DeleteRemote, DeleteLocal, ForgetDeleted
  <2>2. QED
    BY <1>2, <1>7, <2>1
<1>12. CASE Create(n) \/ EditContent(n)
  <2>1. \A q \in ResourceRec : \A v, t :
           LET q2 == [q EXCEPT !.id = TRUE, !.etag = v, !.mtime = v, !.state = "sync", !.md5 = t]
           IN q2.src = q.src /\ q2.kind = q.kind /\ q2.id = TRUE /\ q2.state = "sync"
    BY DEF ResourceRec
  <2>2. /\ Uploaded(n).src = res[n].src /\ Uploaded(n).kind = res[n].kind /\ Uploaded(n).id = TRUE
        /\ Uploaded(n).state = "sync"
    BY <1>1, <2>1 DEF Uploaded
  <2>3. res[n].state \notin Deleted
    BY <1>12 DEF Create, EditContent, Visiting, Deleted
  <2>4. Settled(res[n], Uploaded(n))
    BY <2>2, <2>3 DEF Settled
  <2>5. QED
    BY <1>2, <1>6, <1>12, <2>4 DEF Create, EditContent
<1>13. CASE MakeDir(n) \/ Download(n)
  <2>1. res[n].state \notin Deleted
    BY <1>13 DEF MakeDir, Download, Visiting, Deleted
  <2>2. Fetched(n).src = res[n].src /\ Fetched(n).kind = res[n].kind
    BY <1>1, ZenonT(30) DEF Fetched, ResourceRec
  <2>3. /\ Fetched(n).state = "sync" /\ Fetched(n).id = res[n].id
        /\ Fetched(n).etag = res[n].etag
    BY <1>1, ZenonT(30) DEF Fetched, ResourceRec
  <2>4. Settled(res[n], Fetched(n))
    BY <2>1, <2>2, <2>3 DEF Settled
  <2>5. QED
    BY <1>2, <1>6, <1>13, <2>4 DEF MakeDir, Download
<1>14. CASE Skip(n)
  BY <1>2, <1>3, <1>14 DEF Skip
<1>15. CASE DryVisit(n)
  <2>1. ASSUME NEW m \in Moved(n)
        PROVE  settles([res EXCEPT ![n].state = "sync", ![m].state = "both_deleted"])
    <3> DEFINE qn == [res[n] EXCEPT !.state = "sync"]
               qm == [res[m] EXCEPT !.state = "both_deleted"]
               r == [res EXCEPT ![n] = qn, ![m] = qm]
    <3>1. [res EXCEPT ![n].state = "sync", ![m].state = "both_deleted"] = r
      BY <1>1, <1>10
    <3>2. /\ qn.state = "sync" /\ qn.src = res[n].src /\ qn.kind = res[n].kind /\ qn.id = res[n].id /\ qn.etag = res[n].etag
          /\ qm.state = "both_deleted" /\ qm.src = res[m].src /\ qm.kind = res[m].kind /\ qm.id = res[m].id
          /\ qm.etag = res[m].etag /\ qm.md5 = res[m].md5
      BY <1>1, <1>8, <1>10
    <3> HIDE DEF qn, qm
    <3>3. r[n] = qn /\ r[m] = qm /\ \A k \in Node \ {n, m} : r[k] = res[k]
      BY <1>1, <1>10
    <3> HIDE DEF r
    <3>4. settles(r)
      BY <1>9, <1>10, <3>2, <3>3
    <3>5. QED
      BY <3>1, <3>4
  <2>2. settles([res EXCEPT ![n].json = @ \/ res[n].state = "sync"])
    BY <1>7
  <2>3. QED
    BY <1>2, <1>15, <2>1, <2>2 DEF DryVisit
<1>16. ASSUME NEW m \in Moved(n), NEW q \in ResourceRec, q.src = res[n].src, q.kind = res[n].kind,
              q.id = res[n].id, q.etag = res[n].etag
       PROVE  settles(Renamed(n, m, q))
  <2> DEFINE qn == [q EXCEPT !.state = "sync", !.mtime = res[m].mtime, !.json = TRUE]
             qm == [res[m] EXCEPT !.state = "both_deleted", !.json = FALSE]
             r == Renamed(n, m, q)
  <2>1. /\ qn.state = "sync" /\ qn.src = res[n].src /\ qn.kind = res[n].kind /\ qn.id = res[n].id /\ qn.etag = res[n].etag
        /\ qm.state = "both_deleted" /\ qm.src = res[m].src /\ qm.kind = res[m].kind /\ qm.id = res[m].id
        /\ qm.etag = res[m].etag /\ qm.md5 = res[m].md5
    BY <1>1, <1>10, <1>16 DEF ResourceRec
  <2>2. r = [res EXCEPT ![n] = qn, ![m] = qm]
    BY <1>1, <1>10 DEF Renamed
  <2> HIDE DEF qn, qm, r
  <2>3. r[n] = qn /\ r[m] = qm /\ \A k \in Node \ {n, m} : r[k] = res[k]
    BY <1>1, <1>10, <2>2
  <2>4. settles(r)
    BY <1>9, <1>10, <2>1, <2>3
  <2>5. QED
    BY <2>4 DEF r
<1>17. ASSUME NEW m \in Node, MoveRemote(n, m) PROVE VisitMemory(n)
  <2> DEFINE q == [res[n] EXCEPT !.md5 = GetMD5(n)]
  <2>1. m \in Moved(n) /\ (Visited(n, Renamed(n, m, q)) \/ Died)
    BY <1>17 DEF MoveRemote
  <2>2. GetMD5(n) \in Files \cup {NoMD5}
    BY <1>1 DEF GetMD5, ResourceRec
  <2>3. q \in ResourceRec /\ q.src = res[n].src /\ q.kind = res[n].kind /\ q.id = res[n].id /\ q.etag = res[n].etag
    BY <1>1, <2>2, ZenonT(30) DEF ResourceRec
  <2> HIDE DEF q
  <2>4. QED
    BY <1>2, <1>5, <1>16, <2>1, <2>3
<1>18. ASSUME NEW m \in Node, MoveLocal(n, m), ctime'[n] \in Nat PROVE VisitMemory(n)
  <2> DEFINE q == [res[n] EXCEPT !.ctime = ctime'[n]]
  <2>1. m \in Moved(n) /\ (Visited(n, Renamed(n, m, q)) \/ Died)
    BY <1>18 DEF MoveLocal
  <2>2. q \in ResourceRec /\ q.src = res[n].src /\ q.kind = res[n].kind /\ q.id = res[n].id /\ q.etag = res[n].etag
    BY <1>1, <1>18, ZenonT(30) DEF ResourceRec
  <2> HIDE DEF q
  <2>3. QED
    BY <1>2, <1>5, <1>16, <2>1, <2>2
<1>19. CASE CallFails(n) \/ LostReply(n) \/ \E m \in Node : LostMove(n, m)
  BY <1>4, <1>19 DEF CallFails, LostReply, LostMove
<1>20. CASE Abort(n)
  BY <1>5, <1>20 DEF Abort
<1>21. ctime'[n] \in Nat
  BY SyncSelfType DEF TypeOK, DiskOK
<1>22. QED
  BY <1>11, <1>12, <1>13, <1>14, <1>15, <1>17, <1>18, <1>19, <1>20, <1>21 DEF SyncSelf

\* Nothing joins what waits to be visited, and what was visited leaves it.
LEMMA QueueShrinks ==
    ASSUME TypeOK, RootInv, phase = "sync", NEW n \in Node, Turn(n),
           pending' \subseteq (pending \ {n}) \cup Children(n)
    PROVE  ~Waits(pending', n) /\ \A k \in Node : Waits(pending', k) => Waits(pending, k)
<1>1. n \in pending /\ pending \subseteq Node /\ Queued(res, pending)
  BY DEF Turn, TypeOK, MemoryOK, RootInv, RunInv, Running, Between
<1>2. \A k \in Children(n) : k \in Under[n]
  BY TreeAssumption DEF Children
<1>3. \A k \in Under[n] : k # n /\ n \notin Under[k] /\ Under[k] \subseteq Under[n]
  BY TreeAssumption
<1>4. \A k \in pending : n \notin Under[k]
  BY <1>1 DEF Queued
<1>5. ~Waits(pending', n)
  BY <1>1, <1>2, <1>3, <1>4 DEF Waits
<1>6. ASSUME NEW k \in Node, Waits(pending', k) PROVE Waits(pending, k)
  BY <1>1, <1>2, <1>3, <1>6 DEF Waits
<1>7. QED
  BY <1>5, <1>6

\* A resource to visit that is to be made has no object that the run could take.
LEMMA NothingThere ==
    ASSUME SeenInv, phase = "sync", NEW n \in pending, n \in Node, res[n].src # "none",
           res[n].state = "local_new"
    PROVE  (remote[n].thing = Absent \/ remote[n].multi) /\ remote[n].thing # Dir
<1>1. ListedInv /\ n \notin Hides[m_ign]
  BY DEF SeenInv, Known, Visible, Running, Between
<1>2. ~res[n].id
  BY <1>1 DEF ListedInv, Knows
<1>3. seen[n].thing = Absent \/ seen[n].multi
  BY <1>1, <1>2 DEF ListedInv, AllApplied, Accounted
<1>4. remote[n].thing = Absent \/ remote[n].multi
  BY <1>1, <1>3 DEF ListedInv, UpToDate, Waits
<1>5. QED
  BY <1>4, ThingAssumption DEF SeenInv, ServerInv, Shared

\* A resource that has the etag of the object has the object that was listed.
LEMMA SameAsListed ==
    ASSUME SeenInv, ServerOK, seen \in [Node -> RemoteObj], phase = "sync", NEW n \in Node,
           res[n].state # "sync", remote[n].thing # Absent, remote[n].etag = res[n].etag
    PROVE  res[n].id /\ remote[n] = seen[n]
<1>1. ListedInv /\ remote[n].etag \in Nat /\ seen[n].etag \in Nat /\ remote[n].etag > 0
  BY DEF SeenInv, Known, ServerInv, Stamped, ServerOK, RemoteObj
<1>2. res[n].id /\ res[n].etag = seen[n].etag
  BY <1>1 DEF ListedInv, Knows
<1>3. remote[n] = seen[n] \/ remote[n].etag > seen[n].etag
  BY <1>1 DEF ListedInv, UpToDate
<1>4. QED
  BY <1>1, <1>2, <1>3

\* What is moved is no folder.
LEMMA MovedThing ==
    ASSUME SeenInv, TypeOK, phase = "sync", NEW n \in Node, NEW m \in Moved(n),
           res[n].state = "local_new", remote[m].thing # Absent
    PROVE  m \in Node /\ m # n /\ m \notin Hides[m_ign] /\ remote[m].thing \in Files
<1>1. /\ m \in Node /\ m # n /\ res[m].src # "none" /\ res[m].state = "local_deleted"
      /\ res[m].md5 # NoMD5
  BY DEF Moved, FindByMD5
<1>2. ListedInv /\ m \notin Hides[m_ign]
  BY <1>1 DEF SeenInv, Known, Visible, Running, Between
<1>3. remote[m].thing \in RemoteThing
  BY <1>1 DEF TypeOK, ServerOK, RemoteObj
<1>4. ASSUME remote[m].thing = Dir PROVE FALSE
  <2>1. seen[m].thing = Dir
    BY <1>1, <1>2, <1>4 DEF ListedInv, UpToDate
  <2>2. res[m].id
    BY <1>1, <1>2, <2>1, ThingAssumption DEF ListedInv, AllApplied, Accounted, Shared
  <2>3. res[m].md5 = NoMD5
    BY <1>1, <1>2, <2>1, <2>2, ThingAssumption DEF ListedInv, Knows, MD5Of
  <2>4. QED
    BY <1>1, <2>3
<1>5. QED
  BY <1>1, <1>2, <1>3, <1>4 DEF RemoteThing

\* A visit keeps the server in order, and changes it softly but where it makes something.
LEMMA EffectKeeps ==
    ASSUME TypeOK, SeenInv, phase = "sync", NEW n \in pending, n \in Node, res[n].src # "none",
           ServerEffect(n)
    PROVE  /\ ServerInv' /\ ver' >= ver
           /\ \A k \in Node :
                 Softly(k) \/ (k = n /\ Anew(k) /\ res[n].state = "local_new")
<1>1. /\ ver \in Nat /\ ServerOK /\ remote \in [Node -> RemoteObj] /\ ServerInv
      /\ local[n] \in LocalThing /\ remote[n] \in RemoteObj
  BY DEF TypeOK, ServerOK, SeenInv, DiskOK
<1>2. CASE UNCHANGED server
  BY <1>1, <1>2 DEF server, ServerInv, ServerTree, Shared, Stamped, Softly
<1>3. CASE res[n].state = "local_new" /\ SendNew(n)
  <2> DEFINE t == IF IsFolder(res[n]) THEN Dir ELSE local[n]
             o == [thing |-> t, etag |-> ver + 1, mtime |-> ver + 1, multi |-> FALSE]
  <2>1. OnServer(Parent[n]) /\ t \in RemoteThing \ {Absent}
    BY <1>3, ThingAssumption DEF SendNew, CanCreate, Readable, RemoteThing
  <2>2. remote' = [remote EXCEPT ![n] = o] /\ ver' = ver + 1
    BY <1>3 DEF SendNew, ServerAdd, WriteServer
  <2> HIDE DEF t
  <2>3. o \in RemoteObj /\ o.thing = t /\ o.etag = ver + 1 /\ ~o.multi
    BY <1>1, <2>1 DEF RemoteObj
  <2>4. remote[n].thing # Dir
    BY <1>3, NothingThere
  <2> HIDE DEF o
  <2>5. ServerInv' /\ Anew(n) /\ \A k \in Node : k = n \/ Softly(k)
    BY <1>1, <2>1, <2>2, <2>3, <2>4, ServerAddKeeps
  <2>6. QED
    BY <1>1, <1>3, <2>2, <2>5
<1>4. CASE res[n].state = "local_changed" /\ SendEdit(n)
  <2> DEFINE t == IF IsFolder(res[n]) THEN remote[n].thing ELSE local[n]
  <2>1. /\ remote[n].thing # Absent /\ ServerPut(n, t)
        /\ IsFolder(res[n]) \/ (remote[n].etag = res[n].etag /\ local[n] \in Files)
    BY <1>4 DEF SendEdit, CanEdit, Readable
  <2>2. t = remote[n].thing \/ (remote[n].thing \in Files /\ t \in Files)
    <3>1. CASE IsFolder(res[n])
      BY <3>1
    <3>2. CASE ~IsFolder(res[n])
      <4>1. remote[n] = seen[n]
        BY <1>1, <1>4, <2>1, <3>2, SameAsListed DEF SeenInv
      <4>2. seen[n].thing \in Files
        BY <1>4 DEF SeenInv, Known, ListedInv, Knows
      <4>3. QED
        BY <2>1, <3>2, <4>1, <4>2
    <3>3. QED
      BY <3>1, <3>2
  <2>3. t \in RemoteThing
    BY <1>1, <2>2 DEF RemoteObj, RemoteThing
  <2> HIDE DEF t
  <2>4. ServerInv' /\ ver' = ver + 1 /\ \A k \in Node : Softly(k)
    BY <1>1, <2>1, <2>2, <2>3, ServerPutKeeps
  <2>5. QED
    BY <1>1, <2>4
<1>5. CASE ServerTrash(n)
  BY <1>1, <1>5, ServerTrashKeeps
<1>6. ASSUME NEW m \in Moved(n), res[n].state = "local_new", CanMoveRemote(n),
             remote[m].thing # Absent, ServerMove(m, n)
      PROVE  /\ ServerInv' /\ ver' = ver + 1
             /\ Anew(n) /\ \A k \in Node : k = n \/ Softly(k)
  <2>1. m \in Node /\ m # n /\ remote[m].thing \in Files
    BY <1>6, MovedThing
  <2>2. OnServer(Parent[n]) /\ remote[n].thing # Dir
    BY <1>6, NothingThere DEF CanMoveRemote
  <2>3. QED
    BY <1>1, <1>6, <2>1, <2>2, ServerMoveKeeps
<1>7. QED
  BY <1>1, <1>2, <1>3, <1>4, <1>5, <1>6 DEF ServerEffect

LEMMA SyncSelfSeen ==
    ASSUME TypeOK, TypeOK', RootInv, SeenInv, NEW n \in Node, SyncSelf(n), seen' = seen
    PROVE  SeenInv'
<1>1. phase = "sync" /\ Turn(n) /\ ServerEffect(n) /\ VisitMemory(n)
  BY VisitNeedsWalk, VisitEffect, VisitRemembers
<1>2. n \in pending /\ res[n].src # "none"
  BY <1>1 DEF Turn, RootInv, RunInv, Running, Between, Queued
<1>3. /\ ServerInv' /\ ver' >= ver
      /\ \A k \in Node : Softly(k) \/ (k = n /\ Anew(k) /\ res[n].state = "local_new")
  BY <1>1, <1>2, EffectKeeps
<1>4. ListedInv
  BY <1>1 DEF SeenInv, Known
<1>5. CASE phase' = "aborted"
  BY <1>3, <1>5 DEF SeenInv, Visible, Running, Between, Known, Unlisted
<1>6. CASE /\ phase' = phase /\ m_ign' = m_ign
           /\ pending' \subseteq (pending \ {n}) \cup Children(n)
           /\ \A k \in Node : Settled(res[k], res'[k])
  <2>1. ~Waits(pending', n) /\ \A k \in Node : Waits(pending', k) => Waits(pending, k)
    BY <1>1, <1>6, QueueShrinks
  <2>2. \A k \in Node : res'[k].src = res[k].src
    BY <1>6 DEF Settled
  <2>3. \A k \in Node : res[k].id => res'[k].id
    BY <1>6 DEF Settled
  <2>4. \A k \in Node : res[k].state \in {"local_new", "sync"} =>
                             res'[k].state \in {"local_new", "sync"}
    BY <1>6 DEF Settled, Deleted
  <2>5. phase' = "sync" /\ m_ign' = m_ign
    BY <1>1, <1>6
  <2>6. UpToDate'
    <3>1. \A k \in Node :
             \/ Softly(k)
             \/ /\ Anew(k) /\ phase' = "sync" /\ ~Waits(pending', k)
                /\ remote'[k].thing = Dir => res'[k].state \in {"local_new", "sync"}
      BY <1>3, <2>1, <2>4, <2>5
    <3>2. /\ seen \in [Node -> RemoteObj] /\ ServerOK /\ ServerOK' /\ UpToDate
          /\ Known /\ phase' \in {phase, "sync"}
      BY <1>1, <1>4, <2>5 DEF SeenInv, ListedInv, TypeOK, Known
    <3>3. QED
      BY <1>3, <2>1, <2>4, <3>1, <3>2, UpToDateAfter
  <2>7. AllApplied'
    <3>1. \A k \in Node : Accounted(k)
      BY <1>1, <1>4 DEF ListedInv, AllApplied
    <3>2. \A k \in Node : Accounted(k)'
      BY <2>3, <2>5, <3>1 DEF Accounted
    <3>3. QED
      BY <2>5, <3>2 DEF AllApplied
  <2>8. \A k \in Node : Knows(res'[k], seen'[k], phase' = "sync")
    <3>1. \A k \in Node : Knows(res[k], seen[k], TRUE)
      BY <1>1, <1>4 DEF ListedInv, Knows
    <3>2. \A k \in Node : Knows(res'[k], seen[k], TRUE)
      BY <1>6, <3>1, SettledKnows
    <3>3. QED
      BY <2>5, <3>2
  <2>9. Visible'
    BY <1>1, <2>2, <2>5 DEF SeenInv, Visible, Running, Between
  <2>10. QED
    BY <1>1, <1>3, <1>4, <2>6, <2>7, <2>8, <2>9, <2>5
    DEF SeenInv, ListedInv, ServerTree, Shared, Unlisted
<1>7. QED
  BY <1>1, <1>5, <1>6 DEF VisitMemory

-------------------------------------------------------------------------------
(* The runs.                                                               *)

LEMMA InitSeen == HInit => SeenInv
<1> SUFFICES ASSUME HInit PROVE SeenInv
  OBVIOUS
<1>1. PICK f \in Trees : remote = Objects(f)
  BY DEF HInit, Init
<1>2. /\ seen = NoFeed /\ ver = 1 /\ phase = "idle"
      /\ f \in [Node -> Content \cup {Absent, Dir}]
      /\ \A n \in Node : f[n] # Absent => \A p \in Node : n \in Under[p] => f[p] = Dir
  BY DEF HInit, Init, Trees
<1>3. \A n \in Node : remote[n] = IF f[n] = Absent THEN NoObj
                                 ELSE [thing |-> f[n], etag |-> 1, mtime |-> 1, multi |-> FALSE]
  BY <1>1 DEF Objects
<1>4. ASSUME NEW n \in Node
      PROVE  remote[n].thing = f[n] /\ ~remote[n].multi /\ remote[n].etag = IF f[n] = Absent THEN 0 ELSE 1
  <2>1. CASE f[n] = Absent
    <3>1. remote[n] = NoObj
      BY <1>3, <2>1
    <3>2. QED
      BY <2>1, <3>1 DEF NoObj
  <2>2. CASE f[n] # Absent
    <3>1. remote[n] = [thing |-> f[n], etag |-> 1, mtime |-> 1, multi |-> FALSE]
      BY <1>3, <2>2
    <3>2. QED
      BY <2>2, <3>1
  <2>3. QED
    BY <2>1, <2>2
<1>5. ServerTree(remote)
  <2> SUFFICES ASSUME NEW n \in Node, remote[n].thing # Absent, Parent[n] # Root
               PROVE  remote[Parent[n]].thing = Dir
    BY DEF ServerTree
  <2>1. Parent[n] \in Node /\ n \in Under[Parent[n]]
    BY TreeAssumption
  <2>2. QED
    BY <1>2, <1>4, <2>1
<1>6. Shared(remote) /\ Stamped
  <2>1. Shared(remote)
    BY <1>4 DEF Shared
  <2>2. Stamped
    BY <1>2, <1>4 DEF Stamped
  <2>3. QED
    BY <2>1, <2>2
<1>7. seen \in [Node -> RemoteObj]
  BY <1>2, NoObjType DEF NoFeed
<1>8. QED
  BY <1>2, <1>5, <1>6, <1>7 DEF SeenInv, ServerInv, Visible, Running, Between, Unlisted, Known

LEMMA NextServer ==
    ASSUME TypeOK, RootInv, SeenInv, [Next]_vars
    PROVE  ServerInv'
<1>1. CASE UNCHANGED <<remote, ver>>
  BY <1>1 DEF SeenInv, ServerInv, ServerTree, Shared, Stamped
<1>2. CASE People
  BY <1>2, PeopleServer DEF SeenInv
<1>3. ASSUME NEW n \in Node, SyncSelf(n) PROVE ServerInv'
  <2>1. phase = "sync" /\ Turn(n) /\ ServerEffect(n)
    BY <1>3, VisitNeedsWalk, VisitEffect
  <2>2. n \in pending /\ res[n].src # "none"
    BY <2>1 DEF Turn, RootInv, RunInv, Running, Between, Queued
  <2>3. QED
    BY <2>1, <2>2, EffectKeeps
<1>4. QED
  BY <1>1, <1>2, <1>3
  DEF Next, Run, Start, GetAll, ListEntry, ResolveEntry, SaveState, Die, TornSave, server, vars

LEMMA NextSeen ==
    ASSUME TypeOK, TypeOK', RootInv, SeenInv, [HNext]_allvars
    PROVE  SeenInv'
<1>1. CASE UNCHANGED allvars
  BY <1>1 DEF allvars, vars, history, SeenInv, ServerInv, ServerTree, Shared, Stamped, Visible,
     Running, Between, Unlisted, Known, ListedInv, AllApplied, Accounted, UpToDate, Waits
<1>2. ASSUME HNext PROVE SeenInv'
  <2>1. Next /\ ServerInv'
    BY <1>2, NextServer DEF HNext
  <2>2. seen' = IF GetAll THEN remote ELSE IF Between' THEN NoFeed ELSE seen
    BY <1>2 DEF HNext
  <2>3. seen' \in [Node -> RemoteObj]
    BY <2>2, NoObjType DEF SeenInv, TypeOK, ServerOK, NoFeed
  <2>4. CASE Between'
    BY <2>1, <2>3, <2>4 DEF SeenInv, Between, Visible, Running, Unlisted, Known
  <2>5. CASE ~Between'
    <3>1. GetAll => phase = "list" /\ phase' = "resolve"
      BY DEF GetAll
    <3>2. phase \in {"resolve", "sync"} \/ phase' = phase => ~GetAll /\ seen' = seen
      BY <2>2, <2>5, <3>1
    <3>3. CASE People
      <4>1. phase' = phase
        BY <3>3, PeopleServer DEF SeenInv, memory
      <4>2. QED
        BY <3>2, <3>3, <4>1, PeopleSeen
    <3>4. ASSUME NEW o \in Options, NEW i \in Ignores, Start(o, i) PROVE SeenInv'
      BY <2>3, <3>4, StartSeen
    <3>5. CASE GetAll
      BY <2>2, <3>5, GetAllSeen
    <3>6. ASSUME NEW n \in Node, ListEntry(n) PROVE SeenInv'
      <4>1. phase = "resolve"
        BY <3>6 DEF ListEntry
      <4>2. QED
        BY <3>2, <3>6, <4>1, ListEntrySeen
    <3>7. CASE ResolveEntry
      <4>1. phase = "resolve"
        BY <3>7 DEF ResolveEntry
      <4>2. QED
        BY <3>2, <3>7, <4>1, ResolveSeen
    <3>8. ASSUME NEW n \in Node, SyncSelf(n) PROVE SeenInv'
      <4>1. phase = "sync"
        BY <3>8, VisitNeedsWalk
      <4>2. QED
        BY <3>2, <3>8, <4>1, SyncSelfSeen
    <3>9. ~SaveState /\ ~Die /\ ~TornSave
      BY <2>5 DEF SaveState, Die, TornSave, Between
    <3>10. QED
      BY <2>1, <3>3, <3>4, <3>5, <3>6, <3>7, <3>8, <3>9 DEF Next, Run
  <2>6. QED
    BY <2>4, <2>5
<1>3. QED
  BY <1>1, <1>2

LEMMA SeenInvariant == HSpec => [](TypeOK /\ RootInv /\ SeenInv)
<1>1. HInit => Init
  BY DEF HInit
<1>2. [HNext]_allvars => [Next]_vars
  BY DEF HNext, allvars
<1>3. HSpec => Spec
  BY <1>1, <1>2, PTL DEF HSpec, Spec
<1>4. TypeOK /\ TypeOK' /\ RootInv /\ SeenInv /\ [HNext]_allvars => SeenInv'
  BY NextSeen
<1>5. QED
  BY <1>3, <1>4, InitSeen, TypeCorrect, RootInvariant, PTL DEF HSpec

\* A visit spares what changed on the server since the listing.
LEMMA VisitSpares ==
    ASSUME TypeOK, SeenInv, phase = "sync", NEW v \in pending, v \in Node, res[v].src # "none",
           ServerEffect(v),
           NEW n \in Node, remote[n] # seen[n], remote[n].thing \in Content, ~remote[n].multi
    PROVE  \/ \E k \in Node : remote'[k].thing = remote[n].thing
           \/ /\ n \in Under[v]
              /\ remote[v].thing # Absent /\ remote'[v].thing = Absent
<1>1. /\ ver \in Nat /\ ServerOK /\ remote \in [Node -> RemoteObj] /\ ServerInv
      /\ remote[v] \in RemoteObj
  BY DEF TypeOK, ServerOK, SeenInv
<1>2. remote[n].thing # Absent
  BY ThingAssumption DEF Files
<1>3. ~(n = v /\ res[v].state = "local_new")
  BY <1>2, NothingThere
<1>4. ASSUME res[v].state = "local_new", SendNew(v)
      PROVE  remote'[n] = remote[n]
  BY <1>1, <1>3, <1>4 DEF SendNew, ServerAdd, WriteServer
<1>5. ASSUME res[v].state = "local_changed", SendEdit(v)
      PROVE  remote'[n].thing = remote[n].thing
  <2>1. CASE n # v
    BY <1>1, <1>5, <2>1 DEF SendEdit, ServerPut, WriteServer
  <2>2. CASE n = v
    <3>1. IsFolder(res[v])
      BY <1>1, <1>2, <1>5, <2>2, SameAsListed DEF SendEdit, CanEdit, SeenInv
    <3>2. ServerPut(v, remote[v].thing)
      BY <1>5, <3>1 DEF SendEdit
    <3>3. remote'[v] = [remote[v] EXCEPT !.thing = remote[v].thing, !.etag = ver + 1, !.mtime = ver + 1]
      BY <1>1, <3>2 DEF ServerPut, WriteServer
    <3>4. QED
      BY <1>1, <2>2, <3>3 DEF RemoteObj
  <2>3. QED
    BY <2>1, <2>2
<1>6. ASSUME res[v].state = "local_deleted", CanTrash(v), ServerTrash(v), n \notin Under[v]
      PROVE  remote'[n] = remote[n]
  <2>1. n # v
    BY <1>1, <1>2, <1>6, SameAsListed DEF CanTrash, SeenInv
  <2>2. QED
    BY <1>1, <1>6, <2>1, ServerTrashKeeps
<1>7. ASSUME res[v].state = "local_deleted", CanTrash(v), ServerTrash(v)
      PROVE  remote[v].thing # Absent /\ remote'[v].thing = Absent
  BY <1>1, <1>7, ServerTrashKeeps DEF CanTrash
<1>8. ASSUME NEW m \in Moved(v), res[v].state = "local_new", CanMoveRemote(v),
             remote[m].thing # Absent, ServerMove(m, v)
      PROVE  \E k \in Node : remote'[k].thing = remote[n].thing
  <2>1. m \in Node /\ m # v /\ remote[m].thing \in Files
    BY <1>8, MovedThing
  <2>2. OnServer(Parent[v]) /\ remote[v].thing # Dir
    BY <1>8, NothingThere DEF CanMoveRemote
  <2>3. /\ remote'[v].thing = remote[m].thing
        /\ \A k \in Node : k \in {m, v} \/ remote'[k] = remote[k]
    BY <1>1, <1>8, <2>1, <2>2, ServerMoveKeeps
  <2>4. QED
    BY <1>3, <1>8, <2>3
<1>9. CASE UNCHANGED server
  BY <1>9 DEF server
<1>10. QED
  BY <1>4, <1>5, <1>6, <1>7, <1>8, <1>9 DEF ServerEffect

\* What somebody changes on the server after it was listed is not lost, for every tree and
\* whatever was done and failed before: the resource knows the etag that was listed, which
\* no later object has (If-Match of Syncer2), and what is made is made where nothing was
\* listed.
THEOREM ChangesAreSpared == HSpec => NoLostUpdate
<1> DEFINE spared(n) ==
        remote[n] # seen[n] /\ remote[n].thing \in Content /\ ~remote[n].multi
           => \/ remote[n].thing \in ServerFiles'
              \/ \E m \in Node : /\ n \in Under[m]
                                 /\ remote[m].thing # Absent /\ remote'[m].thing = Absent
<1>1. TypeOK /\ RootInv /\ SeenInv /\ [HNext]_allvars =>
         [ByGrive => \A n \in Node : spared(n)]_allvars
  <2> SUFFICES ASSUME TypeOK, RootInv, SeenInv, HNext, ByGrive, NEW n \in Node,
                      remote[n] # seen[n], remote[n].thing \in Content, ~remote[n].multi
               PROVE  \/ remote[n].thing \in ServerFiles'
                      \/ \E m \in Node : /\ n \in Under[m]
                                         /\ remote[m].thing # Absent
                                         /\ remote'[m].thing = Absent
    OBVIOUS
  <2>1. Next /\ ~People
    BY PeopleCounted DEF HNext
  <2>2. ASSUME NEW k \in Node, remote'[k].thing = remote[n].thing
        PROVE  remote[n].thing \in ServerFiles'
    BY <2>2 DEF ServerFiles
  <2>3. CASE UNCHANGED server
    BY <2>2, <2>3 DEF server
  <2>4. ASSUME NEW v \in Node, SyncSelf(v)
        PROVE  \/ \E k \in Node : remote'[k].thing = remote[n].thing
               \/ /\ n \in Under[v]
                  /\ remote[v].thing # Absent /\ remote'[v].thing = Absent
    <3>1. phase = "sync" /\ Turn(v) /\ ServerEffect(v)
      BY <2>4, VisitNeedsWalk, VisitEffect
    <3>2. v \in pending /\ res[v].src # "none"
      BY <3>1 DEF Turn, RootInv, RunInv, Running, Between, Queued
    <3>3. QED
      BY <3>1, <3>2, VisitSpares
  <2>5. UNCHANGED server \/ \E v \in Node : SyncSelf(v)
    BY <2>1 DEF Next, Run, Start, GetAll, ListEntry, ResolveEntry, SaveState, Die, TornSave
  <2>6. QED
    BY <2>2, <2>3, <2>4, <2>5
<1>2. QED
  BY <1>1, SeenInvariant, PTL DEF HSpec, NoLostUpdate

\* What a visit does not hide: itself, and what it moves.
LEMMA VisitVisible ==
    ASSUME TypeOK, RootInv, SeenInv, NEW v \in Node, SyncSelf(v)
    PROVE  v \notin Hides[m_ign] /\ \A m \in Moved(v) : m \in Node /\ m \notin Hides[m_ign]
<1>1. phase = "sync" /\ Turn(v)
  BY VisitNeedsWalk, VisitEffect
<1>2. Visible /\ Running
  BY <1>1 DEF SeenInv, Running, Between
<1>3. res[v].src # "none"
  BY <1>1, <1>2 DEF Turn, RootInv, RunInv, Queued
<1>4. \A m \in Moved(v) : m \in Node /\ res[m].src # "none"
  BY DEF Moved, FindByMD5
<1>5. QED
  BY <1>2, <1>3, <1>4 DEF Visible

\* A run changes what it hides on neither side, unless with its folder: for every tree and
\* every expression, no resource is made for a hidden path in either pass, and a visit
\* touches what has a resource, and what is below.
THEOREM HiddenStays == HSpec => HiddenUntouched
<1> DEFINE spared(n) ==
        \/ local'[n] = local[n] /\ remote'[n] = remote[n]
        \/ \E m \in Node : n \in Under[m] /\ Absent \in {local'[m], remote'[m].thing}
<1>1. TypeOK /\ RootInv /\ SeenInv /\ [HNext]_allvars =>
         [ByGrive => \A n \in Hides[m_ign] : spared(n)]_allvars
  <2> SUFFICES ASSUME TypeOK, RootInv, SeenInv, HNext, ByGrive, NEW n \in Hides[m_ign],
                      ~\E m \in Node : n \in Under[m] /\ Absent \in {local'[m], remote'[m].thing}
               PROVE  local'[n] = local[n] /\ remote'[n] = remote[n]
    OBVIOUS
  <2>1. Next /\ ~People
    BY PeopleCounted DEF HNext
  <2>2. n \in Node /\ ServerOK /\ local \in [Node -> LocalThing] /\ remote \in [Node -> RemoteObj]
    BY GriveAssumption DEF TypeOK, MemoryOK, DiskOK, ServerOK
  <2>3. UNCHANGED disk \/ \E v \in Node : SyncSelf(v)
    BY <2>1 DEF Next, Run, Start, GetAll, ListEntry, ResolveEntry, SaveState, Die, TornSave
  <2>4. UNCHANGED server \/ \E v \in Node : SyncSelf(v)
    BY <2>1 DEF Next, Run, Start, GetAll, ListEntry, ResolveEntry, SaveState, Die, TornSave
  <2>5. ASSUME NEW v \in Node, SyncSelf(v)
        PROVE  local'[n] = local[n] /\ remote'[n] = remote[n]
    <3>1. n # v /\ \A m \in Moved(v) : m \in Node /\ n # m
      BY <2>5, VisitVisible
    <3>2. ServerEffect(v) /\ DiskEffect(v)
      BY <2>5, VisitEffect
    <3>3. local'[n] = local[n]
      <4>1. CASE UNCHANGED disk
        BY <4>1 DEF disk
      <4>2. ASSUME NEW t, DiskPut(v, t) PROVE local'[n] = local[n]
        BY <2>2, <3>1, <4>2 DEF DiskPut, WriteDisk
      <4>3. CASE DiskRemove(v)
        <5>1. local'[v] = Absent
          BY <4>3 DEF DiskRemove, WriteDisk
        <5>2. n \notin Under[v]
          BY <5>1
        <5>3. QED
          BY <2>2, <3>1, <4>3, <5>2 DEF DiskRemove, WriteDisk
      <4>4. ASSUME NEW m \in Moved(v), DiskMove(m, v) PROVE local'[n] = local[n]
        BY <2>2, <3>1, <4>4 DEF DiskMove, WriteDisk
      <4>5. QED
        BY <3>2, <4>1, <4>2, <4>3, <4>4 DEF DiskEffect
    <3>4. remote'[n] = remote[n]
      <4>1. CASE UNCHANGED server
        BY <4>1 DEF server
      <4>2. CASE SendNew(v) \/ SendEdit(v)
        BY <2>2, <3>1, <4>2 DEF SendNew, SendEdit, ServerAdd, ServerPut, WriteServer
      <4>3. CASE ServerTrash(v)
        <5>1. remote'[v].thing = Absent
          BY <4>3 DEF ServerTrash, WriteServer, NoObj
        <5>2. n \notin Under[v]
          BY <5>1
        <5>3. QED
          BY <2>2, <3>1, <4>3, <5>2 DEF ServerTrash, WriteServer
      <4>4. ASSUME NEW m \in Moved(v), ServerMove(m, v) PROVE remote'[n] = remote[n]
        BY <2>2, <3>1, <4>4 DEF ServerMove, WriteServer
      <4>5. QED
        BY <3>2, <4>1, <4>2, <4>3, <4>4 DEF ServerEffect
    <3>5. QED
      BY <3>3, <3>4
  <2>6. QED
    BY <2>3, <2>4, <2>5 DEF disk, server
<1>2. QED
  BY <1>1, SeenInvariant, PTL DEF HSpec, HiddenUntouched

-------------------------------------------------------------------------------
(* What was hidden when it went from the disk.                             *)

\* What a run finds here is not deleted here, and only what it finds is new here.
HereOrNot(r) ==
    /\ r.src = "local" => r.state # "local_deleted"
    /\ r.state \in {"local_new", "local_changed"} => r.src = "local"

\* Before the walk what exists is what the scan found, in folders that it found.
FoundIn(r, f) ==
    /\ r.exists <=> r.src = "local" /\ r.kind # "bad"
    /\ r.kind = "bad" => r.src = "local"
    /\ r.src = "local" => f.src = "local"

\* n is one of those, the run does not hide it, and has not found it on the disk.
Unmet(n) == n \in unseen /\ n \notin Hides[m_ign] /\ res[n].src # "local"

\* A folder above n is known to be gone from the disk.
GoneWith(n) ==
    \E m \in Node :
        /\ n \in Under[m]
        /\ res[m].state = "local_deleted" /\ res[m].id /\ res[m].md5 = NoMD5

\* The next save leaves no time of the server for n.
LeavesNoTime(n) ==
    ~Dry /\ "no-remote-new" \notin opt /\ FoundFolder(Parent[n]) /\ st[n].has
        => st[n].srv = 0 \/ (phase = "sync" /\ res[n].state = "sync")

\* Its entry is newer than what is known of it, so that it is not taken for deleted, but
\* with its folder.
TakenForNew(n) ==
    /\ phase # "sync" /\ ~res[n].id => res[n].mtime = 0
    /\ res[n].src # "none" /\ res[n].state = "local_deleted" => GoneWith(n)
    /\ LeavesNoTime(n)

\* The records of those paths have no time, or the last run that saved hid them.
Aged == \A n \in unseen : index[n].has => index[n].srv = 0 \/ n \in Hides[ignored]

\* An entry is applied once, and has a time.
Untouched == phase = "resolve" => \A n \in Node : Listed(n) => ~res[n].id /\ feed[n].mtime > 0

HideInv ==
    /\ Timed /\ unseen \subseteq Node /\ Aged
    /\ Running =>
          /\ \A n \in Node : HereOrNot(res[n])
          /\ phase # "sync" => \A n \in Node : FoundIn(res[n], Res(Parent[n]))
          /\ Untouched
          /\ \A n \in Node : Unmet(n) => TakenForNew(n)

\* Between two runs only the records matter.
LEMMA RestHide ==
    ASSUME Timed', unseen' \subseteq Node, Aged', Between'
    PROVE  HideInv'
BY DEF HideInv, Running

\* People change nothing of what a run knows.
LEMMA SameHide ==
    ASSUME HideInv, Timed', UNCHANGED <<index, ignored, st, res, feed, phase, opt, m_ign, unseen>>
    PROVE  HideInv'
<1>1. Aged'
  BY DEF Aged, HideInv
<1>2. \A n \in Node : /\ Unmet(n)' <=> Unmet(n)
                      /\ TakenForNew(n)' <=> TakenForNew(n)
  BY DEF Unmet, TakenForNew, GoneWith, LeavesNoTime, Dry, FoundFolder, Res
<1>3. Untouched' <=> Untouched
  BY DEF Untouched, Listed
<1>4. QED
  BY <1>1, <1>2, <1>3 DEF HideInv, Running, Between, Res

\* A record that an expression kept from the scan loses its time when the expression goes
\* (m_ign_changed), before the resource gets it.
LEMMA StartHide ==
    ASSUME TypeOK, RootInv, HideInv, Timed', NEW o \in Options, NEW i \in Ignores, Start(o, i),
           unseen' = unseen
    PROVE  HideInv'
<1>1. /\ phase' = "list" /\ opt' = o /\ m_ign' = i /\ UNCHANGED <<local, ctime, index, ignored>>
      /\ \A n \in Node : st'[n] = Scanned(index[n], n, o, i)
      /\ \A n \in Node : res'[n] = ScannedRes(st', n, i)
  BY DEF Start, disk, saved
<1>2. Aged' /\ unseen' \subseteq Node
  BY <1>1 DEF HideInv, Aged
<1>3. \A n \in Node : Found(n, i) /\ Parent[n] # Root => Found(Parent[n], i) /\ local[Parent[n]] = Dir
  <2> SUFFICES ASSUME NEW n \in Node, Found(n, i), Parent[n] # Root
               PROVE  Found(Parent[n], i) /\ local[Parent[n]] = Dir
    OBVIOUS
  <2>1. Parent[n] \in Node /\ n \in Under[Parent[n]]
    BY TreeAssumption
  <2>2. Parent[n] \notin Hides[i]
    BY <2>1, GriveAssumption DEF Found
  <2>3. QED
    BY <2>1, <2>2, ThingAssumption DEF Found, RootInv, DiskTree
<1>4. ASSUME NEW n \in Node
      PROVE  /\ Found(n, i) =>
                  /\ res'[n].src = "local" /\ res'[n].state # "local_deleted"
                  /\ res'[n].exists <=> local[n] # Bad
                  /\ res'[n].kind = IF local[n] = Bad THEN "bad"
                                    ELSE IF local[n] = Dir THEN "folder" ELSE "file"
             /\ ~Found(n, i) =>
                  /\ res'[n].src # "local" /\ ~res'[n].exists /\ res'[n].kind # "bad"
                  /\ res'[n].state \in {"both_deleted", "unknown"}
                  /\ res'[n].mtime = IF Missed(st'[n], n, i) THEN st'[n].srv ELSE 0
  <2>1. CASE Found(n, i) /\ local[n] = Bad
    BY <1>1, <2>1, ZenonT(30) DEF ScannedRes, FromLocal, NoRes
  <2>2. CASE Found(n, i) /\ local[n] # Bad
    <3>1. res'[n] = FromLocal(st'[n], local[n], ctime[n], NewBelow(st', n, i))
      BY <1>1, <2>2 DEF ScannedRes
    <3>2. /\ res'[n].src = "local" /\ res'[n].exists = TRUE
          /\ res'[n].state \in {"local_new", "remote_deleted"}
          /\ res'[n].kind = IF local[n] = Dir THEN "folder" ELSE "file"
      BY <2>2, <3>1 DEF FromLocal
    <3>3. QED
      BY <2>2, <3>2
  <2>3. CASE ~Found(n, i) /\ Missed(st'[n], n, i)
    <3>1. res'[n] = FromDeleted(st'[n])
      BY <1>1, <2>3 DEF ScannedRes
    <3>2. /\ res'[n].src = "index" /\ res'[n].exists = FALSE
          /\ res'[n].state = "both_deleted" /\ res'[n].mtime = st'[n].srv
      BY <3>1 DEF FromDeleted, NoRes
    <3>3. res'[n].kind = IF st'[n].tree THEN "folder" ELSE "file"
      BY <3>1 DEF FromDeleted, NoRes
    <3>4. QED
      BY <2>3, <3>2, <3>3
  <2>4. CASE ~Found(n, i) /\ ~Missed(st'[n], n, i)
    <3>1. res'[n] = NoRes
      BY <1>1, <2>4 DEF ScannedRes
    <3>2. /\ NoRes.src = "none" /\ NoRes.exists = FALSE /\ NoRes.state = "unknown"
          /\ NoRes.mtime = 0 /\ NoRes.kind = ""
      BY DEF NoRes
    <3>3. QED
      BY <2>4, <3>1, <3>2
  <2>5. QED
    BY <2>1, <2>2, <2>3, <2>4
<1>5. \A n \in Node : HereOrNot(res'[n])
  <2>1. \A n \in Node : ~Found(n, i) => res'[n].state \notin {"local_new", "local_changed"}
    BY <1>4
  <2>2. QED
    BY <1>4, <2>1 DEF HereOrNot
<1>6. \A n \in Node : FoundIn(res'[n], Res(Parent[n])')
  <2> SUFFICES ASSUME NEW n \in Node PROVE FoundIn(res'[n], Res(Parent[n])')
    OBVIOUS
  <2>1. res'[n].src = "local" => Res(Parent[n])'.src = "local"
    <3>1. RootRes.src = "local"
      BY DEF RootRes, NoRes
    <3>2. QED
      BY <1>3, <1>4, <3>1, TreeAssumption DEF Res
  <2>2. QED
    BY <1>4, <2>1 DEF FoundIn
<1>7. ASSUME NEW n \in Node, Unmet(n)', index[n].has, Missed(index[n], n, i) PROVE st'[n].srv = 0
  <2>1. n \in unseen /\ n \notin Hides[i] /\ n \in Node
    BY <1>1, <1>7 DEF Unmet
  <2>2. index[n] \in IndexRec
    BY <1>7 DEF TypeOK
  <2>3. CASE index[n].srv = 0
    BY <1>1, <2>2, <2>3 DEF Scanned, IndexRec
  <2>4. CASE n \in Hides[ignored]
    <3>1. IgnChanged(i)
      BY <2>1, <2>4, GriveAssumption DEF IgnChanged
    <3>2. st'[n] = [index[n] EXCEPT !.has = @ \/ Found(n, i),
                                    !.tree = @ \/ (Found(n, i) /\ local[n] = Dir), !.srv = 0]
      BY <1>1, <1>7, <3>1 DEF Scanned
    <3>3. QED
      BY <2>2, <3>2 DEF IndexRec
  <2>5. QED
    BY <1>7, <2>1, <2>3, <2>4 DEF HideInv, Aged
<1>8. ASSUME NEW n \in Node, Unmet(n)' PROVE TakenForNew(n)'
  <2>1. ~Found(n, i) /\ n \notin Hides[i] /\ local[n] = Absent
    <3>1. n \notin Hides[i] /\ res'[n].src # "local"
      BY <1>1, <1>8 DEF Unmet
    <3>2. QED
      BY <1>4, <3>1 DEF Found
  <2>2. st'[n].has = index[n].has
    <3>1. index[n] \in IndexRec
      BY DEF TypeOK
    <3>2. st'[n].has = (index[n].has \/ Found(n, i))
      BY <1>1, <3>1 DEF Scanned, IndexRec
    <3>3. QED
      BY <2>1, <3>1, <3>2 DEF Found, IndexRec
  <2>3. Missed(st'[n], n, i) => Missed(index[n], n, i) /\ index[n].has
    BY <2>2 DEF Missed
  <2>4. res'[n].mtime = 0
    BY <1>4, <1>7, <1>8, <2>1, <2>3
  <2>5. res'[n].state # "local_deleted"
    BY <1>4, <2>1
  <2>6. ASSUME FoundFolder(Parent[n])', st'[n].has PROVE st'[n].srv = 0
    <3>1. DirAt(local, Parent[n])
      <4>1. CASE Parent[n] = Root
        BY <4>1 DEF DirAt
      <4>2. CASE Parent[n] # Root
        <5>1. Parent[n] \in Node /\ res'[Parent[n]].src = "local" /\ res'[Parent[n]].kind = "folder"
          BY <2>6, <4>2, TreeAssumption DEF FoundFolder, Res, IsFolder
        <5>2. Found(Parent[n], i)
          BY <1>4, <5>1
        <5>3. local[Parent[n]] = Dir
          BY <1>4, <5>1, <5>2
        <5>4. QED
          BY <5>3 DEF DirAt
      <4>3. QED
        BY <4>1, <4>2
    <3>2. Missed(index[n], n, i) /\ index[n].has
      BY <2>1, <2>2, <2>6, <3>1 DEF Missed
    <3>3. QED
      BY <1>7, <1>8, <3>2
  <2>7. QED
    BY <2>4, <2>5, <2>6 DEF TakenForNew, LeavesNoTime
<1>9. Untouched'
  BY <1>1 DEF Untouched
<1>10. QED
  BY <1>2, <1>5, <1>6, <1>8, <1>9 DEF HideInv

\* The listing says when each of its objects was changed.
LEMMA GetAllHide ==
    ASSUME SeenInv, HideInv, Timed', GetAll, unseen' = unseen
    PROVE  HideInv'
<1>1. /\ phase = "list" /\ phase' = "resolve" /\ feed' = remote
      /\ UNCHANGED <<index, ignored, st, res, opt, m_ign>>
  BY DEF GetAll, saved
<1>2. Aged'
  BY <1>1 DEF Aged, HideInv
<1>3. \A n \in Node : /\ Unmet(n)' <=> Unmet(n)
                      /\ TakenForNew(n)' <=> TakenForNew(n)
  BY <1>1 DEF Unmet, TakenForNew, GoneWith, LeavesNoTime, Dry, FoundFolder, Res
<1>4. Untouched'
  BY <1>1 DEF Untouched, Listed, Unlisted, SeenInv, HideInv, Timed
<1>5. Running
  BY <1>1 DEF Running, Between
<1>6. QED
  BY <1>1, <1>2, <1>3, <1>4, <1>5 DEF HideInv, Res

\* What the first pass left of a resource is what the walk finds.
LEMMA ResolveHide ==
    ASSUME HideInv, Timed', ResolveEntry, unseen' = unseen
    PROVE  HideInv'
<1>1. /\ phase = "resolve" /\ phase' = "sync"
      /\ UNCHANGED <<index, ignored, st, res, opt, m_ign>>
  BY DEF ResolveEntry, saved
<1>2. Aged'
  BY <1>1 DEF Aged, HideInv
<1>3. \A n \in Node : /\ Unmet(n)' <=> Unmet(n)
                      /\ TakenForNew(n) => TakenForNew(n)'
  BY <1>1 DEF Unmet, TakenForNew, GoneWith, LeavesNoTime, Dry, FoundFolder, Res
<1>4. Running /\ Untouched'
  BY <1>1 DEF Running, Between, Untouched
<1>5. QED
  BY <1>1, <1>2, <1>3, <1>4 DEF HideInv

\* What an entry makes deleted or changed here: nothing that was found makes it deleted, only
\* what exists is changed, and what has no time is deleted only with its folder.
LEMMA EntryHere ==
    ASSUME NEW r \in ResourceRec, NEW e \in RemoteObj, NEW p, NEW md5, p # "local_new"
    PROVE  LET q == FromRemote(r, e, p, md5)
           IN /\ p # "local_deleted" /\ r.state # "local_deleted" /\ (r.exists \/ r.kind = "bad")
                    => q.state # "local_deleted"
              /\ q.state \in {"local_new", "local_changed"} => r.exists
              /\ ~r.exists /\ r.kind # "bad" /\ r.mtime < e.mtime /\ q.state = "local_deleted"
                    => p = "local_deleted"
              /\ r.exists /\ e.thing = Dir /\ IsFolder(r) => q.state = "sync"
              /\ q.mtime = e.mtime /\ q.id = TRUE /\ q.md5 = MD5Of(e)
<1> DEFINE folder == e.thing = Dir /\ IsFolder(r)
           s == IF folder THEN RemoteFolderState(r, e) ELSE RemoteFileState(r, e, p, md5)
           size == IF folder THEN r.size ELSE RemoteFileSize(r, e, p, s)
           q == FromRemote(r, e, p, md5)
<1>1. p # "local_deleted" /\ r.state # "local_deleted" /\ (r.exists \/ r.kind = "bad")
         => s # "local_deleted"
  <2>1. CASE folder
    BY <2>1 DEF RemoteFolderState, IsFolder
  <2>2. CASE ~folder
    BY <2>2 DEF RemoteFileState
  <2>3. QED
    BY <2>1, <2>2
<1>2. s \in {"local_new", "local_changed"} => r.exists
  BY DEF RemoteFolderState, RemoteFileState
<1>3. ~r.exists /\ r.kind # "bad" /\ r.mtime < e.mtime /\ s = "local_deleted" => p = "local_deleted"
  <2>1. r.mtime \in Nat /\ e.mtime \in Nat
    BY DEF ResourceRec, RemoteObj
  <2>2. CASE folder
    BY <2>1, <2>2 DEF RemoteFolderState, Newer
  <2>3. CASE ~folder
    BY <2>1, <2>3 DEF RemoteFileState, Newer
  <2>4. QED
    BY <2>2, <2>3
<1>4. r.exists /\ folder => s = "sync"
  BY DEF RemoteFolderState
<1>5. q = [r EXCEPT !.state = s, !.md5 = MD5Of(e), !.size = size, !.mtime = e.mtime,
                    !.id = TRUE, !.etag = e.etag]
  BY DEF FromRemote, ResourceRec
<1> HIDE DEF s, size, q
<1>6. q.state = s /\ q.md5 = MD5Of(e) /\ q.id = TRUE /\ q.mtime = e.mtime
  BY <1>5 DEF ResourceRec
<1>7. QED
  BY <1>1, <1>2, <1>3, <1>4, <1>6 DEF q

\* An entry is newer than a record without a time, so that what the run misses is taken for
\* new, unless the folder is known to be deleted (Resource::FromRemote).
LEMMA ListHide ==
    ASSUME TypeOK, RootInv, SeenInv, HideInv, Timed', NEW n \in Node, ListEntry(n),
           unseen' = unseen
    PROVE  HideInv'
<1> DEFINE e == feed[n]
           old == IF res[n].src = "none" THEN NewResource(e) ELSE res[n]
           p == Res(Parent[n])
           r == FromRemote(old, e, p.state, GetMD5(n))
           tree == e.thing = Dir /\ IsFolder(old) /\ r.state # "sync"
           after == IF tree THEN SetState(n, r) ELSE [res EXCEPT ![n] = r]
           kept == [feed EXCEPT ![n] = NoObj]
<1>1. /\ phase = "resolve" /\ Listed(n) /\ (p.id \/ e.multi)
      /\ UNCHANGED <<index, ignored>>
      /\ \/ feed' = kept /\ UNCHANGED <<st, res, phase, opt, m_ign>>
         \/ feed' = kept /\ res' = after /\ UNCHANGED <<st, phase, opt, m_ign>>
            /\ ~e.multi /\ n \notin Hides[m_ign]
         \/ phase' = "aborted"
  BY DEF ListEntry, IsIgnore, saved
<1> HIDE DEF after
<1>2. Aged' /\ unseen' \subseteq Node
  BY <1>1 DEF HideInv, Aged
<1>3. /\ Running /\ ListedInv /\ RunInv /\ Untouched
      /\ \A m \in Node : HereOrNot(res[m]) /\ FoundIn(res[m], Res(Parent[m]))
      /\ \A m \in Node : Unmet(m) => TakenForNew(m)
      /\ \A m \in Node : Knows(res[m], seen[m], FALSE)
  BY <1>1 DEF Running, Between, SeenInv, Known, ListedInv, RootInv, HideInv
<1>4. /\ e = seen[n] /\ e \in RemoteObj /\ e.thing # Absent /\ e.mtime > 0 /\ ~res[n].id
      /\ res \in [Node -> ResourceRec]
  <2>1. NoObj.thing = Absent
    BY DEF NoObj
  <2>2. e = seen[n] /\ seen \in [Node -> RemoteObj]
    BY <1>1, <1>3, <2>1 DEF ListedInv, AllApplied, Listed, SeenInv
  <2>3. QED
    BY <1>1, <1>3, <2>2 DEF Untouched, Listed, TypeOK, MemoryOK
<1>5. feed' = kept /\ (\A m \in Node : m # n => res'[m].id = res[m].id) => Untouched'
  <2> SUFFICES ASSUME feed' = kept, \A m \in Node : m # n => res'[m].id = res[m].id,
                      NEW m \in Node, Listed(m)'
               PROVE  ~res'[m].id /\ feed'[m].mtime > 0
    BY DEF Untouched
  <2>1. NoObj.thing = Absent /\ feed'[n] = NoObj /\ (m # n => feed'[m] = feed[m])
    BY DEF NoObj, TypeOK, MemoryOK
  <2>2. m # n /\ Listed(m)
    BY <2>1 DEF Listed
  <2>3. QED
    BY <1>1, <1>3, <2>1, <2>2 DEF Untouched
<1> HIDE DEF kept
<1>6. CASE phase' = "aborted"
  BY <1>2, <1>6, RestHide DEF Between
<1>7. CASE feed' = kept /\ UNCHANGED <<st, res, phase, opt, m_ign>>
  <2>1. \A m \in Node : /\ Unmet(m)' <=> Unmet(m)
                        /\ TakenForNew(m)' <=> TakenForNew(m)
    BY <1>7 DEF Unmet, TakenForNew, GoneWith, LeavesNoTime, Dry, FoundFolder, Res
  <2>2. Untouched'
    BY <1>5, <1>7
  <2>3. QED
    BY <1>2, <1>3, <1>7, <2>1, <2>2 DEF HideInv, Res
<1>8. CASE feed' = kept /\ res' = after /\ UNCHANGED <<st, phase, opt, m_ign>>
           /\ ~e.multi /\ n \notin Hides[m_ign]
  <2>1. /\ NewResource(e) \in ResourceRec /\ NewResource(e).src = "remote"
        /\ NewResource(e).exists = FALSE /\ NewResource(e).mtime = 0
        /\ NewResource(e).kind \in {"file", "folder"}
    BY NoResType DEF NewResource, NoRes, ResourceRec
  <2>2. /\ old \in ResourceRec /\ old.src # "none"
        /\ res[n].src = "none" => old = NewResource(e)
        /\ res[n].src # "none" => old = res[n]
    BY <1>4, <2>1
  <2>3. p.id /\ p.state # "local_new"
    <3>1. RootRes.state = "sync"
      BY DEF RootRes, NoRes
    <3>2. QED
      BY <1>1, <1>3, <1>8, <3>1, TreeAssumption DEF Res, Knows
  <2> HIDE DEF old, p, e
  <2>4. r.src = old.src /\ r.kind = old.kind /\ r.exists = old.exists
    BY <2>2, EntryKeeps
  <2>5. /\ p.state # "local_deleted" /\ old.state # "local_deleted" /\ (old.exists \/ old.kind = "bad")
              => r.state # "local_deleted"
        /\ r.state \in {"local_new", "local_changed"} => old.exists
        /\ ~old.exists /\ old.kind # "bad" /\ old.mtime < e.mtime /\ r.state = "local_deleted"
              => p.state = "local_deleted"
        /\ old.exists /\ e.thing = Dir /\ IsFolder(old) => r.state = "sync"
        /\ r.mtime = e.mtime /\ r.id = TRUE /\ r.md5 = MD5Of(e)
    <3>1. old \in ResourceRec /\ e \in RemoteObj /\ p.state # "local_new"
      BY <1>4, <2>2, <2>3
    <3>2. QED
      BY <3>1, EntryHere
  <2>6. tree => ~old.exists /\ r.state \in {"remote_new", "local_deleted"} /\ e.thing = Dir
    BY <2>2 DEF FromRemote, RemoteFolderState, ResourceRec
  <2> HIDE DEF r, tree
  <2>7. /\ res'[n] = r
        /\ \A m \in Node : m # n =>
              res'[m] = IF tree /\ m \in Under[n] /\ res[m].src # "none"
                        THEN [res[m] EXCEPT !.state = r.state] ELSE res[m]
    BY <1>4, <1>8 DEF after, SetState
  <2>8. ASSUME NEW m \in Node, m # n
        PROVE  /\ res'[m].src = res[m].src /\ res'[m].kind = res[m].kind
               /\ res'[m].exists = res[m].exists /\ res'[m].id = res[m].id
               /\ res'[m].mtime = res[m].mtime /\ res'[m].md5 = res[m].md5
               /\ res'[m].state = IF tree /\ m \in Under[n] /\ res[m].src # "none"
                                  THEN r.state ELSE res[m].state
    <3>1. res[m] \in ResourceRec
      BY <1>4
    <3>2. \A s : LET q == [res[m] EXCEPT !.state = s]
                 IN /\ q.src = res[m].src /\ q.kind = res[m].kind /\ q.exists = res[m].exists
                    /\ q.id = res[m].id /\ q.mtime = res[m].mtime /\ q.md5 = res[m].md5
                    /\ q.state = s
      BY <3>1 DEF ResourceRec
    <3>3. CASE tree /\ m \in Under[n] /\ res[m].src # "none"
      <4>1. res'[m] = [res[m] EXCEPT !.state = r.state]
        BY <2>7, <2>8, <3>3
      <4>2. QED
        BY <3>2, <3>3, <4>1
    <3>4. CASE ~(tree /\ m \in Under[n] /\ res[m].src # "none")
      BY <2>7, <2>8, <3>4
    <3>5. QED
      BY <3>3, <3>4
  <2>9. old.src = "local" => old = res[n] /\ res[n].src = "local" /\ p.src = "local"
    BY <1>3, <2>1, <2>2 DEF FoundIn, p
  <2>10. old.exists => old = res[n] /\ old.src = "local"
    BY <1>3, <2>1, <2>2 DEF FoundIn
  <2>11. p.src = "local" => p.state # "local_deleted"
    <3>1. RootRes.state = "sync"
      BY DEF RootRes, NoRes
    <3>2. QED
      BY <1>3, <3>1, TreeAssumption DEF p, Res, HereOrNot
  <2>12. HereOrNot(r)
    <3>1. r.src = "local" => r.state # "local_deleted"
      BY <1>3, <2>4, <2>5, <2>9, <2>11 DEF HereOrNot, FoundIn
    <3>2. r.state \in {"local_new", "local_changed"} => r.src = "local"
      BY <2>4, <2>5, <2>10
    <3>3. QED
      BY <3>1, <3>2 DEF HereOrNot
  <2>13. ASSUME tree, NEW m \in Under[n] PROVE res[m].src # "local"
    <3> SUFFICES ASSUME res[m].src = "local" PROVE FALSE
      OBVIOUS
    <3>1. m \in Node /\ (Parent[m] = n \/ (Parent[m] \in Node /\ Parent[m] \in Under[n]))
      BY TreeAssumption
    <3>2. Parent[m] \in Node /\ Res(Parent[m]) = res[Parent[m]]
      BY <3>1, TreeAssumption DEF Res
    <3>3. res[Parent[m]].src = "local" /\ FoundIn(res[Parent[m]], Res(Parent[Parent[m]]))
      BY <1>3, <3>1, <3>2 DEF FoundIn
    <3>4. m \in Under[Parent[m]]
      BY <3>1, <3>2, TreeAssumption
    <3>5. IsFolder(res[Parent[m]])
      BY <1>3, <3>2, <3>4 DEF RunInv, Chained
    <3>6. res[Parent[m]].exists
      BY <3>3, <3>5 DEF FoundIn, IsFolder
    <3>7. res[n].exists
      BY <1>3, <3>1, <3>6 DEF RunInv, Chained
    <3>8. res[n].src # "none"
      BY <1>3, <3>7 DEF FoundIn
    <3>9. QED
      BY <2>2, <2>6, <2>13, <3>7, <3>8
  <2>14. \A m \in Node : HereOrNot(res'[m])
    <3> SUFFICES ASSUME NEW m \in Node, m # n PROVE HereOrNot(res'[m])
      BY <2>7, <2>12
    <3>1. HereOrNot(res[m])
      BY <1>3
    <3>2. CASE tree /\ m \in Under[n] /\ res[m].src # "none"
      <4>1. res'[m].src # "local"
        BY <2>8, <2>13, <3>2
      <4>2. res'[m].state \in {"remote_new", "local_deleted"}
        BY <2>6, <2>8, <3>2
      <4>3. QED
        BY <4>1, <4>2 DEF HereOrNot
    <3>3. CASE ~(tree /\ m \in Under[n] /\ res[m].src # "none")
      BY <2>8, <3>1, <3>3 DEF HereOrNot
    <3>4. QED
      BY <3>2, <3>3
  <2>15. \A m \in Node : /\ Res(Parent[m])'.src = "local" => Res(Parent[m]).src = "local"
                         /\ Res(Parent[m]).src = "local" => Res(Parent[m])'.src = "local"
                         /\ Res(Parent[m]).src = "local" => Res(Parent[m])'.kind = Res(Parent[m]).kind
    <3>1. /\ r.src = "local" => res[n].src = "local"
          /\ res[n].src = "local" => r.src = "local" /\ r.kind = res[n].kind
      BY <2>2, <2>4, <2>9
    <3>2. QED
      BY <2>7, <2>8, <3>1, TreeAssumption DEF Res
  <2>16. \A m \in Node : FoundIn(res'[m], Res(Parent[m])')
    <3>1. FoundIn(r, Res(Parent[n]))
      BY <1>3, <2>1, <2>2, <2>4 DEF FoundIn
    <3>2. \A m \in Node : FoundIn(res'[m], Res(Parent[m]))
      BY <1>3, <2>7, <2>8, <3>1 DEF FoundIn
    <3>3. QED
      BY <2>15, <3>2 DEF FoundIn
  <2>17. Untouched'
    BY <1>5, <1>8, <2>8
  <2>18. ASSUME NEW m \in Node, Unmet(m)' PROVE TakenForNew(m)'
    <3>1. Unmet(m)
      BY <1>8, <2>2, <2>4, <2>7, <2>8, <2>18 DEF Unmet
    <3>2. TakenForNew(m)
      BY <1>3, <3>1
    <3>3. LeavesNoTime(m)'
      <4>1. FoundFolder(Parent[m])' => FoundFolder(Parent[m])
        BY <2>15 DEF FoundFolder, IsFolder
      <4>2. phase # "sync"
        BY <1>1
      <4>3. QED
        BY <1>8, <3>2, <4>1, <4>2 DEF TakenForNew, LeavesNoTime, Dry
    <3>4. CASE m = n
      <4>1. ~old.exists /\ old.kind # "bad" /\ old.mtime = 0
        BY <1>1, <1>3, <1>4, <2>1, <2>2, <3>1, <3>2, <3>4 DEF Unmet, TakenForNew, FoundIn
      <4>2. ASSUME r.state = "local_deleted" PROVE GoneWith(n)'
        <5>1. p.state = "local_deleted"
          BY <1>4, <2>5, <4>1, <4>2
        <5>2. Parent[n] # Root
          BY <5>1 DEF p, Res, RootRes, NoRes
        <5>3. Parent[n] \in Node /\ n \in Under[Parent[n]] /\ p = res[Parent[n]]
          BY <5>2, TreeAssumption DEF p, Res
        <5>4. seen[Parent[n]].thing = Dir
          BY <1>3, <1>4, <5>2 DEF ListedInv, ServerTree
        <5>5. res[Parent[n]].md5 = NoMD5
          BY <1>3, <2>3, <5>3, <5>4, ThingAssumption DEF Knows, MD5Of
        <5>6. Parent[n] # n /\ Parent[n] \notin Under[n]
          BY <5>3, TreeAssumption
        <5>7. res'[Parent[n]] = res[Parent[n]]
          BY <2>7, <5>3, <5>6
        <5>8. QED
          BY <2>3, <5>1, <5>3, <5>5, <5>7 DEF GoneWith
      <4>3. QED
        BY <2>5, <2>7, <3>3, <3>4, <4>2 DEF TakenForNew
    <3>5. CASE m # n
      <4>1. ~res'[m].id => res'[m].mtime = 0
        BY <1>1, <2>8, <3>2, <3>5 DEF TakenForNew
      <4>2. ASSUME res'[m].src # "none", res'[m].state = "local_deleted" PROVE GoneWith(m)'
        <5>1. CASE tree /\ m \in Under[n]
          <6>1. r.state = "local_deleted" /\ e.thing = Dir
            BY <2>6, <2>8, <3>5, <4>2, <5>1
          <6>2. res'[n].id /\ res'[n].md5 = NoMD5 /\ res'[n].state = "local_deleted"
            BY <2>5, <2>7, <6>1, ThingAssumption DEF MD5Of
          <6>3. QED
            BY <5>1, <6>2 DEF GoneWith
        <5>2. CASE ~(tree /\ m \in Under[n])
          <6>1. res[m].src # "none" /\ res[m].state = "local_deleted"
            BY <2>8, <3>5, <4>2, <5>2
          <6>2. PICK w \in Node : /\ m \in Under[w]
                                  /\ res[w].state = "local_deleted" /\ res[w].id /\ res[w].md5 = NoMD5
            BY <3>2, <6>1 DEF TakenForNew, GoneWith
          <6>3. w # n
            BY <1>4, <6>2
          <6>4. ~(tree /\ w \in Under[n])
            BY <5>2, <6>2, TreeAssumption
          <6>5. res'[w] = res[w]
            BY <2>7, <6>3, <6>4
          <6>6. QED
            BY <6>2, <6>5 DEF GoneWith
        <5>3. QED
          BY <5>1, <5>2
      <4>3. QED
        BY <3>3, <4>1, <4>2 DEF TakenForNew
    <3>6. QED
      BY <3>4, <3>5
  <2>19. phase' = "resolve"
    BY <1>1, <1>8
  <2>20. QED
    BY <1>2, <2>14, <2>16, <2>17, <2>18 DEF HideInv
<1>9. QED
  BY <1>1, <1>6, <1>7, <1>8

\* What a visit does to the records: it writes the one of what it settles, or leaves alone.
LEMMA VisitRecords ==
    ASSUME TypeOK, NEW n \in Node, SyncSelf(n), phase' # "aborted"
    PROVE  /\ UNCHANGED saved
           /\ \A k \in Node : \/ st'[k] = st[k]
                              \/ ~st'[k].has
                              \/ k = n /\ (res'[n].state = "sync" \/ LeftAlone(n))
<1> DEFINE kept(s) == \A k \in Node : k = n \/ s[k] = st[k] \/ ~s[k].has
           gone(s) == \A k \in Node : s[k] = st[k] \/ ~s[k].has
<1>1. ~NoRec.has /\ st \in [Node -> IndexRec] /\ res \in [Node -> ResourceRec]
  BY DEF NoRec, TypeOK, MemoryOK
<1>2. ASSUME NEW r PROVE kept(SetIndex(st, n, r))
  BY <1>1 DEF SetIndex
<1>3. ASSUME NEW r, NEW t PROVE kept(SetSrv(SetIndex(st, n, r), n, t))
  <2>1. \A k \in Node : k # n => SetSrv(SetIndex(st, n, r), n, t)[k] = SetIndex(st, n, r)[k]
    BY DEF SetSrv, SetIndex
  <2>2. QED
    BY <1>2, <2>1
<1>4. gone(DeleteIndex(st, n))
  BY <1>1 DEF DeleteIndex
<1>5. ASSUME NEW m \in Node, NEW r PROVE kept(Reindexed(n, m, r))
  <2> DEFINE x == SetSrv(SetIndex(st, n, r), n, res[m].mtime)
  <2>1. kept(x)
    BY <1>3
  <2> HIDE DEF x
  <2>2. \A k \in Node : DeleteIndex(x, m)[k] = NoRec \/ DeleteIndex(x, m)[k] = x[k]
    BY DEF DeleteIndex
  <2>3. kept(DeleteIndex(x, m))
    BY <1>1, <2>1, <2>2
  <2>4. QED
    BY <2>3 DEF Reindexed, x
<1>6. gone(st)
  OBVIOUS
<1>7. ~Died
  BY DEF Died
<1>8. UNCHANGED saved
  BY DEF SyncSelf, MarkSync, Create, EditContent, DeleteRemote, MakeDir, Download, Skip,
     DeleteLocal, ForgetDeleted, DryVisit, MoveRemote, MoveLocal, CallFails, LostReply, LostMove,
     Abort
<1>9. res[n].state = "sync" => res'[n].state = "sync"
  <2>1. Settled(res[n], res'[n])
    BY VisitRemembers DEF VisitMemory
  <2>2. QED
    BY <2>1 DEF Settled, Deleted
<1>10. CASE MarkSync(n)
  BY <1>3, <1>9, <1>10 DEF MarkSync, Record, Visiting
<1>11. CASE Create(n) \/ EditContent(n)
  <2>1. Uploaded(n).state = "sync"
    BY <1>1 DEF Uploaded, ResourceRec
  <2>2. res'[n] = Uploaded(n)
    BY <1>1, <1>11 DEF Create, EditContent, Visited
  <2>3. kept(st')
    BY <1>3, <1>11 DEF Create, EditContent, Record
  <2>4. QED
    BY <1>8, <2>1, <2>2, <2>3
<1>12. CASE MakeDir(n) \/ Download(n)
  <2>1. Fetched(n).state = "sync"
    BY <1>1 DEF Fetched, ResourceRec
  <2>2. res'[n] = Fetched(n)
    BY <1>1, <1>12 DEF MakeDir, Download, Visited
  <2>3. kept(st')
    BY <1>3, <1>12 DEF MakeDir, Download, Record
  <2>4. QED
    BY <1>8, <2>1, <2>2, <2>3
<1>13. CASE DeleteRemote(n) \/ DeleteLocal(n) \/ ForgetDeleted(n)
  BY <1>4, <1>8, <1>13 DEF DeleteRemote, DeleteLocal, ForgetDeleted
<1>14. CASE Skip(n)
  <2>1. \A k \in Node : k # n => SetSrv(st, n, res[n].mtime)[k] = st[k]
    BY <1>1 DEF SetSrv
  <2>2. QED
    BY <1>8, <1>14, <2>1 DEF Skip
<1>15. CASE DryVisit(n)
  <2>1. st' = st \/ (res[n].state = "sync" /\ st' = SetIndex(st, n, res[n]))
    BY <1>15 DEF DryVisit
  <2>2. QED
    BY <1>2, <1>8, <1>9, <2>1
<1>16. ASSUME NEW m \in Node, MoveRemote(n, m) \/ MoveLocal(n, m)
       PROVE  kept(st') /\ res'[n].state = "sync"
  <2>1. PICK r : st' = Reindexed(n, m, r) /\ res' = Renamed(n, m, r) /\ m \in Moved(n)
                 /\ r \in ResourceRec
    <3>1. ASSUME MoveRemote(n, m)
          PROVE  \E r \in ResourceRec :
                    st' = Reindexed(n, m, r) /\ res' = Renamed(n, m, r) /\ m \in Moved(n)
      <4> DEFINE r == [res[n] EXCEPT !.md5 = GetMD5(n)]
      <4>1. GetMD5(n) \in Files \cup {NoMD5}
        BY <1>1 DEF GetMD5, ResourceRec
      <4>2. r \in ResourceRec
        BY <1>1, <4>1, ZenonT(30) DEF ResourceRec
      <4>3. st' = Reindexed(n, m, r) /\ res' = Renamed(n, m, r) /\ m \in Moved(n)
        BY <1>7, <3>1 DEF MoveRemote, Visited
      <4>4. QED
        BY <4>2, <4>3
    <3>2. ASSUME MoveLocal(n, m)
          PROVE  \E r \in ResourceRec :
                    st' = Reindexed(n, m, r) /\ res' = Renamed(n, m, r) /\ m \in Moved(n)
      <4> DEFINE r == [res[n] EXCEPT !.ctime = ctime'[n]]
      <4>1. ctime'[n] \in Nat
        BY SyncSelfType DEF TypeOK, DiskOK
      <4>2. r \in ResourceRec
        BY <1>1, <4>1, ZenonT(30) DEF ResourceRec
      <4>3. st' = Reindexed(n, m, r) /\ res' = Renamed(n, m, r) /\ m \in Moved(n)
        BY <1>7, <3>2 DEF MoveLocal, Visited
      <4>4. QED
        BY <4>2, <4>3
    <3>3. QED
      BY <1>16, <3>1, <3>2
  <2>2. m # n
    BY <2>1 DEF Moved, FindByMD5
  <2>3. res'[n] = [r EXCEPT !.state = "sync", !.mtime = res[m].mtime, !.json = TRUE]
    BY <1>1, <2>1, <2>2 DEF Renamed
  <2>4. res'[n].state = "sync"
    BY <2>1, <2>3 DEF ResourceRec
  <2>5. QED
    BY <1>5, <2>1, <2>4
<1>17. CASE CallFails(n) \/ LostReply(n) \/ \E m \in Node : LostMove(n, m)
  BY <1>6, <1>8, <1>17 DEF CallFails, LostReply, LostMove, Threw
<1>18. ~Abort(n)
  BY <1>7 DEF Abort
<1>19. QED
  BY <1>8, <1>10, <1>11, <1>12, <1>13, <1>14, <1>15, <1>16, <1>17, <1>18 DEF SyncSelf

\* A visit leaves a time in a record only of what it brings here.
LEMMA SyncSelfHide ==
    ASSUME TypeOK, RootInv, SeenInv, HideInv, Timed', NEW v \in Node, SyncSelf(v),
           unseen' = unseen
    PROVE  HideInv'
<1>1. phase = "sync" /\ VisitMemory(v) /\ Running
  BY VisitNeedsWalk, VisitRemembers DEF Running, Between
<1>2. UNCHANGED saved
  BY DEF SyncSelf, MarkSync, Create, EditContent, DeleteRemote, MakeDir, Download, Skip,
     DeleteLocal, ForgetDeleted, DryVisit, MoveRemote, MoveLocal, CallFails, LostReply, LostMove,
     Abort
<1>3. Aged' /\ unseen' \subseteq Node
  BY <1>2 DEF HideInv, Aged, saved
<1>4. CASE phase' = "aborted"
  BY <1>3, <1>4, RestHide DEF Between
<1>5. CASE /\ phase' = phase /\ m_ign' = m_ign /\ opt' = opt
           /\ \A k \in Node : Settled(res[k], res'[k])
  <2>1. \A n \in Node : HereOrNot(res'[n])
    BY <1>1, <1>5 DEF HideInv, HereOrNot, Settled, Deleted
  <2>2. ASSUME NEW n \in Node, Unmet(n)' PROVE TakenForNew(n)'
    <3>1. Unmet(n) /\ TakenForNew(n)
      BY <1>1, <1>5, <2>2 DEF HideInv, Unmet, Settled
    <3>2. res'[n].src # "none" /\ res'[n].state = "local_deleted" => GoneWith(n)'
      <4> SUFFICES ASSUME res'[n].src # "none", res'[n].state = "local_deleted"
                   PROVE  GoneWith(n)'
        OBVIOUS
      <4>1. res[n].src # "none" /\ res[n].state = "local_deleted"
        BY <1>5 DEF Settled
      <4>2. PICK w \in Node : /\ n \in Under[w]
                              /\ res[w].state = "local_deleted" /\ res[w].id /\ res[w].md5 = NoMD5
        BY <3>1, <4>1 DEF TakenForNew, GoneWith
      <4>3. res'[w].state = "local_deleted" /\ res'[w].id /\ res'[w].md5 = NoMD5
        BY <1>5, <4>2 DEF Settled, Deleted
      <4>4. QED
        BY <4>2, <4>3 DEF GoneWith
    <3>3. LeavesNoTime(n)'
      <4> SUFFICES ASSUME ~Dry, "no-remote-new" \notin opt, FoundFolder(Parent[n]), st'[n].has
                   PROVE  st'[n].srv = 0 \/ res'[n].state = "sync"
        <5>1. FoundFolder(Parent[n])' => FoundFolder(Parent[n])
          BY <1>5, TreeAssumption DEF FoundFolder, Res, IsFolder, Settled
        <5>2. QED
          BY <1>1, <1>5, <5>1 DEF LeavesNoTime, Dry
      <4>1. CASE st'[n] = st[n]
        BY <1>1, <1>5, <3>1, <4>1 DEF TakenForNew, LeavesNoTime, Settled, Deleted
      <4>2. n = v => ~LeftAlone(v)
        <5> SUFFICES ASSUME n = v, LeftAlone(v) PROVE FALSE
          OBVIOUS
        <5>1. res[n].state \notin {"local_new", "local_changed"}
          BY <1>1, <3>1 DEF HideInv, HereOrNot, Unmet
        <5>2. "upload-only" \notin opt
          BY GriveAssumption DEF TypeOK, MemoryOK
        <5>3. QED
          BY <5>1, <5>2 DEF LeftAlone, Fetches, Visiting
      <4>3. QED
        BY <1>1, <1>5, <4>1, <4>2, VisitRecords
    <3>4. QED
      BY <1>1, <1>5, <3>2, <3>3 DEF TakenForNew
  <2>3. Untouched' /\ phase' = "sync"
    BY <1>1, <1>5 DEF Untouched
  <2>4. QED
    BY <1>3, <2>1, <2>2, <2>3 DEF HideInv
<1>6. QED
  BY <1>1, <1>4, <1>5 DEF VisitMemory

\* What a run saves of what it missed has no time, or is hidden by it.
LEMMA SaveHide ==
    ASSUME TypeOK, HideInv, Timed', Saves,
           unseen' = {n \in Hides[m_ign] : DirAt(local, Parent[n])} \cup
                     {n \in unseen : /\ "no-remote-new" \notin opt
                                     /\ FoundFolder(Parent[n])
                                     /\ res[n].src # "local" /\ res[n].state # "sync"}
    PROVE  HideInv'
<1>1. /\ phase = "sync" /\ ~Dry /\ index' = st /\ ignored' = m_ign /\ Between'
  BY DEF Saves, SaveState, WalkDone, Between
<1>2. unseen' \subseteq Node
  BY GriveAssumption DEF HideInv, TypeOK, MemoryOK
<1>3. Aged'
  <2> SUFFICES ASSUME NEW n \in unseen', st[n].has, n \notin Hides[m_ign]
               PROVE  st[n].srv = 0
    BY <1>1 DEF Aged
  <2>1. /\ n \in unseen /\ "no-remote-new" \notin opt /\ FoundFolder(Parent[n])
        /\ res[n].src # "local" /\ res[n].state # "sync"
    OBVIOUS
  <2>2. TakenForNew(n)
    BY <1>1, <2>1 DEF HideInv, Unmet, Running, Between
  <2>3. QED
    BY <1>1, <2>1, <2>2 DEF TakenForNew, LeavesNoTime
<1>4. QED
  BY <1>1, <1>2, <1>3, RestHide

\* Nothing is watched at the start.
LEMMA InitHide == HInit => HideInv
<1> SUFFICES ASSUME HInit PROVE HideInv
  OBVIOUS
<1>1. PICK f \in Trees : remote = Objects(f)
  BY DEF HInit, Init
<1>2. Timed
  <2>1. \A n \in Node : remote[n] = IF f[n] = Absent THEN NoObj
                                   ELSE [thing |-> f[n], etag |-> 1, mtime |-> 1, multi |-> FALSE]
    BY <1>1 DEF Objects
  <2>2. NoObj.thing = Absent
    BY DEF NoObj
  <2>3. ASSUME NEW n \in Node, remote[n].thing # Absent PROVE remote[n].mtime = 1
    <3>1. remote[n] = [thing |-> f[n], etag |-> 1, mtime |-> 1, multi |-> FALSE]
      BY <2>1, <2>2, <2>3
    <3>2. QED
      BY <3>1
  <2>4. QED
    BY <2>3 DEF Timed
<1>3. unseen = {} /\ Between
  BY DEF HInit, Init, Between
<1>4. QED
  BY <1>2, <1>3 DEF HideInv, Aged, Running

\* One case per action: the invariant is inductive.
LEMMA NextHide ==
    ASSUME TypeOK, RootInv, SeenInv, HideInv, [HNext]_allvars
    PROVE  HideInv'
<1>1. Timed'
  <2>1. [Next]_vars
    BY DEF HNext, allvars
  <2>2. QED
    BY <2>1, NextTimed DEF HideInv
<1>2. CASE UNCHANGED allvars
  BY <1>1, <1>2, SameHide DEF allvars, vars, history
<1>3. ASSUME HNext PROVE HideInv'
  <2>1. /\ Next
        /\ unseen' = IF Saves
                     THEN {n \in Hides[m_ign] : DirAt(local, Parent[n])} \cup
                          {n \in unseen : /\ "no-remote-new" \notin opt
                                          /\ FoundFolder(Parent[n])
                                          /\ res[n].src # "local" /\ res[n].state # "sync"}
                     ELSE IF TornSave THEN {} ELSE unseen
    BY <1>3 DEF HNext
  <2>2. CASE Saves
    BY <1>1, <2>1, <2>2, SaveHide
  <2>3. CASE ~Saves /\ TornSave
    <3>1. unseen' = {} /\ Between'
      BY <2>1, <2>3 DEF TornSave, Between
    <3>2. QED
      BY <1>1, <3>1, RestHide DEF Aged
  <2>4. CASE ~Saves /\ ~TornSave
    <3>1. unseen' = unseen /\ unseen \subseteq Node
      BY <2>1, <2>4 DEF HideInv
    <3>2. UNCHANGED saved => Aged'
      BY <3>1 DEF saved, HideInv, Aged
    <3>3. CASE People
      <4>1. UNCHANGED memory /\ UNCHANGED saved
        <5>1. \A op : Act(op) => UNCHANGED memory /\ UNCHANGED saved
          BY DEF Act, saved, memory
        <5>2. QED
          BY <3>3, <5>1
          DEF People, LocalPut, RemotePut, LocalRemove, RemoteTrash, RemoteShare, LocalMove, RemoteMove
      <4>2. QED
        BY <1>1, <3>1, <4>1, SameHide DEF memory, saved
    <3>4. ASSUME NEW o \in Options, NEW i \in Ignores, Start(o, i) PROVE HideInv'
      BY <1>1, <3>1, <3>4, StartHide
    <3>5. CASE GetAll
      BY <1>1, <3>1, <3>5, GetAllHide
    <3>6. ASSUME NEW n \in Node, ListEntry(n) PROVE HideInv'
      BY <1>1, <3>1, <3>6, ListHide
    <3>7. CASE ResolveEntry
      BY <1>1, <3>1, <3>7, ResolveHide
    <3>8. ASSUME NEW n \in Node, SyncSelf(n) PROVE HideInv'
      BY <1>1, <3>1, <3>8, SyncSelfHide
    <3>9. CASE SaveState \/ Die
      <4>1. UNCHANGED saved /\ Between'
        BY <2>4, <3>9 DEF SaveState, Die, Saves, Between
      <4>2. QED
        BY <1>1, <3>1, <3>2, <4>1, RestHide
    <3>10. QED
      BY <2>1, <2>4, <3>3, <3>4, <3>5, <3>6, <3>7, <3>8, <3>9 DEF Next, Run
  <2>5. QED
    BY <2>2, <2>3, <2>4
<1>4. QED
  BY <1>2, <1>3

\* What a visit trashes is not one of those, but with its folder.
LEMMA VisitSparesHidden ==
    ASSUME TypeOK, RootInv, SeenInv, HideInv, NEW v \in Node, SyncSelf(v),
           NEW n \in unseen, n \in Node, remote[n].thing \in Content, remote'[n].thing = Absent
    PROVE  \E m \in Node :
              /\ n \in Under[m]
              /\ \/ remote'[m].thing = Absent
                 \/ res[m].state = "local_deleted" /\ remote[n].thing \in ServerFiles'
<1>1. phase = "sync" /\ Turn(v) /\ ServerEffect(v) /\ Running
  BY VisitNeedsWalk, VisitEffect DEF Running, Between
<1>2. v \in pending /\ res[v].src # "none" /\ ListedInv
  BY <1>1 DEF Turn, RootInv, RunInv, Running, Between, Queued, SeenInv, Known
<1>3. /\ ServerOK /\ remote \in [Node -> RemoteObj] /\ ServerInv /\ remote[n].thing # Absent
      /\ local[v] \in LocalThing
  BY ThingAssumption DEF TypeOK, ServerOK, SeenInv, DiskOK, Files
<1>4. \A k \in Node : res[k].src # "none" => k \notin Hides[m_ign]
  BY <1>1 DEF SeenInv, Visible
<1>5. ASSUME NEW k \in Node, k = n, res[k].src # "none", res[k].state = "local_deleted"
      PROVE  GoneWith(n)
  <2>1. res[n].src # "local"
    BY <1>1, <1>5 DEF HideInv, HereOrNot
  <2>2. TakenForNew(n)
    BY <1>1, <1>4, <1>5, <2>1 DEF HideInv, Unmet
  <2>3. QED
    BY <1>5, <2>2 DEF TakenForNew
<1>6. ~UNCHANGED server
  BY <1>3 DEF server
<1>7. ~(res[v].state = "local_new" /\ SendNew(v))
  <2> SUFFICES ASSUME SendNew(v) PROVE FALSE
    OBVIOUS
  <2>1. (IF IsFolder(res[v]) THEN Dir ELSE local[v]) # Absent
    BY ThingAssumption DEF SendNew, CanCreate, Readable
  <2>2. QED
    BY <1>3, <2>1 DEF SendNew, ServerAdd, WriteServer
<1>8. ~(res[v].state = "local_changed" /\ SendEdit(v))
  <2> SUFFICES ASSUME SendEdit(v) PROVE FALSE
    OBVIOUS
  <2> DEFINE t == IF IsFolder(res[v]) THEN remote[v].thing ELSE local[v]
  <2>1. t # Absent /\ ServerPut(v, t)
    BY ThingAssumption DEF SendEdit, CanEdit, Readable
  <2> HIDE DEF t
  <2>2. remote[v] \in RemoteObj
    BY <1>3
  <2>3. remote' = [remote EXCEPT ![v] = [remote[v] EXCEPT !.thing = t, !.etag = ver + 1, !.mtime = ver + 1]]
    BY <2>1 DEF ServerPut, WriteServer
  <2>4. n = v => remote'[n].thing = t
    BY <1>3, <2>2, <2>3 DEF RemoteObj
  <2>5. n # v => remote'[n] = remote[n]
    BY <1>3, <2>3
  <2>6. QED
    BY <1>3, <2>1, <2>4, <2>5
<1>9. CASE res[v].state = "local_deleted" /\ CanTrash(v) /\ ServerTrash(v)
  <2>1. remote'[v].thing = Absent /\ \A k \in Node : k = v \/ k \in Under[v] \/ remote'[k] = remote[k]
    BY <1>3, <1>9, ServerTrashKeeps
  <2>2. CASE n \in Under[v]
    BY <2>1, <2>2
  <2>3. CASE n = v
    <3>1. ~Dry
      <4>1. Dry => UNCHANGED <<disk, server, saved>>
        BY DryVisits
      <4>2. QED
        BY <1>6, <4>1
    <3>2. Walking(res, pending)
      BY <1>1, <3>1 DEF RootInv, RunInv
    <3>3. GoneWith(n)
      BY <1>2, <1>5, <1>9, <2>3
    <3>4. QED
      BY <1>2, <2>3, <3>2, <3>3 DEF Walking, GoneWith
  <2>4. QED
    BY <1>3, <2>1, <2>2, <2>3
<1>10. ASSUME NEW m \in Moved(v), res[v].state = "local_new", CanMoveRemote(v),
              remote[m].thing # Absent, ServerMove(m, v)
       PROVE  /\ GoneWith(n) /\ remote[n].thing \in ServerFiles'
  <2>1. m \in Node /\ m # v /\ remote[m].thing \in Files
    BY <1>1, <1>10, MovedThing
  <2>2. res[m].src # "none" /\ res[m].state = "local_deleted"
    BY <1>10 DEF Moved, FindByMD5
  <2>3. OnServer(Parent[v]) /\ remote[v].thing # Dir
    BY <1>1, <1>2, <1>10, NothingThere DEF CanMoveRemote
  <2>4. /\ remote'[v].thing = remote[m].thing
        /\ \A k \in Node : k \in {m, v} \/ remote'[k] = remote[k]
    BY <1>3, <1>10, <2>1, <2>3, ServerMoveKeeps
  <2>5. n = m
    BY <1>3, <1>10, <2>4
  <2>6. QED
    BY <1>5, <2>1, <2>2, <2>4, <2>5 DEF ServerFiles
<1>11. QED
  BY <1>1, <1>6, <1>7, <1>8, <1>9, <1>10 DEF ServerEffect, GoneWith

\* What went from the disk while it was hidden is not trashed on the server by a later run
\* that looks there, for every tree, every expression and option, and whatever was done and
\* failed in between: until a run brings it here or finds it, its record has no time of the
\* server, so that the entry of the listing is always newer.
THEOREM HiddenIsSpared == HSpec => HiddenSpared
<1> DEFINE spared(n) ==
        remote[n].thing \in Content /\ remote'[n].thing = Absent
           => \E m \in Node :
                 /\ n \in Under[m]
                 /\ \/ remote'[m].thing = Absent
                    \/ res[m].state = "local_deleted" /\ remote[n].thing \in ServerFiles'
<1>1. TypeOK /\ RootInv /\ SeenInv /\ HideInv /\ [HNext]_allvars =>
         [ByGrive => \A n \in unseen : spared(n)]_allvars
  <2> SUFFICES ASSUME TypeOK, RootInv, SeenInv, HideInv, HNext, ByGrive, NEW n \in unseen,
                      remote[n].thing \in Content, remote'[n].thing = Absent
               PROVE  \E m \in Node :
                         /\ n \in Under[m]
                         /\ \/ remote'[m].thing = Absent
                            \/ res[m].state = "local_deleted" /\ remote[n].thing \in ServerFiles'
    OBVIOUS
  <2>1. Next /\ ~People
    BY PeopleCounted DEF HNext
  <2>2. n \in Node /\ remote[n].thing # Absent
    BY ThingAssumption DEF HideInv, Files
  <2>3. ~UNCHANGED server
    BY <2>2 DEF server
  <2>4. PICK v \in Node : SyncSelf(v)
    BY <2>1, <2>3 DEF Next, Run, Start, GetAll, ListEntry, ResolveEntry, SaveState, Die, TornSave
  <2>5. QED
    BY <2>2, <2>4, VisitSparesHidden
<1>2. TypeOK /\ RootInv /\ SeenInv /\ HideInv /\ [HNext]_allvars => HideInv'
  BY NextHide
<1>3. QED
  BY <1>1, <1>2, InitHide, SeenInvariant, PTL DEF HSpec, HiddenSpared

===============================================================================
