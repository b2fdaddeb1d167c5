----------------------------- MODULE ListingProofs -----------------------------
(***************************************************************************)
(* While the listing is applied, every resource is filed under the keys it *)
(* has, and there is one resource for an object and one for a path, for    *)
(* every listing, order and scan.                                          *)
(*                                                                         *)
(* The second rests on the first: only because what has a link is found by *)
(* it may a link that is not found be given to the resource of the name,   *)
(* or to a new one.  And because what is found is right, every object that *)
(* hangs on the root comes to its place, whatever the order of the listing *)
(* (PlaceInv): each entry was put off or has a resource, and at the end of *)
(* a pass that resolved nothing, what was put off has no folder to go to.  *)
(*                                                                         *)
(* Times: a run compares the second of the listing with that of the text   *)
(* its record was made of, although this was a number in the index since,  *)
(* others changed the object, visits failed and runs died (RecordInv).     *)
(***************************************************************************)
EXTENDS Listing, Times, FiniteSetTheorems, SequenceTheorems, TLAPS

Applying == stage \in {"list", "resolve"}

\* The addresses in use are the first ones.
ListTypes ==
    /\ \E k \in Nat : k <= MaxNodes /\ DOMAIN tree = 0..k
    /\ tree \in [DOMAIN tree -> Resource] /\ tree[TheRoot].href = RootHref
    /\ filed = [p \in DOMAIN tree |-> filed[p]]
    /\ coming \subseteq Entry /\ unresolved \in Seq(Entry)
    /\ cursor \in Nat \ {0}

ListInv == ListTypes /\ KeysCurrent /\ OneEach

-------------------------------------------------------------------------------

\* A link is found exactly if a resource has it (ResourceTree::FindByHref).
LEMMA FoundIfLinked ==
    ASSUME ListInv, Applying, NEW h, h # NoHref
    PROVE  /\ NoNode \in FindByHref(h) <=> Linked(h) = {}
           /\ FindByHref(h) \ {NoNode} = Linked(h)
<1>1. NoNode \notin DOMAIN tree
  BY ListingAssumption DEF ListInv, ListTypes, NoNode
<1>2. \A p \in Linked(h) : filed[p].href = h
  <2>1. \A p \in DOMAIN tree : filed[p] = Keys(tree[p])
    BY DEF ListInv, KeysCurrent, Applying
  <2>2. \A p \in DOMAIN tree : Keys(tree[p]).href = tree[p].href
    BY DEF Keys
  <2>3. QED
    BY <2>1, <2>2 DEF Linked
<1>3. QED
  BY <1>1, <1>2 DEF FindByHref, Linked

\* What is filed again is filed under the keys it has (ResourceTree::ReInsert).
LEMMA FilingIsCurrent ==
    ASSUME NEW p,
           \A q \in DOMAIN tree' : q # p => tree'[q] = tree[q] /\ filed[q] = Keys(tree[q]),
           FiledAgain(tree', p)
    PROVE  /\ filed' = [q \in DOMAIN tree' |-> filed'[q]]
           /\ \A q \in DOMAIN tree' : filed'[q] = Keys(tree'[q])
BY DEF FiledAgain

\* An entry changes the link and the checksum of a resource (Resource::AssignIDs).
LEMMA FromRemoteTyped ==
    ASSUME NEW r \in Resource, NEW e \in Entry
    PROVE  /\ FromRemote(r, e) \in Resource
           /\ FromRemote(r, e).href = e.self
           /\ FromRemote(r, e).label = r.label /\ FromRemote(r, e).parent = r.parent
BY DEF FromRemote, Resource, Entry

\* Update gives the link of the entry to a resource that is in use; no other has it.
LEMMA UpdateKeeps ==
    ASSUME ListInv, Applying, NEW e \in Entry, NEW p \in DOMAIN tree, p # TheRoot,
           Linked(e.self) \subseteq {p}, Update(p, e)
    PROVE  /\ DOMAIN tree' = DOMAIN tree /\ tree' \in [DOMAIN tree -> Resource]
           /\ tree'[TheRoot].href = RootHref
           /\ filed' = [q \in DOMAIN tree' |-> filed'[q]]
           /\ \A q \in DOMAIN tree' : filed'[q] = Keys(tree'[q])
           /\ OneEach'
<1>1. tree[p] \in Resource
  BY DEF ListInv, ListTypes
<1>2. /\ DOMAIN tree' = DOMAIN tree
      /\ tree' \in [DOMAIN tree -> Resource]
      /\ tree'[p] = FromRemote(tree[p], e)
      /\ \A q \in DOMAIN tree : q # p => tree'[q] = tree[q]
  BY <1>1, FromRemoteTyped DEF Update, ListInv, ListTypes
<1>3. /\ filed' = [q \in DOMAIN tree' |-> filed'[q]]
      /\ \A q \in DOMAIN tree' : filed'[q] = Keys(tree'[q])
  <2>1. \A q \in DOMAIN tree' : q # p => tree'[q] = tree[q] /\ filed[q] = Keys(tree[q])
    BY <1>2 DEF ListInv, KeysCurrent, Applying
  <2>2. FiledAgain(tree', p)
    BY DEF Update
  <2>3. QED
    BY <2>1, <2>2, FilingIsCurrent
<1>4. tree'[p].href = e.self /\ tree'[p].label = tree[p].label /\ tree'[p].parent = tree[p].parent
  BY <1>1, <1>2, FromRemoteTyped
<1>5. \A q \in DOMAIN tree : q # p => tree[q].href # e.self
  BY DEF Linked
<1>6. OneEach'
  BY <1>2, <1>4, <1>5 DEF OneEach, ListInv
<1>7. tree'[TheRoot].href = RootHref
  <2>1. TheRoot \in DOMAIN tree
    BY DEF ListInv, ListTypes, TheRoot
  <2>2. QED
    BY <1>2, <2>1 DEF ListInv, ListTypes
<1>8. QED
  BY <1>2, <1>3, <1>6, <1>7

\* The address of a new resource is the next one.
LEMMA NextAddress ==
    ASSUME ListInv, Cardinality(DOMAIN tree) \in Node
    PROVE  /\ Cardinality(DOMAIN tree) \notin DOMAIN tree
           /\ Cardinality(DOMAIN tree) # TheRoot
           /\ \E k \in Nat : k <= MaxNodes
                  /\ DOMAIN tree \cup {Cardinality(DOMAIN tree)} = 0..k
<1>1. PICK k \in Nat : k <= MaxNodes /\ DOMAIN tree = 0..k
  BY DEF ListInv, ListTypes
<1>2. Cardinality(DOMAIN tree) = k + 1
  <2>1. Cardinality(0..k) = IF 0 > k THEN 0 ELSE k - 0 + 1
    BY FS_Interval
  <2>2. QED
    BY <1>1, <2>1
<1>3. k + 1 \in Nat /\ k + 1 <= MaxNodes
  BY <1>2, ListingAssumption DEF Node
<1>4. 0..k \cup {k + 1} = 0..(k + 1)
  OBVIOUS
<1>5. QED
  BY <1>1, <1>2, <1>3, <1>4 DEF TheRoot

\* A new resource is made for an entry that has none, of a name that its folder has not.
LEMMA AddNewKeeps ==
    ASSUME ListInv, Applying, NEW e \in Entry, NEW f \in DOMAIN tree,
           Linked(e.self) = {}, FindChild(f, e.label) = {}, AddNew(f, e)
    PROVE  /\ \E k \in Nat : k <= MaxNodes /\ DOMAIN tree' = 0..k
           /\ tree' \in [DOMAIN tree' -> Resource] /\ tree'[TheRoot].href = RootHref
           /\ filed' = [q \in DOMAIN tree' |-> filed'[q]]
           /\ \A q \in DOMAIN tree' : filed'[q] = Keys(tree'[q])
           /\ OneEach'
<1> DEFINE n == Cardinality(DOMAIN tree)
           r == [label |-> e.label, parent |-> f, href |-> NoHref, md5 |-> NoMd5, folder |-> e.dir]
<1>1. /\ n \in Node
      /\ tree' = [x \in DOMAIN tree \cup {n} |-> IF x = n THEN FromRemote(r, e) ELSE tree[x]]
      /\ FiledAgain(tree', n)
  BY DEF AddNew
<1>2. r \in Resource
  <2>1. f \in Node
    <3>1. PICK k \in Nat : k <= MaxNodes /\ DOMAIN tree = 0..k
      BY DEF ListInv, ListTypes
    <3>2. QED
      BY <3>1, ListingAssumption DEF Node
  <2>2. QED
    BY <2>1 DEF Resource, Entry
<1>3. /\ n \notin DOMAIN tree /\ n # TheRoot
      /\ \E k \in Nat : k <= MaxNodes /\ DOMAIN tree \cup {n} = 0..k
  BY <1>1, NextAddress
<1>4. /\ FromRemote(r, e) \in Resource
      /\ FromRemote(r, e).href = e.self
      /\ FromRemote(r, e).label = e.label /\ FromRemote(r, e).parent = f
  BY <1>2, FromRemoteTyped
<1> HIDE DEF n, r
<1>5. /\ DOMAIN tree' = DOMAIN tree \cup {n}
      /\ tree'[n] = FromRemote(r, e)
      /\ \A q \in DOMAIN tree : tree'[q] = tree[q]
  BY <1>1, <1>3
<1>6. tree' \in [DOMAIN tree' -> Resource]
  BY <1>1, <1>4, <1>5 DEF ListInv, ListTypes
<1>7. /\ filed' = [q \in DOMAIN tree' |-> filed'[q]]
      /\ \A q \in DOMAIN tree' : filed'[q] = Keys(tree'[q])
  <2>1. \A q \in DOMAIN tree' : q # n => tree'[q] = tree[q] /\ filed[q] = Keys(tree[q])
    BY <1>5 DEF ListInv, KeysCurrent, Applying
  <2>2. QED
    BY <1>1, <2>1, FilingIsCurrent
<1>8. OneEach'
  <2>1. \A q \in DOMAIN tree : tree[q].href # e.self
    BY DEF Linked
  <2>2. \A q \in DOMAIN tree \ {TheRoot} : tree[q].parent # f \/ tree[q].label # e.label
    BY DEF FindChild
  <2>3. QED
    BY <1>3, <1>4, <1>5, <2>1, <2>2 DEF OneEach, ListInv
<1>9. tree'[TheRoot].href = RootHref
  <2>1. TheRoot \in DOMAIN tree
    BY DEF ListInv, ListTypes, TheRoot
  <2>2. QED
    BY <1>5, <2>1 DEF ListInv, ListTypes
<1>10. QED
  BY <1>3, <1>5, <1>6, <1>7, <1>8, <1>9

\* What State::Update does with an entry it has a place for.
LEMMA AppliedKeeps ==
    ASSUME ListInv, Applying, NEW e \in Entry, Applied(e)
    PROVE  /\ \E k \in Nat : k <= MaxNodes /\ DOMAIN tree' = 0..k
           /\ tree' \in [DOMAIN tree' -> Resource] /\ tree'[TheRoot].href = RootHref
           /\ filed' = [q \in DOMAIN tree' |-> filed'[q]]
           /\ \A q \in DOMAIN tree' : filed'[q] = Keys(tree'[q])
           /\ OneEach'
<1>1. e.self # NoHref
  BY ListingAssumption DEF Entry
<1>2. Known(e) = FindByHref(e.self)
  BY DEF Known
<1>3. PICK p \in Known(e) :
       IF p # NoNode
       THEN Update(p, e) /\ UNCHANGED stage
       ELSE \E f \in FindByHref(TheParent(e)) \ {NoNode} :
              IF ~tree[f].folder
              THEN stage' = "aborted" /\ UNCHANGED <<tree, filed>>
              ELSE /\ IF FindChild(f, e.label) # {}
                      THEN \E c \in FindChild(f, e.label) : Update(c, e)
                      ELSE AddNew(f, e)
                   /\ UNCHANGED stage
  BY DEF Applied
<1>4. CASE p # NoNode
  <2>1. p \in Linked(e.self) /\ Update(p, e)
    BY <1>1, <1>2, <1>3, <1>4, FoundIfLinked
  <2>2. TheRoot \notin Linked(e.self)
    BY ListingAssumption DEF Linked, ListInv, ListTypes, Entry
  <2>3. p \in DOMAIN tree /\ p # TheRoot
    BY <2>1, <2>2 DEF Linked
  <2>4. Linked(e.self) \subseteq {p}
    BY <1>1, <2>1, <2>2 DEF Linked, ListInv, OneEach
  <2>5. QED
    BY <2>1, <2>3, <2>4, UpdateKeeps DEF ListInv, ListTypes
<1>5. CASE p = NoNode
  <2>1. Linked(e.self) = {}
    BY <1>1, <1>2, <1>3, <1>5, FoundIfLinked
  <2>2. PICK f \in FindByHref(TheParent(e)) \ {NoNode} :
              IF ~tree[f].folder
              THEN stage' = "aborted" /\ UNCHANGED <<tree, filed>>
              ELSE /\ IF FindChild(f, e.label) # {}
                      THEN \E c \in FindChild(f, e.label) : Update(c, e)
                      ELSE AddNew(f, e)
                   /\ UNCHANGED stage
    BY <1>3, <1>5
  <2>3. f \in DOMAIN tree
    BY <2>2 DEF FindByHref, Linked
  <2>4. CASE ~tree[f].folder
    BY <2>2, <2>4 DEF ListInv, ListTypes, OneEach, KeysCurrent, Applying
  <2>5. CASE tree[f].folder /\ FindChild(f, e.label) # {}
    <3>1. PICK c \in FindChild(f, e.label) : Update(c, e)
      BY <2>2, <2>5
    <3>2. c \in DOMAIN tree /\ c # TheRoot
      BY <3>1 DEF FindChild
    <3>3. QED
      BY <2>1, <3>1, <3>2, UpdateKeeps DEF ListInv, ListTypes
  <2>6. CASE tree[f].folder /\ FindChild(f, e.label) = {}
    BY <2>1, <2>2, <2>3, <2>6, AddNewKeeps
  <2>7. QED
    BY <2>4, <2>5, <2>6
<1>6. QED
  BY <1>4, <1>5

-------------------------------------------------------------------------------

\* What an entry leaves, it leaves in order.
LEMMA AppliedInv ==
    ASSUME ListInv, Applying, NEW e \in Entry, Applied(e),
           coming' \subseteq Entry, unresolved' \in Seq(Entry), cursor' \in Nat \ {0}
    PROVE  ListInv'
<1>1. /\ \E k \in Nat : k <= MaxNodes /\ DOMAIN tree' = 0..k
      /\ tree' \in [DOMAIN tree' -> Resource] /\ tree'[TheRoot].href = RootHref
      /\ filed' = [q \in DOMAIN tree' |-> filed'[q]]
      /\ \A q \in DOMAIN tree' : filed'[q] = Keys(tree'[q])
      /\ OneEach'
  BY AppliedKeeps
<1>2. ListTypes'
  BY <1>1 DEF ListTypes
<1>3. KeysCurrent'
  BY <1>1 DEF KeysCurrent
<1>4. QED
  BY <1>1, <1>2, <1>3 DEF ListInv

\* Where neither the resources nor their keys change.
LEMMA SameTree ==
    ASSUME ListInv, Applying, UNCHANGED <<tree, filed>>,
           coming' \subseteq Entry, unresolved' \in Seq(Entry), cursor' \in Nat \ {0}
    PROVE  ListInv'
BY DEF ListInv, ListTypes, OneEach, KeysCurrent, Applying

\* What is resolved is taken from the list.
LEMMA RemovedTyped ==
    ASSUME NEW u \in Seq(Entry), NEW i \in 1..Len(u)
    PROVE  RemoveAt(u, i) \in Seq(Entry)
<1>1. SubSeq(u, 1, i - 1) \in Seq(Entry) /\ SubSeq(u, i + 1, Len(u)) \in Seq(Entry)
  BY SubSeqProperties
<1>2. QED
  BY <1>1, ConcatProperties DEF RemoveAt

\* The scan finds each path once, and files each resource under the keys it has.
LEMMA ListingInitially == ListingInit => ListInv
<1> SUFFICES ASSUME ListingInit PROVE ListInv
  OBVIOUS
<1>1. PICK s \in Scans : tree = FromLocal(s)
  BY DEF ListingInit
<1>2. s \in Seq(Resource) /\ Len(s) \in Node
  BY ListingAssumption, ScanAssumption
<1>3. Len(s) \in Nat /\ Len(s) <= MaxNodes
  BY <1>2, ListingAssumption DEF Node
<1>4. DOMAIN tree = 0..Len(s)
  BY <1>1 DEF FromLocal
<1>5. tree[TheRoot] = RootOf
  BY <1>1, <1>3 DEF FromLocal, TheRoot
<1>6. \A p \in DOMAIN tree \ {TheRoot} : p \in 1..Len(s) /\ tree[p] = s[p]
  BY <1>1, <1>3, <1>4 DEF FromLocal, TheRoot
<1>7. \A p \in DOMAIN tree \ {TheRoot} : tree[p] \in Resource
  BY <1>2, <1>6
<1>8. ListTypes
  <2>1. RootOf \in Resource
    BY ListingAssumption DEF RootOf, Resource, Node, TheRoot
  <2>2. tree \in [DOMAIN tree -> Resource]
    BY <1>1, <1>4, <1>5, <1>7, <2>1 DEF FromLocal
  <2>3. QED
    BY <1>3, <1>4, <1>5, <2>2, ListingAssumption DEF ListTypes, ListingInit, RootOf
<1>9. KeysCurrent
  BY DEF KeysCurrent, ListingInit
<1>10. OneEach
  BY <1>6, ScanAssumption DEF OneEach
<1>11. QED
  BY <1>8, <1>9, <1>10 DEF ListInv

\* No step of the listing loses a key or makes a second resource.
LEMMA ListingStep == ListInv /\ [ListingNext]_listvars => ListInv'
<1> SUFFICES ASSUME ListInv, [ListingNext]_listvars PROVE ListInv'
  OBVIOUS
<1> USE DEF ListInv, ListTypes
<1>1. ASSUME NEW e \in coming, Skip(e) PROVE ListInv'
  BY <1>1, SameTree DEF Skip, Read, Applying
<1>2. ASSUME NEW e \in coming, Apply(e) PROVE ListInv'
  BY <1>2, AppliedInv DEF Apply, Read, Applying
<1>3. ASSUME NEW e \in coming, PutOff(e) PROVE ListInv'
  <2>1. unresolved' \in Seq(Entry)
    BY <1>3 DEF PutOff
  <2>2. QED
    BY <1>3, <2>1, SameTree DEF PutOff, Waits, Read, Applying
<1>4. CASE ResolveEntry
  BY <1>4, SameTree DEF ResolveEntry, Applying
<1>5. CASE TryNext
  <2>1. cursor \in 1..Len(unresolved) /\ unresolved[cursor] \in Entry /\ Applying
    BY <1>5 DEF TryNext, Applying
  <2>2. CASE Applied(unresolved[cursor]) /\ unresolved' = RemoveAt(unresolved, cursor)
             /\ UNCHANGED <<coming, cursor>>
    <3>1. unresolved' \in Seq(Entry)
      BY <2>1, <2>2, RemovedTyped
    <3>2. QED
      BY <2>1, <2>2, <3>1, AppliedInv
  <2>3. CASE Waits(unresolved[cursor]) /\ cursor' = cursor + 1 /\ UNCHANGED <<coming, unresolved>>
    BY <2>1, <2>3, SameTree DEF Waits
  <2>4. QED
    BY <1>5, <2>2, <2>3 DEF TryNext
<1>6. CASE EndOfPass
  BY <1>6, SameTree DEF EndOfPass, Applying
<1>7. ASSUME NEW p \in Node, NEW m \in Sum, GetMD5(p, m) PROVE ListInv'
  <2>1. /\ tree' = [tree EXCEPT ![p].md5 = m] /\ p \in DOMAIN tree /\ stage' = "done"
        /\ UNCHANGED <<coming, filed, unresolved, cursor>>
    BY <1>7 DEF GetMD5
  <2>2. tree[p] \in Resource
    BY <2>1
  <2>3. /\ [tree[p] EXCEPT !.md5 = m] \in Resource
        /\ [tree[p] EXCEPT !.md5 = m].href = tree[p].href
        /\ [tree[p] EXCEPT !.md5 = m].label = tree[p].label
        /\ [tree[p] EXCEPT !.md5 = m].parent = tree[p].parent
    BY <2>2 DEF Resource
  <2>4. /\ DOMAIN tree' = DOMAIN tree /\ tree' \in [DOMAIN tree -> Resource]
        /\ \A q \in DOMAIN tree : /\ tree'[q].href = tree[q].href
                                 /\ tree'[q].label = tree[q].label
                                 /\ tree'[q].parent = tree[q].parent
    BY <2>1, <2>3
  <2>5. OneEach'
    BY <2>4 DEF OneEach
  <2>6. TheRoot \in DOMAIN tree
    BY DEF TheRoot
  <2>7. QED
    BY <2>1, <2>4, <2>5, <2>6 DEF KeysCurrent
<1>8. CASE UNCHANGED listvars
  BY <1>8 DEF listvars, KeysCurrent, OneEach
<1>9. QED
  BY <1>1, <1>2, <1>3, <1>4, <1>5, <1>6, <1>7, <1>8 DEF ListingNext

\* "Reinsert should be called when the ID/HREF/MD5 were updated" (ResourceTree.cc:114): while the
\* listing is applied, every resource is found by its link and its checksum.
THEOREM KeysAreCurrent == ListingSpec => []KeysCurrent
<1>1. ListInv => KeysCurrent
  BY DEF ListInv
<1>2. QED
  BY ListingInitially, ListingStep, <1>1, PTL DEF ListingSpec

\* No two resources stand for one object of the server, or for one path of the disk
\* (State.cc:161).
THEOREM OneResourceEach == ListingSpec => []OneEach
<1>1. ListInv => OneEach
  BY DEF ListInv
<1>2. QED
  BY ListingInitially, ListingStep, <1>1, PTL DEF ListingSpec

-------------------------------------------------------------------------------
(* Places.                                                                 *)

\* A resource with a link is at the name of an entry, in the resource of the entry's folder.
Hangs(p) ==
    /\ tree[p].parent \in DOMAIN tree /\ tree[p].href \in Rooted
    /\ \E e \in Entries : /\ e.self = tree[p].href /\ e.label = tree[p].label
                          /\ tree[tree[p].parent].href = TheParent(e)

\* Neither the object nor its folder has a resource.
Waiting(e) == Linked(e.self) = {} /\ Linked(TheParent(e)) = {}

InUnresolved(e) == \E i \in 1..Len(unresolved) : unresolved[i] = e

AllHang == \A p \in DOMAIN tree \ {TheRoot} : tree[p].href # NoHref => Hangs(p)

Accounted ==
    stage # "aborted" =>
        \A e \in Entries : e \in coming \/ InUnresolved(e) \/ Linked(e.self) # {}

\* A pass that resolved nothing yet has only met entries that wait, and at the end of a pass
\* that resolved nothing all of them do.
Passed ==
    /\ stage = "resolve" /\ count = 0 => \A i \in 1..Len(unresolved) : i < cursor => Waiting(unresolved[i])
    /\ stage = "done" => \A i \in 1..Len(unresolved) : Waiting(unresolved[i])

PlaceInv ==
    /\ ListInv
    /\ listing \subseteq Entry /\ coming \subseteq listing /\ count \in Nat
    /\ \A i \in 1..Len(unresolved) : unresolved[i] \in Entries
    /\ stage \in {"resolve", "done"} => coming = {}
    /\ ~Twins => AllHang /\ Accounted /\ Passed

\* An accepted entry is in one folder.
LEMMA ParentLink ==
    ASSUME NEW e \in Entry, Accepted(e)
    PROVE  TheParent(e) \in Href \cup {RootHref} /\ TheParent(e) # NoHref
<1>1. e.parents \subseteq Href \cup {RootHref}
  BY DEF Entry
<1>2. e.parents # {}
  BY FS_EmptySet DEF Accepted
<1>3. QED
  BY <1>1, <1>2, ListingAssumption DEF TheParent

\* The root leads to the root, and so does what is in a folder that does.
LEMMA RootedCloses ==
    ASSUME listing \subseteq Entry
    PROVE  /\ RootHref \in Rooted
           /\ \A e \in Entries : TheParent(e) \in Rooted => e.self \in Rooted
<1>1. \A e \in Entries : e.self \in Href
  BY DEF Entries, Entry
<1>2. QED
  BY <1>1 DEF Rooted

\* An entry that is applied leaves the links as they are, or gives its link to a resource at its
\* name in the resource of its folder (State::Update).
LEMMA AppliedLinks ==
    ASSUME ListInv, Applying, NEW e \in Entry, Applied(e)
    PROVE  \/ UNCHANGED tree /\ stage' = "aborted"
           \/ /\ stage' = stage /\ DOMAIN tree' = DOMAIN tree /\ Linked(e.self) # {}
              /\ \A q \in DOMAIN tree : /\ tree'[q].href = tree[q].href
                                        /\ tree'[q].label = tree[q].label
                                        /\ tree'[q].parent = tree[q].parent
           \/ /\ stage' = stage /\ Linked(e.self) = {}
              /\ \E f \in Linked(TheParent(e)), c \in DOMAIN tree' \ {TheRoot} :
                    /\ DOMAIN tree' = DOMAIN tree \cup {c}
                    /\ tree'[c].href = e.self /\ tree'[c].label = e.label /\ tree'[c].parent = f
                    /\ c \in DOMAIN tree => tree[c].label = e.label /\ tree[c].parent = f
                    /\ \A q \in DOMAIN tree : q # c => tree'[q] = tree[q]
<1>1. e.self # NoHref
  BY ListingAssumption DEF Entry
<1>2. PICK p \in FindByHref(e.self) :
       IF p # NoNode
       THEN Update(p, e) /\ UNCHANGED stage
       ELSE \E f \in FindByHref(TheParent(e)) \ {NoNode} :
              IF ~tree[f].folder
              THEN stage' = "aborted" /\ UNCHANGED <<tree, filed>>
              ELSE /\ IF FindChild(f, e.label) # {}
                      THEN \E c \in FindChild(f, e.label) : Update(c, e)
                      ELSE AddNew(f, e)
                   /\ UNCHANGED stage
  BY DEF Applied, Known
<1>3. ASSUME NEW c \in DOMAIN tree, Update(c, e)
      PROVE  /\ DOMAIN tree' = DOMAIN tree /\ tree'[c].href = e.self
             /\ tree'[c].label = tree[c].label /\ tree'[c].parent = tree[c].parent
             /\ \A q \in DOMAIN tree : q # c => tree'[q] = tree[q]
  <2>1. tree[c] \in Resource
    BY DEF ListInv, ListTypes
  <2>2. DOMAIN tree' = DOMAIN tree /\ tree'[c] = FromRemote(tree[c], e)
        /\ \A q \in DOMAIN tree : q # c => tree'[q] = tree[q]
    BY <1>3 DEF Update, ListInv, ListTypes
  <2>3. QED
    BY <2>1, <2>2, FromRemoteTyped
<1>4. CASE p # NoNode
  <2>1. p \in Linked(e.self) /\ Update(p, e) /\ stage' = stage
    BY <1>1, <1>2, <1>4, FoundIfLinked
  <2>2. p \in DOMAIN tree /\ tree[p].href = e.self
    BY <2>1 DEF Linked
  <2>3. QED
    BY <1>3, <2>1, <2>2
<1>5. CASE p = NoNode
  <2>1. Linked(e.self) = {}
    BY <1>1, <1>2, <1>5, FoundIfLinked
  <2>2. PICK f \in FindByHref(TheParent(e)) \ {NoNode} :
              IF ~tree[f].folder
              THEN stage' = "aborted" /\ UNCHANGED <<tree, filed>>
              ELSE /\ IF FindChild(f, e.label) # {}
                      THEN \E c \in FindChild(f, e.label) : Update(c, e)
                      ELSE AddNew(f, e)
                   /\ UNCHANGED stage
    BY <1>2, <1>5
  <2>3. f \in Linked(TheParent(e))
    BY <2>2 DEF FindByHref
  <2>4. CASE ~tree[f].folder
    BY <2>2, <2>4
  <2>5. CASE tree[f].folder /\ FindChild(f, e.label) # {}
    <3>1. PICK c \in FindChild(f, e.label) : Update(c, e)
      BY <2>2, <2>5
    <3>2. c \in DOMAIN tree /\ c # TheRoot /\ tree[c].label = e.label /\ tree[c].parent = f
      BY <3>1 DEF FindChild
    <3>3. /\ DOMAIN tree' = DOMAIN tree \cup {c}
          /\ tree'[c].href = e.self /\ tree'[c].label = e.label /\ tree'[c].parent = f
          /\ \A q \in DOMAIN tree : q # c => tree'[q] = tree[q]
      BY <1>3, <3>1, <3>2
    <3>4. QED
      BY <2>1, <2>2, <2>3, <2>5, <3>2, <3>3
  <2>6. CASE tree[f].folder /\ FindChild(f, e.label) = {}
    <3> DEFINE n == Cardinality(DOMAIN tree)
               r == [label |-> e.label, parent |-> f, href |-> NoHref, md5 |-> NoMd5,
                     folder |-> e.dir]
    <3>1. /\ n \in Node /\ stage' = stage
          /\ tree' = [x \in DOMAIN tree \cup {n} |-> IF x = n THEN FromRemote(r, e) ELSE tree[x]]
      BY <2>2, <2>6 DEF AddNew
    <3>2. n \notin DOMAIN tree /\ n # TheRoot
      BY <3>1, NextAddress
    <3>3. /\ FromRemote(r, e).href = e.self /\ FromRemote(r, e).label = e.label
          /\ FromRemote(r, e).parent = f
      BY DEF FromRemote
    <3> HIDE DEF n, r
    <3>4. /\ DOMAIN tree' = DOMAIN tree \cup {n} /\ n \in DOMAIN tree' \ {TheRoot}
          /\ tree'[n].href = e.self /\ tree'[n].label = e.label /\ tree'[n].parent = f
          /\ \A q \in DOMAIN tree : q # n => tree'[q] = tree[q]
      BY <3>1, <3>2, <3>3
    <3>5. QED
      BY <2>1, <2>3, <3>1, <3>2, <3>4
  <2>7. QED
    BY <2>4, <2>5, <2>6
<1>6. QED
  BY <1>4, <1>5

\* A name of a folder is that of one object, so what gets a link had none.
LEMMA GetsItsFirst ==
    ASSUME AllHang, ~Twins, NEW e \in Entries, Linked(e.self) = {},
           NEW f \in Linked(TheParent(e)), NEW c \in DOMAIN tree \ {TheRoot},
           tree[c].label = e.label, tree[c].parent = f
    PROVE  tree[c].href = NoHref
<1>1. SUFFICES ASSUME tree[c].href # NoHref PROVE FALSE
  OBVIOUS
<1>2. PICK d \in Entries : /\ d.self = tree[c].href /\ d.label = tree[c].label
                           /\ tree[tree[c].parent].href = TheParent(d)
  BY <1>1 DEF AllHang, Hangs
<1>3. TheParent(d) = TheParent(e)
  BY <1>2 DEF Linked
<1>4. d.self = e.self
  BY <1>2, <1>3 DEF Twins
<1>5. QED
  BY <1>2, <1>4 DEF Linked

\* What an entry does to the links (State::Update).
LEMMA AppliedPlaces ==
    ASSUME PlaceInv, ~Twins, Applying, NEW e \in Entries, Applied(e), UNCHANGED listing
    PROVE  /\ AllHang'
           /\ stage' = "aborted" \/ (stage' = stage /\ Linked(e.self)' # {})
           /\ \A h : h # NoHref /\ Linked(h) # {} => Linked(h)' # {}
<1>1. e \in Entry /\ Accepted(e)
  BY DEF PlaceInv, Entries
<1>2. Entries' = Entries /\ Rooted' = Rooted
  BY DEF Entries, Rooted
<1>3. CASE UNCHANGED tree /\ stage' = "aborted"
  BY <1>2, <1>3 DEF PlaceInv, AllHang, Hangs, Linked
<1>4. CASE /\ stage' = stage /\ DOMAIN tree' = DOMAIN tree /\ Linked(e.self) # {}
           /\ \A q \in DOMAIN tree : /\ tree'[q].href = tree[q].href
                                     /\ tree'[q].label = tree[q].label
                                     /\ tree'[q].parent = tree[q].parent
  <2>1. \A h : Linked(h)' = Linked(h)
    BY <1>4 DEF Linked
  <2>2. AllHang'
    <3>1. SUFFICES ASSUME NEW p \in DOMAIN tree \ {TheRoot}, tree[p].href # NoHref
                   PROVE  Hangs(p)'
      BY <1>4 DEF AllHang
    <3>2. Hangs(p)
      BY <3>1 DEF PlaceInv, AllHang
    <3>3. QED
      BY <1>2, <1>4, <3>2 DEF Hangs
  <2>3. QED
    BY <1>4, <2>1, <2>2
<1>5. CASE /\ stage' = stage /\ Linked(e.self) = {}
           /\ \E f \in Linked(TheParent(e)), c \in DOMAIN tree' \ {TheRoot} :
                 /\ DOMAIN tree' = DOMAIN tree \cup {c}
                 /\ tree'[c].href = e.self /\ tree'[c].label = e.label /\ tree'[c].parent = f
                 /\ c \in DOMAIN tree => tree[c].label = e.label /\ tree[c].parent = f
                 /\ \A q \in DOMAIN tree : q # c => tree'[q] = tree[q]
  <2>1. PICK f \in Linked(TheParent(e)), c \in DOMAIN tree' \ {TheRoot} :
                 /\ DOMAIN tree' = DOMAIN tree \cup {c}
                 /\ tree'[c].href = e.self /\ tree'[c].label = e.label /\ tree'[c].parent = f
                 /\ c \in DOMAIN tree => tree[c].label = e.label /\ tree[c].parent = f
                 /\ \A q \in DOMAIN tree : q # c => tree'[q] = tree[q]
    BY <1>5
  <2>2. c \in DOMAIN tree => tree[c].href = NoHref
    BY <1>5, <2>1, GetsItsFirst DEF PlaceInv
  <2>3. f \in DOMAIN tree /\ tree[f].href = TheParent(e) /\ TheParent(e) # NoHref
    BY <1>1, ParentLink DEF Linked
  <2>4. f # c /\ tree'[f] = tree[f] /\ f \in DOMAIN tree'
    BY <2>1, <2>2, <2>3
  <2>5. \A h : h # NoHref /\ Linked(h) # {} => Linked(h)' # {}
    <3>1. SUFFICES ASSUME NEW h, h # NoHref, NEW q \in Linked(h) PROVE q \in Linked(h)'
      OBVIOUS
    <3>2. q \in DOMAIN tree /\ tree[q].href = h /\ q # c
      BY <2>2, <3>1 DEF Linked
    <3>3. QED
      BY <2>1, <3>2 DEF Linked
  <2>6. e.self \in Rooted
    <3>1. tree[f].href \in Rooted
      <4>1. CASE f = TheRoot
        BY <4>1, RootedCloses DEF PlaceInv, ListInv, ListTypes
      <4>2. CASE f # TheRoot
        BY <2>3, <4>2 DEF PlaceInv, AllHang, Hangs
      <4>3. QED
        BY <4>1, <4>2
    <3>2. QED
      BY <2>3, <3>1, RootedCloses DEF PlaceInv
  <2>7. Hangs(c)'
    BY <1>2, <2>1, <2>3, <2>4, <2>6 DEF Hangs
  <2>8. AllHang'
    <3>1. SUFFICES ASSUME NEW p \in DOMAIN tree \ {TheRoot}, p # c, tree[p].href # NoHref
                   PROVE  Hangs(p)'
      BY <2>1, <2>7 DEF AllHang
    <3>2. tree[p].parent \in DOMAIN tree /\ tree[p].href \in Rooted
      BY <3>1 DEF PlaceInv, AllHang, Hangs
    <3>3. PICK d \in Entries : /\ d.self = tree[p].href /\ d.label = tree[p].label
                               /\ tree[tree[p].parent].href = TheParent(d)
      BY <3>1 DEF PlaceInv, AllHang, Hangs
    <3>4. TheParent(d) # NoHref
      BY ParentLink DEF PlaceInv, Entries
    <3>5. tree[p].parent # c
      BY <2>2, <3>2, <3>3, <3>4
    <3>6. tree'[p] = tree[p] /\ tree'[tree[p].parent] = tree[tree[p].parent]
      BY <2>1, <3>1, <3>2, <3>5
    <3>7. QED
      BY <1>2, <2>1, <3>2, <3>3, <3>6 DEF Hangs
  <2>9. Linked(e.self)' # {}
    BY <2>1 DEF Linked
  <2>10. QED
    BY <1>5, <2>5, <2>8, <2>9
<1>6. QED
  BY <1>1, <1>3, <1>4, <1>5, AppliedLinks DEF PlaceInv

\* What the scan has found has no links.
LEMMA PlaceInitially == ListingInit => PlaceInv
<1> SUFFICES ASSUME ListingInit PROVE PlaceInv
  OBVIOUS
<1>1. ListInv
  BY ListingInitially
<1>2. /\ listing \subseteq Entry /\ coming = listing /\ count = 0 /\ unresolved = <<>>
      /\ stage = "list"
  BY ListingAssumption DEF ListingInit
<1>3. AllHang
  <2>1. PICK s \in Scans : tree = FromLocal(s)
    BY DEF ListingInit
  <2>2. \A p \in DOMAIN tree \ {TheRoot} : p \in 1..Len(s) /\ tree[p] = s[p]
    <3>1. Len(s) \in Nat
      BY <2>1, ListingAssumption
    <3>2. QED
      BY <2>1, <3>1 DEF FromLocal, TheRoot
  <2>3. QED
    BY <2>1, <2>2, ScanAssumption DEF AllHang
<1>4. Accounted /\ Passed
  BY <1>2 DEF Accounted, Passed, Entries
<1>5. QED
  BY <1>1, <1>2, <1>3, <1>4 DEF PlaceInv

\* Whoever was put off and not resolved is still put off.
LEMMA RemovedKeeps ==
    ASSUME NEW u \in Seq(Entry), NEW i \in 1..Len(u)
    PROVE  /\ \A j \in 1..Len(RemoveAt(u, i)) : \E k \in 1..Len(u) : RemoveAt(u, i)[j] = u[k]
           /\ \A k \in 1..Len(u) : k # i => \E j \in 1..Len(RemoveAt(u, i)) : RemoveAt(u, i)[j] = u[k]
<1> DEFINE v == RemoveAt(u, i)
           a == SubSeq(u, 1, i - 1)
           b == SubSeq(u, i + 1, Len(u))
<1>1. /\ a \in Seq(Entry) /\ Len(a) = i - 1 /\ \A j \in 1..(i - 1) : a[j] = u[j]
      /\ b \in Seq(Entry) /\ Len(b) = Len(u) - i /\ \A j \in 1..(Len(u) - i) : b[j] = u[i + j]
  <2>1. /\ a \in Seq(Entry) /\ Len(a) = i - 1 /\ \A j \in 1..(i - 1) : a[j] = u[j]
    BY SubSeqProperties
  <2>2. /\ b \in Seq(Entry) /\ Len(b) = Len(u) - i /\ \A j \in 1..(Len(u) - i) : b[j] = u[i + j]
    BY SubSeqProperties
  <2>3. QED
    BY <2>1, <2>2
<1>2. v = a \o b
  BY DEF RemoveAt
<1> HIDE DEF a, b, v
<1>3. /\ Len(v) = Len(u) - 1
      /\ \A j \in 1..Len(v) : v[j] = IF j <= i - 1 THEN a[j] ELSE b[j - (i - 1)]
  <2>1. /\ Len(v) = Len(a) + Len(b)
        /\ \A j \in 1..(Len(a) + Len(b)) : v[j] = IF j <= Len(a) THEN a[j] ELSE b[j - Len(a)]
    BY <1>1, <1>2, ConcatProperties
  <2>2. Len(a) + Len(b) = Len(u) - 1
    BY <1>1
  <2>3. QED
    BY <1>1, <2>1, <2>2
<1>4. \A j \in 1..Len(v) : v[j] = IF j < i THEN u[j] ELSE u[j + 1]
  <2>1. SUFFICES ASSUME NEW j \in 1..Len(v) PROVE v[j] = IF j < i THEN u[j] ELSE u[j + 1]
    OBVIOUS
  <2>2. CASE j < i
    BY <1>1, <1>3, <2>2
  <2>3. CASE ~(j < i)
    <3>1. j - (i - 1) \in 1..(Len(u) - i) /\ i + (j - (i - 1)) = j + 1
      BY <1>3, <2>3
    <3>2. QED
      BY <1>1, <1>3, <2>3, <3>1
  <2>4. QED
    BY <2>2, <2>3
<1>5. \A j \in 1..Len(v) : \E k \in 1..Len(u) : v[j] = u[k]
  <2>1. SUFFICES ASSUME NEW j \in 1..Len(v) PROVE \E k \in 1..Len(u) : v[j] = u[k]
    OBVIOUS
  <2>2. j \in 1..Len(u) /\ j + 1 \in 1..Len(u)
    BY <1>3
  <2>3. QED
    BY <1>4, <2>2
<1>6. \A k \in 1..Len(u) : k # i => \E j \in 1..Len(v) : v[j] = u[k]
  <2>1. SUFFICES ASSUME NEW k \in 1..Len(u), k # i PROVE \E j \in 1..Len(v) : v[j] = u[k]
    OBVIOUS
  <2>2. CASE k < i
    <3>1. k \in 1..Len(v)
      BY <1>3, <2>2
    <3>2. QED
      BY <1>4, <2>2, <3>1
  <2>3. CASE k > i
    <3>1. k - 1 \in 1..Len(v) /\ ~(k - 1 < i) /\ (k - 1) + 1 = k
      BY <1>3, <2>3
    <3>2. QED
      BY <1>4, <3>1
  <2>4. QED
    BY <2>1, <2>2, <2>3
<1>7. QED
  BY <1>5, <1>6 DEF v

\* What waits has neither link.
LEMMA WaitsHere ==
    ASSUME ListInv, Applying, NEW e \in Entry, Accepted(e), Waits(e)
    PROVE  Waiting(e)
<1>1. e.self # NoHref
  BY ListingAssumption DEF Entry
<1>2. TheParent(e) # NoHref
  BY ParentLink
<1>3. NoNode \in FindByHref(e.self) /\ NoNode \in FindByHref(TheParent(e))
  BY DEF Waits, Known
<1>4. QED
  BY <1>1, <1>2, <1>3, FoundIfLinked DEF Waiting

\* No step of the listing displaces a resource or forgets an entry.
LEMMA PlaceStep ==
    ASSUME PlaceInv, [ListingNext]_listvars
    PROVE  PlaceInv'
<1>1. ListInv' /\ ListInv
  BY ListingStep DEF PlaceInv
<1>2. ASSUME UNCHANGED <<listing, tree>>
      PROVE  /\ Entries' = Entries /\ Rooted' = Rooted /\ Twins' = Twins
             /\ AllHang => AllHang'
             /\ \A h : Linked(h)' = Linked(h)
             /\ \A e : Waiting(e)' = Waiting(e)
  BY <1>2 DEF Entries, Rooted, Twins, AllHang, Hangs, Linked, Waiting
<1>3. ASSUME NEW e \in coming, Skip(e) PROVE PlaceInv'
  <2>1. /\ e \notin Entries /\ coming' = coming \ {e} /\ stage = "list"
        /\ UNCHANGED <<listing, cursor, count, tree, unresolved, stage>>
    BY <1>3 DEF Skip, Read, Entries
  <2>2. ~Twins => Accounted'
    BY <1>2, <2>1 DEF PlaceInv, Accounted, InUnresolved
  <2>3. Passed'
    BY <2>1 DEF Passed
  <2>4. QED
    BY <1>1, <1>2, <2>1, <2>2, <2>3 DEF PlaceInv
<1>4. ASSUME NEW e \in coming, Apply(e) PROVE PlaceInv'
  <2>1. /\ e \in Entries /\ coming' = coming \ {e} /\ stage = "list" /\ Applying /\ Applied(e)
        /\ UNCHANGED <<listing, cursor, count, unresolved>>
    BY <1>4 DEF Apply, Read, Entries, PlaceInv, Applying
  <2>2. Entries' = Entries /\ Twins' = Twins
    BY <2>1 DEF Entries, Twins
  <2>3. stage' \in {"list", "aborted"}
    BY <1>1, <2>1, AppliedLinks DEF PlaceInv, Entries
  <2>4. ASSUME ~Twins PROVE AllHang' /\ Accounted'
    <3>1. /\ AllHang' /\ (stage' = "aborted" \/ Linked(e.self)' # {})
          /\ \A h : h # NoHref /\ Linked(h) # {} => Linked(h)' # {}
      BY <2>1, <2>4, AppliedPlaces
    <3>2. \A d \in Entries : d.self # NoHref
      BY ListingAssumption DEF PlaceInv, Entries, Entry
    <3>3. Accounted'
      BY <2>1, <2>2, <2>4, <3>1, <3>2 DEF PlaceInv, Accounted, InUnresolved
    <3>4. QED
      BY <3>1, <3>3
  <2>5. Passed'
    BY <2>3 DEF Passed
  <2>6. QED
    BY <1>1, <2>1, <2>2, <2>3, <2>4, <2>5 DEF PlaceInv
<1>5. ASSUME NEW e \in coming, PutOff(e) PROVE PlaceInv'
  <2>1. /\ e \in Entries /\ coming' = coming \ {e} /\ stage = "list"
        /\ unresolved' = Append(unresolved, e)
        /\ UNCHANGED <<listing, cursor, count, tree, stage>>
    BY <1>5 DEF PutOff, Waits, Read, Entries, PlaceInv
  <2>2. /\ Len(unresolved') = Len(unresolved) + 1 /\ Len(unresolved) \in Nat
        /\ unresolved'[Len(unresolved) + 1] = e
        /\ \A i \in 1..Len(unresolved) : unresolved'[i] = unresolved[i]
    BY <1>1, <2>1 DEF ListInv, ListTypes, Entries, PlaceInv
  <2>3. \A i \in 1..Len(unresolved') : unresolved'[i] \in Entries'
    BY <1>2, <2>1, <2>2 DEF PlaceInv
  <2>4. \A d : d = e \/ InUnresolved(d) => InUnresolved(d)'
    <3>1. InUnresolved(e)'
      BY <2>2 DEF InUnresolved
    <3>2. ASSUME NEW d, InUnresolved(d) PROVE InUnresolved(d)'
      BY <2>2, <3>2 DEF InUnresolved
    <3>3. QED
      BY <3>1, <3>2
  <2>5. ~Twins => Accounted'
    BY <1>2, <2>1, <2>4 DEF PlaceInv, Accounted
  <2>6. Passed'
    BY <2>1 DEF Passed
  <2>7. QED
    BY <1>1, <1>2, <2>1, <2>3, <2>5, <2>6 DEF PlaceInv
<1>6. CASE ResolveEntry
  <2>1. /\ stage = "list" /\ coming = {} /\ cursor' = 1 /\ count' = 0
        /\ stage' = IF unresolved = <<>> THEN "done" ELSE "resolve"
        /\ UNCHANGED <<listing, coming, tree, unresolved>>
    BY <1>6 DEF ResolveEntry
  <2>2. ~Twins => Accounted'
    BY <1>2, <2>1 DEF PlaceInv, Accounted, InUnresolved
  <2>3. Passed'
    BY <2>1 DEF Passed
  <2>4. QED
    BY <1>1, <1>2, <2>1, <2>2, <2>3 DEF PlaceInv
<1>7. CASE TryNext
  <2>1. PICK e \in Entries :
          /\ stage = "resolve" /\ Applying /\ cursor \in 1..Len(unresolved) /\ e = unresolved[cursor]
          /\ UNCHANGED <<listing, coming>>
    <3>1. /\ stage = "resolve" /\ cursor \in 1..Len(unresolved) /\ UNCHANGED <<listing, coming>>
      BY <1>1, <1>7 DEF TryNext, ListInv, ListTypes
    <3>2. unresolved[cursor] \in Entries
      BY <3>1 DEF PlaceInv
    <3>3. QED
      BY <3>1, <3>2 DEF Applying
  <2>2. Entries' = Entries /\ Twins' = Twins
    BY <2>1 DEF Entries, Twins
  <2>3. CASE Applied(e) /\ unresolved' = RemoveAt(unresolved, cursor) /\ count' = count + 1
    <3>1. /\ \A j \in 1..Len(unresolved') : \E k \in 1..Len(unresolved) : unresolved'[j] = unresolved[k]
          /\ \A k \in 1..Len(unresolved) : k # cursor =>
                \E j \in 1..Len(unresolved') : unresolved'[j] = unresolved[k]
      <4>1. unresolved \in Seq(Entry)
        BY <1>1 DEF ListInv, ListTypes
      <4>2. QED
        BY <2>1, <2>3, <4>1, RemovedKeeps
    <3>2. \A j \in 1..Len(unresolved') : unresolved'[j] \in Entries'
      BY <2>2, <3>1 DEF PlaceInv
    <3>3. stage' \in {"resolve", "aborted"}
      BY <1>1, <2>1, <2>3, AppliedLinks DEF PlaceInv, Entries
    <3>4. ASSUME ~Twins PROVE AllHang' /\ Accounted'
      <4>1. /\ AllHang' /\ (stage' = "aborted" \/ Linked(e.self)' # {})
            /\ \A h : h # NoHref /\ Linked(h) # {} => Linked(h)' # {}
        BY <2>1, <2>3, <3>4, AppliedPlaces
      <4>2. \A d \in Entries : d.self # NoHref
        BY ListingAssumption DEF PlaceInv, Entries, Entry
      <4>3. \A d : InUnresolved(d) /\ d # e => InUnresolved(d)'
        <5>1. SUFFICES ASSUME NEW d, d # e, NEW k \in 1..Len(unresolved), unresolved[k] = d
                       PROVE  InUnresolved(d)'
          BY DEF InUnresolved
        <5>2. k # cursor
          BY <2>1, <5>1
        <5>3. QED
          BY <3>1, <5>1, <5>2 DEF InUnresolved
      <4>4. ASSUME stage' # "aborted", NEW d \in Entries
            PROVE  (d \in coming \/ InUnresolved(d) \/ Linked(d.self) # {})'
        <5>1. d \in coming \/ InUnresolved(d) \/ Linked(d.self) # {}
          BY <2>1, <3>4 DEF PlaceInv, Accounted
        <5>2. d = e => Linked(d.self)' # {}
          BY <4>1, <4>4
        <5>3. Linked(d.self) # {} => Linked(d.self)' # {}
          BY <4>1, <4>2
        <5>4. QED
          BY <2>1, <4>3, <5>1, <5>2, <5>3
      <4>5. Accounted'
        BY <2>2, <4>4 DEF Accounted
      <4>6. QED
        BY <4>1, <4>5
    <3>5. Passed'
      BY <2>3, <3>3 DEF Passed, PlaceInv
    <3>6. count' \in Nat
      BY <2>3 DEF PlaceInv
    <3>7. coming' = {}
      BY <2>1 DEF PlaceInv
    <3>8. QED
      BY <1>1, <2>1, <2>2, <3>2, <3>4, <3>5, <3>6, <3>7 DEF PlaceInv
  <2>4. CASE Waits(e) /\ cursor' = cursor + 1 /\ UNCHANGED <<unresolved, count>>
    <3>1. UNCHANGED <<tree, stage>>
      BY <2>4 DEF Waits
    <3>2. Waiting(e)
      BY <1>1, <2>1, <2>4, WaitsHere DEF Entries, PlaceInv
    <3>3. ASSUME Passed PROVE Passed'
      <4>1. ASSUME count = 0, NEW i \in 1..Len(unresolved), i < cursor + 1
            PROVE  Waiting(unresolved[i])
        <5>1. i < cursor \/ i = cursor
          BY <2>1, <4>1
        <5>2. QED
          BY <2>1, <3>2, <3>3, <4>1, <5>1 DEF Passed
      <4>2. QED
        BY <1>2, <2>1, <2>4, <3>1, <4>1 DEF Passed
    <3>4. ~Twins => Accounted'
      BY <1>2, <2>1, <2>4, <3>1 DEF PlaceInv, Accounted, InUnresolved
    <3>5. QED
      BY <1>1, <1>2, <2>1, <2>4, <3>1, <3>3, <3>4 DEF PlaceInv
  <2>5. QED
    BY <1>7, <2>1, <2>3, <2>4 DEF TryNext
<1>8. CASE EndOfPass
  <2>1. /\ stage = "resolve" /\ cursor > Len(unresolved) /\ cursor' = 1 /\ count' = 0
        /\ stage' = IF unresolved # <<>> /\ count # 0 THEN "resolve" ELSE "done"
        /\ UNCHANGED <<listing, coming, tree, unresolved>>
    BY <1>8 DEF EndOfPass, GoesOn
  <2>2. ~Twins => Accounted'
    BY <1>2, <2>1 DEF PlaceInv, Accounted, InUnresolved
  <2>3. Len(unresolved) \in Nat /\ cursor \in Nat
    BY <1>1 DEF ListInv, ListTypes
  <2>4. ASSUME Passed PROVE Passed'
    <3>1. ASSUME stage' = "done", NEW i \in 1..Len(unresolved) PROVE Waiting(unresolved[i])
      <4>1. count = 0 /\ i < cursor
        BY <2>1, <2>3, <3>1
      <4>2. QED
        BY <2>1, <2>4, <3>1, <4>1 DEF Passed
    <3>2. QED
      BY <1>2, <2>1, <2>3, <3>1 DEF Passed
  <2>5. QED
    BY <1>1, <1>2, <2>1, <2>2, <2>4 DEF PlaceInv
<1>9. ASSUME NEW p \in Node, NEW m \in Sum, GetMD5(p, m) PROVE PlaceInv'
  <2>1. /\ tree' = [tree EXCEPT ![p].md5 = m] /\ p \in DOMAIN tree /\ stage = "done"
        /\ UNCHANGED <<listing, coming, unresolved, cursor, count, stage>>
    BY <1>9 DEF GetMD5
  <2>2. tree \in [DOMAIN tree -> Resource]
    BY <1>1 DEF ListInv, ListTypes
  <2>3. /\ [tree[p] EXCEPT !.md5 = m].href = tree[p].href
        /\ [tree[p] EXCEPT !.md5 = m].label = tree[p].label
        /\ [tree[p] EXCEPT !.md5 = m].parent = tree[p].parent
    BY <2>1, <2>2 DEF Resource
  <2>4. /\ DOMAIN tree' = DOMAIN tree
        /\ \A q \in DOMAIN tree : /\ tree'[q].href = tree[q].href
                                 /\ tree'[q].label = tree[q].label
                                 /\ tree'[q].parent = tree[q].parent
    BY <2>1, <2>2, <2>3
  <2>5. \A h : Linked(h)' = Linked(h)
    BY <2>4 DEF Linked
  <2>6. /\ Entries' = Entries /\ Rooted' = Rooted /\ Twins' = Twins
        /\ \A e : Waiting(e)' = Waiting(e)
    BY <2>1, <2>5 DEF Entries, Rooted, Twins, Waiting
  <2>7. AllHang => AllHang'
    <3>1. SUFFICES ASSUME AllHang, NEW q \in DOMAIN tree \ {TheRoot}, tree[q].href # NoHref
                   PROVE  Hangs(q)'
      BY <2>4 DEF AllHang
    <3>2. Hangs(q)
      BY <3>1 DEF AllHang
    <3>3. QED
      BY <2>4, <2>6, <3>2 DEF Hangs
  <2>8. Accounted => Accounted'
    BY <2>1, <2>5, <2>6 DEF Accounted, InUnresolved
  <2>9. Passed => Passed'
    BY <2>1, <2>6 DEF Passed
  <2>10. QED
    BY <1>1, <2>1, <2>6, <2>7, <2>8, <2>9 DEF PlaceInv
<1>10. CASE UNCHANGED listvars
  <2>1. UNCHANGED <<listing, coming, tree, unresolved, cursor, count, stage>>
    BY <1>10 DEF listvars
  <2>2. (Accounted => Accounted') /\ (Passed => Passed')
    BY <1>2, <2>1 DEF Accounted, InUnresolved, Passed
  <2>3. QED
    BY <1>1, <1>2, <2>1, <2>2 DEF PlaceInv
<1>11. QED
  BY <1>3, <1>4, <1>5, <1>6, <1>7, <1>8, <1>9, <1>10 DEF ListingNext

\* When nothing is left to be resolved, the links that have a resource are closed: an entry whose
\* folder has one does not wait.
LEMMA AllPlaced == PlaceInv => Placed
<1> SUFFICES ASSUME PlaceInv, stage = "done", ~Twins, NEW e \in listing
             PROVE  IF e.self \in Rooted
                    THEN \E p \in Linked(e.self), d \in Entries :
                           /\ d.self = e.self /\ tree[p].label = d.label
                           /\ tree[tree[p].parent].href = TheParent(d)
                    ELSE Linked(e.self) = {}
  BY DEF Placed
<1>1. e.self \in Href /\ e.self # RootHref /\ e.self # NoHref
  BY ListingAssumption DEF PlaceInv, Entry
<1>2. /\ TheRoot \in DOMAIN tree /\ tree[TheRoot].href = RootHref
      /\ AllHang /\ Accounted /\ Passed /\ coming = {}
  BY DEF PlaceInv, ListInv, ListTypes, TheRoot
<1>3. CASE e.self \in Rooted
  <2> DEFINE S == {h \in Href \cup {RootHref} : Linked(h) # {}}
  <2>1. RootHref \in S
    BY <1>2 DEF Linked
  <2>2. ASSUME NEW d \in Entries, TheParent(d) \in S PROVE d.self \in S
    <3>1. d.self \in Href
      BY DEF PlaceInv, Entries, Entry
    <3>2. InUnresolved(d) => Waiting(d)
      BY <1>2 DEF Passed, InUnresolved
    <3>3. Linked(d.self) # {}
      BY <1>2, <2>2, <3>2 DEF Accounted, Waiting
    <3>4. QED
      BY <3>1, <3>3
  <2>3. e.self \in S
    BY <1>3, <2>1, <2>2 DEF Rooted
  <2>4. PICK p \in Linked(e.self) : TRUE
    BY <2>3
  <2>5. p \in DOMAIN tree \ {TheRoot} /\ tree[p].href = e.self
    BY <1>1, <1>2, <2>4 DEF Linked
  <2>6. Hangs(p)
    BY <1>1, <1>2, <2>5 DEF AllHang
  <2>7. QED
    BY <1>3, <2>4, <2>5, <2>6 DEF Hangs
<1>4. CASE e.self \notin Rooted
  <2>1. ASSUME NEW p \in Linked(e.self) PROVE FALSE
    <3>1. p \in DOMAIN tree \ {TheRoot} /\ tree[p].href = e.self
      BY <1>1, <1>2, <2>1 DEF Linked
    <3>2. QED
      BY <1>1, <1>2, <1>4, <3>1 DEF AllHang, Hangs
  <2>2. QED
    BY <1>4, <2>1
<1>5. QED
  BY <1>3, <1>4

\* Whatever the order of the listing, every object that hangs on the root gets the resource at its
\* name in the resource of its folder, and no other object gets any, unless two objects of one
\* folder have one name (State::Update, State::ResolveEntry, State.cc:149, State.cc:211).
THEOREM AllArePlaced == ListingSpec => []Placed
<1>1. QED
  BY PlaceInitially, PlaceStep, AllPlaced, PTL DEF ListingSpec

-------------------------------------------------------------------------------
(* Numbers.                                                                *)

\* The remainder of a number that may be negative.
LEMMA Remainders ==
    ASSUME NEW n \in Nat \ {0}, NEW x \in Int
    PROVE  /\ x % n \in 0..(n - 1)
           /\ 0 <= x /\ x < n => x % n = x
           /\ -n <= x /\ x < 0 => x % n = x + n
<1>1. x % n \in 0..(n - 1)
    OBVIOUS
<1>2. 0 <= x /\ x < n => x % n = x
    OBVIOUS
<1>3. -n <= x /\ x < 0 => x % n = x + n
    OBVIOUS
<1> QED BY <1>1, <1>2, <1>3

\* What a type holds comes out of it as it went in (Val::U64).
LEMMA SignedValues ==
    ASSUME NEW n \in Nat \ {0}, NEW x \in Int, Fits(x, n)
    PROVE  Signed(x, n) = x
<1> DEFINE u == x % n
           h == n \div 2
<1>1. /\ 0 <= x /\ x < n => u = x
      /\ -n <= x /\ x < 0 => u = x + n
    BY Remainders
<1>2. h \in Nat /\ h <= n - h /\ h <= n
    OBVIOUS
<1>3. Signed(x, n) = IF u < h THEN u ELSE u - n
    BY DEF Signed, Unsigned
<1>4. -h <= x /\ x < h
    BY DEF Fits
<1> HIDE DEF u, h
<1> QED BY <1>1, <1>2, <1>3, <1>4

\* A number that was written into the index is read again as it was (Val::U64).
LEMMA LongReadBack ==
    ASSUME NEW x \in Int, Fits(x, LongValues)
    PROVE  U64(Typed("int", x)) = x
<1>1. U64(Typed("int", x)) = Signed(x % LongValues, LongValues)
    BY DEF U64, Number64, Typed, Is, As, Unsigned
<1> DEFINE n == LongValues
           u == x % n
<1>2. n \in Nat \ {0}
    BY TimesAssumption
<1>3. u \in 0..(n - 1) /\ u % n = u
    BY <1>2, Remainders
<1>4. Signed(u, n) = Signed(x, n)
    BY <1>3 DEF Signed, Unsigned
<1>5. Signed(x, n) = x
    BY <1>2, SignedValues
<1> QED BY <1>1, <1>4, <1>5

\* How the units are related (DateTime::Assign).
LEMMA Units ==
    /\ Second \in Nat /\ Second > 0
    /\ Milli \in Nat /\ Milli > 0
    /\ Thousand \in Nat /\ Thousand * Milli = Second
<1> DEFINE b == Base
           t == b * b * b
           m == t * t
<1>1. b \in Nat /\ b > 1
    BY TimesAssumption
<1>2. t \in Nat /\ t > 0
    <2>1. b * b \in Nat /\ b * b > 0
        BY <1>1
    <2> QED BY <1>1, <2>1
<1> HIDE DEF t
<1>3. m \in Nat /\ m > 0
    BY <1>2
<1> HIDE DEF m
<1>4. t * m \in Nat /\ t * m > 0
    BY <1>2, <1>3
<1>5. Thousand = t /\ Milli = m /\ Second = t * m
    BY DEF Thousand, Milli, Second, t, m
<1> QED BY <1>2, <1>3, <1>4, <1>5

\* A time as the program keeps it.
IsTime(d) == d.sec \in Int /\ d.nsec \in 0..(Second - 1)

\* A text becomes the second it stands for, which a time_t holds, and a fraction of it
\* (DateTime::DateTime).
LEMMA ParsedIsTime ==
    ASSUME NEW t \in Texts
    PROVE  /\ IsTime(Parsed(t)) /\ Parsed(t).sec = SecondOf(t)
           /\ SecondOf(t) \in Int /\ Fits(SecondOf(t), LongValues)
<1>1. CASE t.date = NoDate
    <2>1. Fits(0, LongValues)
        BY TimesAssumption DEF Fits
    <2> QED BY <1>1, <2>1, Units DEF Parsed, Epoch, Time, SecondOf, IsTime
<1>2. CASE t.date # NoDate
    <2>1. t.date \in Seconds /\ t.frac \in Fractions
        BY <1>2 DEF Texts, Undated
    <2>2. Number(t.frac) * Milli \in 0..(Second - 1)
        <3> DEFINE k == Number(t.frac)
        <3>1. k \in Nat /\ k < Thousand
            BY <2>1, Units, FractionAssumption
        <3> HIDE DEF k
        <3>2. k * Milli + Milli <= Thousand * Milli /\ k * Milli \in Nat
            BY <3>1, Units
        <3> QED BY <3>2, Units DEF k
    <2>3. t.date \in Int /\ Fits(t.date, LongValues)
        BY <2>1, TimesAssumption, SecondsAssumption
    <2>4. 0 \in 0..(Second - 1)
        BY Units
    <2> QED BY <1>2, <2>2, <2>3, <2>4 DEF Parsed, Time, SecondOf, IsTime
<1> QED BY <1>1, <1>2

\* A later second is a later instant, whatever the fractions.
LEMMA SecondsDecide ==
    ASSUME NEW d, NEW e, IsTime(d), IsTime(e), d.sec < e.sec
    PROVE  Instant(d) < Instant(e)
<1> DEFINE a == d.sec
           c == e.sec
           x == d.nsec
           y == e.nsec
           s == Second
<1>1. a \in Int /\ c \in Int /\ a < c /\ x \in 0..(s - 1) /\ y \in 0..(s - 1) /\ s \in Nat
    BY Units DEF IsTime
<1>2. Instant(d) = a * s + x /\ Instant(e) = c * s + y
    BY DEF Instant
<1> HIDE DEF a, c, x, y, s
<1>3. a * s + s <= c * s /\ a * s \in Int /\ c * s \in Int
    BY <1>1
<1> QED BY <1>1, <1>2, <1>3

\* The comparisons of DateTime are those of the instants.
LEMMA ComparedAsInstants ==
    ASSUME NEW d, NEW e, IsTime(d), IsTime(e)
    PROVE  /\ Equal(d, e) <=> Instant(d) = Instant(e)
           /\ Less(d, e) <=> Instant(d) < Instant(e)
           /\ Greater(d, e) <=> Instant(d) > Instant(e)
           /\ LessEq(d, e) <=> Instant(d) <= Instant(e)
           /\ GreaterEq(d, e) <=> Instant(d) >= Instant(e)
<1>1. Instant(d) \in Int /\ Instant(e) \in Int
    <2>1. d.sec * Second \in Int /\ e.sec * Second \in Int
        BY Units DEF IsTime
    <2> QED BY <2>1, Units DEF IsTime, Instant
<1>2. d.sec \in Int /\ e.sec \in Int /\ d.nsec \in Int /\ e.nsec \in Int
    BY Units DEF IsTime
<1>3. CASE d.sec < e.sec
    <2>1. Instant(d) < Instant(e)
        BY <1>3, SecondsDecide
    <2> QED BY <1>1, <1>2, <1>3, <2>1 DEF Equal, Less, Greater, LessEq, GreaterEq
<1>4. CASE d.sec > e.sec
    <2>1. Instant(d) > Instant(e)
        BY <1>1, <1>2, <1>4, SecondsDecide
    <2> QED BY <1>1, <1>2, <1>4, <2>1 DEF Equal, Less, Greater, LessEq, GreaterEq
<1>5. CASE d.sec = e.sec
    <2> DEFINE p == d.sec * Second
    <2>1. p \in Int
        BY Units DEF IsTime
    <2>2. Instant(d) = p + d.nsec /\ Instant(e) = p + e.nsec
        BY <1>5 DEF Instant
    <2> HIDE DEF p
    <2>3. (Instant(d) = Instant(e) <=> d.nsec = e.nsec) /\ (Instant(d) > Instant(e) <=> d.nsec > e.nsec)
        BY <1>2, <2>1, <2>2
    <2> QED BY <1>1, <1>5, <2>3 DEF Equal, Less, Greater, LessEq, GreaterEq
<1> QED BY <1>2, <1>3, <1>4, <1>5

-------------------------------------------------------------------------------
(* Runs.                                                                   *)

\* The second that the record in memory stands for.
Recorded == IF was = None THEN 0 ELSE SecondOf(was)

\* A record has the second of a text, or none.
Holds(o, w) ==
    /\ w \in Texts \cup {None}
    /\ w = None <=> "srv_time" \notin DOMAIN o
    /\ w # None => o["srv_time"] = Typed("int", SecondOf(w))

\* The records are those of the texts they were made of; the resource has the second of its
\* record until it is listed, and then that of the time of the listing.
RecordInv ==
    /\ modified \in Texts
    /\ Holds(saved, kept) /\ Holds(m_json, was)
    /\ IsTime(m_mtime)
    /\ moment = "scanned" => m_mtime.sec = Recorded
    /\ moment = "listed" => seen \in Texts /\ m_mtime.sec = SecondOf(seen)
    /\ NewsIsLater

\* What was written is in the record (Resource::SetServerTime).
LEMMA SetHolds ==
    ASSUME NEW o, NEW t \in Texts
    PROVE  Holds(Set(o, "srv_time", Typed("int", SecondOf(t))), t)
<1>1. t # None
    BY NoneAssumption
<1> QED BY <1>1 DEF Holds, Set

\* A resource without a record, or with one that is to be forced, has no time.
LEMMA NoneHolds ==
    ASSUME NEW o
    PROVE  Holds(Empty, None) /\ Holds(Del(o, "srv_time"), None) /\ IsTime(Epoch)
BY Units DEF Holds, Empty, Del, Epoch, Time, IsTime

\* A run that starts reads the second that the record holds, or none if the record is empty or
\* to be forced (State::Read, Resource::FromLocal).
LEMMA StartReads ==
    ASSUME RecordInv, NEW force \in BOOLEAN, Start(force)
    PROVE  RecordInv'
<1>1. /\ moment' = "scanned" /\ UNCHANGED <<modified, saved, kept>>
      /\ m_mtime' = IF Misses(m_json', "srv_time") THEN Epoch
                    ELSE Assigned(U64(m_json'["srv_time"]), 0)
    BY DEF Start
<1>2. Holds(saved, kept) /\ Holds(m_json', was')
    <2>1. CASE force
        BY <2>1, NoneHolds DEF Start, RecordInv
    <2>2. CASE ~force
        BY <2>2 DEF Start, RecordInv
    <2> QED BY <2>1, <2>2
<1>3. IsTime(m_mtime)' /\ m_mtime'.sec = Recorded'
    <2>1. CASE was' = None
        <3>1. m_mtime' = Epoch /\ Recorded' = 0
            BY <1>1, <1>2, <2>1 DEF Holds, Misses, Recorded
        <3> QED BY <3>1, NoneHolds DEF Epoch, Time, IsTime
    <2>2. CASE was' # None
        <3> DEFINE s == SecondOf(was')
        <3>1. s \in Int /\ Fits(s, LongValues) /\ Recorded' = s
            BY <1>2, <2>2, ParsedIsTime DEF Holds, Recorded
        <3>2. m_mtime' = Assigned(U64(Typed("int", s)), 0)
            BY <1>1, <1>2, <2>2 DEF Holds, Misses
        <3> HIDE DEF s
        <3>3. m_mtime' = Assigned(s, 0)
            BY <3>1, <3>2, LongReadBack
        <3>4. 0 \div Second = 0 /\ 0 % Second = 0
            BY Units
        <3>5. m_mtime' = Time(s, 0)
            BY <3>1, <3>3, <3>4 DEF Assigned
        <3> QED BY <3>1, <3>5, Units DEF Time, IsTime
    <2> QED BY <2>1, <2>2
<1>4. NewsIsLater'
    BY <1>1 DEF NewsIsLater
<1> QED BY <1>1, <1>2, <1>3, <1>4 DEF RecordInv, Holds

\* The listing is compared with the record, whatever the object had before (Resource::FromRemote).
LEMMA ListedCompares ==
    ASSUME RecordInv, Listed(Parsed(modified))
    PROVE  RecordInv'
<1>1. /\ moment = "scanned" /\ moment' = "listed" /\ seen' = modified
      /\ m_mtime' = Parsed(modified)
      /\ news' = (Parsed(modified).sec > m_mtime.sec)
      /\ UNCHANGED <<modified, saved, m_json, kept, was>>
    BY DEF Listed
<1>2. IsTime(Parsed(modified)) /\ Parsed(modified).sec = SecondOf(modified)
    BY ParsedIsTime DEF RecordInv
<1>3. m_mtime.sec = Recorded
    BY <1>1 DEF RecordInv
<1>4. NewsIsLater'
    BY <1>1, <1>2, <1>3 DEF NewsIsLater, Recorded
<1>5. IsTime(m_mtime)'
    BY <1>1, <1>2 DEF IsTime
<1> QED BY <1>1, <1>2, <1>4, <1>5 DEF RecordInv, Holds

\* A visit records the time of the listing (Resource::SyncSelf).
LEMMA RememberRecords ==
    ASSUME RecordInv, Remember
    PROVE  RecordInv'
<1>1. /\ moment = "listed" /\ moment' = "walked" /\ was' = seen
      /\ m_json' = Set(m_json, "srv_time", Typed("int", m_mtime.sec))
      /\ UNCHANGED <<modified, saved, m_mtime, kept>>
    BY DEF Remember, SetTime, Sec
<1>2. seen \in Texts /\ m_mtime.sec = SecondOf(seen)
    BY <1>1 DEF RecordInv
<1>3. Holds(m_json', was')
    BY <1>1, <1>2, SetHolds
<1> QED BY <1>1, <1>3 DEF RecordInv, Holds, NewsIsLater, IsTime

\* An upload records the time of the answer (Syncer2::Upload).
LEMMA UploadRecords ==
    ASSUME RecordInv, NEW t \in Texts, UploadAt(t)
    PROVE  RecordInv'
<1>1. /\ moment' = "walked" /\ modified' = t /\ was' = t /\ m_mtime' = Parsed(t)
      /\ m_json' = Set(m_json, "srv_time", Typed("int", Parsed(t).sec))
      /\ UNCHANGED <<saved, kept>>
    BY DEF UploadAt, Answered, SetTime, Sec
<1>2. IsTime(Parsed(t)) /\ Parsed(t).sec = SecondOf(t)
    BY ParsedIsTime
<1>3. Holds(m_json', was')
    BY <1>1, <1>2, SetHolds
<1> QED BY <1>1, <1>2, <1>3 DEF RecordInv, Holds, NewsIsLater, IsTime

\* A run that ends has saved all that it recorded, or nothing (State::Write).
LEMMA EndKeeps ==
    ASSUME RecordInv, Conclude \/ RunDies
    PROVE  RecordInv'
<1>1. /\ moment' = "idle" /\ modified' = modified
      /\ m_json' = Empty /\ was' = None /\ m_mtime' = Epoch
    BY DEF Conclude, RunDies, Gone
<1>2. Holds(saved', kept')
    BY DEF Conclude, RunDies, RecordInv
<1>3. Holds(m_json', was') /\ IsTime(m_mtime')
    BY <1>1, NoneHolds
<1> QED BY <1>1, <1>2, <1>3 DEF RecordInv, Holds, NewsIsLater, IsTime

\* Every step keeps the records in step with the texts they were made of.
LEMMA RecordStep ==
    ASSUME RecordInv, [TimesNext]_timevars
    PROVE  RecordInv'
<1>1. ASSUME NEW t \in Texts, Modify(t) PROVE RecordInv'
    BY <1>1 DEF RecordInv, Holds, Modify, past, NewsIsLater, IsTime, Recorded
<1>2. CASE Failed
    BY <1>2 DEF RecordInv, Holds, Failed, past, NewsIsLater, IsTime
<1>3. CASE UNCHANGED timevars
    BY <1>3 DEF RecordInv, Holds, timevars, past, NewsIsLater, IsTime, Recorded
<1> QED
    BY <1>1, <1>2, <1>3, StartReads, ListedCompares, RememberRecords, UploadRecords, EndKeeps
    DEF TimesNext

\* And the idle program has no record.
LEMMA RecordInit == TimesIdle => RecordInv
<1> SUFFICES ASSUME TimesIdle PROVE RecordInv
    OBVIOUS
<1>1. modified \in Texts /\ saved = Empty /\ kept = None /\ m_json = Empty /\ was = None
    BY DEF TimesIdle, Texts
<1>2. m_mtime = Epoch /\ moment = "idle"
    BY DEF TimesIdle
<1> QED BY <1>1, <1>2, NoneHolds DEF RecordInv, NewsIsLater

\* The server is found newer exactly if the second that is listed is later than that of the text
\* the record was made of, which has been a number in the index since, whatever others did to
\* the object meanwhile, and whatever visits failed or runs died (Resource::FromRemote,
\* DateTime::DateTime, Val::U64).
THEOREM NewsAreLater == TimesSpec => []NewsIsLater
<1>1. RecordInv => NewsIsLater
    BY DEF RecordInv
<1> QED BY <1>1, RecordInit, RecordStep, PTL DEF TimesSpec

\* The comparisons of DateTime order the time of a resource and that of the server as instants.
THEOREM TimesAreOrdered == TimesSpec => []Ordered
<1>1. RecordInv => Ordered
    <2> SUFFICES ASSUME RecordInv PROVE Ordered
        OBVIOUS
    <2>1. IsTime(m_mtime) /\ IsTime(Parsed(modified))
        BY ParsedIsTime DEF RecordInv
    <2> QED BY <2>1, ComparedAsInstants DEF Ordered
<1> QED BY <1>1, RecordInit, RecordStep, PTL DEF TimesSpec

===============================================================================
