-------------------------------- MODULE Listing --------------------------------
(***************************************************************************)
(* How the listing of the server is put onto the tree of the disk.         *)
(*                                                                         *)
(* The server knows objects by their link and folders by the links of      *)
(* their parents, and lists them in any order; the disk knows names.       *)
(* Grive.tla takes an entry and a resource of one path for the same thing: *)
(* this is how they come together, through the container ResourceTree,     *)
(* which finds a resource under the key that it was filed under.           *)
(***************************************************************************)
EXTENDS Integers, Sequences, FiniteSets, SequencesExt

CONSTANTS
    Href,       \* the links of objects of the server
    RootHref,   \* "root"
    NoHref,     \* the empty link
    Label,      \* names
    Slashed,    \* those with a slash in them
    Sum,        \* checksums
    NoMd5,      \* the empty checksum
    Listings,   \* what the server may answer: sets of entries
    Scans,      \* what the scan may have found: sequences of resources
    MaxNodes    \* bound: the resources there is room for

\* A resource is an address; that of the root folder, and none.
TheRoot == 0
Node    == 0..MaxNodes
NoNode  == -1

\* doc: without a file name or a downloadUrl, a google document.
Entry == [self : Href, parents : SUBSET (Href \cup {RootHref}), label : Label,
          dir : BOOLEAN, doc : BOOLEAN, md5 : Sum \cup {NoMd5}]

Resource == [label : Label, parent : Node, href : Href \cup {NoHref, RootHref},
             md5 : Sum \cup {NoMd5}, folder : BOOLEAN]

ASSUME ListingAssumption ==
    /\ RootHref \notin Href \cup {NoHref} /\ NoHref \notin Href
    /\ NoMd5 \notin Sum /\ Slashed \subseteq Label /\ Label # {}
    /\ MaxNodes \in Nat
    /\ Listings \subseteq SUBSET Entry
    /\ Scans \subseteq Seq(Resource)

\* The scan finds a path once, in a folder it has found, and no links.
ASSUME ScanAssumption ==
    \A s \in Scans :
        /\ Len(s) \in Node
        /\ \A p \in 1..Len(s) : s[p].href = NoHref
        /\ \A p, q \in 1..Len(s) : p # q /\ s[p].label = s[q].label => s[p].parent # s[q].parent

VARIABLES
    listing,    \* what the server answers
    coming,     \* the entries of it that were not read yet
    tree,       \* the resources: a function from the addresses in use
    filed,      \* ResourceTree::m_set: the keys that each of them is filed under
    unresolved, \* State::m_unresolved
    cursor,     \* State::TryResolveEntry: i
    count,      \* and count
    stage       \* "list", "resolve", "done" or "aborted"

listvars == <<listing, coming, tree, filed, unresolved, cursor, count, stage>>

-----------------------------------------------------------------------------
(* ResourceTree.                                                           *)

\* The keys of a resource: SelfHref and MD5.
Keys(r) == [href |-> r.href, md5 |-> r.md5]

Linked(h) == {p \in DOMAIN tree : tree[p].href = h}

\* FindByHref: what is filed under the link and still has it is found; what was filed under
\* another one is found if both happen to be of one bucket.  The empty link finds nothing.
FindByHref(h) ==
    IF h = NoHref THEN {NoNode}
    ELSE IF \E p \in Linked(h) : filed[p].href = h THEN Linked(h)
    ELSE Linked(h) \cup {NoNode}

\* m_set.insert of p, a resource of t; the container may grow, and files all of them again.
FiledAgain(t, p) ==
    \/ filed' = [q \in DOMAIN t |-> IF q = p THEN Keys(t[q]) ELSE filed[q]]
    \/ filed' = [q \in DOMAIN t |-> Keys(t[q])]

-----------------------------------------------------------------------------
(* Resource and State.                                                     *)

\* Resource::FindChild
FindChild(p, l) == {q \in DOMAIN tree \ {TheRoot} : tree[q].parent = p /\ tree[q].label = l}

\* Resource::FromRemote, as far as AssignIDs goes.
FromRemote(r, e) == [r EXCEPT !.href = e.self, !.md5 = e.md5]

\* Faulty: the resource stays where it is filed.
UpdateInPlace(p, e) ==
    /\ tree' = [tree EXCEPT ![p] = FromRemote(@, e)]
    /\ filed' = filed

\* ResourceTree::Update: FromRemote and ReInsert.
Update(p, e) ==
    /\ tree' = [tree EXCEPT ![p] = FromRemote(@, e)]
    /\ FiledAgain(tree', p)

\* A new resource of the folder p, ResourceTree::Insert and Update.
AddNew(p, e) ==
    LET q == Cardinality(DOMAIN tree)
        r == [label |-> e.label, parent |-> p, href |-> NoHref, md5 |-> NoMd5, folder |-> e.dir]
    IN /\ q \in Node
       /\ tree' = [x \in DOMAIN tree \cup {q} |-> IF x = q THEN FromRemote(r, e) ELSE tree[x]]
       /\ FiledAgain(tree', q)

TheParent(e) == CHOOSE h \in e.parents : TRUE

\* Faulty: an entry is looked for by its path only.
KnownByPath(e) == {NoNode}

\* The resource that an entry is known as.
Known(e) == FindByHref(e.self)

\* State::Update, where it returns true.
Applied(e) ==
    \E p \in Known(e) :
       IF p # NoNode
       THEN Update(p, e) /\ UNCHANGED stage
       ELSE \E f \in FindByHref(TheParent(e)) \ {NoNode} :
              IF ~tree[f].folder
              THEN stage' = "aborted" /\ UNCHANGED <<tree, filed>>
              ELSE /\ IF FindChild(f, e.label) # {}
                      THEN \E c \in FindChild(f, e.label) : Update(c, e)
                      ELSE AddNew(f, e)
                   /\ UNCHANGED stage

\* State::Update, where it returns false.
Waits(e) ==
    /\ NoNode \in Known(e) /\ NoNode \in FindByHref(TheParent(e))
    /\ UNCHANGED <<tree, filed, stage>>

\* State::FromRemote drops google documents, names with a slash, and what has not exactly
\* one parent.
Accepted(e) == (e.dir \/ ~e.doc) /\ e.label \notin Slashed /\ Cardinality(e.parents) = 1

Read(e) ==
    /\ stage = "list" /\ e \in coming
    /\ coming' = coming \ {e}
    /\ UNCHANGED <<listing, cursor, count>>

Skip(e) ==
    /\ Read(e) /\ ~Accepted(e)
    /\ UNCHANGED <<tree, filed, unresolved, stage>>

Apply(e) == Read(e) /\ Accepted(e) /\ Applied(e) /\ UNCHANGED unresolved

PutOff(e) ==
    /\ Read(e) /\ Accepted(e) /\ Waits(e)
    /\ unresolved' = Append(unresolved, e)

\* Drive::DetectChanges, after the last page.
ResolveEntry ==
    /\ stage = "list" /\ coming = {}
    /\ stage' = IF unresolved = <<>> THEN "done" ELSE "resolve"
    /\ cursor' = 1 /\ count' = 0
    /\ UNCHANGED <<listing, coming, tree, filed, unresolved>>

\* State::TryResolveEntry: Update of the next one, which is erased if it returns true.
TryNext ==
    /\ stage = "resolve" /\ cursor <= Len(unresolved)
    /\ LET e == unresolved[cursor] IN
         \/ /\ Applied(e)
            /\ unresolved' = RemoveAt(unresolved, cursor)
            /\ count' = count + 1
            /\ UNCHANGED cursor
         \/ /\ Waits(e)
            /\ cursor' = cursor + 1
            /\ UNCHANGED <<unresolved, count>>
    /\ UNCHANGED <<listing, coming>>

\* Faulty: the list is gone through once.
GoesOnOnce == FALSE

\* State::ResolveEntry goes on while a pass resolved something.
GoesOn == unresolved # <<>> /\ count # 0

EndOfPass ==
    /\ stage = "resolve" /\ cursor > Len(unresolved)
    /\ stage' = IF GoesOn THEN "resolve" ELSE "done"
    /\ cursor' = 1 /\ count' = 0
    /\ UNCHANGED <<listing, coming, tree, filed, unresolved>>

\* Resource::GetMD5, during the walk: the checksum of a file that has none yet.
GetMD5(p, m) ==
    /\ stage = "done" /\ p \in DOMAIN tree
    /\ ~tree[p].folder /\ tree[p].md5 = NoMd5
    /\ tree' = [tree EXCEPT ![p].md5 = m]
    /\ UNCHANGED <<listing, coming, filed, unresolved, cursor, count, stage>>

-----------------------------------------------------------------------------

\* Resource::Resource of the root folder.
RootOf == [label |-> CHOOSE l \in Label : TRUE, parent |-> TheRoot, href |-> RootHref,
           md5 |-> NoMd5, folder |-> TRUE]

\* State::FromLocal: each resource is filed when its checksum is known, if it is.
FromLocal(s) == [p \in 0..Len(s) |-> IF p = TheRoot THEN RootOf ELSE s[p]]

ListingIdle ==
    /\ listing = {} /\ coming = {}
    /\ tree = FromLocal(<<>>) /\ filed = [p \in {TheRoot} |-> Keys(RootOf)]
    /\ unresolved = <<>> /\ cursor = 1 /\ count = 0 /\ stage = "list"

ListingInit ==
    /\ listing \in Listings /\ coming = listing
    /\ \E s \in Scans : tree = FromLocal(s)
    /\ filed = [p \in DOMAIN tree |-> Keys(tree[p])]
    /\ unresolved = <<>> /\ cursor = 1 /\ count = 0 /\ stage = "list"

ListingNext ==
    \/ \E e \in coming : Skip(e) \/ Apply(e) \/ PutOff(e)
    \/ ResolveEntry \/ TryNext \/ EndOfPass
    \/ \E p \in Node, m \in Sum : GetMD5(p, m)

ListingSpec == ListingInit /\ [][ListingNext]_listvars

-----------------------------------------------------------------------------
(* Properties.                                                             *)

Entries == {e \in listing : Accepted(e)}

\* The links that lead to the root, through accepted folders and others: what every set has that
\* has the root and the objects of the folders it has.
Rooted ==
    {h \in Href \cup {RootHref} :
       \A S \in SUBSET (Href \cup {RootHref}) :
          RootHref \in S /\ (\A e \in Entries : TheParent(e) \in S => e.self \in S) => h \in S}

Twins == \E e, f \in Entries :
            e.self # f.self /\ e.label = f.label /\ TheParent(e) = TheParent(f)

\* Whatever the order of the listing, and how deep a folder comes before those above it, every
\* object that hangs on the root gets the resource at its name in the resource of its folder,
\* and no other object gets any (State.cc:149, State.cc:211), unless two objects of one folder
\* have one name.  An object that was moved and listed twice is at one of its places.
Placed ==
    stage = "done" /\ ~Twins =>
        \A h \in {e.self : e \in listing} :
           IF h \in Rooted
           THEN \E p \in Linked(h), e \in Entries :
                  e.self = h /\ tree[p].label = e.label /\ tree[tree[p].parent].href = TheParent(e)
           ELSE Linked(h) = {}

\* No two resources stand for one object, or for one path: the first that is found is the
\* right one.
OneEach ==
    \A p, q \in DOMAIN tree \ {TheRoot} : p # q =>
        /\ tree[p].href # NoHref => tree[p].href # tree[q].href
        /\ tree[p].label = tree[q].label => tree[p].parent # tree[q].parent

\* "Reinsert should be called when the ID/HREF/MD5 were updated" (ResourceTree.cc:114): while the
\* listing is applied, the container finds every resource by its link and its checksum.
KeysCurrent == stage \in {"list", "resolve"} => \A p \in DOMAIN tree : filed[p] = Keys(tree[p])

================================================================================
