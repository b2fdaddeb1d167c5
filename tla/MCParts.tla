------------------------------- MODULE MCParts --------------------------------
(***************************************************************************)
(* Small instances of the parts that stand alone, one after the other: a   *)
(* behaviour is a behaviour of one of them, and the others stand still.    *)
(***************************************************************************)
EXTENDS Json, Session, Transfer, Xml, Listing, Times

CONSTANTS
    a1,         \* an atom
    none,       \* the Nil of Json.tla
    b,          \* a block
    h1, h2, h3, \* links
    m1, m2      \* checksums

VARIABLE part   \* which of them

\* The values that are written: scalars, objects and arrays of them, objects of these.
Scalars == {Val("string", 1), Val("string", 3), Val("atom", a1), Null}
Objects(keys, values) == {Val("object", f) : f \in UNION {[D -> values] : D \in SUBSET keys}}
Arrays(n, values) == {Val("array", s) : s \in UNION {[1..k -> values] : k \in 0..n}}
Inner == Objects({1, 2}, {Val("string", 1), Null}) \cup Arrays(2, {Val("atom", a1), Val("string", 3)})
Docs == Scalars \cup Inner \cup Objects({1, 2}, Scalars \cup Inner) \cup Objects({3}, Inner) \cup Objects({1}, Objects({2}, Inner))

\* The contents of a file: one that is short, and two of one size.
TheBodies == {<<b>>, <<Zero, b>>, <<b, b>>}

\* Links, parents and names: folders in a row and beside each other, listed in any order, one of
\* them below an object that may be a file, one that hangs on itself, a second entry of an object,
\* two objects of one name.
E(s, ps, l, d, g, m) == [self |-> s, parents |-> ps, label |-> l, dir |-> d, doc |-> g, md5 |-> m]
Folder1 == {E(h1, {p}, 1, TRUE, FALSE, NoMd5) : p \in {RootHref, h3}}
Folder2 == {E(h2, ps, l, TRUE, FALSE, NoMd5) : ps \in {{RootHref}, {h1}, {RootHref, h1}}, l \in {1, 2}}
Thing3 == {E(h3, {p}, l, TRUE, FALSE, NoMd5) : p \in {RootHref, h2}, l \in {1, 3}}
          \cup {E(h3, {p}, l, FALSE, FALSE, m1) : p \in {RootHref, h1, h2}, l \in {1, 2}}
          \cup {E(h3, {RootHref}, 1, FALSE, TRUE, m1)}
TheListings ==
    {{e, f, g} : e \in Folder1, f \in Folder2, g \in Thing3}
    \cup {{e, g, k} : e \in Folder1, g \in Thing3, k \in Thing3}
    \cup {{e, f, g, k} : e \in Folder1, f \in {x \in Folder2 : x.label = 2},
                          g \in {x \in Thing3 : x.dir /\ x.label = 1}, k \in {x \in Thing3 : x.dir}}

\* What is on the disk: nothing, a file, or a folder, of a name that is listed as one or the other,
\* with something in it.
R(l, p, d, m) == [label |-> l, parent |-> p, href |-> NoHref, md5 |-> m, folder |-> d]
TheScans == {<<>>, <<R(1, 0, FALSE, NoMd5)>>, <<R(1, 0, TRUE, NoMd5), R(1, 1, FALSE, m2)>>,
             <<R(2, 0, TRUE, NoMd5), R(1, 1, TRUE, NoMd5), R(1, 0, FALSE, NoMd5)>>}

\* Before 1970, then, and after it.
TheSeconds == {-1, 0, 5}

\* A long long of six bits.
LongOfSix == 2 ^ 6

\* Runs are alike, and so are the values of a setting.
Alike == Permutations(Proc) \cup Permutations(Wish)

allvars == <<jvars, sessvars, transvars, xmlvars, listvars, timevars>>

Init ==
    /\ part \in {"json", "session", "transfer", "xml", "listing", "times"}
    /\ IF part = "json" THEN JsonInit ELSE JsonIdle
    /\ IF part = "listing" THEN ListingInit ELSE ListingIdle
    /\ SessionIdle /\ TransferIdle /\ XmlIdle /\ TimesIdle

Next ==
    /\ UNCHANGED part
    /\ \/ part = "json" /\ JsonNext /\ UNCHANGED <<sessvars, transvars, xmlvars, listvars, timevars>>
       \/ part = "session" /\ SessionNext /\ UNCHANGED <<jvars, transvars, xmlvars, listvars, timevars>>
       \/ part = "transfer" /\ TransferNext /\ UNCHANGED <<jvars, sessvars, xmlvars, listvars, timevars>>
       \/ part = "xml" /\ XmlNext /\ UNCHANGED <<jvars, sessvars, transvars, listvars, timevars>>
       \/ part = "listing" /\ ListingNext /\ UNCHANGED <<jvars, sessvars, transvars, xmlvars, timevars>>
       \/ part = "times" /\ TimesNext /\ UNCHANGED <<jvars, sessvars, transvars, xmlvars, listvars>>

Parts == Init /\ [][Next]_<<part, allvars>>
===============================================================================
