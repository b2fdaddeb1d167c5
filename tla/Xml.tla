---------------------------------- MODULE Xml ----------------------------------
(***************************************************************************)
(* The XML tree: nodes that count their references, and the builder that   *)
(* expat drives.                                                           *)
(*                                                                         *)
(* A Node is a handle on an Impl.  An Impl lives as long as it is counted, *)
(* and releases its children when it goes, which may be the end of them.   *)
(***************************************************************************)
EXTENDS Integers, Sequences, SequencesExt

CONSTANTS
    Slot,       \* variables of type Node, or NodeSet, of the program
    Tag,        \* names of elements and attributes, as numbers: they are ordered
    Anonymous,  \* the name of a Node that was just declared
    MaxImpls,   \* bound: how many Impls exist at once
    MaxRefs,    \* bound: how many references there are to one Impl
    MaxCalls    \* bound: how often the program calls a Node

ASSUME XmlAssumption == Tag \subseteq Nat /\ Anonymous \in Nat \ Tag /\ MaxImpls \in Nat /\ MaxRefs \in Nat /\ MaxCalls \in Nat

Impl == 1..MaxImpls
Nobody == 0

VARIABLES
    impl,       \* the heap: type, name, m_children, m_element and m_attr of every Impl
    ref,        \* Impl::m_ref
    handle,     \* Node::m_ptr of every slot; Nobody where the variable is out of scope
    stack,      \* TreeBuilder::Impl::stack; empty when there is no builder
    path,       \* expat: the names of the elements that are open
    releasing,       \* calls of Release under way
    lost,       \* history: references that were taken and that nobody holds
    calls       \* how often the program called a Node

heap == <<impl, ref, lost>>
xmlvars == <<heap, handle, stack, path, releasing, calls>>

Fresh(t, n) == [type |-> t, name |-> n, kids |-> <<>>, element |-> <<>>, attr |-> <<>>]
Freed == Fresh("freed", Anonymous)

Live(i) == impl[i].type # "freed"
Free == {i \in Impl : ~Live(i)}

\* operator new: the lowest address that is free.
New == CHOOSE i \in Free : \A j \in Free : i <= j

Quiet == releasing = <<>>

\* A call of the program.
Call == Quiet /\ calls < MaxCalls /\ calls' = calls + 1

Countable(i) == ref[i] < MaxRefs

-----------------------------------------------------------------------------
(* Impl.                                                                   *)

\* Impl::Release and Impl::~Impl: the last reference releases the children, the first
\* of them first.
Release ==
    /\ releasing # <<>>
    /\ LET i == Head(releasing) IN
         /\ ref' = [ref EXCEPT ![i] = @ - 1]
         /\ IF ref[i] = 1
            THEN impl' = [impl EXCEPT ![i] = Freed] /\ releasing' = impl[i].kids \o Tail(releasing)
            ELSE releasing' = Tail(releasing) /\ UNCHANGED impl
    /\ UNCHANGED <<handle, stack, path, lost, calls>>

\* Impl::Find: what std::equal_range gives of m_element or m_attr, which are in the order of
\* the names: as many are before the range as have a name before n.
Before(v, n)   == Cardinality({k \in DOMAIN v : impl[v[k]].name < n})
UpTo(v, n)     == Cardinality({k \in DOMAIN v : impl[v[k]].name <= n})
Named(v, n)    == SubSeq(v, Before(v, n) + 1, UpTo(v, n))

\* "cannot allow duplicate attribute nodes"
Duplicate(i, t, n) == t = "attr" /\ Named(impl[i].attr, n) # <<>>

\* Faulty: in front of those of the name.
InsertFirst(v, j, n) == InsertAt(v, Before(v, n) + 1, j)

\* vec.insert( p.second, child )
Insert(v, j, n) == InsertAt(v, UpTo(v, n) + 1, j)

\* Impl::Add of j, of type t and name n.
Grown(r, j, t, n) ==
    [r EXCEPT !.kids = Append(@, j),
              !.element = IF t = "element" THEN Insert(@, j, n) ELSE @,
              !.attr = IF t = "attr" THEN Insert(@, j, n) ELSE @]
Adopt(i, j, t, n) == [impl EXCEPT ![i] = Grown(@, j, t, n)]

Kids(S) == UNION {ToSet(impl[i].kids) : i \in S}

\* What is reached from S along m_children: what is in every set that has S and the children
\* of its own.
Reached(S) == {i \in Impl : \A T \in SUBSET Impl : S \subseteq T /\ Kids(T) \subseteq T => i \in T}

\* Impl::Value: the texts below, one after the other; every text is one letter here, and
\* an attribute has none of its own.  It is endless for a node that is below itself.
Endless(i) == \E j \in Reached({i}) : j \in Reached(Kids({j}))
ValueOf(i) ==
    LET value[k \in 0..MaxImpls] ==
            [j \in Impl |-> IF impl[j].type = "text" THEN 1
                            ELSE IF k = 0 THEN 0
                            ELSE FoldLeft(LAMBDA v, c : v + value[k - 1][c], 0, impl[j].kids)]
    IN value[MaxImpls][i]

\* Node::IsCompatible, which AddElement, AddText, AddAttribute and AddNode assert.
IsCompatible(parent, child) == parent = "element" \/ (parent = "attr" /\ child = "text")

-----------------------------------------------------------------------------
(* Node.                                                                   *)

\* Faulty: what the slot had is forgotten.
Overwrite(h, i) == handle' = [handle EXCEPT ![h] = i] /\ releasing' = <<>>

\* Node::operator= and Node::~Node: the slot gets i and lets go of what it had.
Assign(h, i) ==
    /\ handle' = [handle EXCEPT ![h] = i]
    /\ releasing' = IF handle[h] = Nobody THEN <<>> ELSE <<handle[h]>>

Holds(h, t) == handle[h] # Nobody /\ IsCompatible(impl[handle[h]].type, t)

\* Node::Node, Node::Element and Node::Text
Make(h, t, n) ==
    /\ Call /\ Free # {}
    /\ impl' = [impl EXCEPT ![New] = Fresh(t, n)]
    /\ ref' = [ref EXCEPT ![New] = 1]
    /\ Assign(h, New)
    /\ UNCHANGED <<stack, path, lost>>

\* Node::Node(const Node&)
Copy(h, g) ==
    /\ Call /\ handle[g] # Nobody /\ Countable(handle[g])
    /\ ref' = [ref EXCEPT ![handle[g]] = @ + 1]
    /\ Assign(h, handle[g])
    /\ UNCHANGED <<impl, stack, path, lost>>

Drop(h) ==
    /\ Call /\ handle[h] # Nobody
    /\ Assign(h, Nobody)
    /\ UNCHANGED <<heap, stack, path>>

\* Node::AddElement: one reference of the parent, one of the handle that is returned.
AddElement(h, n, g) ==
    /\ Call /\ Free # {} /\ Holds(h, "element")
    /\ impl' = [Adopt(handle[h], New, "element", n) EXCEPT ![New] = Fresh("element", n)]
    /\ ref' = [ref EXCEPT ![New] = 2]
    /\ Assign(g, New)
    /\ UNCHANGED <<stack, path, lost>>

\* Node::AddText, whose result nobody keeps.
AddText(h) ==
    /\ Call /\ Free # {} /\ Holds(h, "text")
    /\ impl' = [Adopt(handle[h], New, "text", Anonymous) EXCEPT ![New] = Fresh("text", Anonymous)]
    /\ ref' = [ref EXCEPT ![New] = 1]
    /\ UNCHANGED <<handle, stack, path, releasing, lost>>

\* Node::AddAttribute: a second one of the name throws, and the Impl made for it is lost.
AddAttribute(h, n) ==
    /\ Call /\ Free # {} /\ Holds(h, "attr")
    /\ ref' = [ref EXCEPT ![New] = 1]
    /\ IF Duplicate(handle[h], "attr", n)
       THEN /\ impl' = [impl EXCEPT ![New] = Fresh("attr", n)]
            /\ lost' = [lost EXCEPT ![New] = @ + 1]
       ELSE /\ impl' = [Adopt(handle[h], New, "attr", n) EXCEPT ![New] = Fresh("attr", n)]
            /\ UNCHANGED lost
    /\ UNCHANGED <<handle, stack, path, releasing>>

\* Faulty: the parent takes the child without counting it.
TakeUncounted(i) == ref

\* AddRef, for a parent that takes the child i.
Taken(i) == [ref EXCEPT ![i] = @ + 1]

\* Node::AddNode: the reference is taken before Impl::Add may throw.
AddNode(h, g) ==
    /\ Call /\ handle[g] # Nobody
    /\ LET i == handle[h]  j == handle[g] IN
         /\ Holds(h, impl[j].type) /\ Countable(j)
         /\ ref' = Taken(j)
         /\ IF Duplicate(i, impl[j].type, impl[j].name)
            THEN lost' = [lost EXCEPT ![j] = @ + 1] /\ UNCHANGED impl
            ELSE impl' = Adopt(i, j, impl[j].type, impl[j].name) /\ UNCHANGED lost
    /\ UNCHANGED <<handle, stack, path, releasing>>

\* Node::begin to end, Node::Attr, and Node::operator[] of a name, or of a name with '@'.
Children(i)     == impl[i].kids
Attributes(i)   == impl[i].attr
ByName(i, t, n) == Named(impl[i][t], n)

\* NodeSet::operator[]: what the first of them has that has any.
FirstWith(nodes, t, n) ==
    LET having == {k \in DOMAIN nodes : ByName(nodes[k], t, n) # <<>>}
    IN IF having = {} THEN <<>> ELSE ByName(nodes[Min(having)], t, n)

\* *i for an iterator of the node, or of a NodeSet that one of these returned.
Dereference(j) == Taken(j)
Child(h, j, g) ==
    /\ Call /\ handle[h] # Nobody /\ Countable(j)
    /\ LET i == handle[h] IN
         \/ j \in ToSet(Children(i)) \cup ToSet(Attributes(i))
         \/ \E t \in {"element", "attr"}, n \in Tag :
               j \in ToSet(ByName(i, t, n)) \cup ToSet(FirstWith(Children(i), t, n))
    /\ ref' = Dereference(j)
    /\ Assign(g, j)
    /\ UNCHANGED <<impl, stack, path, lost>>

\* NodeSet::Find: those of the children that have a child of the name n and the value v.  They
\* hang on a node of the set's own, m_tmp, in their order, and by the order of their names.
Find(h, t, n, v, g) ==
    /\ Call /\ Free # {} /\ handle[h] # Nobody
    /\ LET all == Children(handle[h])
           Matches(i) == \E j \in ToSet(ByName(i, t, n)) : ValueOf(j) = v
           size == Cardinality({k \in DOMAIN all : Matches(all[k])})
       IN /\ \A i \in ToSet(all) : ~Endless(i)
          /\ \E at \in [1..size -> {k \in DOMAIN all : Matches(all[k])}], order \in [1..size -> 1..size] :
               LET set == [k \in 1..size |-> all[at[k]]]
                   NameOf(k) == impl[set[order[k]]].name
               IN /\ \A k, l \in 1..size : k < l => at[k] < at[l]
                  /\ \A k, l \in 1..size : k < l => NameOf(k) < NameOf(l) \/ (NameOf(k) = NameOf(l) /\ order[k] < order[l])
                  /\ set # <<>> /\ IsInjective(set) /\ (\A j \in ToSet(set) : Countable(j))
                  /\ impl' = [impl EXCEPT ![New] = [Fresh("element", Anonymous) EXCEPT
                                     !.kids = set, !.element = [k \in 1..size |-> set[order[k]]]]]
                  /\ ref' = [i \in Impl |-> IF i = New THEN 1 ELSE
                                            IF i \in ToSet(set) THEN ref[i] + 1 ELSE ref[i]]
    /\ Assign(g, New)
    /\ UNCHANGED <<stack, path, lost>>

-----------------------------------------------------------------------------
(* TreeBuilder.                                                            *)

\* TreeBuilder::TreeBuilder and XmlResponse::XmlResponse: a dummy is the parent of the root.
NewBuilder ==
    /\ Quiet /\ stack = <<>> /\ Free # {}
    /\ impl' = [impl EXCEPT ![New] = Fresh("element", Anonymous)]
    /\ ref' = [ref EXCEPT ![New] = 1]
    /\ stack' = <<New>> /\ path' = <<>>
    /\ UNCHANGED <<handle, releasing, lost, calls>>

\* expat calls back for a document: one root, and text only inside of it.
Inside == path # <<>>
BeforeRoot == stack # <<>> /\ impl[Head(stack)].kids = <<>>

\* Faulty: the parent stays on top.
PushParent(j) == Append(stack, Last(stack))

\* stack.push_back
Push(j) == Append(stack, j)

\* TreeBuilder::StartElement; expat refuses an element with an attribute twice.
StartElement(n, attr) ==
    /\ Quiet /\ (Inside \/ BeforeRoot)
    /\ \E new \in [1..(1 + Len(attr)) -> Free] :
         /\ \A k, l \in DOMAIN new : k < l => new[k] < new[l]
         /\ \A i \in Free \ ToSet(new) : i > Last(new)
         /\ impl' = [i \in Impl |->
               IF i = Last(stack) THEN Grown(impl[i], new[1], "element", n)
               ELSE IF i = new[1] THEN [Fresh("element", n) EXCEPT !.kids = Tail(new), !.attr = Tail(new)]
               ELSE IF i \in ToSet(Tail(new)) THEN Fresh("attr", attr[CHOOSE k \in DOMAIN attr : new[k + 1] = i])
               ELSE impl[i]]
         /\ ref' = [i \in Impl |-> IF i = new[1] THEN 2 ELSE IF i \in ToSet(new) THEN 1 ELSE ref[i]]
         /\ stack' = Push(new[1])
    /\ path' = Append(path, n)
    /\ UNCHANGED <<handle, releasing, lost, calls>>

\* TreeBuilder::EndElement
EndElement ==
    /\ Quiet /\ Inside
    /\ stack' = Front(stack) /\ path' = Front(path)
    /\ releasing' = <<Last(stack)>>
    /\ UNCHANGED <<heap, handle, calls>>

\* TreeBuilder::OnCharData
OnCharData ==
    /\ Quiet /\ Inside /\ Free # {}
    /\ impl' = [Adopt(Last(stack), New, "text", Anonymous) EXCEPT ![New] = Fresh("text", Anonymous)]
    /\ ref' = [ref EXCEPT ![New] = 1]
    /\ UNCHANGED <<handle, stack, path, releasing, lost, calls>>

\* TreeBuilder::Result, when expat has read the whole document.
Result(h) ==
    /\ Call /\ stack # <<>> /\ ~Inside /\ ~BeforeRoot
    /\ LET root == Head(impl[Head(stack)].kids) IN
         /\ Countable(root)
         /\ ref' = [ref EXCEPT ![root] = @ + 1]
         /\ Assign(h, root)
    /\ UNCHANGED <<impl, stack, path, lost>>

\* The builder goes: after Result, at XmlResponse::Clear, or because ParseData threw.
DropBuilder ==
    /\ Quiet /\ stack # <<>>
    /\ stack' = <<>> /\ path' = <<>>
    /\ releasing' = stack
    /\ UNCHANGED <<heap, handle, calls>>

XmlIdle ==
    /\ impl = [i \in Impl |-> Freed] /\ ref = [i \in Impl |-> 0]
    /\ lost = [i \in Impl |-> 0]
    /\ handle = [h \in Slot |-> Nobody]
    /\ stack = <<>> /\ path = <<>> /\ releasing = <<>> /\ calls = 0

Attrs == {<<>>} \cup {<<n>> : n \in Tag}

XmlNext ==
    \/ Release
    \/ \E h \in Slot, n \in Tag : Make(h, "element", n) \/ AddAttribute(h, n)
    \/ \E h \in Slot : Make(h, "text", Anonymous)
    \/ \E h, g \in Slot : Copy(h, g) \/ AddNode(h, g)
    \/ \E h, g \in Slot, n \in Tag : AddElement(h, n, g)
    \/ \E h, g \in Slot, j \in Impl : Child(h, j, g)
    \/ \E h, g \in Slot, t \in {"element", "attr"}, n \in Tag, v \in 0..1 : Find(h, t, n, v, g)
    \/ \E h \in Slot : Drop(h) \/ AddText(h) \/ Result(h)
    \/ \E n \in Tag, attr \in Attrs : Cardinality(Free) > Len(attr) /\ StartElement(n, attr)
    \/ NewBuilder \/ EndElement \/ OnCharData \/ DropBuilder

XmlSpec == XmlIdle /\ [][XmlNext]_xmlvars

-----------------------------------------------------------------------------
(* Properties.                                                             *)

Held == ToSet(releasing) \cup ToSet(stack) \cup ({handle[h] : h \in Slot} \ {Nobody})

\* No handle, no frame of the builder, no release under way and no child of a node that
\* is alive refers to an Impl that was deleted, whatever was copied, adopted, dropped, and
\* thrown away half built (Node.cc:58, TreeBuilder.cc:103).
NoDangling == \A i \in Held \cup Kids(Impl) : Live(i)

\* Whatever nobody can reach any more has been deleted, but for the references that
\* AddAttribute and AddNode lose when they throw (Node.cc:88) and for nodes that were
\* added below themselves.
Reclaimed ==
    Quiet => \A i \in Impl : Live(i) =>
        \/ i \in Reached(Held)
        \/ i \in Reached({j \in Impl : lost[j] > 0})
        \/ i \in Reached({j \in Impl : j \in Reached(Kids({j}))})

\* The stack of the builder is the open elements on the dummy, each the last element of
\* the one below: what EndElement (TreeBuilder.cc:120) and Result (TreeBuilder.cc:86) assert
\* of it, with a root that is whole when expat is done.
WellNested ==
    stack # <<>> =>
        /\ Len(stack) = Len(path) + 1
        /\ \A k \in DOMAIN path : /\ impl[stack[k + 1]].name = path[k]
                                  /\ Last(impl[stack[k]].kids) = stack[k + 1]
        /\ Len(impl[Head(stack)].kids) <= 1

\* What a look-up by name finds is what a reading of the children finds, in the order of the
\* document (Node.cc:85, Node.cc:182): the order by name is kept whatever is added below a node,
\* adopted from elsewhere, or put together by NodeSet::Find.
FoundInOrder ==
    \A i \in Impl : \A t \in {"element", "attr"}, n \in Tag \cup {Anonymous} :
       Named(impl[i][t], n) = SelectSeq(impl[i].kids, LAMBDA k : impl[k].type = t /\ impl[k].name = n)

================================================================================
