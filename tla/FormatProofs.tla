---------------------------- MODULE FormatProofs ----------------------------
(***************************************************************************)
(* What is proved of the two formats: JSON and XML.                        *)
(*                                                                         *)
(* JSON.  The builder never meets a call it has no place for, whatever the *)
(* text.  The grammar knows which containers are open and what each        *)
(* expects; the builder has a stack of its own.  The invariant says that   *)
(* they agree: a level for each open container, of its kind, with a key    *)
(* exactly where a value is expected.  Texts are not restricted: a file    *)
(* that was cut, an answer of any server.                                  *)
(*                                                                         *)
(* A text that this program wrote is followed through its document: at     *)
(* each place there are the containers that are open, and how much of each *)
(* is past.  What is left to write, what the parser expects and what the   *)
(* builder has are all told from that.                                     *)
(*                                                                         *)
(* XML.  A node is freed exactly when nothing holds it.  The invariant     *)
(* counts: m_ref of a node is the number of the places it is in, among the *)
(* slots, the stack, the children, the calls of Release under way, and the *)
(* references that were lost.  A freed node has none, so nothing points to *)
(* it; a node that lives has one, so it is held, or a child of a node that *)
(* is, or a lost reference keeps it.  That the stack of the builder is     *)
(* nested needs that no slot and no other node has a part of it: the nodes *)
(* the builder made are its own until it gives its result.                 *)
(***************************************************************************)
EXTENDS Json, Xml, SequenceTheorems, FunctionTheorems, FiniteSetTheorems, WellFoundedInduction, TLAPS

Expectation == {"start", "done", "item", "key", "value"}

IsSeq(c) == c \in Seq({c[i] : i \in DOMAIN c})

Fits(s, l) ==
    \/ s = "item"  /\ l.val.type = "array"  /\ l.key = Nil /\ IsSeq(l.val.body)
    \/ s = "key"   /\ l.val.type = "object" /\ l.key = Nil
    \/ s = "value" /\ l.val.type = "object" /\ l.key # Nil

\* All open containers but the innermost wait for the value that is being read.
Agree(g, c) ==
    \/ g = <<"done">> /\ Len(c) = 1
    \/ /\ g[1] = "start" /\ Len(c) = Len(g) - 1
       /\ \A i \in 1..Len(c) : Fits(g[i + 1], c[i])
       /\ \A i \in 1..(Len(c) - 1) : g[i + 1] # "key"

JsonInv ==
    /\ grammar \in Seq(Expectation) /\ Len(grammar) > 0
    /\ IsSeq(ctx)
    /\ Agree(grammar, ctx)
    /\ NoThrow

-------------------------------------------------------------------------------
(* Sequences.                                                              *)

\* The length of a sequence, and its domain.
LEMMA Lengths ==
    ASSUME NEW c, IsSeq(c)
    PROVE  Len(c) \in Nat /\ DOMAIN c = 1..Len(c) /\ (c = <<>> <=> Len(c) = 0)
    BY LenProperties, EmptySeq DEF IsSeq

\* A sequence of anything is one of its own elements.
LEMMA OwnElements ==
    ASSUME NEW S, NEW c \in Seq(S)
    PROVE  IsSeq(c)
<1>1. /\ Len(c) \in Nat /\ DOMAIN c = 1..Len(c)
      /\ c = [i \in 1..Len(c) |-> c[i]]
    BY LenProperties
<1>. DEFINE E == {c[i] : i \in DOMAIN c}
<1>2. c \in [1..Len(c) -> E]
    BY <1>1
<1>3. c \in Seq(E)
    BY <1>1, <1>2, SeqDef, SMTT(30)
<1>. QED  BY <1>3 DEF IsSeq

\* A sequence with one element more.
LEMMA Appended ==
    ASSUME NEW c, IsSeq(c), NEW x
    PROVE  LET d == Append(c, x)
           IN /\ IsSeq(d) /\ Len(d) = Len(c) + 1
              /\ d[Len(c) + 1] = x
              /\ \A i \in 1..Len(c) : d[i] = c[i]
<1>. DEFINE S == {c[i] : i \in DOMAIN c} \cup {x}
            d == Append(c, x)
<1>1. c \in Seq(S)
  <2>1. c \in Seq({c[i] : i \in DOMAIN c})
    BY DEF IsSeq
  <2>. QED  BY <2>1, SeqMonotonic
<1>2. x \in S
    OBVIOUS
<1>. HIDE DEF S
<1>3. /\ d \in Seq(S) /\ Len(d) = Len(c) + 1
      /\ \A i \in 1..Len(c) : d[i] = c[i]
      /\ d[Len(c) + 1] = x
    BY <1>1, <1>2, AppendProperties
<1>4. IsSeq(d)
    BY <1>3, OwnElements
<1>. QED  BY <1>3, <1>4

\* A sequence without its last element.
LEMMA Popped ==
    ASSUME NEW c, IsSeq(c), Len(c) > 0
    PROVE  /\ IsSeq(Pop(c)) /\ Len(Pop(c)) = Len(c) - 1
           /\ \A i \in 1..(Len(c) - 1) : Pop(c)[i] = c[i]
<1>. DEFINE S == {c[i] : i \in DOMAIN c}
<1>1. c \in Seq(S)
    BY DEF IsSeq
<1>2. Len(c) \in Nat
    BY <1>1, LenProperties
<1>. HIDE DEF S
<1>. DEFINE n == Len(c) - 1
<1>3. n \in Nat /\ \A i \in 1..n : c[i] \in S
    BY <1>1, <1>2, ElementOfSeq
<1>. HIDE DEF n
<1>4. /\ SubSeq(c, 1, n) \in Seq(S)
      /\ Len(SubSeq(c, 1, n)) = n
      /\ \A i \in 1..n : SubSeq(c, 1, n)[i] = c[i]
  <2>1. /\ SubSeq(c, 1, n) \in Seq(S)
        /\ Len(SubSeq(c, 1, n)) = IF 1 <= n THEN n - 1 + 1 ELSE 0
        /\ \A i \in 1..(n - 1 + 1) : SubSeq(c, 1, n)[i] = c[1 + i - 1]
    BY <1>3, SubSeqProperties, 1 \in Int, n \in Int
  <2>2. n - 1 + 1 = n /\ \A i \in 1..n : 1 + i - 1 = i
    BY <1>3
  <2>. QED  BY <1>3, <2>1, <2>2
<1>. QED  BY <1>4, OwnElements DEF Pop, n

\* A sequence of one element.
LEMMA Single ==
    ASSUME NEW x
    PROVE  IsSeq(<<x>>) /\ Len(<<x>>) = 1 /\ <<x>>[1] = x
<1>1. <<x>> \in Seq({x})
    OBVIOUS
<1>. QED  BY <1>1, OwnElements

-------------------------------------------------------------------------------
(* The grammar and the builder stay in agreement.                          *)

\* Grammars are sequences too.
LEMMA GrammarIsSeq ==
    ASSUME NEW g \in Seq(Expectation)
    PROVE  IsSeq(g) /\ \A i \in 1..Len(g) : g[i] \in Expectation
    BY OwnElements, ElementOfSeq

\* A value where one is expected has its place.
LEMMA ValueBuilt ==
    ASSUME NEW g \in Seq(Expectation), Len(g) > 0, NEW c, IsSeq(c), Agree(g, c), NEW v,
           g[Len(g)] \in {"start", "item", "value"}
    PROVE  /\ CanBuild(c)
           /\ Got(g) \in Seq(Expectation) /\ Len(Got(g)) = Len(g)
           /\ IsSeq(Build(c, v))
           /\ Agree(Got(g), Build(c, v))
<1>1. /\ Len(g) \in Nat /\ Len(c) \in Nat /\ (c = <<>> <=> Len(c) = 0)
      /\ DOMAIN g = 1..Len(g)
    BY Lengths, LenProperties
<1>2. /\ g[1] = "start" /\ Len(c) = Len(g) - 1
      /\ \A i \in 1..Len(c) : Fits(g[i + 1], c[i])
      /\ \A i \in 1..(Len(c) - 1) : g[i + 1] # "key"
  <2>1. g # <<"done">>
      OBVIOUS
  <2>. QED  BY <2>1 DEF Agree
<1>3. /\ Got(g) \in Seq(Expectation) /\ Len(Got(g)) = Len(g)
      /\ \A i \in 1..(Len(g) - 1) : Got(g)[i] = g[i]
      /\ Got(g)[Len(g)] = CASE g[Len(g)] = "start" -> "done" [] g[Len(g)] = "value" -> "key" [] OTHER -> g[Len(g)]
    BY <1>1 DEF Got, Expectation
<1>4. CASE Len(c) = 0
  <2>1. Build(c, v) = <<Level(Nil, v)>>
    BY <1>1, <1>4 DEF Build
  <2>2. Len(g) = 1 /\ Got(g)[1] = "done"
    BY <1>1, <1>2, <1>3, <1>4
  <2>3. Got(g) = <<"done">>
    BY <2>2, <1>3
  <2>. QED  BY <1>1, <1>3, <1>4, <2>1, <2>3, Single DEF Agree, CanBuild
<1>5. CASE Len(c) > 0
  <2>1. Fits(g[Len(g)], Top(c)) /\ Len(g) = Len(c) + 1 /\ g[Len(g)] \in {"item", "value"}
    BY <1>1, <1>2, <1>5 DEF Top, Fits
  <2>2. CanBuild(c)
    BY <2>1 DEF Fits, CanBuild
  <2>3. PICK l : Build(c, v) = Append(Pop(c), l) /\ Fits(Got(g)[Len(g)], l)
    <3>1. CASE g[Len(g)] = "item"
      <4>1. Build(c, v) = Append(Pop(c), Level(Top(c).key, Longer(Top(c).val, v)))
        BY <1>1, <1>5, <2>1, <3>1 DEF Build, Fits
      <4>2. Fits("item", Level(Top(c).key, Longer(Top(c).val, v)))
        BY <2>1, <3>1, Appended DEF Fits, Level, Longer, Val
      <4>. QED  BY <4>1, <4>2, <1>3, <3>1
    <3>2. CASE g[Len(g)] = "value"
      <4>1. Build(c, v) = Append(Pop(c), Level(Nil, With(Top(c).val, Top(c).key, v)))
        BY <1>1, <1>5, <2>1, <3>2 DEF Build, Fits
      <4>2. Fits("key", Level(Nil, With(Top(c).val, Top(c).key, v)))
        BY DEF Fits, Level, With, Val
      <4>. QED  BY <4>1, <4>2, <1>3, <3>2
    <3>. QED  BY <2>1, <3>1, <3>2
  <2>4. /\ IsSeq(Build(c, v)) /\ Len(Build(c, v)) = Len(c)
        /\ Build(c, v)[Len(c)] = l
        /\ \A i \in 1..(Len(c) - 1) : Build(c, v)[i] = c[i]
    BY <2>3, <1>1, <1>5, Popped, Appended
  <2>5. \A i \in 1..Len(c) : Fits(Got(g)[i + 1], Build(c, v)[i])
    BY <1>1, <1>2, <1>3, <2>1, <2>3, <2>4, SMTT(30)
  <2>6. Got(g)[1] = "start" /\ \A i \in 1..(Len(c) - 1) : Got(g)[i + 1] # "key"
    BY <1>1, <1>2, <1>3, <2>1, <1>5
  <2>. QED  BY <1>3, <2>1, <2>2, <2>4, <2>5, <2>6 DEF Agree
<1>. QED  BY <1>1, <1>4, <1>5

\* The same for a container that is closed.
LEMMA ContainerBuilt ==
    ASSUME NEW g \in Seq(Expectation), NEW c, IsSeq(c), Agree(g, c), NEW t,
           \/ t = "object" /\ g[Len(g)] = "key"
           \/ t = "array" /\ g[Len(g)] = "item",
           Len(g) > 0
    PROVE  LET h == Got(SubSeq(g, 1, Len(g) - 1))
           IN /\ CanEnd(c, t)
              /\ h \in Seq(Expectation) /\ Len(h) > 0
              /\ IsSeq(End(c, t))
              /\ Agree(h, End(c, t))
<1>. DEFINE p == SubSeq(g, 1, Len(g) - 1)
<1>1. /\ Len(g) \in Nat /\ Len(c) \in Nat /\ (c = <<>> <=> Len(c) = 0)
      /\ IsSeq(g)
    BY Lengths, LenProperties, GrammarIsSeq
<1>2. /\ g[1] = "start" /\ Len(c) = Len(g) - 1
      /\ \A i \in 1..Len(c) : Fits(g[i + 1], c[i])
      /\ \A i \in 1..(Len(c) - 1) : g[i + 1] # "key"
  <2>1. g # <<"done">>
      OBVIOUS
  <2>. QED  BY <2>1 DEF Agree
<1>3. Len(g) > 1 /\ Len(c) > 0
    BY <1>1, <1>2
<1>4. Fits(g[Len(g)], Top(c))
    BY <1>1, <1>2, <1>3 DEF Top
<1>5. Top(c).val.type = t /\ Top(c).key = Nil
    BY <1>4 DEF Fits
<1>6. /\ p \in Seq(Expectation) /\ Len(p) = Len(g) - 1
      /\ \A i \in 1..(Len(g) - 1) : p[i] = g[i]
  <2>1. IsSeq(p) /\ Len(p) = Len(g) - 1 /\ \A i \in 1..(Len(g) - 1) : p[i] = g[i]
    BY <1>1, <1>3, Popped DEF Pop
  <2>. QED  BY <2>1, <1>1, <1>3
<1>. HIDE DEF p
<1>7. /\ IsSeq(Pop(c)) /\ Len(Pop(c)) = Len(c) - 1
      /\ \A i \in 1..(Len(c) - 1) : Pop(c)[i] = c[i]
    BY <1>3, Popped
<1>8. p[Len(p)] \in {"start", "item", "value"}
  <2>1. CASE Len(p) = 1
    BY <2>1, <1>1, <1>2, <1>3, <1>6
  <2>2. CASE Len(p) > 1
    <3>. DEFINE i == Len(c) - 1
    <3>1. i \in 1..(Len(c) - 1) /\ i \in 1..Len(c) /\ Len(p) = i + 1 /\ Len(p) \in 1..(Len(g) - 1)
      BY <2>2, <1>1, <1>2, <1>3, <1>6
    <3>2. p[Len(p)] = g[i + 1]
      BY <3>1, <1>6
    <3>3. Fits(g[i + 1], c[i]) /\ g[i + 1] # "key"
      BY <3>1, <1>2
    <3>. QED  BY <3>3, <3>2 DEF Fits
  <2>. QED  BY <2>1, <2>2, <1>1, <1>3, <1>6
<1>9. Agree(p, Pop(c))
  <2>1. p[1] = "start" /\ Len(Pop(c)) = Len(p) - 1
    BY <1>1, <1>2, <1>3, <1>6, <1>7
  <2>2. ASSUME NEW i \in 1..Len(Pop(c))
        PROVE  Fits(p[i + 1], Pop(c)[i])
    <3>1. i \in 1..(Len(c) - 1) /\ i \in 1..Len(c) /\ i + 1 \in 1..(Len(g) - 1)
      BY <1>1, <1>2, <1>7
    <3>2. p[i + 1] = g[i + 1] /\ Pop(c)[i] = c[i]
      BY <3>1, <1>6, <1>7
    <3>. QED  BY <3>1, <3>2, <1>2
  <2>3. ASSUME NEW i \in 1..(Len(Pop(c)) - 1)
        PROVE  p[i + 1] # "key"
    <3>1. i \in 1..(Len(c) - 1) /\ i + 1 \in 1..(Len(g) - 1)
      BY <1>1, <1>2, <1>7
    <3>. QED  BY <3>1, <1>2, <1>6
  <2>. QED  BY <2>1, <2>2, <2>3 DEF Agree
<1>10. Len(p) > 0
    BY <1>1, <1>3, <1>6
<1>11. /\ CanBuild(Pop(c))
       /\ Got(p) \in Seq(Expectation) /\ Len(Got(p)) = Len(p)
       /\ IsSeq(Build(Pop(c), Top(c).val))
       /\ Agree(Got(p), Build(Pop(c), Top(c).val))
  <2>. DEFINE q == Pop(c)
              w == Top(c).val
  <2>1. p \in Seq(Expectation) /\ IsSeq(q) /\ Agree(p, q)
    BY <1>6, <1>7, <1>9
  <2>. HIDE DEF q, w
  <2>2. /\ CanBuild(q)
        /\ Got(p) \in Seq(Expectation) /\ Len(Got(p)) = Len(p)
        /\ IsSeq(Build(q, w))
        /\ Agree(Got(p), Build(q, w))
    BY <2>1, <1>8, <1>10, ValueBuilt
  <2>. QED  BY <2>2 DEF q, w
<1>12. End(c, t) = Build(Pop(c), Top(c).val) /\ CanEnd(c, t)
    BY <1>1, <1>3, <1>5, <1>11 DEF End, CanEnd
<1>. QED  BY <1>1, <1>3, <1>6, <1>11, <1>12 DEF p

\* A container that is opened where a value is expected.
LEMMA ContainerOpened ==
    ASSUME NEW g \in Seq(Expectation), Len(g) > 0, NEW c, IsSeq(c), Agree(g, c),
           g[Len(g)] \in {"start", "item", "value"},
           NEW s \in Expectation, NEW l, s # "start", s # "done", s # "value", Fits(s, l)
    PROVE  /\ Append(g, s) \in Seq(Expectation) /\ Len(Append(g, s)) > 0
           /\ IsSeq(Append(c, l))
           /\ Agree(Append(g, s), Append(c, l))
<1>1. Len(g) \in Nat /\ Len(c) \in Nat
    BY Lengths, LenProperties
<1>2. /\ g[1] = "start" /\ Len(c) = Len(g) - 1
      /\ \A i \in 1..Len(c) : Fits(g[i + 1], c[i])
      /\ \A i \in 1..(Len(c) - 1) : g[i + 1] # "key"
  <2>1. g # <<"done">>
      OBVIOUS
  <2>. QED  BY <2>1 DEF Agree
<1>. DEFINE h == Append(g, s)
            d == Append(c, l)
<1>3. /\ h \in Seq(Expectation) /\ Len(h) = Len(g) + 1
      /\ h[Len(g) + 1] = s /\ \A i \in 1..Len(g) : h[i] = g[i]
    BY AppendProperties
<1>4. /\ IsSeq(d) /\ Len(d) = Len(c) + 1
      /\ d[Len(c) + 1] = l /\ \A i \in 1..Len(c) : d[i] = c[i]
    BY Appended
<1>. HIDE DEF h, d
<1>5. h[1] = "start" /\ Len(d) = Len(h) - 1
    BY <1>1, <1>2, <1>3, <1>4
<1>6. ASSUME NEW i \in 1..Len(d)
      PROVE  Fits(h[i + 1], d[i])
  <2>1. CASE i = Len(c) + 1
    BY <2>1, <1>1, <1>2, <1>3, <1>4
  <2>2. CASE i \in 1..Len(c)
    <3>1. i + 1 \in 1..Len(g)
      BY <2>2, <1>1, <1>2
    <3>. QED  BY <2>2, <3>1, <1>2, <1>3, <1>4
  <2>. QED  BY <2>1, <2>2, <1>1, <1>4
<1>7. ASSUME NEW i \in 1..(Len(d) - 1)
      PROVE  h[i + 1] # "key"
  <2>1. i \in 1..Len(c) /\ i + 1 \in 1..Len(g) /\ h[i + 1] = g[i + 1]
    BY <1>1, <1>2, <1>3, <1>4
  <2>2. CASE i = Len(c)
    BY <2>1, <2>2, <1>1, <1>2
  <2>3. CASE i \in 1..(Len(c) - 1)
    BY <2>1, <2>3, <1>2
  <2>. QED  BY <2>1, <2>2, <2>3, <1>1
<1>8. Agree(h, d)
    BY <1>5, <1>6, <1>7 DEF Agree
<1>. QED  BY <1>1, <1>3, <1>4, <1>8 DEF h, d

\* A key where a key is expected.
LEMMA KeyVisited ==
    ASSUME NEW g \in Seq(Expectation), Len(g) > 0, NEW c, IsSeq(c), Agree(g, c),
           g[Len(g)] = "key", NEW n \in Name
    PROVE  LET h == [g EXCEPT ![Len(g)] = "value"]
               d == Append(Pop(c), Level(n, Top(c).val))
           IN /\ c # <<>>
              /\ h \in Seq(Expectation) /\ Len(h) > 0
              /\ IsSeq(d)
              /\ Agree(h, d)
<1>1. /\ Len(g) \in Nat /\ Len(c) \in Nat /\ (c = <<>> <=> Len(c) = 0)
      /\ DOMAIN g = 1..Len(g)
    BY Lengths, LenProperties
<1>2. /\ g[1] = "start" /\ Len(c) = Len(g) - 1
      /\ \A i \in 1..Len(c) : Fits(g[i + 1], c[i])
      /\ \A i \in 1..(Len(c) - 1) : g[i + 1] # "key"
  <2>1. g # <<"done">>
      OBVIOUS
  <2>. QED  BY <2>1 DEF Agree
<1>3. Len(c) > 0 /\ Fits("key", Top(c))
    BY <1>1, <1>2 DEF Top
<1>. DEFINE h == [g EXCEPT ![Len(g)] = "value"]
            l == Level(n, Top(c).val)
            d == Append(Pop(c), l)
<1>4. Fits("value", l)
    BY <1>3, JsonAssumption DEF Fits, Level
<1>5. /\ h \in Seq(Expectation) /\ Len(h) = Len(g) /\ h[Len(g)] = "value"
      /\ \A i \in 1..(Len(g) - 1) : h[i] = g[i]
  <2>1. g \in [1..Len(g) -> Expectation] /\ "value" \in Expectation
    BY LenProperties DEF Expectation
  <2>2. h \in [1..Len(g) -> Expectation]
    BY <2>1
  <2>3. h \in Seq(Expectation) /\ Len(h) = Len(g)
    BY <1>1, <2>2
  <2>4. Len(g) \in 1..Len(g)
    BY <1>1
  <2>5. \A i \in 1..Len(g) : h[i] = IF i = Len(g) THEN "value" ELSE g[i]
    BY <2>1
  <2>. DEFINE last == Len(g)
  <2>6. last \in Nat
    BY <1>1
  <2>. HIDE DEF last
  <2>7. \A i \in 1..(last - 1) : i \in 1..last /\ i # last
    BY <2>6
  <2>. QED  BY <2>3, <2>4, <2>5, <2>7 DEF last
<1>6. /\ IsSeq(d) /\ Len(d) = Len(c) /\ d[Len(c)] = l
      /\ \A i \in 1..(Len(c) - 1) : d[i] = c[i]
    BY <1>1, <1>3, Popped, Appended
<1>. HIDE DEF h, l, d
<1>7. \A i \in 1..Len(d) : Fits(h[i + 1], d[i])
    BY <1>1, <1>2, <1>3, <1>4, <1>5, <1>6
<1>8. h[1] = "start" /\ \A i \in 1..(Len(d) - 1) : h[i + 1] # "key"
    BY <1>1, <1>2, <1>3, <1>5, <1>6
<1>9. Agree(h, d)
    BY <1>2, <1>5, <1>6, <1>7, <1>8 DEF Agree
<1>10. c # <<>> /\ Len(h) > 0
    BY <1>1, <1>3, <1>5
<1>. QED  BY <1>5, <1>6, <1>9, <1>10 DEF h, d, l

\* One more token.
LEMMA Fed ==
    ASSUME JsonInv, NEW tok, Feed(tok)
    PROVE  /\ grammar' \in Seq(Expectation) /\ Len(grammar') > 0
           /\ IsSeq(ctx') /\ Agree(grammar', ctx') /\ NoThrow'
<1>. DEFINE g == grammar
            c == ctx
            s == g[Len(g)]
            key == (s = "key")
<1>1. /\ g \in Seq(Expectation) /\ Len(g) > 0 /\ IsSeq(c) /\ Agree(g, c) /\ NoThrow
      /\ s \in Expectation
    BY LenProperties, ElementOfSeq DEF JsonInv
<1>2. CASE ~Takes(g, tok)
    BY <1>1, <1>2 DEF Feed, NoThrow
<1>3. CASE Takes(g, tok)
  <2>1. SUFFICES /\ Calm(c, tok, key)
                 /\ Shift(g, tok) \in Seq(Expectation) /\ Len(Shift(g, tok)) > 0
                 /\ IsSeq(Callback(c, tok, key))
                 /\ Agree(Shift(g, tok), Callback(c, tok, key))
    BY <1>1, <1>3 DEF Feed, NoThrow
  <2>2. CASE tok.is = "{"
    <3>1. s \in {"start", "item", "value"}
      BY <1>3, <2>2 DEF Takes
    <3>2. Fits("key", Level(Nil, EmptyObject))
      BY DEF Fits, Level, EmptyObject, Val
    <3>3. /\ Append(g, "key") \in Seq(Expectation) /\ Len(Append(g, "key")) > 0
          /\ IsSeq(Append(c, Level(Nil, EmptyObject)))
          /\ Agree(Append(g, "key"), Append(c, Level(Nil, EmptyObject)))
      BY <1>1, <3>1, <3>2, ContainerOpened DEF Expectation
    <3>. QED  BY <2>2, <3>3 DEF Calm, Shift, Callback
  <2>3. CASE tok.is = "["
    <3>1. s \in {"start", "item", "value"}
      BY <1>3, <2>3 DEF Takes
    <3>2. Fits("item", Level(Nil, EmptyArray))
      BY EmptySeq DEF IsSeq, Fits, Level, EmptyArray, Val
    <3>3. /\ Append(g, "item") \in Seq(Expectation) /\ Len(Append(g, "item")) > 0
          /\ IsSeq(Append(c, Level(Nil, EmptyArray)))
          /\ Agree(Append(g, "item"), Append(c, Level(Nil, EmptyArray)))
      BY <1>1, <3>1, <3>2, ContainerOpened DEF Expectation
    <3>. QED  BY <2>3, <3>3 DEF Calm, Shift, Callback
  <2>4. CASE tok.is = "}"
    <3>1. s = "key"
      BY <1>3, <2>4 DEF Takes
    <3>. QED  BY <1>1, <2>4, <3>1, ContainerBuilt DEF Calm, Shift, Callback
  <2>5. CASE tok.is = "]"
    <3>1. s = "item"
      BY <1>3, <2>5 DEF Takes
    <3>. QED  BY <1>1, <2>5, <3>1, ContainerBuilt DEF Calm, Shift, Callback
  <2>6. CASE tok.is \notin {"{", "[", "}", "]"} /\ s = "key"
    <3>1. tok.v \in Name
      BY <1>3, <2>6 DEF Takes
    <3>2. /\ c # <<>>
          /\ [g EXCEPT ![Len(g)] = "value"] \in Seq(Expectation)
          /\ Len([g EXCEPT ![Len(g)] = "value"]) > 0
          /\ IsSeq(Append(Pop(c), Level(tok.v, Top(c).val)))
          /\ Agree([g EXCEPT ![Len(g)] = "value"], Append(Pop(c), Level(tok.v, Top(c).val)))
      BY <1>1, <2>6, <3>1, KeyVisited
    <3>. QED  BY <2>6, <3>2 DEF Calm, Shift, Callback
  <2>7. CASE tok.is \notin {"{", "[", "}", "]"} /\ s # "key"
    <3>1. s \in {"start", "item", "value"}
      BY <1>1, <1>3, <2>7 DEF Takes, Expectation
    <3>2. /\ CanBuild(c)
          /\ Got(g) \in Seq(Expectation) /\ Len(Got(g)) = Len(g)
          /\ IsSeq(Build(c, Scalar(tok)))
          /\ Agree(Got(g), Build(c, Scalar(tok)))
      BY <1>1, <3>1, ValueBuilt
    <3>. QED  BY <1>1, <2>7, <3>2 DEF Calm, Shift, Callback
  <2>. QED  BY <2>2, <2>3, <2>4, <2>5, <2>6, <2>7
<1>. QED  BY <1>2, <1>3

-------------------------------------------------------------------------------
(* What has been read stays.                                               *)

\* A value says all that it says.
LEMMA ExtendsItself ==
    ASSUME NEW v
    PROVE  Extends(v, v)
    BY DEF Extends

\* A value that is added to the outermost container is added at its end, or under a key
\* that was not there.
LEMMA BuildExtends ==
    ASSUME NEW c, IsSeq(c), Len(c) > 0, NEW v,
           \/ Fits("item", Top(c))
           \/ Fits("value", Top(c))
    PROVE  /\ IsSeq(Build(c, v)) /\ Len(Build(c, v)) = Len(c)
           /\ Extends(c[1].val, Build(c, v)[1].val)
<1>1. Len(c) \in Nat /\ c # <<>>
    BY Lengths
<1>2. PICK l : Build(c, v) = Append(Pop(c), l) /\ Extends(Top(c).val, l.val)
  <2>1. CASE Fits("item", Top(c))
    <3>1. Build(c, v) = Append(Pop(c), Level(Top(c).key, Longer(Top(c).val, v)))
      BY <1>1, <2>1 DEF Build, Fits
    <3>2. Extends(Top(c).val, Longer(Top(c).val, v))
      <4>. DEFINE ar == Top(c).val.body
      <4>1. IsSeq(ar) /\ Top(c).val.type = "array"
        BY <2>1 DEF Fits
      <4>. HIDE DEF ar
      <4>2. /\ DOMAIN ar = 1..Len(ar) /\ Len(ar) \in Nat
            /\ DOMAIN Append(ar, v) = 1..Len(Append(ar, v))
            /\ Len(Append(ar, v)) = Len(ar) + 1
            /\ \A i \in 1..Len(ar) : Append(ar, v)[i] = ar[i]
        BY <4>1, Appended, Lengths
      <4>3. \A i \in DOMAIN ar : i \in DOMAIN Append(ar, v) /\ Append(ar, v)[i] = ar[i]
        BY <4>2
      <4>. QED  BY <4>1, <4>3 DEF Extends, Longer, Val, ar
    <3>. QED  BY <3>1, <3>2 DEF Level
  <2>2. CASE Fits("value", Top(c))
    <3>1. Build(c, v) = Append(Pop(c), Level(Nil, With(Top(c).val, Top(c).key, v)))
      BY <1>1, <2>2 DEF Build, Fits
    <3>2. Extends(Top(c).val, With(Top(c).val, Top(c).key, v))
      <4>. DEFINE ob == Top(c).val.body
                  k  == Top(c).key
      <4>1. Top(c).val.type = "object"
        BY <2>2 DEF Fits
      <4>. HIDE DEF ob, k
      <4>. DEFINE new == [n \in DOMAIN ob \cup {k} |-> IF n \in DOMAIN ob THEN ob[n] ELSE v]
      <4>2. \A i \in DOMAIN ob : i \in DOMAIN new /\ new[i] = ob[i]
        OBVIOUS
      <4>. QED  BY <4>1, <4>2 DEF Extends, With, Val, ob, k
    <3>. QED  BY <3>1, <3>2 DEF Level
  <2>. QED  BY <2>1, <2>2
<1>3. /\ IsSeq(Build(c, v)) /\ Len(Build(c, v)) = Len(c)
      /\ Build(c, v)[Len(c)] = l
      /\ \A i \in 1..(Len(c) - 1) : Build(c, v)[i] = c[i]
    BY <1>1, <1>2, Popped, Appended
<1>4. CASE Len(c) = 1
    BY <1>2, <1>3, <1>4 DEF Top
<1>5. CASE Len(c) > 1
    BY <1>1, <1>3, <1>5, ExtendsItself
<1>. QED  BY <1>1, <1>3, <1>4, <1>5

\* A token takes nothing away from what has been read.
LEMMA FedExtends ==
    ASSUME JsonInv, NEW tok, Feed(tok), ctx # <<>>
    PROVE  ctx' # <<>> /\ Extends(ctx[1].val, ctx'[1].val)
<1>. DEFINE g == grammar
            c == ctx
            s == g[Len(g)]
            key == (s = "key")
<1>1. /\ IsSeq(c) /\ Len(c) \in Nat /\ Len(c) > 0
      /\ Len(g) \in Nat /\ Len(g) > 0 /\ g \in Seq(Expectation)
    BY Lengths, LenProperties DEF JsonInv
<1>2. Len(ctx) = 1 \/ Len(ctx) > 1
  <2>. DEFINE n == Len(ctx)
  <2>1. n \in Nat /\ n > 0
    BY <1>1
  <2>. HIDE DEF n
  <2>2. n = 1 \/ n > 1
    BY <2>1
  <2>. QED  BY <2>2 DEF n
<1>3. CASE ctx' = ctx
    BY <1>3, ExtendsItself
<1>4. CASE ctx' # ctx
  <2>1. Takes(g, tok) /\ Calm(c, tok, key) /\ ctx' = Callback(c, tok, key)
    BY <1>4 DEF Feed
  <2>2. s # "done"
    BY <2>1 DEF Takes
  <2>3. /\ g[1] = "start" /\ Len(c) = Len(g) - 1
        /\ \A i \in 1..Len(c) : Fits(g[i + 1], c[i])
        /\ \A i \in 1..(Len(c) - 1) : g[i + 1] # "key"
    <3>1. g # <<"done">>
      BY <2>2
    <3>. QED  BY <3>1 DEF JsonInv, Agree
  <2>4. Fits(s, Top(c))
    BY <1>1, <2>3 DEF Top
  <2>5. CASE \E l : ctx' = Append(c, l)
    BY <1>1, <2>5, Appended, Lengths, ExtendsItself
  <2>6. CASE ctx' = Append(Pop(c), Level(tok.v, Top(c).val))
    <3>1. /\ IsSeq(ctx') /\ Len(ctx') = Len(c)
          /\ ctx'[Len(c)] = Level(tok.v, Top(c).val)
          /\ \A i \in 1..(Len(c) - 1) : ctx'[i] = c[i]
      BY <1>1, <2>6, Popped, Appended
    <3>2. ctx'[1].val = c[1].val
      <4>1. CASE Len(c) = 1
        <5>1. Top(c) = c[1] /\ ctx'[1] = Level(tok.v, Top(c).val)
          BY <3>1, <4>1 DEF Top
        <5>2. Level(tok.v, Top(c).val).val = Top(c).val
          BY DEF Level
        <5>. QED  BY <5>1, <5>2
      <4>2. CASE Len(c) > 1
        BY <1>1, <3>1, <4>2
      <4>. QED  BY <1>2, <4>1, <4>2
    <3>3. ctx' # <<>>
      BY <1>1, <3>1, Lengths
    <3>. QED  BY <3>2, <3>3, ExtendsItself
  <2>7. CASE ~key /\ ctx' = Build(c, Scalar(tok))
    <3>1. Fits("item", Top(c)) \/ Fits("value", Top(c))
      BY <2>4, <2>7 DEF Fits
    <3>2. /\ IsSeq(ctx') /\ Len(ctx') = Len(c)
          /\ Extends(c[1].val, ctx'[1].val)
      BY <1>1, <2>7, <3>1, BuildExtends
    <3>. QED  BY <1>1, <3>2, Lengths
  <2>8. CASE ctx' = Build(Pop(c), Top(c).val)
    <3>1. /\ IsSeq(Pop(c)) /\ Len(Pop(c)) = Len(c) - 1
          /\ \A i \in 1..(Len(c) - 1) : Pop(c)[i] = c[i]
      BY <1>1, Popped
    <3>2. CASE Len(c) = 1
      <4>1. ctx' = <<Level(Nil, Top(c).val)>>
        BY <2>8, <3>1, <3>2, Lengths DEF Build
      <4>2. ctx' # <<>> /\ ctx'[1].val = c[1].val
        BY <4>1, <3>2 DEF Level, Top
      <4>. QED  BY <4>2, ExtendsItself
    <3>3. CASE Len(c) > 1
      <4>. DEFINE i == Len(c) - 1
      <4>1. /\ i \in 1..Len(c) /\ i \in 1..(Len(c) - 1) /\ Len(Pop(c)) = i /\ i > 0
            /\ Pop(c)[1] = c[1]
        BY <1>1, <3>1, <3>3
      <4>2. Top(Pop(c)) = c[i] /\ Fits(g[i + 1], c[i]) /\ g[i + 1] # "key"
        BY <2>3, <3>1, <4>1 DEF Top
      <4>3. Fits("item", Top(Pop(c))) \/ Fits("value", Top(Pop(c)))
        BY <4>2 DEF Fits
      <4>4. /\ IsSeq(ctx') /\ Len(ctx') = i
            /\ Extends(Pop(c)[1].val, ctx'[1].val)
        BY <2>8, <3>1, <4>1, <4>3, BuildExtends
      <4>. QED  BY <4>1, <4>4, Lengths
    <3>. QED  BY <1>2, <3>2, <3>3
  <2>9. \/ ctx' = Append(c, Level(Nil, EmptyObject)) \/ ctx' = Append(c, Level(Nil, EmptyArray))
        \/ ctx' = Append(Pop(c), Level(tok.v, Top(c).val))
        \/ ~key /\ ctx' = Build(c, Scalar(tok))
        \/ ctx' = Build(Pop(c), Top(c).val)
        \/ ctx' = c
    BY <2>1 DEF Callback, End
  <2>10. (\E l : ctx' = Append(c, l)) \/ ctx' = Append(Pop(c), Level(tok.v, Top(c).val))
         \/ (~key /\ ctx' = Build(c, Scalar(tok))) \/ ctx' = Build(Pop(c), Top(c).val)
    BY <1>4, <2>9
  <2>. QED  BY <2>10, <2>5, <2>6, <2>7, <2>8
<1>. QED  BY <1>3, <1>4

-------------------------------------------------------------------------------
(* The theorems.                                                           *)

\* At the start the grammar waits for a value, and the builder has nothing.
LEMMA JsonStarts == JsonInit => JsonInv
<1>. SUFFICES ASSUME JsonInit PROVE JsonInv
    OBVIOUS
<1>1. grammar = <<"start">> /\ ctx = <<>> /\ step \in {"read", "write"}
    BY DEF JsonInit, JsonIdle
<1>2. IsSeq(ctx) /\ Len(ctx) = 0
    BY <1>1, EmptySeq DEF IsSeq
<1>3. grammar \in Seq(Expectation) /\ Len(grammar) = 1 /\ grammar[1] = "start"
    BY <1>1 DEF Expectation
<1>. QED  BY <1>1, <1>2, <1>3 DEF JsonInv, Agree, NoThrow

\* Every step keeps the grammar and the builder in agreement.
LEMMA JsonGoesOn == JsonInv /\ [JsonNext]_jvars => JsonInv'
<1>. SUFFICES ASSUME JsonInv, [JsonNext]_jvars PROVE JsonInv'
    OBVIOUS
<1>1. CASE Write
    BY <1>1 DEF Write, JsonInv, NoThrow
<1>2. CASE Reopen
    BY <1>2 DEF Reopen, JsonInv, NoThrow
<1>3. CASE Parse
    BY <1>3, Fed DEF Parse, JsonInv
<1>4. CASE Finish
  <2>1. grammar' = grammar /\ ctx' = ctx
    BY <1>4 DEF Finish, HasResult
  <2>2. Complete => Len(ctx) = 1
    <3>. SUFFICES ASSUME Complete PROVE Len(ctx) = 1
      OBVIOUS
    <3>1. Len(grammar) \in Nat /\ Len(grammar) > 0 /\ Len(ctx) \in Nat
      BY Lengths, LenProperties DEF JsonInv
    <3>2. CASE grammar = <<"done">> /\ Len(ctx) = 1
      BY <3>2
    <3>3. CASE /\ grammar[1] = "start" /\ Len(ctx) = Len(grammar) - 1
               /\ \A i \in 1..Len(ctx) : Fits(grammar[i + 1], ctx[i])
      <4>1. Len(grammar) # 1
        BY <3>3 DEF Complete
      <4>2. Len(ctx) \in 1..Len(ctx) /\ Len(ctx) + 1 = Len(grammar)
        BY <3>1, <3>3, <4>1
      <4>3. Fits(grammar[Len(grammar)], ctx[Len(ctx)])
        BY <3>3, <4>2
      <4>. QED  BY <4>3 DEF Complete, Fits
    <3>. QED  BY <3>2, <3>3 DEF JsonInv, Agree
  <2>3. NoThrow'
    BY <1>4, <2>2 DEF Finish, HasResult, NoThrow
  <2>. QED  BY <2>1, <2>3 DEF JsonInv
<1>5. ASSUME NEW tok \in Token, Receive(tok)
      PROVE  JsonInv'
    BY <1>5, Fed DEF Receive, JsonInv
<1>6. CASE UNCHANGED jvars
    BY <1>6 DEF jvars, JsonInv, NoThrow
<1>. QED  BY <1>1, <1>2, <1>3, <1>4, <1>5, <1>6 DEF JsonNext

\* No text, whoever wrote it and wherever it was cut, makes the builder throw in a
\* callback of yajl, touch an empty stack, or leave a half-built value as the result.
THEOREM BuilderNeverThrows == JsonSpec => []NoThrow
<1>1. JsonInv => NoThrow
    BY DEF JsonInv
<1>. QED  BY <1>1, JsonStarts, JsonGoesOn, PTL DEF JsonSpec

\* An answer that was cut off says nothing that the whole answer does not say, for every
\* answer and every place it is cut.
THEOREM AnswersOnlyGrow == JsonSpec => PartialAnswersAgree
<1>1. ASSUME JsonInv, [JsonNext]_jvars
      PROVE  [ctx # <<>> => ctx' # <<>> /\ Extends(ctx[1].val, ctx'[1].val)]_ctx
  <2>1. ctx' = ctx \/ (\E tok : Feed(tok))
    BY <1>1 DEF JsonNext, jvars, Write, Reopen, Parse, Finish, Receive
  <2>. QED  BY <1>1, <2>1, FedExtends
<1>. QED  BY <1>1, JsonStarts, JsonGoesOn, PTL DEF JsonSpec, PartialAnswersAgree

-------------------------------------------------------------------------------
(* JSON: what is written is read.                                          *)

\* What is written or read at a time: the document and the containers that are open in it, each
\* with the number of its calls that came to pass, not counting the one for the value that is
\* open, and with what comes after it.
Document(d)  == Val("document", d)
Todo(v)      == IF v.type = "document" THEN <<Visit(v.body)>> ELSE Calls(v)
Container(v) == v.type \in {"array", "object"}
TokenOf(v)   == Tok(v.type, v.body)

AnyCall  == {Put(tok) : tok \in Token} \cup {Visit(v) : v \in Documents}
Frame(d) == [of : {Document(d)} \cup Documents, at : Nat, below : Seq(AnyCall)]

Ended(f)    == f.at = Len(Todo(f.of))
Upcoming(f) == Todo(f.of)[f.at + 1]
Rest(f)     == SubSeq(Todo(f.of), f.at + 1, Len(Todo(f.of))) \o f.below
Beyond(f)   == SubSeq(Todo(f.of), f.at + 2, Len(Todo(f.of))) \o f.below

Frames(d, F) ==
    /\ F \in Seq(Frame(d)) /\ Len(F) > 0
    /\ F[1].of = Document(d) /\ F[1].at \in 0..1 /\ F[1].below = <<>>
    /\ \A i \in 2..Len(F) : /\ F[i].of \in Documents /\ Container(F[i].of)
                            /\ F[i].at \in 1..(Len(Todo(F[i].of)) - 1)
    /\ \A i \in 1..(Len(F) - 1) : /\ ~Ended(F[i]) /\ Upcoming(F[i]) = Visit(F[i + 1].of)
                                  /\ F[i + 1].below = Beyond(F[i])

Opening(f, v) == [of |-> v, at |-> 1, below |-> Beyond(f)]
Bump(F)       == [F EXCEPT ![Len(F)] = [Top(F) EXCEPT !.at = @ + 1]]

\* The next token, and what it leads to: a key, the end of a container, the beginning of one, a
\* scalar.
Says(F) ==
    LET next == Upcoming(Top(F))
    IN IF next.put THEN next.what ELSE Calls(next.what)[1].what
Onward(F) ==
    LET f    == Top(F)
        next == Upcoming(f)
    IN IF next.put THEN IF f.at + 1 < Len(Todo(f.of)) THEN Bump(F) ELSE Bump(Pop(F))
       ELSE IF Container(next.what) THEN Append(F, Opening(f, next.what)) ELSE Bump(F)

\* The frames that a text leads through, from the document on.
Start(d) == <<[of |-> Document(d), at |-> 0, below |-> <<>>]>>
Course(d, t, G) ==
    /\ G[0] = Start(d) /\ \A p \in 0..Len(t) : Frames(d, G[p])
    /\ \A p \in 1..Len(t) : ~Ended(Top(G[p - 1])) /\ t[p] = Says(G[p - 1]) /\ G[p] = Onward(G[p - 1])

\* What Val::Visit has still to do, before or after it looked at the next value.
Due(F, r) ==
    LET f == Top(F)
    IN \/ r = Rest(f)
       \/ ~Ended(f) /\ ~Upcoming(f).put /\ r = Calls(Upcoming(f).what) \o Beyond(f)

\* What the parser expects in a frame, and what the builder has of it: the values so far, and
\* the key of the next.
Expect(f) ==
    CASE f.of.type = "document" -> IF f.at = 0 THEN "start" ELSE "done"
      [] f.of.type = "array" -> "item"
      [] OTHER -> IF Upcoming(f).put THEN "key" ELSE "value"
KeysRead(f) == {Todo(f.of)[i].what.v : i \in {j \in 2..(f.at - 1) : Todo(f.of)[j].put}}
Built(f) ==
    IF f.of.type = "array"
    THEN Level(Nil, Val("array", [i \in 1..(f.at - 1) |-> f.of.body[i]]))
    ELSE Level(IF Upcoming(f).put THEN Nil ELSE Todo(f.of)[f.at].what.v,
               Val("object", [n \in KeysRead(f) |-> f.of.body[n]]))

Expected(F, g) == Len(g) = Len(F) /\ \A i \in 1..Len(F) : g[i] = Expect(F[i])
Collected(d, F, c) ==
    IF Ended(Top(F)) THEN c = <<Level(Nil, d)>>
    ELSE Len(c) = Len(F) - 1 /\ \A i \in 1..(Len(F) - 1) : c[i] = Built(F[i + 1])

NotUtf8(tok) == tok.is = "string" /\ tok.v \in BadName

-------------------------------------------------------------------------------

\* The keys of a map in their order are all its keys.
LEMMA KeysInOrder ==
    ASSUME NEW map, DOMAIN map \subseteq Nat, IsFiniteSet(DOMAIN map)
    PROVE  /\ Cardinality(DOMAIN map) \in Nat
           /\ \A k \in 1..Cardinality(DOMAIN map) : KeyAt(map, k) \in DOMAIN map
           /\ \A n \in DOMAIN map : \E k \in 1..Cardinality(DOMAIN map) : KeyAt(map, k) = n
<1>. DEFINE S == DOMAIN map
            Less(n) == {m \in S : m < n}
            size == Cardinality(S)
            rank == [n \in S |-> Cardinality(Less(n)) + 1]
<1>1. S \subseteq Nat /\ IsFiniteSet(S) /\ size \in Nat
    BY FS_CardinalityType
<1>2. ASSUME NEW n \in S
      PROVE  /\ IsFiniteSet(Less(n)) /\ Cardinality(Less(n)) \in Nat
             /\ Cardinality(Less(n)) < size
  <2>1. Less(n) \in SUBSET S /\ n \notin Less(n)
      BY <1>1
  <2>. HIDE DEF S, Less
  <2>2. /\ IsFiniteSet(Less(n)) /\ Cardinality(Less(n)) <= size
        /\ size = Cardinality(Less(n)) => S = Less(n)
      BY <1>1, <2>1, FS_Subset
  <2>3. Cardinality(Less(n)) \in Nat
      BY <2>2, FS_CardinalityType
  <2>. HIDE DEF size
  <2>. QED  BY <1>1, <2>1, <2>2, <2>3
<1>3. ASSUME NEW n \in S, NEW m \in S, n < m
      PROVE  Cardinality(Less(n)) < Cardinality(Less(m))
  <2>1. Less(n) \in SUBSET Less(m) /\ n \notin Less(n) /\ n \in Less(m)
      BY <1>1, <1>3
  <2>. HIDE DEF S, Less
  <2>2. /\ Cardinality(Less(n)) <= Cardinality(Less(m))
        /\ Cardinality(Less(m)) = Cardinality(Less(n)) => Less(m) = Less(n)
      BY <1>2, <2>1, FS_Subset
  <2>. QED  BY <1>2, <2>1, <2>2
<1>4. rank \in [S -> 1..size] /\ \A n \in S : rank[n] = Cardinality(Less(n)) + 1
  <2>. HIDE DEF S, Less, size
  <2>. QED  BY <1>1, <1>2
<1>5. \A n, m \in S : rank[n] = rank[m] => n = m
  <2>. SUFFICES ASSUME NEW n \in S, NEW m \in S, rank[n] = rank[m] PROVE n = m
      OBVIOUS
  <2>. HIDE DEF S, Less, rank
  <2>1. Cardinality(Less(n)) = Cardinality(Less(m))
      BY <1>2, <1>4
  <2>2. n \in Nat /\ m \in Nat
      BY <1>1
  <2>. QED  BY <1>2, <1>3, <2>1, <2>2
<1>6. \A k \in 1..size : \E n \in S : rank[n] = k
  <2>. HIDE DEF S, rank, size
  <2>1. rank \in Injection(S, 1..size)
      BY <1>4, <1>5 DEF Injection, IsInjective
  <2>2. IsFiniteSet(1..size) /\ Cardinality(1..size) = size
      BY <1>1, FS_Interval
  <2>3. Cardinality(S) = Cardinality(1..size)
      BY <2>2 DEF size
  <2>4. rank \in Surjection(S, 1..size)
      BY <2>1, <2>2, <2>3, FS_Injection
  <2>. QED  BY <2>4 DEF Surjection
<1>7. ASSUME NEW k \in 1..size
      PROVE  KeyAt(map, k) \in S /\ rank[KeyAt(map, k)] = k
  <2>1. PICK n \in S : rank[n] = k
      BY <1>6
  <2>2. Cardinality(Less(n)) = k - 1
    <3>. HIDE DEF S, Less, rank, size
    <3>. QED  BY <1>2, <1>4, <2>1
  <2>3. KeyAt(map, k) \in S /\ Cardinality(Less(KeyAt(map, k))) = k - 1
      BY <2>2 DEF KeyAt
  <2>. DEFINE n0 == KeyAt(map, k)
  <2>4. n0 \in S /\ Cardinality(Less(n0)) = k - 1
      BY <2>3
  <2>. HIDE DEF S, Less, rank, n0, size
  <2>5. k \in Int /\ rank[n0] = Cardinality(Less(n0)) + 1
      BY <1>4, <2>4
  <2>6. rank[n0] = k
      BY <2>4, <2>5
  <2>. QED  BY <2>4, <2>6 DEF n0
<1>8. ASSUME NEW n \in S
      PROVE  \E k \in 1..size : KeyAt(map, k) = n
  <2>. HIDE DEF S, Less, rank, size
  <2>1. rank[n] \in 1..size
      BY <1>4
  <2>2. KeyAt(map, rank[n]) \in S /\ rank[KeyAt(map, rank[n])] = rank[n]
      BY <1>7, <2>1
  <2>. QED  BY <1>5, <2>1, <2>2
<1>. QED  BY <1>1, <1>7, <1>8

\* What is left of a sequence after some of it, before another.
LEMMA Leftover ==
    ASSUME NEW S, NEW s \in Seq(S), NEW b \in Seq(S), NEW a \in 0..Len(s)
    PROVE  LET left == SubSeq(s, a + 1, Len(s)) \o b
           IN /\ left \in Seq(S)
              /\ a = Len(s) => left = b
              /\ a < Len(s) => /\ left # <<>> /\ Head(left) = s[a + 1] /\ s[a + 1] \in S
                               /\ Tail(left) = SubSeq(s, a + 2, Len(s)) \o b
<1>. DEFINE n == Len(s)
            r(m) == SubSeq(s, m, n)
            left == r(a + 1) \o b
<1>1. n \in Nat /\ \A i \in 1..n : s[i] \in S
    BY LenProperties, ElementOfSeq
<1>2. a + 1 \in Int /\ a + 2 \in Int /\ n \in Int
    BY <1>1
<1>3. r(a + 1) \in Seq(S) /\ r(a + 2) \in Seq(S)
  <2>1. \A i \in (a + 1)..n : s[i] \in S
      BY <1>1
  <2>2. \A i \in (a + 2)..n : s[i] \in S
      BY <1>1
  <2>. QED  BY <1>2, <2>1, <2>2, SubSeqProperties
<1>4. r(a + 1) \o b \in Seq(S)
    BY <1>3, ConcatProperties
<1>5. ASSUME a = n
      PROVE  left \in Seq(S) /\ left = b
  <2>1. r(a + 1) = <<>>
      BY <1>1, <1>2, <1>5, SubSeqEmpty
  <2>2. r(a + 1) \o b = b
      BY <2>1, ConcatEmptySeq
  <2>3. left \in Seq(S) /\ left = b
      BY <1>4, <2>2
  <2>. QED  BY <2>3
<1>6. ASSUME a < n
      PROVE  /\ left \in Seq(S) /\ left # <<>> /\ Head(left) = s[a + 1] /\ s[a + 1] \in S
             /\ Tail(left) = r(a + 2) \o b
  <2>1. a + 1 \in 1..n /\ n \in (a + 1)..n
      BY <1>1, <1>6
  <2>2. r(a + 1) = <<s[a + 1]>> \o r(a + 2)
    <3>1. SubSeq(s, a + 1, n) = <<s[a + 1]>> \o SubSeq(s, (a + 1) + 1, n)
        BY <2>1, SubSeqRecursiveFirst
    <3>2. (a + 1) + 1 = a + 2
        BY <1>1
    <3>. QED  BY <3>1, <3>2
  <2>3. s[a + 1] \in S
      BY <1>1, <2>1
  <2>. DEFINE x == s[a + 1]
              t == r(a + 2) \o b
  <2>4. r(a + 1) \o b = <<x>> \o t
    <3>. DEFINE one == <<x>>
                rest == r(a + 2)
    <3>1. one \in Seq(S) /\ rest \in Seq(S)
        BY <1>3, <2>3
    <3>. HIDE DEF one, rest
    <3>2. (one \o rest) \o b = one \o (rest \o b)
        BY <3>1, ConcatAssociative
    <3>. QED  BY <2>2, <3>2 DEF one, rest
  <2>5. t \in Seq(S)
      BY <1>3, ConcatProperties
  <2>. HIDE DEF x, t
  <2>6. <<x>> \o t # <<>> /\ Head(<<x>> \o t) = x /\ Tail(<<x>> \o t) = t
    <3>1. x \in S
        BY <2>3 DEF x
    <3>. QED  BY <2>5, <3>1
  <2>7. left \in Seq(S) /\ left # <<>> /\ Head(left) = x /\ Tail(left) = t
      BY <1>4, <2>4, <2>6
  <2>8. left \in Seq(S) /\ left # <<>> /\ Head(left) = s[a + 1] /\ s[a + 1] \in S /\ Tail(left) = r(a + 2) \o b
      BY <2>3, <2>7 DEF x, t
  <2>. QED  BY <2>8
<1>7. /\ left \in Seq(S)
      /\ a = n => left = b
      /\ a < n => /\ left # <<>> /\ Head(left) = s[a + 1] /\ s[a + 1] \in S
                   /\ Tail(left) = r(a + 2) \o b
  <2>. HIDE DEF left, r
  <2>1. a = n \/ a < n
      BY <1>1
  <2>. QED  BY <1>5, <1>6, <2>1
<1>. QED  BY <1>7

\* A sequence between two brackets.
LEMMA Bracketed ==
    ASSUME NEW S, NEW m \in Seq(S), NEW x \in S, NEW y \in S
    PROVE  LET s == <<x>> \o m \o <<y>>
           IN /\ s \in Seq(S) /\ Len(m) \in Nat /\ Len(s) = Len(m) + 2
              /\ s[1] = x /\ s[Len(m) + 2] = y
              /\ \A i \in 1..Len(m) : s[i + 1] = m[i]
<1>. DEFINE first == <<x>>
            last == <<y>>
            t == first \o m
            n == Len(m)
<1>1. /\ first \in Seq(S) /\ Len(first) = 1 /\ first[1] = x
      /\ last \in Seq(S) /\ Len(last) = 1 /\ last[1] = y /\ n \in Nat
    BY LenProperties
<1>. HIDE DEF first, last, n
<1>2. /\ t \in Seq(S) /\ Len(t) = 1 + n
      /\ \A i \in 1..(1 + n) : t[i] = IF i <= 1 THEN first[i] ELSE m[i - 1]
  <2>1. /\ t \in Seq(S) /\ Len(t) = Len(first) + Len(m)
        /\ \A i \in 1..(Len(first) + Len(m)) : t[i] = IF i <= Len(first) THEN first[i] ELSE m[i - Len(first)]
      BY <1>1, ConcatProperties
  <2>. HIDE DEF t
  <2>. QED  BY <1>1, <2>1 DEF n
<1>. HIDE DEF t
<1>3. /\ t \o last \in Seq(S) /\ Len(t \o last) = (1 + n) + 1
      /\ \A i \in 1..((1 + n) + 1) : (t \o last)[i] = IF i <= 1 + n THEN t[i] ELSE last[i - (1 + n)]
  <2>1. /\ t \o last \in Seq(S) /\ Len(t \o last) = Len(t) + Len(last)
        /\ \A i \in 1..(Len(t) + Len(last)) : (t \o last)[i] = IF i <= Len(t) THEN t[i] ELSE last[i - Len(t)]
      BY <1>1, <1>2, ConcatProperties
  <2>. DEFINE u == t \o last
  <2>. HIDE DEF u
  <2>. QED  BY <1>1, <1>2, <2>1 DEF u
<1>4. (t \o last)[1] = x
  <2>1. (t \o last)[1] = t[1] /\ t[1] = first[1]
      BY <1>1, <1>2, <1>3
  <2>. QED  BY <1>1, <2>1
<1>5. (t \o last)[n + 2] = y
  <2>1. (t \o last)[n + 2] = last[(n + 2) - (1 + n)] /\ (n + 2) - (1 + n) = 1
      BY <1>1, <1>3
  <2>. QED  BY <1>1, <2>1
<1>6. ASSUME NEW i \in 1..n
      PROVE  (t \o last)[i + 1] = m[i]
  <2>1. (t \o last)[i + 1] = t[i + 1]
      BY <1>1, <1>3
  <2>2. t[i + 1] = m[(i + 1) - 1] /\ (i + 1) - 1 = i
      BY <1>1, <1>2
  <2>. QED  BY <2>1, <2>2
<1>. QED  BY <1>1, <1>3, <1>4, <1>5, <1>6 DEF t, first, last, n

-------------------------------------------------------------------------------

\* What is written is a value, a container or one token.
LEMMA Kinds ==
    ASSUME NEW v \in Documents
    PROVE  /\ IsVal(v, Documents) /\ v = Val(v.type, v.body)
           /\ v.type \in {"string", "atom", "null", "array", "object"}
           /\ ~Container(v) => TokenOf(v) \in Token
           /\ v.type = "string" => v.body \in Name
           /\ v.type = "null" => v = Null
           /\ v.type = "array" => v.body \in Seq(Documents)
           /\ v.type = "object" => /\ v.body \in [DOMAIN v.body -> Documents]
                                   /\ DOMAIN v.body \subseteq Name /\ IsFiniteSet(DOMAIN v.body)
<1>1. IsVal(v, Documents)
    BY DocumentsAssumption
<1>2. ASSUME NEW n \in Name, v = Val("string", n)
      PROVE  v = Val("string", v.body) /\ v.type = "string" /\ v.body \in Name /\ TokenOf(v) \in Token
  <2>1. v.type = "string" /\ v.body = n
      BY <1>2 DEF Val
  <2>2. TokenOf(v) = Tok("string", n)
      BY <2>1 DEF TokenOf
  <2>. QED  BY <1>2, <2>1, <2>2 DEF Token
<1>3. ASSUME NEW a \in Atom, v = Val("atom", a)
      PROVE  v = Val("atom", v.body) /\ v.type = "atom" /\ TokenOf(v) \in Token
  <2>1. v.type = "atom" /\ v.body = a
      BY <1>3 DEF Val
  <2>2. TokenOf(v) = Tok("atom", a)
      BY <2>1 DEF TokenOf
  <2>. QED  BY <1>3, <2>1, <2>2 DEF Token
<1>4. CASE v = Null
    BY <1>1, <1>4 DEF Val, Container, TokenOf, Tok, Token, Null
<1>5. CASE v = Val("array", v.body) /\ v.body \in Seq(Documents)
    BY <1>1, <1>5 DEF Val, Container
<1>6. CASE /\ v = Val("object", v.body) /\ v.body \in [DOMAIN v.body -> Documents]
           /\ DOMAIN v.body \subseteq Name /\ IsFiniteSet(DOMAIN v.body)
    BY <1>1, <1>6 DEF Val, Container
<1>7. CASE v \in {Val("string", n) : n \in Name} \cup {Val("atom", a) : a \in Atom}
    BY <1>1, <1>2, <1>3, <1>7
<1>. QED  BY <1>1, <1>4, <1>5, <1>6, <1>7 DEF IsVal

\* Calls are of two kinds.
LEMMA TwoCalls ==
    /\ \A tok : Put(tok).put = TRUE /\ Put(tok).what = tok
    /\ \A v : Visit(v).put = FALSE /\ Visit(v).what = v
    /\ \A c \in AnyCall : (c.put => c = Put(c.what) /\ c.what \in Token)
                          /\ (~c.put => c = Visit(c.what) /\ c.what \in Documents)
    BY DEF Put, Visit, AnyCall

\* The calls of a scalar.
LEMMA CallsOfScalar ==
    ASSUME NEW v \in Documents, ~Container(v)
    PROVE  Calls(v) = <<Put(TokenOf(v))>> /\ Put(TokenOf(v)) \in AnyCall
<1>1. v.type # "object" /\ v.type # "array" /\ TokenOf(v) \in Token
    BY Kinds DEF Container
<1>. QED  BY <1>1 DEF Calls, TokenOf, AnyCall

\* The calls of an array: its elements between brackets.
LEMMA CallsOfArray ==
    ASSUME NEW v \in Documents, v.type = "array"
    PROVE  /\ Calls(v) \in Seq(AnyCall) /\ Len(v.body) \in Nat /\ Len(Calls(v)) = Len(v.body) + 2
           /\ Calls(v)[1] = Put(Tok("[", Nil)) /\ Calls(v)[Len(v.body) + 2] = Put(Tok("]", Nil))
           /\ \A i \in 1..Len(v.body) : Calls(v)[i + 1] = Visit(v.body[i]) /\ v.body[i] \in Documents
<1>. DEFINE n == Len(v.body)
            m == [i \in 1..n |-> Visit(v.body[i])]
            x == Put(Tok("[", Nil))
            y == Put(Tok("]", Nil))
<1>1. n \in Nat /\ \A i \in 1..n : v.body[i] \in Documents
    BY Kinds, LenProperties, ElementOfSeq
<1>2. Calls(v) = <<x>> \o m \o <<y>>
    BY DEF Calls
<1>3. x \in AnyCall /\ y \in AnyCall
    BY DEF AnyCall, Token, Tok
<1>4. m \in Seq(AnyCall) /\ Len(m) = n /\ \A i \in 1..n : m[i] = Visit(v.body[i])
  <2>1. \A i \in 1..n : Visit(v.body[i]) \in AnyCall
      BY <1>1 DEF AnyCall
  <2>. HIDE DEF n
  <2>. QED  BY <1>1, <2>1, IsASeq
<1>. HIDE DEF m, x, y, n
<1>5. LET s == <<x>> \o m \o <<y>>
      IN /\ s \in Seq(AnyCall) /\ Len(m) \in Nat /\ Len(s) = Len(m) + 2
         /\ s[1] = x /\ s[Len(m) + 2] = y
         /\ \A i \in 1..Len(m) : s[i + 1] = m[i]
    BY <1>3, <1>4, Bracketed
<1>6. /\ Calls(v) \in Seq(AnyCall) /\ Len(Calls(v)) = n + 2
      /\ Calls(v)[1] = x /\ Calls(v)[n + 2] = y
      /\ \A i \in 1..n : Calls(v)[i + 1] = Visit(v.body[i])
    BY <1>2, <1>4, <1>5
<1>. QED  BY <1>1, <1>6 DEF n, x, y

\* The calls of an object: keys and their values by turns, between brackets, and all of them.
LEMMA CallsOfObject ==
    ASSUME NEW v \in Documents, v.type = "object"
    PROVE  LET s == Calls(v)
               n == Len(s)
           IN /\ s \in Seq(AnyCall) /\ n \in Nat /\ n >= 2
              /\ s[1] = Put(Tok("{", Nil)) /\ s[n] = Put(Tok("}", Nil)) /\ s[2].put
              /\ \A i \in 2..(n - 1) : s[i].put =>
                    \E k \in DOMAIN v.body : /\ s[i] = Put(Tok("string", k)) /\ i + 1 < n
                                             /\ s[i + 1] = Visit(v.body[k])
              /\ \A i \in 2..(n - 1) : ~s[i].put => i > 2 /\ s[i - 1].put /\ s[i + 1].put
              /\ \A k \in DOMAIN v.body : \E i \in 2..(n - 1) : s[i] = Put(Tok("string", k))
<1>. DEFINE map == v.body
            size == Cardinality(DOMAIN map)
            key(k) == KeyAt(map, k)
            m == [i \in 1..(2 * size) |-> IF i % 2 = 1 THEN Put(Tok("string", key((i + 1) \div 2)))
                                                       ELSE Visit(map[key(i \div 2)])]
            x == Put(Tok("{", Nil))
            y == Put(Tok("}", Nil))
            s == Calls(v)
<1>1. map \in [DOMAIN map -> Documents] /\ DOMAIN map \subseteq Name /\ IsFiniteSet(DOMAIN map)
    BY Kinds
<1>2. /\ size \in Nat
      /\ \A k \in 1..size : key(k) \in DOMAIN map
      /\ \A k \in DOMAIN map : \E j \in 1..size : key(j) = k
  <2>1. DOMAIN map \subseteq Nat
      BY <1>1, JsonAssumption
  <2>. HIDE DEF map
  <2>. QED  BY <1>1, <2>1, KeysInOrder
<1>3. s = <<x>> \o m \o <<y>>
    BY DEF Calls
<1>4. x \in AnyCall /\ y \in AnyCall
    BY DEF AnyCall, Token, Tok
<1>5. ASSUME NEW k \in DOMAIN map
      PROVE  Put(Tok("string", k)) \in AnyCall /\ Visit(map[k]) \in AnyCall
    BY <1>1 DEF AnyCall, Token
<1>6. ASSUME NEW j \in 1..size
      PROVE  /\ 2 * j - 1 \in 1..(2 * size) /\ 2 * j \in 1..(2 * size)
             /\ m[2 * j - 1] = Put(Tok("string", key(j))) /\ m[2 * j] = Visit(map[key(j)])
  <2>1. j \in Nat /\ j >= 1 /\ j <= size
      BY <1>2
  <2>. HIDE DEF size
  <2>2. /\ 2 * j - 1 \in 1..(2 * size) /\ 2 * j \in 1..(2 * size)
      BY <1>2, <2>1
  <2>3. (2 * j - 1) % 2 = 1 /\ ((2 * j - 1) + 1) \div 2 = j /\ (2 * j) % 2 = 0 /\ (2 * j) \div 2 = j
      BY <2>1
  <2>. HIDE DEF map, key
  <2>. QED  BY <2>2, <2>3
<1>7. ASSUME NEW i \in 1..(2 * size)
      PROVE  \E j \in 1..size : i = 2 * j - 1 \/ i = 2 * j
  <2>. HIDE DEF size
  <2>1. i \in Nat /\ i >= 1 /\ i <= 2 * size
      BY <1>2
  <2>2. PICK j \in Nat : i = 2 * j - 1 \/ i = 2 * j
    <3>1. i % 2 = 0 \/ i % 2 = 1
        BY <2>1
    <3>2. i = 2 * ((i + 1) \div 2) - 1 \/ i = 2 * ((i + 1) \div 2)
        BY <2>1, <3>1
    <3>3. (i + 1) \div 2 \in Nat
        BY <2>1
    <3>. QED  BY <3>2, <3>3
  <2>3. j \in 1..size
      BY <1>2, <2>1, <2>2
  <2>. QED  BY <2>2, <2>3
<1>. HIDE DEF map, size, key, m, x, y, s
<1>8. \A i \in 1..(2 * size) : m[i] \in AnyCall
  <2>. SUFFICES ASSUME NEW i \in 1..(2 * size) PROVE m[i] \in AnyCall
      OBVIOUS
  <2>1. PICK j \in 1..size : i = 2 * j - 1 \/ i = 2 * j
      BY <1>7
  <2>. QED  BY <1>2, <1>5, <1>6, <2>1
<1>9. m \in Seq(AnyCall) /\ Len(m) = 2 * size
  <2>1. m = [i \in 1..(2 * size) |-> m[i]] /\ 2 * size \in Nat
      BY <1>2 DEF m
  <2>. QED  BY <1>8, <2>1, IsASeq
<1>10. /\ s \in Seq(AnyCall) /\ Len(s) = 2 * size + 2
       /\ s[1] = x /\ s[2 * size + 2] = y
       /\ \A i \in 1..(2 * size) : s[i + 1] = m[i]
  <2>1. LET t == <<x>> \o m \o <<y>>
        IN /\ t \in Seq(AnyCall) /\ Len(m) \in Nat /\ Len(t) = Len(m) + 2
           /\ t[1] = x /\ t[Len(m) + 2] = y
           /\ \A i \in 1..Len(m) : t[i + 1] = m[i]
      BY <1>4, <1>9, Bracketed
  <2>. QED  BY <1>3, <1>9, <2>1
<1>11. ASSUME NEW j \in 1..size
       PROVE  s[2 * j] = Put(Tok("string", key(j))) /\ s[2 * j + 1] = Visit(map[key(j)])
  <2>1. 2 * j = (2 * j - 1) + 1
      BY <1>2
  <2>2. s[(2 * j - 1) + 1] = m[2 * j - 1] /\ s[2 * j + 1] = m[2 * j]
      BY <1>6, <1>10
  <2>. QED  BY <1>6, <2>1, <2>2
<1>12. ASSUME NEW i \in 2..(2 * size + 1)
       PROVE  \E j \in 1..size : i = 2 * j \/ i = 2 * j + 1
  <2>1. i - 1 \in 1..(2 * size)
      BY <1>2
  <2>2. PICK j \in 1..size : i - 1 = 2 * j - 1 \/ i - 1 = 2 * j
      BY <1>7, <2>1
  <2>. QED  BY <1>2, <2>2
<1>13. s[2].put
  <2>1. CASE size = 0
    <3>1. 2 * size + 2 = 2
        BY <2>1
    <3>2. s[2] = y
        BY <1>10, <3>1
    <3>. QED  BY <3>2, TwoCalls DEF y
  <2>2. CASE size # 0
    <3>1. 1 \in 1..size /\ 2 * 1 = 2
        BY <1>2, <2>2
    <3>. QED  BY <1>11, <3>1, TwoCalls
  <2>. QED  BY <2>1, <2>2
<1>14. ASSUME NEW i \in 2..(2 * size + 1), s[i].put
       PROVE  \E k \in DOMAIN map : /\ s[i] = Put(Tok("string", k)) /\ i + 1 < 2 * size + 2
                                    /\ s[i + 1] = Visit(map[k])
  <2>1. PICK j \in 1..size : i = 2 * j \/ i = 2 * j + 1
      BY <1>12
  <2>2. i = 2 * j
      BY <1>11, <1>14, <2>1, TwoCalls
  <2>3. i + 1 < 2 * size + 2
      BY <1>2, <2>2
  <2>. QED  BY <1>2, <1>11, <2>2, <2>3
<1>15. ASSUME NEW i \in 2..(2 * size + 1), ~s[i].put
       PROVE  i > 2 /\ s[i - 1].put /\ s[i + 1].put
  <2>1. PICK j \in 1..size : i = 2 * j \/ i = 2 * j + 1
      BY <1>12
  <2>2. i = 2 * j + 1
      BY <1>11, <1>15, <2>1, TwoCalls
  <2>3. i > 2 /\ i - 1 = 2 * j
      BY <1>2, <2>2
  <2>4. s[2 * j].put
      BY <1>11, TwoCalls
  <2>5. s[i + 1].put
    <3>1. CASE j = size
      <4>1. i + 1 = 2 * size + 2
          BY <1>2, <2>2, <3>1
      <4>. QED  BY ZenonT(30), <1>10, <4>1, TwoCalls DEF y
    <3>2. CASE j # size
      <4>1. j + 1 \in 1..size /\ i + 1 = 2 * (j + 1)
          BY <1>2, <2>2, <3>2
      <4>. QED  BY <1>11, <4>1, TwoCalls
    <3>. QED  BY <3>1, <3>2
  <2>. QED  BY <2>3, <2>4, <2>5
<1>16. ASSUME NEW k \in DOMAIN map
       PROVE  \E i \in 2..(2 * size + 1) : s[i] = Put(Tok("string", k))
  <2>1. PICK j \in 1..size : key(j) = k
      BY <1>2
  <2>2. 2 * j \in 2..(2 * size + 1)
      BY <1>2
  <2>. QED  BY <1>11, <2>1, <2>2
<1>17. (2 * size + 2) - 1 = 2 * size + 1 /\ 2 * size + 2 \in Nat /\ 2 * size + 2 >= 2
    BY <1>2
<1>. QED  BY <1>10, <1>13, <1>14, <1>15, <1>16, <1>17 DEF map, x, y, s

-------------------------------------------------------------------------------

\* The calls of a value, and of the document.
LEMMA TodoIsSeq ==
    ASSUME NEW d \in Documents, NEW v \in {Document(d)} \cup Documents
    PROVE  /\ Todo(v) \in Seq(AnyCall) /\ Len(Todo(v)) \in Nat /\ Len(Todo(v)) > 0
           /\ v = Document(d) => Todo(v) = <<Visit(d)>> /\ Len(Todo(v)) = 1 /\ Todo(v)[1] = Visit(d)
           /\ v \in Documents => Todo(v) = Calls(v)
           /\ v \in Documents /\ Container(v) => /\ Len(Todo(v)) >= 2
                                                 /\ Todo(v)[1].put /\ Todo(v)[Len(Todo(v))].put
<1>1. CASE v = Document(d)
  <2>1. Todo(v) = <<Visit(d)>> /\ Visit(d) \in AnyCall
      BY <1>1 DEF Todo, Document, Val, AnyCall
  <2>2. v \notin Documents
      BY <1>1, Kinds DEF Document, Val
  <2>. QED  BY <1>1, <2>1, <2>2, LenProperties
<1>2. CASE v \in Documents
  <2>1. v # Document(d) /\ Todo(v) = Calls(v)
      BY <1>2, Kinds DEF Todo, Document, Val
  <2>2. CASE ~Container(v)
    <3>1. Calls(v) = <<Put(TokenOf(v))>> /\ Put(TokenOf(v)) \in AnyCall
        BY <1>2, <2>2, CallsOfScalar
    <3>. DEFINE c == Put(TokenOf(v))
    <3>2. c \in AnyCall /\ Todo(v) = <<c>>
        BY <2>1, <3>1
    <3>. HIDE DEF c
    <3>3. Todo(v) \in Seq(AnyCall) /\ Len(Todo(v)) = 1
        BY <3>2
    <3>. QED  BY <2>1, <2>2, <3>3
  <2>3. CASE v.type = "array"
    <3>1. /\ Calls(v) \in Seq(AnyCall) /\ Len(v.body) \in Nat /\ Len(Calls(v)) = Len(v.body) + 2
          /\ Calls(v)[1] = Put(Tok("[", Nil)) /\ Calls(v)[Len(v.body) + 2] = Put(Tok("]", Nil))
        BY <1>2, <2>3, CallsOfArray
    <3>2. Calls(v)[1].put /\ Calls(v)[Len(v.body) + 2].put
        BY <3>1, TwoCalls
    <3>3. Len(Calls(v)) \in Nat /\ Len(Calls(v)) >= 2 /\ Calls(v)[Len(Calls(v))].put
        BY <3>1, <3>2
    <3>. QED  BY <2>1, <3>1, <3>2, <3>3
  <2>4. CASE v.type = "object"
    <3>1. /\ Calls(v) \in Seq(AnyCall) /\ Len(Calls(v)) \in Nat /\ Len(Calls(v)) >= 2
          /\ Calls(v)[1] = Put(Tok("{", Nil)) /\ Calls(v)[Len(Calls(v))] = Put(Tok("}", Nil))
        BY <1>2, <2>4, CallsOfObject
    <3>2. Calls(v)[1].put /\ Calls(v)[Len(Calls(v))].put
        BY <3>1, TwoCalls
    <3>3. Len(Calls(v)) > 0
      <4>. DEFINE n == Len(Calls(v))
      <4>1. n \in Nat /\ n >= 2
          BY <3>1
      <4>. HIDE DEF n
      <4>2. n > 0
          BY <4>1
      <4>. QED  BY <4>2 DEF n
    <3>. QED  BY <2>1, <3>1, <3>2, <3>3
  <2>. QED  BY <2>2, <2>3, <2>4 DEF Container
<1>. QED  BY <1>1, <1>2

\* A frame, and what it has still to do.
LEMMA FrameParts ==
    ASSUME NEW d \in Documents, NEW F, Frames(d, F), NEW i \in 1..Len(F)
    PROVE  /\ Len(F) \in Nat /\ F[i] \in Frame(d)
           /\ F[i].of \in {Document(d)} \cup Documents /\ F[i].at \in Nat /\ F[i].below \in Seq(AnyCall)
           /\ F[i].at \in 0..Len(Todo(F[i].of))
           /\ Ended(F[i]) => i = 1 /\ Len(F) = 1 /\ F[i].at = 1 /\ F[i].of = Document(d)
           /\ i = 1 => F[i].of = Document(d)
           /\ i > 1 => F[i].of \in Documents /\ Container(F[i].of)
                       /\ F[i].at >= 1 /\ F[i].at < Len(Todo(F[i].of))
           /\ ~Ended(F[i]) /\ Upcoming(F[i]).put => i > 1
<1>1. Len(F) \in Nat /\ F[i] \in Frame(d)
    BY LenProperties, ElementOfSeq DEF Frames
<1>2. F[i].of \in {Document(d)} \cup Documents /\ F[i].at \in Nat /\ F[i].below \in Seq(AnyCall)
    BY <1>1 DEF Frame
<1>3. Len(Todo(F[i].of)) \in Nat
    BY <1>2, TodoIsSeq
<1>4. CASE i = 1
  <2>1. F[1].of = Document(d) /\ F[1].at \in 0..1 /\ Len(Todo(F[1].of)) = 1 /\ Todo(F[1].of)[1] = Visit(d)
      BY <1>2, <1>4, TodoIsSeq DEF Frames
  <2>2. Ended(F[1]) => F[1].at = 1 /\ Len(F) = 1
    <3>1. Len(F) > 1 => 1 \in 1..(Len(F) - 1)
        BY <1>1
    <3>2. Len(F) > 1 => ~Ended(F[1])
        BY <3>1 DEF Frames
    <3>3. Len(F) > 0
        BY DEF Frames
    <3>4. Len(F) = 1 \/ Len(F) > 1
      <4>. DEFINE n == Len(F)
      <4>1. n \in Nat /\ n > 0
          BY <1>1, <3>3
      <4>. HIDE DEF n
      <4>2. n = 1 \/ n > 1
          BY <4>1
      <4>. QED  BY <4>2 DEF n
    <3>5. Ended(F[1]) => F[1].at = 1
        BY <2>1 DEF Ended
    <3>. QED  BY <3>2, <3>4, <3>5
  <2>3. ~Ended(F[1]) => ~Upcoming(F[1]).put
      BY <2>1, TwoCalls DEF Ended, Upcoming
  <2>. QED  BY <1>1, <1>2, <1>4, <2>1, <2>2, <2>3
<1>5. CASE i > 1
  <2>1. F[i].of \in Documents /\ Container(F[i].of) /\ F[i].at \in 1..(Len(Todo(F[i].of)) - 1)
      BY <1>1, <1>5 DEF Frames
  <2>. QED  BY <1>1, <1>2, <1>3, <1>5, <2>1 DEF Ended
<1>. QED  BY <1>1, <1>4, <1>5

\* What a frame has still to do.
LEMMA Rests ==
    ASSUME NEW d \in Documents, NEW F, Frames(d, F), NEW i \in 1..Len(F)
    PROVE  LET f == F[i]
           IN /\ Rest(f) \in Seq(AnyCall)
              /\ Ended(f) => Rest(f) = <<>>
              /\ ~Ended(f) => /\ Rest(f) # <<>> /\ Head(Rest(f)) = Upcoming(f) /\ Upcoming(f) \in AnyCall
                              /\ Tail(Rest(f)) = Beyond(f) /\ Beyond(f) \in Seq(AnyCall)
<1>. DEFINE f == F[i]
            s == Todo(f.of)
            b == f.below
            a == f.at
<1>1. s \in Seq(AnyCall) /\ Len(s) \in Nat /\ b \in Seq(AnyCall) /\ a \in 0..Len(s)
    BY FrameParts, TodoIsSeq
<1>2. Ended(f) <=> a = Len(s)
    BY DEF Ended
<1>3. Ended(f) => b = <<>>
    BY FrameParts DEF Frames
<1>4. Rest(f) = SubSeq(s, a + 1, Len(s)) \o b /\ Beyond(f) = SubSeq(s, a + 2, Len(s)) \o b /\ Upcoming(f) = s[a + 1]
    BY DEF Rest, Beyond, Upcoming
<1>. HIDE DEF s, b, a, f
<1>5. LET left == SubSeq(s, a + 1, Len(s)) \o b
      IN /\ left \in Seq(AnyCall)
         /\ a = Len(s) => left = b
         /\ a < Len(s) => /\ left # <<>> /\ Head(left) = s[a + 1] /\ s[a + 1] \in AnyCall
                          /\ Tail(left) = SubSeq(s, a + 2, Len(s)) \o b
    BY ZenonT(30), <1>1, Leftover
<1>6. /\ Rest(f) \in Seq(AnyCall)
      /\ a = Len(s) => Rest(f) = b
      /\ a < Len(s) => /\ Rest(f) # <<>> /\ Head(Rest(f)) = Upcoming(f) /\ Upcoming(f) \in AnyCall
                       /\ Tail(Rest(f)) = Beyond(f)
    BY <1>4, <1>5
<1>7. a = Len(s) \/ a < Len(s)
  <2>. DEFINE n == Len(s)
  <2>1. n \in Nat /\ a \in 0..n
      BY <1>1
  <2>. HIDE DEF n
  <2>2. a = n \/ a < n
      BY <2>1
  <2>. QED  BY <2>2 DEF n
<1>8. a < Len(s) => Tail(Rest(f)) \in Seq(AnyCall)
    BY <1>6, HeadTailProperties
<1>9. /\ Rest(f) \in Seq(AnyCall)
      /\ Ended(f) => Rest(f) = <<>>
      /\ ~Ended(f) => /\ Rest(f) # <<>> /\ Head(Rest(f)) = Upcoming(f) /\ Upcoming(f) \in AnyCall
                      /\ Tail(Rest(f)) = Beyond(f) /\ Beyond(f) \in Seq(AnyCall)
    BY <1>2, <1>3, <1>6, <1>7, <1>8
<1>. QED  BY <1>9 DEF f

\* One call more came to pass of the innermost.
LEMMA Bumped ==
    ASSUME NEW d \in Documents, NEW F, Frames(d, F), ~Ended(Top(F)),
           Len(F) > 1 => Top(F).at + 1 < Len(Todo(Top(F).of))
    PROVE  LET E == Bump(F)
           IN /\ Frames(d, E) /\ Len(E) = Len(F)
              /\ \A i \in 1..(Len(F) - 1) : E[i] = F[i]
              /\ Top(E).of = Top(F).of /\ Top(E).at = Top(F).at + 1 /\ Top(E).below = Top(F).below
<1>. DEFINE E == Bump(F)
            n == Len(F)
            f == Top(F)
            e == [f EXCEPT !.at = @ + 1]
<1>1. n \in Nat /\ n > 0 /\ n \in 1..n
    BY LenProperties DEF Frames
<1>2. F \in Seq(Frame(d)) /\ f \in Frame(d) /\ f = F[n]
    BY <1>1, FrameParts DEF Frames, Top
<1>3. e \in Frame(d) /\ e.of = f.of /\ e.at = f.at + 1 /\ e.below = f.below
    BY <1>2 DEF Frame
<1>4. E = [F EXCEPT ![n] = e]
    BY DEF Bump, Top
<1>. HIDE DEF e, E, f, n
<1>5. E \in Seq(Frame(d)) /\ Len(E) = n /\ E[n] = e /\ \A i \in 1..n : i # n => E[i] = F[i]
  <2>1. DOMAIN F = 1..n
      BY <1>2, LenProperties DEF n
  <2>2. E \in Seq(Frame(d))
      BY <1>1, <1>2, <1>3, <1>4, <2>1, ExceptSeq DEF n
  <2>3. DOMAIN E = 1..n /\ DOMAIN E = 1..Len(E) /\ Len(E) \in Nat
      BY <1>4, <2>1, <2>2, LenProperties
  <2>4. Len(E) = n
      BY <1>1, <2>3
  <2>. QED  BY <1>1, <1>4, <2>1, <2>2, <2>4
<1>6. /\ E[1].of = Document(d) /\ E[1].at \in 0..1 /\ E[1].below = <<>>
  <2>1. F[1].of = Document(d) /\ F[1].at \in 0..1 /\ F[1].below = <<>>
      BY DEF Frames
  <2>2. CASE n = 1
    <3>1. E[1] = e /\ f = F[1]
        BY <1>2, <1>5, <2>2
    <3>2. Len(Todo(F[1].of)) = 1
        BY <2>1, TodoIsSeq
    <3>3. F[1].at # 1
        BY <3>1, <3>2 DEF Ended, f
    <3>. QED  BY <1>3, <2>1, <3>1, <3>3
  <2>3. CASE n # 1
    <3>1. E[1] = F[1]
        BY <1>1, <1>5, <2>3
    <3>. QED  BY <2>1, <3>1
  <2>. QED  BY <2>2, <2>3
<1>7. ASSUME NEW i \in 2..n
      PROVE  E[i].of \in Documents /\ Container(E[i].of) /\ E[i].at \in 1..(Len(Todo(E[i].of)) - 1)
  <2>1. F[i].of \in Documents /\ Container(F[i].of) /\ F[i].at \in 1..(Len(Todo(F[i].of)) - 1)
      BY <1>7 DEF Frames, n
  <2>2. CASE i = n
    <3>1. E[i] = e /\ f = F[i] /\ f.at + 1 < Len(Todo(f.of)) /\ Len(Todo(f.of)) \in Nat
        BY <1>1, <1>2, <1>5, <1>7, <2>1, <2>2, TodoIsSeq DEF n, f
    <3>2. f.at + 1 \in 1..(Len(Todo(f.of)) - 1)
        BY <2>1, <3>1
    <3>. QED  BY <1>3, <2>1, <3>1, <3>2
  <2>3. CASE i # n
    <3>1. E[i] = F[i]
        BY <1>1, <1>5, <1>7, <2>3
    <3>. QED  BY <2>1, <3>1
  <2>. QED  BY <2>2, <2>3
<1>8. ASSUME NEW i \in 1..(n - 1)
      PROVE  ~Ended(E[i]) /\ Upcoming(E[i]) = Visit(E[i + 1].of) /\ E[i + 1].below = Beyond(E[i])
  <2>1. ~Ended(F[i]) /\ Upcoming(F[i]) = Visit(F[i + 1].of) /\ F[i + 1].below = Beyond(F[i])
      BY <1>8 DEF Frames, n
  <2>2. E[i] = F[i]
      BY <1>1, <1>5, <1>8
  <2>3. E[i + 1].of = F[i + 1].of /\ E[i + 1].below = F[i + 1].below
    <3>1. i + 1 \in 1..n
        BY <1>1, <1>8
    <3>2. CASE i + 1 = n
        BY <1>2, <1>3, <1>5, <3>2
    <3>3. CASE i + 1 # n
        BY <1>5, <3>1, <3>3
    <3>. QED  BY <3>2, <3>3
  <2>. QED  BY <2>1, <2>2, <2>3
<1>9. Frames(d, E)
    BY <1>1, <1>5, <1>6, <1>7, <1>8 DEF Frames
<1>10. Top(E) = e /\ \A i \in 1..(n - 1) : E[i] = F[i]
    BY <1>1, <1>5 DEF Top
<1>. QED  BY <1>3, <1>5, <1>9, <1>10 DEF E, n, f

\* The innermost is taken away.
LEMMA PoppedFrames ==
    ASSUME NEW d \in Documents, NEW F, Frames(d, F), Len(F) > 1
    PROVE  /\ Frames(d, Pop(F)) /\ Len(Pop(F)) = Len(F) - 1
           /\ \A i \in 1..(Len(F) - 1) : Pop(F)[i] = F[i]
           /\ Top(Pop(F)) = F[Len(F) - 1]
           /\ ~Ended(Top(Pop(F))) /\ Upcoming(Top(Pop(F))) = Visit(Top(F).of)
           /\ Top(F).below = Beyond(Top(Pop(F)))
<1>. DEFINE n == Len(F)
            E == Pop(F)
<1>1. n \in Nat /\ n > 1 /\ F \in Seq(Frame(d))
    BY LenProperties DEF Frames
<1>2. \A i \in 1..n : F[i] \in Frame(d)
    BY <1>1, ElementOfSeq
<1>. HIDE DEF n, E
<1>3. E \in Seq(Frame(d)) /\ Len(E) = n - 1 /\ \A i \in 1..(n - 1) : E[i] = F[i]
  <2>1. E = SubSeq(F, 1, n - 1)
      BY DEF E, Pop, n
  <2>2. \A i \in 1..(n - 1) : F[i] \in Frame(d)
      BY <1>1, <1>2
  <2>3. 1 \in Int /\ n - 1 \in Int
      BY <1>1
  <2>4. /\ SubSeq(F, 1, n - 1) \in Seq(Frame(d))
        /\ Len(SubSeq(F, 1, n - 1)) = IF 1 <= n - 1 THEN (n - 1) - 1 + 1 ELSE 0
        /\ \A i \in 1..((n - 1) - 1 + 1) : SubSeq(F, 1, n - 1)[i] = F[1 + i - 1]
      BY <2>2, <2>3, SubSeqProperties
  <2>5. (n - 1) - 1 + 1 = n - 1 /\ 1 <= n - 1 /\ \A i \in 1..(n - 1) : 1 + i - 1 = i
      BY <1>1
  <2>. QED  BY <2>1, <2>4, <2>5
<1>4. Frames(d, E)
  <2>1. Len(E) > 0 /\ E[1] = F[1]
      BY <1>1, <1>3
  <2>2. F[1].of = Document(d) /\ F[1].at \in 0..1 /\ F[1].below = <<>>
      BY DEF Frames
  <2>3. ASSUME NEW i \in 2..(n - 1)
        PROVE  E[i].of \in Documents /\ Container(E[i].of) /\ E[i].at \in 1..(Len(Todo(E[i].of)) - 1)
    <3>1. E[i] = F[i] /\ i \in 2..n
        BY <1>1, <1>3
    <3>. QED  BY <3>1 DEF Frames, n
  <2>4. ASSUME NEW i \in 1..((n - 1) - 1)
        PROVE  ~Ended(E[i]) /\ Upcoming(E[i]) = Visit(E[i + 1].of) /\ E[i + 1].below = Beyond(E[i])
    <3>1. E[i] = F[i] /\ E[i + 1] = F[i + 1] /\ i \in 1..(n - 1)
        BY <1>1, <1>3
    <3>. QED  BY <3>1 DEF Frames, n
  <2>. QED  BY <1>3, <2>1, <2>2, <2>3, <2>4 DEF Frames
<1>5. Top(E) = F[n - 1]
    BY <1>1, <1>3 DEF Top
<1>6. ~Ended(F[n - 1]) /\ Upcoming(F[n - 1]) = Visit(F[n].of) /\ F[n].below = Beyond(F[n - 1])
  <2>1. n - 1 \in 1..(n - 1) /\ (n - 1) + 1 = n
      BY <1>1
  <2>2. \A i \in 1..(n - 1) : ~Ended(F[i]) /\ Upcoming(F[i]) = Visit(F[i + 1].of) /\ F[i + 1].below = Beyond(F[i])
      BY DEF Frames, n
  <2>. QED  BY <2>1, <2>2
<1>. QED  BY <1>3, <1>4, <1>5, <1>6 DEF E, n, Top

\* Another is opened.
LEMMA Deeper ==
    ASSUME NEW d \in Documents, NEW F, Frames(d, F), ~Ended(Top(F)),
           NEW u \in Documents, Container(u), Upcoming(Top(F)) = Visit(u)
    PROVE  LET E == Append(F, Opening(Top(F), u))
           IN /\ Frames(d, E) /\ Len(E) = Len(F) + 1
              /\ \A i \in 1..Len(F) : E[i] = F[i]
              /\ Top(E) = Opening(Top(F), u)
<1>. DEFINE n == Len(F)
            e == Opening(Top(F), u)
            E == Append(F, e)
<1>1. n \in Nat /\ n > 0 /\ n \in 1..n /\ F \in Seq(Frame(d)) /\ Top(F) = F[n]
    BY LenProperties DEF Frames, Top
<1>2. Beyond(Top(F)) \in Seq(AnyCall)
    BY <1>1, Rests
<1>3. e \in Frame(d) /\ e.of = u /\ e.at = 1 /\ e.below = Beyond(Top(F))
    BY <1>2 DEF Opening, Frame
<1>. HIDE DEF e
<1>4. E \in Seq(Frame(d)) /\ Len(E) = n + 1 /\ (\A i \in 1..n : E[i] = F[i]) /\ E[n + 1] = e
    BY <1>1, <1>3, AppendProperties
<1>. HIDE DEF E, n
<1>5. E[1].of = Document(d) /\ E[1].at \in 0..1 /\ E[1].below = <<>>
  <2>1. F[1].of = Document(d) /\ F[1].at \in 0..1 /\ F[1].below = <<>>
      BY DEF Frames
  <2>. QED  BY <1>1, <1>4, <2>1
<1>6. ASSUME NEW i \in 2..(n + 1)
      PROVE  E[i].of \in Documents /\ Container(E[i].of) /\ E[i].at \in 1..(Len(Todo(E[i].of)) - 1)
  <2>1. CASE i = n + 1
    <3>1. Len(Todo(u)) \in Nat /\ Len(Todo(u)) >= 2
        BY TodoIsSeq
    <3>2. 1 \in 1..(Len(Todo(u)) - 1)
        BY <3>1
    <3>. QED  BY <1>3, <1>4, <2>1, <3>2
  <2>2. CASE i # n + 1
    <3>1. i \in 2..n /\ E[i] = F[i]
        BY <1>1, <1>4, <2>2
    <3>. QED  BY <3>1 DEF Frames, n
  <2>. QED  BY <2>1, <2>2
<1>7. ASSUME NEW i \in 1..((n + 1) - 1)
      PROVE  ~Ended(E[i]) /\ Upcoming(E[i]) = Visit(E[i + 1].of) /\ E[i + 1].below = Beyond(E[i])
  <2>1. CASE i = n
    <3>1. E[i] = Top(F) /\ E[i + 1] = e
        BY <1>1, <1>4, <2>1
    <3>. QED  BY <1>3, <3>1
  <2>2. CASE i # n
    <3>1. i \in 1..(n - 1) /\ E[i] = F[i] /\ E[i + 1] = F[i + 1]
        BY <1>1, <1>4, <2>2
    <3>. QED  BY <3>1 DEF Frames, n
  <2>. QED  BY <2>1, <2>2
<1>8. Len(E) > 0
    BY <1>1, <1>4
<1>9. Frames(d, E)
    BY <1>4, <1>5, <1>6, <1>7, <1>8 DEF Frames
<1>10. Top(E) = e
    BY <1>1, <1>4 DEF Top
<1>. QED  BY <1>4, <1>9, <1>10 DEF E, e, n

\* The next token is written, and the rest remains.
LEMMA OnwardFrames ==
    ASSUME NEW d \in Documents, NEW F, Frames(d, F), ~Ended(Top(F))
    PROVE  /\ Frames(d, Onward(F))
           /\ Rest(Top(Onward(F))) =
                IF ~Upcoming(Top(F)).put /\ Container(Upcoming(Top(F)).what)
                THEN SubSeq(Calls(Upcoming(Top(F)).what), 2, Len(Calls(Upcoming(Top(F)).what))) \o Beyond(Top(F))
                ELSE Beyond(Top(F))
<1>. DEFINE n == Len(F)
            f == Top(F)
            c == Upcoming(f)
            E == Onward(F)
            size == Len(Todo(f.of))
<1>1. n \in Nat /\ n > 0 /\ n \in 1..n /\ f = F[n]
    BY LenProperties DEF Frames, Top
<1>2. /\ f.of \in {Document(d)} \cup Documents /\ f.at \in Nat /\ f.below \in Seq(AnyCall)
      /\ Todo(f.of) \in Seq(AnyCall) /\ size \in Nat /\ f.at < size
      /\ n > 1 => f.of \in Documents /\ Container(f.of)
      /\ n = 1 => f.of = Document(d)
      /\ c.put => n > 1
      /\ c \in AnyCall /\ Beyond(f) \in Seq(AnyCall)
  <2>1. f.at \in 0..size /\ f.at # size
      BY <1>1, FrameParts DEF Ended
  <2>2. size \in Nat
      BY <1>1, FrameParts, TodoIsSeq
  <2>3. f.at < size
      BY <2>1, <2>2
  <2>. QED  BY <1>1, <2>2, <2>3, FrameParts, TodoIsSeq, Rests
<1>3. ASSUME n > 1 => f.at + 1 < size
      PROVE  Frames(d, Bump(F)) /\ Rest(Top(Bump(F))) = Beyond(f)
  <2>1. /\ Frames(d, Bump(F))
        /\ Top(Bump(F)).of = f.of /\ Top(Bump(F)).at = f.at + 1 /\ Top(Bump(F)).below = f.below
      BY <1>3, Bumped
  <2>2. (f.at + 1) + 1 = f.at + 2
      BY <1>2
  <2>. QED  BY <2>1, <2>2 DEF Rest, Beyond
<1>4. CASE c.put /\ f.at + 1 < size
  <2>1. E = Bump(F)
      BY <1>4 DEF Onward
  <2>. QED  BY <1>3, <1>4, <2>1
<1>5. CASE c.put /\ ~(f.at + 1 < size)
  <2>. DEFINE P == Pop(F)
              p == Top(P)
  <2>1. n > 1 /\ f.at + 1 = size /\ E = Bump(P)
      BY <1>2, <1>5 DEF Onward
  <2>2. /\ Frames(d, P) /\ Len(P) = n - 1 /\ p = P[n - 1] /\ P[n - 1] = F[n - 1]
        /\ ~Ended(p) /\ Upcoming(p) = Visit(f.of) /\ f.below = Beyond(p)
    <3>1. n - 1 \in 1..(n - 1)
        BY <1>1, <2>1
    <3>. QED  BY <2>1, <3>1, PoppedFrames
  <2>. HIDE DEF P, p
  <2>3. Len(P) \in Nat /\ Len(P) \in 1..Len(P) /\ p = P[Len(P)]
      BY <1>1, <2>1, <2>2
  <2>4. Len(P) > 1 => p.at + 1 < Len(Todo(p.of))
    <3>. SUFFICES ASSUME Len(P) > 1 PROVE p.at + 1 < Len(Todo(p.of))
        OBVIOUS
    <3>1. p.of \in Documents /\ Container(p.of) /\ p.at >= 1 /\ p.at < Len(Todo(p.of)) /\ p.at \in Nat
        BY <2>2, <2>3, FrameParts
    <3>2. Len(Todo(p.of)) \in Nat /\ Todo(p.of)[Len(Todo(p.of))].put
        BY <3>1, TodoIsSeq
    <3>3. ~Todo(p.of)[p.at + 1].put
        BY <2>2, TwoCalls DEF Upcoming
    <3>. DEFINE m == Len(Todo(p.of))
    <3>4. m \in Nat /\ p.at < m /\ p.at + 1 # m
        BY <3>1, <3>2, <3>3
    <3>. HIDE DEF m
    <3>5. p.at + 1 < m
        BY <3>1, <3>4
    <3>. QED  BY <3>5 DEF m
  <2>5. /\ Frames(d, Bump(P))
        /\ Top(Bump(P)).of = p.of /\ Top(Bump(P)).at = p.at + 1 /\ Top(Bump(P)).below = p.below
      BY <2>2, <2>4, Bumped DEF p
  <2>6. Rest(Top(Bump(P))) = Beyond(p)
    <3>1. p.at \in Nat
        BY <2>2, <2>3, FrameParts
    <3>2. (p.at + 1) + 1 = p.at + 2
        BY <3>1
    <3>. QED  BY <2>5, <3>2 DEF Rest, Beyond
  <2>7. Beyond(f) = f.below
    <3>1. SubSeq(Todo(f.of), f.at + 2, size) = <<>>
      <4>1. f.at + 2 \in Int /\ size \in Int /\ size < f.at + 2
          BY <1>2, <2>1
      <4>. QED  BY <4>1, SubSeqEmpty
    <3>. QED  BY <1>2, <3>1, ConcatEmptySeq DEF Beyond
  <2>. QED  BY <1>5, <2>1, <2>2, <2>5, <2>6, <2>7
<1>6. CASE ~c.put /\ Container(c.what)
  <2>1. c = Visit(c.what) /\ c.what \in Documents
      BY <1>2, <1>6, TwoCalls
  <2>2. E = Append(F, Opening(f, c.what))
      BY <1>6 DEF Onward
  <2>3. Frames(d, E) /\ Top(E) = Opening(f, c.what)
      BY <1>6, <2>1, <2>2, Deeper
  <2>4. Rest(Opening(f, c.what)) = SubSeq(Calls(c.what), 2, Len(Calls(c.what))) \o Beyond(f)
    <3>1. Todo(c.what) = Calls(c.what) /\ 1 + 1 = 2
        BY <2>1, TodoIsSeq
    <3>. QED  BY <3>1 DEF Opening, Rest
  <2>. QED  BY <1>6, <2>3, <2>4
<1>7. CASE ~c.put /\ ~Container(c.what)
  <2>1. E = Bump(F)
      BY <1>7 DEF Onward
  <2>2. n > 1 => f.at + 1 < size
    <3>. SUFFICES ASSUME n > 1 PROVE f.at + 1 < size
        OBVIOUS
    <3>1. Todo(f.of)[size].put
        BY <1>2, TodoIsSeq
    <3>2. f.at + 1 # size
        BY <1>7, <3>1 DEF Upcoming
    <3>. HIDE DEF size
    <3>. QED  BY <1>2, <3>2
  <2>. QED  BY <1>3, <1>7, <2>1, <2>2
<1>. QED  BY <1>4, <1>5, <1>6, <1>7

\* The first call for any value puts a token.
LEMMA FirstCall ==
    ASSUME NEW u \in Documents
    PROVE  /\ Calls(u) \in Seq(AnyCall) /\ Calls(u) # <<>> /\ Len(Calls(u)) \in Nat /\ Len(Calls(u)) > 0
           /\ Calls(u)[1].put /\ Calls(u)[1].what \in Token
           /\ ~Container(u) => Len(Calls(u)) = 1 /\ Calls(u)[1].what = TokenOf(u)
<1>. DEFINE s == Calls(u)
<1>1. s \in Seq(AnyCall) /\ Len(s) \in Nat /\ Len(s) > 0
    BY TodoIsSeq
<1>2. s # <<>> /\ s[1] \in AnyCall
  <2>. HIDE DEF s
  <2>1. 1 \in 1..Len(s)
      BY <1>1
  <2>. QED  BY <1>1, <2>1, EmptySeq, ElementOfSeq
<1>3. CASE Container(u)
  <2>1. s[1].put
      BY <1>3, TodoIsSeq
  <2>. QED  BY <1>1, <1>2, <1>3, <2>1, TwoCalls
<1>4. CASE ~Container(u)
  <2>. DEFINE c == Put(TokenOf(u))
  <2>1. s = <<c>> /\ c \in AnyCall
      BY <1>4, CallsOfScalar
  <2>2. c.put /\ c.what = TokenOf(u)
      BY TwoCalls
  <2>. HIDE DEF c, s
  <2>3. Len(s) = 1 /\ s[1] = c
      BY <2>1
  <2>4. c.what \in Token
      BY <2>1, <2>2, TwoCalls
  <2>. QED  BY <1>1, <1>2, <2>2, <2>3, <2>4 DEF s
<1>. QED  BY <1>3, <1>4

\* A value that was looked at, and what comes after it.
LEMMA Looked ==
    ASSUME NEW u \in Documents, NEW b \in Seq(AnyCall)
    PROVE  LET r == Calls(u) \o b
           IN /\ r \in Seq(AnyCall) /\ r # <<>> /\ Head(r) = Calls(u)[1]
              /\ Tail(r) = SubSeq(Calls(u), 2, Len(Calls(u))) \o b
              /\ ~Container(u) => Tail(r) = b
<1>. DEFINE s == Calls(u)
            r == s \o b
<1>1. s \in Seq(AnyCall) /\ Len(s) \in Nat /\ Len(s) > 0
    BY FirstCall
<1>2. ~Container(u) => Len(s) = 1
    BY FirstCall
<1>. HIDE DEF s
<1>3. SubSeq(s, 0 + 1, Len(s)) = s
    BY <1>1, SubSeqFull
<1>4. 0 \in 0..Len(s) /\ 0 < Len(s)
    BY <1>1
<1>5. LET left == SubSeq(s, 0 + 1, Len(s)) \o b
      IN /\ left \in Seq(AnyCall)
         /\ 0 < Len(s) => /\ left # <<>> /\ Head(left) = s[0 + 1] /\ s[0 + 1] \in AnyCall
                          /\ Tail(left) = SubSeq(s, 0 + 2, Len(s)) \o b
    BY ZenonT(30), <1>1, <1>4, Leftover
<1>6. /\ r \in Seq(AnyCall) /\ r # <<>> /\ Head(r) = s[1]
      /\ Tail(r) = SubSeq(s, 2, Len(s)) \o b
    BY <1>3, <1>4, <1>5
<1>7. ~Container(u) => SubSeq(s, 2, Len(s)) \o b = b
  <2>. SUFFICES ASSUME ~Container(u) PROVE SubSeq(s, 2, Len(s)) \o b = b
      OBVIOUS
  <2>1. 2 \in Int /\ Len(s) \in Int /\ Len(s) < 2
      BY <1>2
  <2>2. SubSeq(s, 2, Len(s)) = <<>>
      BY <2>1, SubSeqEmpty
  <2>. QED  BY <2>2, ConcatEmptySeq
<1>. QED  BY <1>6, <1>7 DEF s

\* What is put next is the next token, and the rest is still to be done.
LEMMA Spelled ==
    ASSUME NEW d \in Documents, NEW F, Frames(d, F), NEW r, Due(F, r), r # <<>>, Head(r).put
    PROVE  ~Ended(Top(F)) /\ Head(r).what = Says(F) /\ Says(F) \in Token /\ Due(Onward(F), Tail(r))
<1>. DEFINE f == Top(F)
            c == Upcoming(f)
<1>1. Len(F) \in 1..Len(F) /\ f = F[Len(F)]
    BY LenProperties DEF Frames, Top
<1>2. /\ Ended(f) => Rest(f) = <<>>
      /\ ~Ended(f) => /\ Rest(f) # <<>> /\ Head(Rest(f)) = c /\ c \in AnyCall
                      /\ Tail(Rest(f)) = Beyond(f) /\ Beyond(f) \in Seq(AnyCall)
    BY <1>1, Rests
<1>3. CASE r = Rest(f)
  <2>1. ~Ended(f) /\ c = Head(r) /\ c.put /\ c \in AnyCall /\ Tail(r) = Beyond(f)
      BY <1>2, <1>3
  <2>2. Says(F) = c.what /\ c.what \in Token
      BY <2>1, TwoCalls DEF Says
  <2>3. Rest(Top(Onward(F))) = Beyond(f)
      BY <2>1, OnwardFrames
  <2>. QED  BY <2>1, <2>2, <2>3 DEF Due
<1>4. CASE ~Ended(f) /\ ~c.put /\ r = Calls(c.what) \o Beyond(f)
  <2>. DEFINE u == c.what
  <2>1. u \in Documents /\ Beyond(f) \in Seq(AnyCall)
      BY <1>2, <1>4, TwoCalls
  <2>2. /\ Head(r) = Calls(u)[1] /\ Calls(u)[1].what \in Token
        /\ Tail(r) = SubSeq(Calls(u), 2, Len(Calls(u))) \o Beyond(f)
        /\ ~Container(u) => Tail(r) = Beyond(f)
      BY <1>4, <2>1, Looked, FirstCall
  <2>3. Says(F) = Calls(u)[1].what
      BY <1>4 DEF Says
  <2>4. Rest(Top(Onward(F))) = Tail(r)
      BY <1>4, <2>2, OnwardFrames
  <2>. QED  BY <1>4, <2>2, <2>3, <2>4 DEF Due
<1>. QED  BY <1>3, <1>4 DEF Due

\* The next value is looked at.
LEMMA Expanded ==
    ASSUME NEW d \in Documents, NEW F, Frames(d, F), NEW r, Due(F, r), r # <<>>, ~Head(r).put
    PROVE  Due(F, Calls(Head(r).what) \o Tail(r))
<1>. DEFINE f == Top(F)
            c == Upcoming(f)
<1>1. Len(F) \in 1..Len(F) /\ f = F[Len(F)]
    BY LenProperties DEF Frames, Top
<1>2. /\ Ended(f) => Rest(f) = <<>>
      /\ ~Ended(f) => /\ Rest(f) # <<>> /\ Head(Rest(f)) = c /\ c \in AnyCall
                      /\ Tail(Rest(f)) = Beyond(f) /\ Beyond(f) \in Seq(AnyCall)
    BY <1>1, Rests
<1>3. CASE r = Rest(f)
    BY <1>2, <1>3 DEF Due
<1>4. CASE ~Ended(f) /\ ~c.put /\ r = Calls(c.what) \o Beyond(f)
  <2>1. c.what \in Documents /\ Beyond(f) \in Seq(AnyCall)
      BY <1>2, <1>4, TwoCalls
  <2>2. Head(r) = Calls(c.what)[1] /\ Calls(c.what)[1].put
      BY <1>4, <2>1, Looked, FirstCall
  <2>. QED  BY <2>2
<1>. QED  BY <1>3, <1>4 DEF Due

\* The document as it is before the first token.
LEMMA Begun ==
    ASSUME NEW d \in Documents
    PROVE  Frames(d, Start(d)) /\ Len(Start(d)) = 1 /\ Due(Start(d), <<Visit(d)>>)
<1>. DEFINE f == [of |-> Document(d), at |-> 0, below |-> <<>>]
            F == Start(d)
<1>1. f \in Frame(d) /\ f.of = Document(d) /\ f.at = 0 /\ f.below = <<>>
    BY DEF Frame
<1>. HIDE DEF f
<1>2. F \in Seq(Frame(d)) /\ Len(F) = 1 /\ F[1] = f
    BY <1>1 DEF Start, f
<1>. HIDE DEF F
<1>3. Frames(d, F) /\ Top(F) = f
    BY <1>1, <1>2 DEF Frames, Top
<1>4. Todo(f.of) = <<Visit(d)>> /\ Len(Todo(f.of)) = 1 /\ <<Visit(d)>> \in Seq(AnyCall)
    BY <1>1, TodoIsSeq
<1>5. Rest(f) = <<Visit(d)>>
  <2>1. Rest(f) = SubSeq(<<Visit(d)>>, 1, Len(<<Visit(d)>>)) \o <<>>
      BY <1>1, <1>4 DEF Rest
  <2>2. SubSeq(<<Visit(d)>>, 1, Len(<<Visit(d)>>)) = <<Visit(d)>>
      BY <1>4, SubSeqFull
  <2>. QED  BY <1>4, <2>1, <2>2, ConcatEmptySeq
<1>. QED  BY <1>2, <1>3, <1>5 DEF Due, F

\* A course goes on with the next token.
LEMMA CourseGrows ==
    ASSUME NEW d \in Documents, NEW t \in Seq(Token), NEW G, Course(d, t, G),
           ~Ended(Top(G[Len(t)])), NEW tok \in Token, tok = Says(G[Len(t)])
    PROVE  \E H : Course(d, Append(t, tok), H) /\ H[Len(t) + 1] = Onward(G[Len(t)])
<1>. DEFINE n == Len(t)
            w == Append(t, tok)
            H == [p \in 0..(n + 1) |-> IF p <= n THEN G[p] ELSE Onward(G[n])]
<1>1. n \in Nat /\ n \in 0..n
    BY LenProperties
<1>2. Len(w) = n + 1 /\ (\A i \in 1..n : w[i] = t[i]) /\ w[n + 1] = tok
    BY AppendProperties
<1>3. /\ G[0] = Start(d) /\ \A p \in 0..n : Frames(d, G[p])
      /\ \A p \in 1..n : ~Ended(Top(G[p - 1])) /\ t[p] = Says(G[p - 1]) /\ G[p] = Onward(G[p - 1])
    BY DEF Course
<1>4. ~Ended(Top(G[n])) /\ tok = Says(G[n])
    OBVIOUS
<1>. HIDE DEF n, w
<1>5. (\A p \in 0..n : H[p] = G[p]) /\ H[n + 1] = Onward(G[n])
    BY <1>1
<1>. HIDE DEF H
<1>6. ASSUME NEW p \in 0..(n + 1)
      PROVE  Frames(d, H[p])
  <2>1. CASE p = n + 1
      BY <1>1, <1>3, <1>4, <1>5, <2>1, OnwardFrames
  <2>2. CASE p # n + 1
    <3>1. p \in 0..n
        BY <1>1, <2>2
    <3>. QED  BY <1>3, <1>5, <3>1
  <2>. QED  BY <2>1, <2>2
<1>7. ASSUME NEW p \in 1..(n + 1)
      PROVE  ~Ended(Top(H[p - 1])) /\ w[p] = Says(H[p - 1]) /\ H[p] = Onward(H[p - 1])
  <2>1. p - 1 \in 0..n /\ H[p - 1] = G[p - 1]
      BY <1>1, <1>5
  <2>2. CASE p = n + 1
    <3>1. p - 1 = n
        BY <1>1, <2>2
    <3>. QED  BY <1>2, <1>4, <1>5, <2>1, <2>2, <3>1
  <2>3. CASE p # n + 1
    <3>1. p \in 1..n /\ p \in 0..n
        BY <1>1, <2>3
    <3>. QED  BY <1>2, <1>3, <1>5, <2>1, <3>1
  <2>. QED  BY <2>2, <2>3
<1>8. H[0] = Start(d)
    BY <1>1, <1>3, <1>5
<1>9. Course(d, w, H)
    BY <1>2, <1>6, <1>7, <1>8 DEF Course
<1>. QED  BY <1>5, <1>9 DEF n, w

-------------------------------------------------------------------------------

\* A frame whose next call is a value: what is expected there, and after it.
LEMMA ValueExpected ==
    ASSUME NEW d \in Documents, NEW F, Frames(d, F), NEW i \in 1..Len(F), ~Ended(F[i]), ~Upcoming(F[i]).put,
           NEW e, e.of = F[i].of, e.at = F[i].at + 1
    PROVE  \/ Expect(F[i]) = "start" /\ Expect(e) = "done"
           \/ Expect(F[i]) = "item" /\ Expect(e) = "item"
           \/ Expect(F[i]) = "value" /\ Expect(e) = "key"
<1>. DEFINE f == F[i]
            n == Len(Todo(f.of))
<1>1. /\ f.of \in {Document(d)} \cup Documents /\ f.at \in Nat /\ f.at \in 0..n /\ f.at # n
      /\ i = 1 => f.of = Document(d)
      /\ i > 1 => f.of \in Documents /\ Container(f.of) /\ f.at >= 1
      /\ i = 1 \/ i > 1
    BY FrameParts DEF Ended
<1>2. CASE i = 1
  <2>1. f.of = Document(d) /\ n = 1
      BY <1>1, <1>2, TodoIsSeq
  <2>2. f.at = 0 /\ e.at # 0
      BY <1>1, <2>1
  <2>. QED  BY <2>1, <2>2 DEF Expect, Document, Val
<1>3. CASE i > 1 /\ f.of.type = "array"
    BY <1>3 DEF Expect
<1>4. CASE i > 1 /\ f.of.type = "object"
  <2>1. f.of \in Documents /\ Todo(f.of) = Calls(f.of) /\ n \in Nat
      BY <1>1, <1>4, TodoIsSeq
  <2>. DEFINE s == Calls(f.of)
  <2>2. /\ s[n].put /\ \A j \in 2..(n - 1) : ~s[j].put => j > 2 /\ s[j - 1].put /\ s[j + 1].put
    <3>1. /\ s[n] = Put(Tok("}", Nil))
          /\ \A j \in 2..(n - 1) : ~s[j].put => j > 2 /\ s[j - 1].put /\ s[j + 1].put
        BY <1>4, <2>1, CallsOfObject
    <3>. QED  BY <3>1, TwoCalls
  <2>3. ~s[f.at + 1].put
      BY <2>1 DEF Upcoming
  <2>4. f.at + 1 \in 2..(n - 1)
    <3>. HIDE DEF f, n, s
    <3>1. f.at + 1 # n
        BY <2>2, <2>3
    <3>. QED  BY <1>1, <1>4, <2>1, <3>1
  <2>5. s[(f.at + 1) + 1].put
      BY <2>2, <2>3, <2>4
  <2>6. Upcoming(e).put /\ e.of.type = "object"
      BY <1>4, <2>1, <2>5 DEF Upcoming
  <2>. QED  BY <1>4, <2>6 DEF Expect
<1>. QED  BY <1>1, <1>2, <1>3, <1>4 DEF Container

\* A frame whose next call puts a token: a key, and its value follows, or the end.
LEMMA TokenExpected ==
    ASSUME NEW d \in Documents, NEW F, Frames(d, F), NEW i \in 1..Len(F), ~Ended(F[i]), Upcoming(F[i]).put
    PROVE  LET f == F[i]
           IN \/ /\ f.of.type = "array" /\ f.at + 1 = Len(Todo(f.of)) /\ f.at = Len(f.of.body) + 1
                 /\ Upcoming(f).what = Tok("]", Nil) /\ Expect(f) = "item"
              \/ /\ f.of.type = "object" /\ f.at + 1 = Len(Todo(f.of))
                 /\ Upcoming(f).what = Tok("}", Nil) /\ Expect(f) = "key"
              \/ /\ f.of.type = "object" /\ f.at + 1 < Len(Todo(f.of))
                 /\ Expect(f) = "key"
                 /\ \E k \in DOMAIN f.of.body : /\ Upcoming(f).what = Tok("string", k)
                                                /\ Todo(f.of)[f.at + 2] = Visit(f.of.body[k])
<1>. DEFINE f == F[i]
            n == Len(Todo(f.of))
            s == Calls(f.of)
<1>1. /\ f.of \in Documents /\ Container(f.of) /\ f.at \in Nat /\ f.at >= 1 /\ f.at < n
    BY FrameParts
<1>2. Todo(f.of) = s /\ n \in Nat /\ Upcoming(f) = s[f.at + 1] /\ n = Len(s)
    BY <1>1, TodoIsSeq DEF Upcoming
<1>3. CASE f.of.type = "array"
  <2>. DEFINE m == Len(f.of.body)
  <2>1. /\ m \in Nat /\ n = m + 2 /\ s[m + 2] = Put(Tok("]", Nil))
        /\ \A j \in 1..m : s[j + 1] = Visit(f.of.body[j])
      BY <1>1, <1>2, <1>3, CallsOfArray
  <2>2. f.at \notin 1..m
      BY <1>2, <2>1, TwoCalls
  <2>3. f.at + 1 = n /\ f.at = m + 1
    <3>. HIDE DEF f, n, m
    <3>. QED  BY <1>1, <1>2, <2>1, <2>2
  <2>4. Upcoming(f) = Put(Tok("]", Nil))
      BY <1>2, <2>1, <2>3
  <2>. QED  BY <1>3, <2>3, <2>4, TwoCalls DEF Expect
<1>4. CASE f.of.type = "object"
  <2>1. /\ s[n] = Put(Tok("}", Nil))
        /\ \A j \in 2..(n - 1) : s[j].put =>
              \E k \in DOMAIN f.of.body : s[j] = Put(Tok("string", k)) /\ s[j + 1] = Visit(f.of.body[k])
      BY <1>1, <1>2, <1>4, CallsOfObject
  <2>2. Expect(f) = "key"
      BY <1>4 DEF Expect
  <2>3. CASE f.at + 1 = n
    <3>1. Upcoming(f) = Put(Tok("}", Nil))
        BY <1>2, <2>1, <2>3
    <3>. QED  BY <1>4, <2>2, <2>3, <3>1, TwoCalls
  <2>4. CASE f.at + 1 # n
    <3>1. f.at + 1 \in 2..(n - 1) /\ f.at + 1 < n /\ (f.at + 1) + 1 = f.at + 2
      <4>. HIDE DEF f, n
      <4>. QED  BY <1>1, <1>2, <2>4
    <3>2. s[f.at + 1].put
        BY <1>2
    <3>3. PICK k \in DOMAIN f.of.body : s[f.at + 1] = Put(Tok("string", k)) /\ s[(f.at + 1) + 1] = Visit(f.of.body[k])
        BY <2>1, <3>1, <3>2
    <3>4. Upcoming(f).what = Tok("string", k) /\ Todo(f.of)[f.at + 2] = Visit(f.of.body[k])
        BY <1>2, <3>1, <3>3, TwoCalls
    <3>. QED  BY <1>4, <2>2, <3>1, <3>4
  <2>. QED  BY <2>3, <2>4
<1>. QED  BY <1>1, <1>3, <1>4 DEF Container

\* The frames of the next step, given what comes.
LEMMA ComesNext ==
    ASSUME NEW d \in Documents, NEW F, Frames(d, F), ~Ended(Top(F))
    PROVE  LET f == Top(F)
               u == Upcoming(f).what
               tok == Says(F)
           IN \/ /\ Upcoming(f).put /\ Len(F) > 1 /\ f.of.type = "array" /\ f.at = Len(f.of.body) + 1
                 /\ tok = Tok("]", Nil) /\ Expect(f) = "item" /\ Onward(F) = Bump(Pop(F))
              \/ /\ Upcoming(f).put /\ Len(F) > 1 /\ f.of.type = "object" /\ f.at + 1 = Len(Todo(f.of))
                 /\ tok = Tok("}", Nil) /\ Expect(f) = "key" /\ Onward(F) = Bump(Pop(F))
              \/ /\ Upcoming(f).put /\ Len(F) > 1 /\ f.of.type = "object" /\ f.at + 1 < Len(Todo(f.of))
                 /\ Expect(f) = "key" /\ Onward(F) = Bump(F)
                 /\ \E k \in DOMAIN f.of.body : k \in Name /\ tok = Tok("string", k)
                                                /\ Todo(f.of)[f.at + 2] = Visit(f.of.body[k])
              \/ /\ Upcoming(f) = Visit(u) /\ u \in Documents /\ u.type = "array" /\ tok = Tok("[", Nil)
                 /\ Expect(f) \in {"start", "item", "value"} /\ Onward(F) = Append(F, Opening(f, u))
              \/ /\ Upcoming(f) = Visit(u) /\ u \in Documents /\ u.type = "object" /\ tok = Tok("{", Nil)
                 /\ Expect(f) \in {"start", "item", "value"} /\ Onward(F) = Append(F, Opening(f, u))
              \/ /\ Upcoming(f) = Visit(u) /\ u \in Documents /\ ~Container(u) /\ tok = TokenOf(u)
                 /\ Expect(f) \in {"start", "item", "value"} /\ Onward(F) = Bump(F)
<1>. DEFINE f == Top(F)
            c == Upcoming(f)
            u == c.what
            tok == Says(F)
<1>1. Len(F) \in 1..Len(F) /\ f = F[Len(F)] /\ Len(F) \in Nat
    BY LenProperties DEF Frames, Top
<1>2. c \in AnyCall
    BY <1>1, Rests
<1>3. CASE c.put
  <2>1. Len(F) > 1 /\ tok = c.what
      BY <1>1, <1>3, FrameParts DEF Says
  <2>2. Onward(F) = IF f.at + 1 < Len(Todo(f.of)) THEN Bump(F) ELSE Bump(Pop(F))
      BY <1>3 DEF Onward
  <2>3. \/ /\ f.of.type = "array" /\ f.at + 1 = Len(Todo(f.of)) /\ f.at = Len(f.of.body) + 1
           /\ c.what = Tok("]", Nil) /\ Expect(f) = "item"
        \/ /\ f.of.type = "object" /\ f.at + 1 = Len(Todo(f.of))
           /\ c.what = Tok("}", Nil) /\ Expect(f) = "key"
        \/ /\ f.of.type = "object" /\ f.at + 1 < Len(Todo(f.of))
           /\ Expect(f) = "key"
           /\ \E k \in DOMAIN f.of.body : /\ c.what = Tok("string", k)
                                          /\ Todo(f.of)[f.at + 2] = Visit(f.of.body[k])
      BY <1>1, <1>3, TokenExpected DEF Top
  <2>4. f.of \in Documents /\ f.at \in Nat /\ Len(Todo(f.of)) \in Nat
      BY <1>1, <2>1, FrameParts, TodoIsSeq
  <2>5. ~(f.at + 1 = Len(Todo(f.of)) /\ f.at + 1 < Len(Todo(f.of)))
      BY <2>4
  <2>6. f.of.type = "object" => DOMAIN f.of.body \subseteq Name
      BY <2>4, Kinds
  <2>. HIDE DEF f, c, u, tok
  <2>7. CASE f.at + 1 = Len(Todo(f.of))
      BY <1>3, <2>1, <2>2, <2>3, <2>5, <2>7 DEF f, c, u, tok
  <2>8. CASE /\ f.of.type = "object" /\ f.at + 1 < Len(Todo(f.of)) /\ Expect(f) = "key"
             /\ \E k \in DOMAIN f.of.body : /\ c.what = Tok("string", k)
                                            /\ Todo(f.of)[f.at + 2] = Visit(f.of.body[k])
    <3>1. Onward(F) = Bump(F)
        BY <2>2, <2>8
    <3>2. \E k \in DOMAIN f.of.body : k \in Name /\ tok = Tok("string", k)
                                      /\ Todo(f.of)[f.at + 2] = Visit(f.of.body[k])
        BY <2>1, <2>6, <2>8
    <3>. QED  BY <1>3, <2>1, <2>8, <3>1, <3>2 DEF f, c, u, tok
  <2>. QED  BY <2>3, <2>7, <2>8
<1>4. CASE ~c.put
  <2>1. c = Visit(u) /\ u \in Documents /\ tok = Calls(u)[1].what
      BY <1>2, <1>4, TwoCalls DEF Says
  <2>2. Expect(f) \in {"start", "item", "value"}
    <3>. DEFINE e == [of |-> f.of, at |-> f.at + 1]
    <3>1. \/ Expect(f) = "start" /\ Expect(e) = "done"
          \/ Expect(f) = "item" /\ Expect(e) = "item"
          \/ Expect(f) = "value" /\ Expect(e) = "key"
        BY <1>1, <1>4, ValueExpected
    <3>. QED  BY <3>1
  <2>3. Onward(F) = IF Container(u) THEN Append(F, Opening(f, u)) ELSE Bump(F)
      BY <1>4 DEF Onward
  <2>. HIDE DEF f, c, u, tok
  <2>4. CASE u.type = "array"
    <3>1. tok = Tok("[", Nil)
        BY <2>1, <2>4, CallsOfArray, TwoCalls
    <3>. QED  BY <2>1, <2>2, <2>3, <2>4, <3>1 DEF Container, f, c, u, tok
  <2>5. CASE u.type = "object"
    <3>1. tok = Tok("{", Nil)
      <4>1. Calls(u)[1] = Put(Tok("{", Nil))
          BY <2>1, <2>5, CallsOfObject
      <4>. QED  BY <2>1, <4>1, TwoCalls
    <3>. QED  BY <2>1, <2>2, <2>3, <2>5, <3>1 DEF Container, f, c, u, tok
  <2>6. CASE ~Container(u)
    <3>1. tok = TokenOf(u)
        BY <2>1, <2>6, FirstCall
    <3>. QED  BY <2>1, <2>2, <2>3, <2>6, <3>1 DEF f, c, u, tok
  <2>. QED  BY <2>4, <2>5, <2>6 DEF Container
<1>. QED  BY <1>3, <1>4

\* A value is not the last that a container puts.
LEMMA MoreFollows ==
    ASSUME NEW d \in Documents, NEW F, Frames(d, F), NEW i \in 1..Len(F), i > 1, ~Upcoming(F[i]).put
    PROVE  F[i].at + 1 < Len(Todo(F[i].of))
<1>. DEFINE f == F[i]
            n == Len(Todo(f.of))
<1>1. f.of \in Documents /\ Container(f.of) /\ f.at \in Nat /\ f.at < n
    BY FrameParts
<1>2. n \in Nat /\ Todo(f.of)[n].put
    BY <1>1, TodoIsSeq
<1>3. f.at + 1 # n
    BY <1>2 DEF Upcoming
<1>. HIDE DEF f, n
<1>4. f.at + 1 < n
    BY <1>1, <1>2, <1>3
<1>. QED  BY <1>4 DEF f, n

\* The parser and the frames agree after a value.
LEMMA GotExpected ==
    ASSUME NEW d \in Documents, NEW F, Frames(d, F), ~Ended(Top(F)), ~Upcoming(Top(F)).put,
           NEW g \in Seq(Expectation), Expected(F, g)
    PROVE  Expected(Bump(F), Got(g))
<1>. DEFINE n == Len(F)
            E == Bump(F)
            f == Top(F)
            s == CASE g[n] = "start" -> "done" [] g[n] = "value" -> "key" [] OTHER -> g[n]
<1>1. n \in Nat /\ n \in 1..n /\ f = F[n] /\ n > 0
    BY LenProperties DEF Frames, Top
<1>2. n > 1 => f.at + 1 < Len(Todo(f.of))
    BY <1>1, MoreFollows DEF Top
<1>3. /\ Len(E) = n /\ (\A i \in 1..(n - 1) : E[i] = F[i])
      /\ Top(E).of = f.of /\ Top(E).at = f.at + 1
    BY <1>2, Bumped
<1>4. Top(E) = E[n]
    BY <1>3 DEF Top
<1>5. Len(g) = n /\ \A i \in 1..n : g[i] = Expect(F[i])
    BY DEF Expected
<1>6. \/ Expect(F[n]) = "start" /\ Expect(Top(E)) = "done"
      \/ Expect(F[n]) = "item" /\ Expect(Top(E)) = "item"
      \/ Expect(F[n]) = "value" /\ Expect(Top(E)) = "key"
    BY <1>1, <1>3, ValueExpected DEF Top
<1>7. Expect(E[n]) = s
    BY <1>1, <1>4, <1>5, <1>6
<1>8. Got(g) = [g EXCEPT ![n] = s] /\ DOMAIN g = 1..n
    BY <1>5, LenProperties DEF Got
<1>9. s \in Expectation
    BY <1>1, <1>5, <1>6 DEF Expectation
<1>. HIDE DEF s, E, f
<1>10. Got(g) \in Seq(Expectation)
    BY <1>1, <1>5, <1>8, <1>9, ExceptSeq
<1>. HIDE DEF n
<1>11. Len(Got(g)) = n
  <2>1. DOMAIN Got(g) = 1..n /\ DOMAIN Got(g) = 1..Len(Got(g)) /\ Len(Got(g)) \in Nat
      BY <1>8, <1>10, LenProperties
  <2>. QED  BY <1>1, <2>1
<1>12. ASSUME NEW i \in 1..n
       PROVE  Got(g)[i] = Expect(E[i])
  <2>1. CASE i = n
      BY <1>7, <1>8, <2>1
  <2>2. CASE i # n
    <3>1. i \in 1..(n - 1) /\ Got(g)[i] = g[i]
        BY <1>1, <1>8, <2>2
    <3>. QED  BY <1>3, <1>5, <3>1
  <2>. QED  BY <2>1, <2>2
<1>. QED  BY <1>3, <1>11, <1>12 DEF Expected, E

\* The parser takes what was written, unless it is not UTF-8, and goes on as the writer did.
LEMMA Understood ==
    ASSUME NEW d \in Documents, NEW F, Frames(d, F), ~Ended(Top(F)),
           NEW g \in Seq(Expectation), Expected(F, g)
    PROVE  /\ Takes(g, Says(F)) <=> ~NotUtf8(Says(F))
           /\ Takes(g, Says(F)) => Expected(Onward(F), Shift(g, Says(F)))
<1>. DEFINE n == Len(F)
            f == Top(F)
            tok == Says(F)
            u == Upcoming(f).what
            s == g[Len(g)]
<1>1. n \in Nat /\ n \in 1..n /\ f = F[n] /\ n > 0
    BY LenProperties DEF Frames, Top
<1>2. Len(g) = n /\ (\A i \in 1..n : g[i] = Expect(F[i])) /\ s = Expect(f)
    BY <1>1 DEF Expected
<1>3. /\ Takes(g, tok) = CASE tok.is = "}"      -> s = "key"
                           [] tok.is = "]"      -> s = "item"
                           [] tok.is = "string" -> s # "done" /\ tok.v \in Name \ BadName
                           [] OTHER             -> s \in {"start", "item", "value"}
      /\ Shift(g, tok) = CASE tok.is = "{"        -> Append(g, "key")
                           [] tok.is = "["        -> Append(g, "item")
                           [] tok.is \in {"}", "]"} -> Got(SubSeq(g, 1, Len(g) - 1))
                           [] OTHER -> IF s = "key" THEN [g EXCEPT ![Len(g)] = "value"] ELSE Got(g)
    BY DEF Takes, Shift
<1>4. ASSUME Upcoming(f).put, n > 1, Onward(F) = Bump(Pop(F))
      PROVE  Expected(Onward(F), Got(SubSeq(g, 1, Len(g) - 1)))
  <2>. DEFINE P == Pop(F)
              h == SubSeq(g, 1, Len(g) - 1)
  <2>1. /\ Frames(d, P) /\ Len(P) = n - 1 /\ (\A i \in 1..(n - 1) : P[i] = F[i])
        /\ ~Ended(Top(P)) /\ Upcoming(Top(P)) = Visit(f.of)
      BY <1>4, PoppedFrames
  <2>2. h \in Seq(Expectation) /\ Len(h) = n - 1 /\ \A i \in 1..(n - 1) : h[i] = g[i]
    <3>1. IsSeq(g) /\ h = Pop(g)
        BY GrammarIsSeq DEF Pop
    <3>2. Len(h) = n - 1 /\ \A i \in 1..(n - 1) : h[i] = g[i]
        BY <1>1, <1>2, <3>1, Popped
    <3>3. h \in Seq(Expectation)
      <4>1. \A i \in 1..(n - 1) : g[i] \in Expectation
          BY <1>1, <1>2, GrammarIsSeq
      <4>. QED  BY <1>1, <1>2, <4>1, SubSeqProperties
    <3>. QED  BY <3>2, <3>3
  <2>. HIDE DEF P, h
  <2>3. Expected(P, h)
      BY <1>2, <2>1, <2>2 DEF Expected
  <2>4. ~Upcoming(Top(P)).put
      BY <2>1, TwoCalls
  <2>. QED  BY <1>4, <2>1, <2>2, <2>3, <2>4, GotExpected DEF P, h
<1>5. ASSUME NEW w \in Documents, Container(w), Upcoming(f) = Visit(w), Onward(F) = Append(F, Opening(f, w)),
             NEW x, x = Expect(Opening(f, w)), x \in Expectation
      PROVE  Expected(Onward(F), Append(g, x))
  <2>1. /\ Len(Onward(F)) = n + 1 /\ (\A i \in 1..n : Onward(F)[i] = F[i])
        /\ Top(Onward(F)) = Opening(f, w)
      BY <1>5, Deeper
  <2>2. Len(Append(g, x)) = n + 1 /\ (\A i \in 1..n : Append(g, x)[i] = g[i]) /\ Append(g, x)[n + 1] = x
      BY <1>2, <1>5, AppendProperties
  <2>3. Onward(F)[n + 1] = Opening(f, w)
      BY <2>1 DEF Top
  <2>. DEFINE h == Append(g, x)
              E == Onward(F)
  <2>. HIDE DEF h, E
  <2>4. ASSUME NEW i \in 1..(n + 1)
        PROVE  h[i] = Expect(E[i])
    <3>1. i \in 1..n \/ i = n + 1
        BY <1>1
    <3>. QED  BY <1>2, <1>5, <2>1, <2>2, <2>3, <3>1 DEF h, E
  <2>. QED  BY <2>1, <2>2, <2>4 DEF Expected, h, E
<1>6. CASE /\ Upcoming(f).put /\ n > 1 /\ f.of.type = "array" /\ f.at = Len(f.of.body) + 1
           /\ tok = Tok("]", Nil) /\ Expect(f) = "item" /\ Onward(F) = Bump(Pop(F))
  <2>1. tok.is = "]"
      BY <1>6 DEF Tok
  <2>. QED  BY <1>2, <1>3, <1>4, <1>6, <2>1 DEF NotUtf8
<1>7. CASE /\ Upcoming(f).put /\ n > 1 /\ f.of.type = "object" /\ f.at + 1 = Len(Todo(f.of))
           /\ tok = Tok("}", Nil) /\ Expect(f) = "key" /\ Onward(F) = Bump(Pop(F))
  <2>1. tok.is = "}"
    <3>1. tok = Tok("}", Nil)
        BY <1>7
    <3>. HIDE DEF tok
    <3>. QED  BY <3>1 DEF Tok
  <2>. QED  BY <1>2, <1>3, <1>4, <1>7, <2>1 DEF NotUtf8
<1>8. CASE /\ Upcoming(f).put /\ n > 1 /\ f.of.type = "object" /\ f.at + 1 < Len(Todo(f.of))
           /\ Expect(f) = "key" /\ Onward(F) = Bump(F)
           /\ \E k \in DOMAIN f.of.body : k \in Name /\ tok = Tok("string", k)
                                          /\ Todo(f.of)[f.at + 2] = Visit(f.of.body[k])
  <2>1. PICK k \in DOMAIN f.of.body : k \in Name /\ tok = Tok("string", k)
                                      /\ Todo(f.of)[f.at + 2] = Visit(f.of.body[k])
      BY <1>8
  <2>2. tok.is = "string" /\ tok.v = k
      BY <2>1 DEF Tok
  <2>3. Takes(g, tok) <=> ~NotUtf8(tok)
      BY <1>2, <1>3, <1>8, <2>1, <2>2 DEF NotUtf8
  <2>. DEFINE E == Bump(F)
              h == [g EXCEPT ![Len(g)] = "value"]
  <2>4. Shift(g, tok) = h
      BY <1>2, <1>3, <1>8, <2>2
  <2>5. /\ Len(E) = n /\ (\A i \in 1..(n - 1) : E[i] = F[i])
        /\ Top(E).of = f.of /\ Top(E).at = f.at + 1
      BY <1>8, Bumped
  <2>6. Expect(Top(E)) = "value"
    <3>1. (f.at + 1) + 1 = f.at + 2
      <4>1. f.at \in Nat
          BY <1>1, FrameParts
      <4>. QED  BY <4>1
    <3>2. Upcoming(Top(E)) = Visit(f.of.body[k])
        BY <2>1, <2>5, <3>1 DEF Upcoming
    <3>. QED  BY <1>8, <2>5, <3>2, TwoCalls DEF Expect
  <2>7. h \in Seq(Expectation) /\ Len(h) = n /\ h[n] = "value" /\ \A i \in 1..(n - 1) : h[i] = g[i]
    <3>1. DOMAIN g = 1..n
        BY <1>2, LenProperties
    <3>2. h \in Seq(Expectation)
        BY <1>1, <1>2, ExceptSeq DEF Expectation
    <3>3. DOMAIN h = 1..n /\ DOMAIN h = 1..Len(h) /\ Len(h) \in Nat
        BY <3>1, <3>2, LenProperties
    <3>4. Len(h) = n
        BY <1>1, <3>3
    <3>5. h[n] = "value" /\ \A i \in 1..(n - 1) : h[i] = g[i]
      <4>1. h = [g EXCEPT ![n] = "value"]
          BY <1>2
      <4>2. \A i \in 1..(n - 1) : i \in 1..n /\ i # n
          BY <1>1
      <4>. HIDE DEF h, n
      <4>. QED  BY <1>1, <3>1, <4>1, <4>2
    <3>. QED  BY <3>2, <3>4, <3>5
  <2>. HIDE DEF E, h
  <2>8. \A i \in 1..n : h[i] = Expect(E[i])
    <3>. SUFFICES ASSUME NEW i \in 1..n PROVE h[i] = Expect(E[i])
        OBVIOUS
    <3>1. i = n \/ i \in 1..(n - 1)
        BY <1>1
    <3>2. CASE i = n
        BY <2>5, <2>6, <2>7, <3>2 DEF Top
    <3>3. CASE i \in 1..(n - 1)
        BY <1>1, <1>2, <2>5, <2>7, <3>3
    <3>. QED  BY <3>1, <3>2, <3>3
  <2>9. Expected(E, h)
      BY <2>5, <2>7, <2>8 DEF Expected
  <2>. QED  BY <1>8, <2>3, <2>4, <2>9 DEF E
<1>9. CASE /\ Upcoming(f) = Visit(u) /\ u \in Documents /\ u.type = "array" /\ tok = Tok("[", Nil)
           /\ Expect(f) \in {"start", "item", "value"} /\ Onward(F) = Append(F, Opening(f, u))
  <2>1. tok.is = "["
      BY <1>9 DEF Tok
  <2>2. Expect(Opening(f, u)) = "item" /\ Container(u) /\ "item" \in Expectation
      BY <1>9 DEF Expect, Opening, Container, Expectation
  <2>3. Expected(Onward(F), Append(g, "item"))
      BY <1>5, <1>9, <2>2
  <2>. QED  BY <1>2, <1>3, <1>9, <2>1, <2>3 DEF NotUtf8
<1>10. CASE /\ Upcoming(f) = Visit(u) /\ u \in Documents /\ u.type = "object" /\ tok = Tok("{", Nil)
            /\ Expect(f) \in {"start", "item", "value"} /\ Onward(F) = Append(F, Opening(f, u))
  <2>1. tok.is = "{"
    <3>1. tok = Tok("{", Nil)
        BY <1>10
    <3>. HIDE DEF tok
    <3>. QED  BY <3>1 DEF Tok
  <2>2. Container(u) /\ "key" \in Expectation
      BY <1>10 DEF Container, Expectation
  <2>3. Todo(u)[1 + 1].put
    <3>1. u \in Documents /\ u.type = "object"
        BY <1>10
    <3>. HIDE DEF u
    <3>2. Todo(u) = Calls(u)
        BY <3>1, TodoIsSeq
    <3>3. Calls(u)[2].put
        BY <3>1, CallsOfObject
    <3>4. 1 + 1 = 2
        OBVIOUS
    <3>. QED  BY <3>2, <3>3, <3>4
  <2>4. Expect(Opening(f, u)) = "key"
      BY <1>10, <2>3 DEF Expect, Opening, Upcoming
  <2>5. Expected(Onward(F), Append(g, "key"))
      BY <1>5, <1>10, <2>2, <2>4
  <2>. QED  BY <1>2, <1>3, <1>10, <2>1, <2>5 DEF NotUtf8
<1>11. CASE /\ Upcoming(f) = Visit(u) /\ u \in Documents /\ ~Container(u) /\ tok = TokenOf(u)
            /\ Expect(f) \in {"start", "item", "value"} /\ Onward(F) = Bump(F)
  <2>1. tok.is = u.type /\ tok.v = u.body /\ u.type \in {"string", "atom", "null"}
        /\ (u.type = "string" => u.body \in Name)
      BY <1>11, Kinds DEF Container, TokenOf, Tok
  <2>2. Expected(Onward(F), Got(g))
      BY <1>11, GotExpected, TwoCalls
  <2>3. s \in {"start", "item", "value"}
      BY <1>2, <1>11
  <2>4. Shift(g, tok) = Got(g)
      BY <1>3, <2>1, <2>3
  <2>5. Takes(g, tok) <=> ~NotUtf8(tok)
      BY <1>3, <2>1, <2>3 DEF NotUtf8
  <2>. QED  BY <2>2, <2>4, <2>5
<1>12. QED
  <2>. HIDE DEF n, f, tok, u, s
  <2>. QED  BY ZenonT(30), <1>6, <1>7, <1>8, <1>9, <1>10, <1>11, ComesNext DEF n, f, tok, u

-------------------------------------------------------------------------------
(* What the builder has.                                                   *)

\* What the builder has of a container grows by the value that comes.
LEMMA Growing ==
    ASSUME NEW d \in Documents, NEW F, Frames(d, F), NEW i \in 1..Len(F), i > 1, ~Upcoming(F[i]).put,
           NEW e, e.of = F[i].of, e.at = F[i].at + 1
    PROVE  LET l == Built(F[i])
               u == Upcoming(F[i]).what
           IN \/ l.val.type = "array" /\ Built(e) = Level(l.key, Longer(l.val, u))
              \/ l.val.type = "object" /\ Built(e) = Level(Nil, With(l.val, l.key, u))
<1>. DEFINE v == F[i].of
            a == F[i].at
            s == Calls(v)
            u == Upcoming(F[i]).what
            l == Built(F[i])
<1>1. v \in Documents /\ (v.type = "array" \/ v.type = "object") /\ a \in Nat /\ a >= 1
    BY FrameParts DEF Container
<1>2. Todo(v) = s /\ Todo(e.of) = s
    BY <1>1, TodoIsSeq
<1>3. a + 1 < Len(s) /\ Upcoming(F[i]) = s[a + 1] /\ Upcoming(e) = s[a + 2]
  <2>1. (a + 1) + 1 = a + 2
      BY <1>1
  <2>. QED  BY <1>2, <2>1, MoreFollows DEF Upcoming
<1>4. ~s[a + 1].put /\ s[a + 1].what = u
    BY <1>3
<1>5. CASE v.type = "array"
  <2>1. /\ Len(v.body) \in Nat /\ Len(s) = Len(v.body) + 2 /\ v.body \in Seq(Documents)
        /\ \A k \in 1..Len(v.body) : s[k + 1] = Visit(v.body[k])
      BY <1>1, <1>5, CallsOfArray, Kinds
  <2>2. u = v.body[a]
    <3>1. a \in 1..Len(v.body)
        BY <1>1, <1>3, <2>1
    <3>2. s[a + 1] = Visit(v.body[a])
        BY <2>1, <3>1
    <3>. QED  BY <1>4, <3>2, TwoCalls
  <2>. DEFINE m == [k \in 1..(a - 1) |-> v.body[k]]
              w == [k \in 1..a |-> v.body[k]]
  <2>3. l = Level(Nil, Val("array", m)) /\ Built(e) = Level(Nil, Val("array", w))
    <3>1. e.of.type = "array" /\ e.of.body = v.body /\ e.at - 1 = a
        BY <1>1, <1>5
    <3>. QED  BY <1>5, <3>1 DEF Built
  <2>4. Append(m, u) = w
    <3>. DEFINE n == a - 1
    <3>1. n \in Nat /\ a = n + 1
        BY <1>1
    <3>. DEFINE S == {v.body[k] : k \in 1..a}
    <3>2. m \in [1..n -> S] /\ u \in S /\ w \in [1..a -> S]
        BY <1>1, <2>2
    <3>3. m \in Seq(S) /\ Len(m) = n /\ w \in Seq(S) /\ Len(w) = a
      <4>. HIDE DEF m, w, n, S
      <4>1. m \in Seq(S)
          BY <3>1, <3>2, SeqDef
      <4>2. w \in Seq(S)
          BY <1>1, <3>2, SeqDef
      <4>3. DOMAIN m = 1..n /\ DOMAIN w = 1..a
          BY <3>2
      <4>. QED  BY <1>1, <3>1, <4>1, <4>2, <4>3, LenProperties
    <3>4. /\ Append(m, u) \in Seq(S) /\ Len(Append(m, u)) = n + 1 /\ Append(m, u)[n + 1] = u
          /\ \A k \in 1..n : Append(m, u)[k] = m[k]
      <4>. HIDE DEF m, u, S, n
      <4>. QED  BY <3>2, <3>3, AppendProperties
    <3>5. \A k \in 1..a : Append(m, u)[k] = w[k]
      <4>. SUFFICES ASSUME NEW k \in 1..a PROVE Append(m, u)[k] = w[k]
          OBVIOUS
      <4>1. k \in 1..n \/ k = n + 1
          BY <3>1
      <4>2. CASE k \in 1..n
          BY <3>4, <4>2
      <4>3. CASE k = n + 1
        <5>1. Append(m, u)[k] = u
            BY <3>4, <4>3
        <5>. QED  BY <2>2, <3>1, <4>3, <5>1
      <4>. QED  BY <4>1, <4>2, <4>3
    <3>. HIDE DEF m, w, S, n, u
    <3>. DEFINE x == Append(m, u)
    <3>6. x \in Seq(S) /\ Len(x) = a /\ \A k \in 1..a : x[k] = w[k]
        BY <3>1, <3>4, <3>5
    <3>. HIDE DEF x
    <3>7. x = w
        BY <3>3, <3>6, SeqEqual
    <3>. QED  BY <3>7 DEF x
  <2>. HIDE DEF m, w, l, u
  <2>5. l.val = Val("array", m) /\ l.key = Nil
      BY <2>3 DEF Level
  <2>6. l.val.type = "array" /\ l.val.body = m
      BY <2>5 DEF Val
  <2>7. Longer(l.val, u) = Val("array", w)
      BY <2>4, <2>6 DEF Longer
  <2>. QED  BY <2>3, <2>5, <2>6, <2>7 DEF l, u
<1>6. CASE v.type = "object"
  <2>1. /\ \A j \in 2..(Len(s) - 1) : s[j].put =>
             \E k \in DOMAIN v.body : s[j] = Put(Tok("string", k)) /\ s[j + 1] = Visit(v.body[k])
        /\ \A j \in 2..(Len(s) - 1) : ~s[j].put => j > 2 /\ s[j - 1].put /\ s[j + 1].put
        /\ Len(s) \in Nat
      BY <1>1, <1>6, CallsOfObject
  <2>2. a > 1 /\ s[a].put /\ s[a + 2].put
    <3>1. a + 1 \in 2..(Len(s) - 1) /\ (a + 1) - 1 = a /\ (a + 1) + 1 = a + 2
        BY <1>1, <1>3, <2>1
    <3>. HIDE DEF s, a
    <3>2. a + 1 > 2 /\ s[(a + 1) - 1].put /\ s[(a + 1) + 1].put
        BY <1>4, <2>1, <3>1
    <3>. QED  BY <1>1, <3>1, <3>2
  <2>3. PICK k \in DOMAIN v.body : s[a] = Put(Tok("string", k)) /\ s[a + 1] = Visit(v.body[k])
    <3>1. a \in 2..(Len(s) - 1)
        BY <1>1, <1>3, <2>1, <2>2
    <3>. QED  BY <2>1, <2>2, <3>1
  <2>4. u = v.body[k] /\ s[a].what.v = k
      BY <1>4, <2>3, TwoCalls DEF Tok
  <2>. DEFINE K == KeysRead(F[i])
  <2>5. KeysRead(e) = K \cup {k}
    <3>1. K = {s[j].what.v : j \in {j \in 2..(a - 1) : s[j].put}}
        BY <1>2 DEF KeysRead
    <3>2. KeysRead(e) = {s[j].what.v : j \in {j \in 2..a : s[j].put}}
      <4>1. e.at - 1 = a
          BY <1>1
      <4>. QED  BY <1>2, <4>1 DEF KeysRead
    <3>3. {j \in 2..a : s[j].put} = {j \in 2..(a - 1) : s[j].put} \cup {a}
      <4>1. 2..a = 2..(a - 1) \cup {a}
          BY <1>1, <2>2
      <4>. HIDE DEF s, a
      <4>. QED  BY <2>2, <4>1
    <3>. HIDE DEF K, s, a
    <3>. QED  BY <2>4, <3>1, <3>2, <3>3
  <2>6. /\ l = Level(k, Val("object", [n \in K |-> v.body[n]]))
        /\ Built(e) = Level(Nil, Val("object", [n \in KeysRead(e) |-> v.body[n]]))
    <3>1. Upcoming(e).put /\ ~Upcoming(F[i]).put /\ Todo(F[i].of)[F[i].at].what.v = k
        BY <1>2, <1>3, <2>2, <2>4
    <3>. QED  BY <1>6, <3>1 DEF Built
  <2>. HIDE DEF K, l, u
  <2>7. l.key = k /\ l.val = Val("object", [n \in K |-> v.body[n]])
      BY <2>6 DEF Level
  <2>8. l.val.type = "object" /\ l.val.body = [n \in K |-> v.body[n]]
      BY <2>7 DEF Val
  <2>. DEFINE b == l.val.body
  <2>9. DOMAIN b = K /\ \A n \in K : b[n] = v.body[n]
      BY <2>8
  <2>. HIDE DEF b
  <2>10. [n \in DOMAIN b \cup {k} |-> IF n \in DOMAIN b THEN b[n] ELSE u] = [n \in KeysRead(e) |-> v.body[n]]
      BY <2>4, <2>5, <2>9
  <2>11. With(l.val, l.key, u) = Val("object", [n \in KeysRead(e) |-> v.body[n]])
      BY <2>7, <2>10 DEF With, b
  <2>. QED  BY <2>6, <2>8, <2>11 DEF l, u
<1>. QED  BY <1>1, <1>5, <1>6

\* What the builder has of a container that ends is the container.
LEMMA WholeContainer ==
    ASSUME NEW d \in Documents, NEW F, Frames(d, F), NEW i \in 1..Len(F), i > 1, Upcoming(F[i]).put,
           \/ F[i].of.type = "array" /\ F[i].at = Len(F[i].of.body) + 1
           \/ F[i].of.type = "object" /\ F[i].at + 1 = Len(Todo(F[i].of))
    PROVE  Built(F[i]) = Level(Nil, F[i].of)
<1>. DEFINE v == F[i].of
            a == F[i].at
            s == Calls(v)
<1>1. v \in Documents /\ a \in Nat /\ Todo(v) = s /\ v = Val(v.type, v.body)
    BY FrameParts, TodoIsSeq, Kinds
<1>2. CASE v.type = "array" /\ a = Len(v.body) + 1
  <2>1. v.body \in Seq(Documents) /\ Len(v.body) \in Nat
      BY <1>1, <1>2, Kinds, LenProperties
  <2>2. a - 1 = Len(v.body)
      BY <1>2, <2>1
  <2>. DEFINE b == v.body
  <2>3. [k \in 1..Len(b) |-> b[k]] = b
    <3>. HIDE DEF b
    <3>1. b \in [1..Len(b) -> Documents]
        BY <2>1, LenProperties DEF b
    <3>. QED  BY <3>1
  <2>. QED  BY <1>1, <1>2, <2>2, <2>3 DEF Built
<1>3. CASE v.type = "object" /\ a + 1 = Len(s)
  <2>1. /\ \A j \in 2..(Len(s) - 1) : s[j].put =>
             \E k \in DOMAIN v.body : s[j] = Put(Tok("string", k)) /\ j + 1 < Len(s)
        /\ \A k \in DOMAIN v.body : \E j \in 2..(Len(s) - 1) : s[j] = Put(Tok("string", k))
        /\ Len(s) \in Nat
      BY <1>1, <1>3, CallsOfObject
  <2>2. KeysRead(F[i]) = {s[j].what.v : j \in {j \in 2..(a - 1) : s[j].put}}
      BY <1>1 DEF KeysRead
  <2>3. ASSUME NEW j \in 2..(a - 1), s[j].put
        PROVE  s[j].what.v \in DOMAIN v.body
    <3>1. j \in 2..(Len(s) - 1)
        BY <1>1, <1>3, <2>1
    <3>2. PICK k \in DOMAIN v.body : s[j] = Put(Tok("string", k))
        BY <2>1, <2>3, <3>1
    <3>3. s[j].what.v = k
        BY <3>2, TwoCalls DEF Tok
    <3>. QED  BY <3>3
  <2>4. ASSUME NEW k \in DOMAIN v.body
        PROVE  \E j \in 2..(a - 1) : s[j].put /\ s[j].what.v = k
    <3>1. PICK j \in 2..(Len(s) - 1) : s[j] = Put(Tok("string", k))
        BY <2>1
    <3>2. s[j].put /\ s[j].what.v = k
        BY <3>1, TwoCalls DEF Tok
    <3>3. j + 1 < Len(s)
        BY <2>1, <3>2
    <3>4. j \in 2..(a - 1)
        BY <1>1, <1>3, <2>1, <3>3
    <3>. QED  BY <3>2, <3>4
  <2>5. KeysRead(F[i]) = DOMAIN v.body
    <3>. HIDE DEF s, a
    <3>. QED  BY <2>2, <2>3, <2>4
  <2>6. v.body \in [DOMAIN v.body -> Documents]
      BY <1>1, <1>3, Kinds
  <2>7. [n \in KeysRead(F[i]) |-> v.body[n]] = v.body
      BY <2>5, <2>6
  <2>8. Built(F[i]) = Level(Nil, Val("object", v.body))
      BY <1>3, <2>7 DEF Built
  <2>. QED  BY <1>1, <1>3, <2>8
<1>. QED  BY <1>1, <1>2, <1>3

\* A value that was read takes its place in the innermost open container.
LEMMA ValuePlaced ==
    ASSUME NEW d \in Documents, NEW F, Frames(d, F), ~Ended(Top(F)), ~Upcoming(Top(F)).put,
           NEW c, IsSeq(c), Collected(d, F, c)
    PROVE  Collected(d, Bump(F), Build(c, Upcoming(Top(F)).what))
<1>. DEFINE n == Len(F)
            E == Bump(F)
            u == Upcoming(Top(F)).what
            b == Build(c, u)
<1>1. n \in Nat /\ n \in 1..n /\ Top(F) = F[n] /\ n > 0
    BY LenProperties DEF Frames, Top
<1>2. Len(c) = n - 1 /\ \A i \in 1..(n - 1) : c[i] = Built(F[i + 1])
    BY DEF Collected
<1>3. Len(F) > 1 => Top(F).at + 1 < Len(Todo(Top(F).of))
    BY <1>1, MoreFollows
<1>4. /\ Frames(d, E) /\ Len(E) = n /\ (\A i \in 1..(n - 1) : E[i] = F[i])
      /\ Top(E).of = Top(F).of /\ Top(E).at = Top(F).at + 1
    BY <1>3, Bumped
<1>5. CASE n = 1
  <2>1. Len(c) = 0
      BY <1>2, <1>5
  <2>2. c = <<>>
      BY <2>1, Lengths
  <2>3. b = <<Level(Nil, u)>>
      BY <2>2 DEF Build
  <2>4. /\ Top(F).of = Document(d) /\ Top(F).at \in Nat /\ Top(F).at \in 0..Len(Todo(Top(F).of))
        /\ Len(Todo(Document(d))) = 1 /\ Todo(Document(d))[1] = Visit(d)
    <3>1. F[n].of = Document(d)
        BY <1>1, <1>5, FrameParts
    <3>. QED  BY <1>1, <3>1, FrameParts, TodoIsSeq
  <2>5. Top(F).at = 0
      BY <2>4 DEF Ended
  <2>6. u = d
    <3>1. Upcoming(Top(F)) = Todo(Document(d))[0 + 1]
        BY <2>4, <2>5 DEF Upcoming
    <3>. QED  BY <2>4, <3>1, TwoCalls
  <2>7. Ended(Top(E))
      BY <1>4, <2>4, <2>5 DEF Ended
  <2>. QED  BY <2>3, <2>6, <2>7 DEF Collected
<1>6. CASE n > 1
  <2>. DEFINE l == c[n - 1]
  <2>1. n - 1 \in 1..(n - 1) /\ (n - 1) + 1 = n /\ Len(c) > 0 /\ c # <<>> /\ Top(c) = l
      BY <1>1, <1>2, <1>6, Lengths DEF Top
  <2>2. l = Built(F[n])
      BY <1>2, <2>1
  <2>3. \/ l.val.type = "array" /\ Built(Top(E)) = Level(l.key, Longer(l.val, u))
        \/ l.val.type = "object" /\ Built(Top(E)) = Level(Nil, With(l.val, l.key, u))
    <3>. DEFINE e == Top(E)
    <3>1. e.of = F[n].of /\ e.at = F[n].at + 1 /\ u = Upcoming(F[n]).what /\ ~Upcoming(F[n]).put
        BY <1>1, <1>4
    <3>. HIDE DEF e, l, u
    <3>2. \/ l.val.type = "array" /\ Built(e) = Level(l.key, Longer(l.val, u))
          \/ l.val.type = "object" /\ Built(e) = Level(Nil, With(l.val, l.key, u))
        BY <1>1, <1>6, <2>2, <3>1, Growing
    <3>. QED  BY <3>2 DEF e
  <2>4. b = Append(Pop(c), Built(Top(E)))
    <3>. HIDE DEF l
    <3>. QED  BY <2>1, <2>3 DEF Build
  <2>5. /\ IsSeq(Pop(c)) /\ Len(Pop(c)) = (n - 1) - 1
        /\ \A i \in 1..((n - 1) - 1) : Pop(c)[i] = c[i]
      BY <1>2, <2>1, Popped
  <2>6. /\ Len(b) = n - 1 /\ b[n - 1] = Built(Top(E))
        /\ \A i \in 1..((n - 1) - 1) : b[i] = c[i]
    <3>. DEFINE p == Pop(c)
                x == Built(Top(E))
    <3>. HIDE DEF p, x
    <3>1. /\ Len(Append(p, x)) = Len(p) + 1 /\ Append(p, x)[Len(p) + 1] = x
          /\ \A i \in 1..Len(p) : Append(p, x)[i] = p[i]
        BY <2>5, Appended DEF p
    <3>2. Len(p) + 1 = n - 1 /\ Len(p) = (n - 1) - 1
        BY <1>1, <2>5 DEF p
    <3>. QED  BY <2>4, <2>5, <3>1, <3>2 DEF p, x
  <2>7. ~Ended(Top(E))
    <3>1. Len(E) \in 1..Len(E)
        BY <1>1, <1>4
    <3>. QED  BY <1>4, <1>6, <3>1, FrameParts DEF Top
  <2>. HIDE DEF b, E, u
  <2>8. \A i \in 1..(n - 1) : b[i] = Built(E[i + 1])
    <3>. SUFFICES ASSUME NEW i \in 1..(n - 1) PROVE b[i] = Built(E[i + 1])
        OBVIOUS
    <3>1. i = n - 1 \/ (i \in 1..((n - 1) - 1) /\ i + 1 \in 1..(n - 1))
        BY <1>1
    <3>2. CASE i = n - 1
      <4>1. i + 1 = n
          BY <1>1, <3>2
      <4>. QED  BY <1>4, <2>6, <3>2, <4>1 DEF Top
    <3>3. CASE i \in 1..((n - 1) - 1) /\ i + 1 \in 1..(n - 1)
        BY <1>2, <1>4, <2>6, <3>3
    <3>. QED  BY <3>1, <3>2, <3>3
  <2>9. Collected(d, E, b)
      BY <1>4, <2>6, <2>7, <2>8 DEF Collected
  <2>. QED  BY <2>9 DEF E, b, u
<1>7. n = 1 \/ n > 1
  <2>. HIDE DEF n
  <2>. QED  BY <1>1
<1>. QED  BY <1>5, <1>6, <1>7

\* A container that was read takes its place in the one around it.
LEMMA ContainerPlaced ==
    ASSUME NEW d \in Documents, NEW F, Frames(d, F), ~Ended(Top(F)), Len(F) > 1,
           Built(Top(F)) = Level(Nil, Top(F).of),
           NEW c, IsSeq(c), Collected(d, F, c)
    PROVE  Collected(d, Bump(Pop(F)), End(c, Top(F).of.type))
<1>. DEFINE n == Len(F)
            P == Pop(F)
            p == Pop(c)
            v == Top(F).of
<1>1. n \in Nat /\ Top(F) = F[n] /\ n > 1
    BY LenProperties DEF Frames, Top
<1>2. Len(c) = n - 1 /\ \A i \in 1..(n - 1) : c[i] = Built(F[i + 1])
    BY DEF Collected
<1>3. Top(c) = Level(Nil, v) /\ Len(c) > 0
  <2>1. n - 1 \in 1..(n - 1) /\ (n - 1) + 1 = n /\ n - 1 > 0
      BY <1>1
  <2>. QED  BY <1>1, <1>2, <2>1 DEF Top
<1>4. End(c, v.type) = Build(p, v)
    BY <1>3 DEF End, Level
<1>5. IsSeq(p) /\ Len(p) = (n - 1) - 1 /\ \A i \in 1..((n - 1) - 1) : p[i] = c[i]
    BY <1>2, <1>3, Popped
<1>6. /\ Frames(d, P) /\ Len(P) = n - 1 /\ (\A i \in 1..(n - 1) : P[i] = F[i])
      /\ ~Ended(Top(P)) /\ Upcoming(Top(P)) = Visit(v)
    BY <1>1, PoppedFrames
<1>. HIDE DEF P, p
<1>7. \A i \in 1..((n - 1) - 1) : p[i] = Built(P[i + 1])
  <2>. SUFFICES ASSUME NEW i \in 1..((n - 1) - 1) PROVE p[i] = Built(P[i + 1])
      OBVIOUS
  <2>1. i \in 1..(n - 1) /\ i + 1 \in 1..(n - 1)
      BY <1>1
  <2>. QED  BY <1>2, <1>5, <1>6, <2>1
<1>8. Collected(d, P, p)
    BY <1>5, <1>6, <1>7 DEF Collected
<1>9. ~Upcoming(Top(P)).put /\ Upcoming(Top(P)).what = v
    BY <1>6, TwoCalls
<1>10. Collected(d, Bump(P), Build(p, v))
    BY <1>5, <1>6, <1>8, <1>9, ValuePlaced
<1>. QED  BY <1>4, <1>10 DEF P

\* A container that begins is empty.
LEMMA ContainerBegun ==
    ASSUME NEW d \in Documents, NEW F, Frames(d, F), ~Ended(Top(F)),
           NEW u \in Documents, Container(u), Upcoming(Top(F)) = Visit(u),
           NEW c, IsSeq(c), Collected(d, F, c)
    PROVE  Collected(d, Append(F, Opening(Top(F), u)),
                     Append(c, Level(Nil, IF u.type = "array" THEN EmptyArray ELSE EmptyObject)))
<1>. DEFINE n == Len(F)
            o == Opening(Top(F), u)
            x == Level(Nil, IF u.type = "array" THEN EmptyArray ELSE EmptyObject)
            E == Append(F, o)
            b == Append(c, x)
<1>1. n \in Nat /\ n > 0
    BY LenProperties DEF Frames
<1>2. Len(c) = n - 1 /\ \A i \in 1..(n - 1) : c[i] = Built(F[i + 1])
    BY DEF Collected
<1>3. Frames(d, E) /\ Len(E) = n + 1 /\ (\A i \in 1..n : E[i] = F[i]) /\ Top(E) = o
    BY Deeper
<1>4. Len(b) = (n - 1) + 1 /\ b[(n - 1) + 1] = x /\ \A i \in 1..(n - 1) : b[i] = c[i]
    BY <1>2, Appended
<1>5. Built(o) = x
  <2>1. o.of = u /\ o.at = 1
      BY DEF Opening
  <2>. HIDE DEF o
  <2>2. CASE u.type = "array"
    <3>1. o.at - 1 = 0 /\ 1..0 = {}
        BY <2>1
    <3>2. [i \in 1..(o.at - 1) |-> o.of.body[i]] = <<>>
        BY <3>1
    <3>. QED  BY <2>1, <2>2, <3>2 DEF Built, EmptyArray
  <2>3. CASE u.type = "object"
    <3>1. Upcoming(o).put
      <4>1. Todo(u) = Calls(u)
          BY TodoIsSeq
      <4>2. Calls(u)[2].put
          BY <2>3, CallsOfObject
      <4>3. o.at + 1 = 2
          BY <2>1
      <4>. QED  BY <2>1, <4>1, <4>2, <4>3 DEF Upcoming
    <3>2. KeysRead(o) = {}
      <4>1. 2..(o.at - 1) = {}
          BY <2>1
      <4>. QED  BY <4>1 DEF KeysRead
    <3>3. [k \in KeysRead(o) |-> o.of.body[k]] = [k \in {} |-> Nil]
        BY <3>2
    <3>. QED  BY <2>1, <2>3, <3>1, <3>3 DEF Built, EmptyObject
  <2>. QED  BY <2>2, <2>3 DEF Container
<1>6. ~Ended(Top(E))
  <2>1. n + 1 \in 1..(n + 1) /\ n + 1 # 1
      BY <1>1
  <2>. QED  BY ZenonT(30), <1>3, <2>1, FrameParts DEF Top
<1>. HIDE DEF E, b, o, x
<1>7. \A i \in 1..n : b[i] = Built(E[i + 1])
  <2>. SUFFICES ASSUME NEW i \in 1..n PROVE b[i] = Built(E[i + 1])
      OBVIOUS
  <2>1. CASE i = n
    <3>1. b[n] = x
      <4>1. (n - 1) + 1 = n
          BY <1>1
      <4>. QED  BY <1>4, <4>1
    <3>. QED  BY <1>3, <1>5, <2>1, <3>1 DEF Top
  <2>2. CASE i # n
    <3>1. i \in 1..(n - 1) /\ i + 1 \in 1..n
        BY <1>1, <2>2
    <3>. QED  BY <1>2, <1>3, <1>4, <3>1
  <2>. QED  BY <2>1, <2>2
<1>8. Len(b) = Len(E) - 1 /\ Len(E) - 1 = n
    BY <1>1, <1>3, <1>4
<1>9. Collected(d, E, b)
    BY <1>6, <1>7, <1>8 DEF Collected
<1>. QED  BY <1>9 DEF E, b, o, x

\* A key that was read waits for its value.
LEMMA KeyPlaced ==
    ASSUME NEW d \in Documents, NEW F, Frames(d, F), ~Ended(Top(F)), Len(F) > 1,
           Top(F).of.type = "object", Upcoming(Top(F)).put, Top(F).at + 1 < Len(Todo(Top(F).of)),
           NEW k, Upcoming(Top(F)).what = Tok("string", k),
           NEW c, IsSeq(c), Collected(d, F, c)
    PROVE  Collected(d, Bump(F), Append(Pop(c), Level(k, Top(c).val)))
<1>. DEFINE n == Len(F)
            E == Bump(F)
            e == Top(E)
            f == Top(F)
            v == f.of
            a == f.at
            s == Calls(v)
            x == Level(k, Top(c).val)
            b == Append(Pop(c), x)
<1>1. n \in Nat /\ n \in 1..n /\ f = F[n] /\ n > 1
    BY LenProperties DEF Frames, Top
<1>2. Len(c) = n - 1 /\ \A i \in 1..(n - 1) : c[i] = Built(F[i + 1])
    BY DEF Collected
<1>3. /\ Frames(d, E) /\ Len(E) = n /\ (\A i \in 1..(n - 1) : E[i] = F[i])
      /\ e.of = v /\ e.at = a + 1
    BY Bumped
<1>4. v \in Documents /\ a \in Nat /\ a >= 1 /\ Todo(v) = s
  <2>1. F[n].of \in Documents /\ F[n].at \in Nat /\ F[n].at >= 1
      BY <1>1, FrameParts
  <2>. QED  BY <1>1, <2>1, TodoIsSeq
<1>5. Len(c) > 0 /\ Top(c) = Built(f)
  <2>1. n - 1 \in 1..(n - 1) /\ (n - 1) + 1 = n /\ n - 1 > 0
      BY <1>1
  <2>. QED  BY <1>1, <1>2, <2>1 DEF Top
<1>6. a + 1 < Len(s) /\ Upcoming(f) = s[a + 1] /\ s[a + 1].put /\ s[a + 1].what.v = k
  <2>1. Tok("string", k).v = k
      BY DEF Tok
  <2>. QED  BY <1>4, <2>1 DEF Upcoming
<1>7. /\ \A j \in 2..(Len(s) - 1) : s[j].put => \E m \in DOMAIN v.body : s[j + 1] = Visit(v.body[m])
      /\ Len(s) \in Nat
    BY <1>4, CallsOfObject
<1>8. ~s[a + 2].put
  <2>1. a + 1 \in 2..(Len(s) - 1) /\ (a + 1) + 1 = a + 2
      BY <1>4, <1>6, <1>7
  <2>. QED  BY <1>6, <1>7, <2>1, TwoCalls
<1>9. a > 1 => ~s[a].put
  <2>. SUFFICES ASSUME a > 1, s[a].put PROVE FALSE
      OBVIOUS
  <2>1. a \in 2..(Len(s) - 1)
      BY <1>4, <1>6, <1>7
  <2>. HIDE DEF a, s
  <2>. QED  BY <1>6, <1>7, <2>1, TwoCalls
<1>10. KeysRead(e) = KeysRead(f)
  <2>1. KeysRead(f) = {s[j].what.v : j \in {j \in 2..(a - 1) : s[j].put}}
      BY <1>4 DEF KeysRead
  <2>2. KeysRead(e) = {s[j].what.v : j \in {j \in 2..a : s[j].put}}
    <3>1. e.at - 1 = a
        BY <1>3, <1>4
    <3>. QED  BY <1>3, <1>4, <3>1 DEF KeysRead
  <2>3. {j \in 2..a : s[j].put} = {j \in 2..(a - 1) : s[j].put}
    <3>. HIDE DEF a, s
    <3>1. a > 1 => 2..a = 2..(a - 1) \cup {a}
        BY <1>4
    <3>2. ~(a > 1) => 2..a = {} /\ 2..(a - 1) = {}
        BY <1>4
    <3>. QED  BY <1>9, <3>1, <3>2
  <2>. QED  BY <2>1, <2>2, <2>3
<1>11. Built(e) = x
  <2>1. e.at + 1 = a + 2
      BY <1>3, <1>4
  <2>2. Upcoming(e) = s[a + 2] /\ Todo(e.of)[e.at].what.v = k
      BY <1>3, <1>4, <1>6, <2>1 DEF Upcoming
  <2>3. Built(e) = Level(k, Val("object", [m \in KeysRead(f) |-> v.body[m]]))
    <3>1. ~Upcoming(e).put /\ e.of.type = "object"
        BY <1>3, <1>8, <2>2
    <3>. QED  BY <1>3, <1>10, <2>2, <3>1 DEF Built
  <2>4. Built(f).val = Val("object", [m \in KeysRead(f) |-> v.body[m]])
    <3>1. Built(f) = Level(Nil, Val("object", [m \in KeysRead(f) |-> v.body[m]]))
        BY DEF Built
    <3>. QED  BY <3>1 DEF Level
  <2>. QED  BY <1>5, <2>3, <2>4
<1>12. IsSeq(Pop(c)) /\ Len(Pop(c)) = (n - 1) - 1 /\ \A i \in 1..((n - 1) - 1) : Pop(c)[i] = c[i]
    BY <1>2, <1>5, Popped
<1>13. Len(b) = n - 1 /\ b[n - 1] = x /\ \A i \in 1..((n - 1) - 1) : b[i] = c[i]
  <2>. DEFINE p == Pop(c)
  <2>. HIDE DEF p, x
  <2>1. /\ Len(Append(p, x)) = Len(p) + 1 /\ Append(p, x)[Len(p) + 1] = x
        /\ \A i \in 1..Len(p) : Append(p, x)[i] = p[i]
      BY <1>12, Appended DEF p
  <2>2. Len(p) + 1 = n - 1 /\ Len(p) = (n - 1) - 1
      BY <1>1, <1>12 DEF p
  <2>. QED  BY <1>12, <2>1, <2>2 DEF p
<1>14. ~Ended(e)
  <2>1. Len(E) \in 1..Len(E)
      BY <1>1, <1>3
  <2>. QED  BY <1>1, <1>3, <2>1, FrameParts DEF Top
<1>. HIDE DEF b, x, E
<1>15. \A i \in 1..(n - 1) : b[i] = Built(E[i + 1])
  <2>. SUFFICES ASSUME NEW i \in 1..(n - 1) PROVE b[i] = Built(E[i + 1])
      OBVIOUS
  <2>1. i = n - 1 \/ (i \in 1..((n - 1) - 1) /\ i + 1 \in 1..(n - 1))
      BY <1>1
  <2>2. CASE i = n - 1
    <3>1. i + 1 = n
        BY <1>1, <2>2
    <3>. QED  BY <1>3, <1>11, <1>13, <2>2, <3>1 DEF Top
  <2>3. CASE i \in 1..((n - 1) - 1) /\ i + 1 \in 1..(n - 1)
      BY <1>2, <1>3, <1>13, <2>3
  <2>. QED  BY <2>1, <2>2, <2>3
<1>16. Collected(d, E, b)
    BY <1>3, <1>13, <1>14, <1>15 DEF Collected
<1>. QED  BY <1>16 DEF E, b, x

\* The builder has what was written so far, unless a null was among it.
LEMMA Gathered ==
    ASSUME NEW d \in Documents, NEW F, Frames(d, F), ~Ended(Top(F)), Says(F).is # "null",
           NEW g, Expected(F, g), NEW c, IsSeq(c), Collected(d, F, c)
    PROVE  Collected(d, Onward(F), Callback(c, Says(F), g[Len(g)] = "key"))
<1>. DEFINE n == Len(F)
            f == Top(F)
            tok == Says(F)
            u == Upcoming(f).what
            key == g[Len(g)] = "key"
            b == Callback(c, tok, key)
<1>1. n \in Nat /\ n \in 1..n /\ f = F[n] /\ n > 0
    BY LenProperties DEF Frames, Top
<1>2. g[Len(g)] = Expect(f)
    BY <1>1 DEF Expected
<1>3. b = CASE tok.is = "{" -> Append(c, Level(Nil, EmptyObject))
            [] tok.is = "[" -> Append(c, Level(Nil, EmptyArray))
            [] tok.is = "}" -> End(c, "object")
            [] tok.is = "]" -> End(c, "array")
            [] OTHER -> IF key THEN Append(Pop(c), Level(tok.v, Top(c).val)) ELSE Build(c, Scalar(tok))
    BY DEF Callback
<1>4. \A s, v : Tok(s, v).is = s /\ Tok(s, v).v = v
    BY DEF Tok
<1>5. CASE /\ Upcoming(f).put /\ n > 1 /\ f.of.type = "array" /\ f.at = Len(f.of.body) + 1
           /\ tok = Tok("]", Nil) /\ Expect(f) = "item" /\ Onward(F) = Bump(Pop(F))
  <2>1. Built(f) = Level(Nil, f.of)
      BY <1>1, <1>5, WholeContainer
  <2>2. tok.is = "]"
    <3>. HIDE DEF tok
    <3>. QED  BY <1>4, <1>5
  <2>3. b = End(c, "array")
    <3>. HIDE DEF b, tok, key
    <3>. QED  BY <1>3, <2>2
  <2>. QED  BY <1>5, <2>1, <2>3, ContainerPlaced
<1>6. CASE /\ Upcoming(f).put /\ n > 1 /\ f.of.type = "object" /\ f.at + 1 = Len(Todo(f.of))
           /\ tok = Tok("}", Nil) /\ Expect(f) = "key" /\ Onward(F) = Bump(Pop(F))
  <2>1. Built(f) = Level(Nil, f.of)
      BY <1>1, <1>6, WholeContainer
  <2>2. tok.is = "}"
    <3>. HIDE DEF tok
    <3>. QED  BY <1>4, <1>6
  <2>3. b = End(c, "object")
    <3>. HIDE DEF b, tok, key
    <3>. QED  BY <1>3, <2>2
  <2>4. Collected(d, Bump(Pop(F)), End(c, Top(F).of.type))
      BY <1>6, <2>1, ContainerPlaced
  <2>5. Collected(d, Bump(Pop(F)), End(c, "object"))
      BY <1>6, <2>4
  <2>. HIDE DEF b
  <2>6. Collected(d, Onward(F), b)
      BY <1>6, <2>3, <2>5
  <2>. QED  BY <2>6 DEF b
<1>7. CASE /\ Upcoming(f).put /\ n > 1 /\ f.of.type = "object" /\ f.at + 1 < Len(Todo(f.of))
           /\ Expect(f) = "key" /\ Onward(F) = Bump(F)
           /\ \E k \in DOMAIN f.of.body : k \in Name /\ tok = Tok("string", k)
                                          /\ Todo(f.of)[f.at + 2] = Visit(f.of.body[k])
  <2>1. PICK k : tok = Tok("string", k)
      BY <1>7
  <2>2. tok.is = "string" /\ tok.v = k /\ key
    <3>. HIDE DEF tok
    <3>. QED  BY <1>2, <1>4, <1>7, <2>1
  <2>3. b = Append(Pop(c), Level(k, Top(c).val))
    <3>. HIDE DEF b, tok, key
    <3>. QED  BY <1>3, <2>2
  <2>4. u = Tok("string", k)
      BY <1>7, <2>1 DEF Says
  <2>5. Collected(d, Bump(F), Append(Pop(c), Level(k, Top(c).val)))
      BY <1>7, <2>4, KeyPlaced
  <2>. HIDE DEF b
  <2>6. Collected(d, Onward(F), b)
      BY <1>7, <2>3, <2>5
  <2>. QED  BY <2>6 DEF b
<1>8. CASE /\ Upcoming(f) = Visit(u) /\ u \in Documents /\ u.type = "array" /\ tok = Tok("[", Nil)
           /\ Expect(f) \in {"start", "item", "value"} /\ Onward(F) = Append(F, Opening(f, u))
  <2>1. tok.is = "["
    <3>. HIDE DEF tok
    <3>. QED  BY <1>4, <1>8
  <2>2. b = Append(c, Level(Nil, EmptyArray))
    <3>. HIDE DEF b, tok, key
    <3>. QED  BY <1>3, <2>1
  <2>3. Container(u)
      BY <1>8 DEF Container
  <2>4. Collected(d, Append(F, Opening(f, u)),
                  Append(c, Level(Nil, IF u.type = "array" THEN EmptyArray ELSE EmptyObject)))
      BY <1>8, <2>3, ContainerBegun
  <2>. HIDE DEF b, u, f
  <2>5. Collected(d, Onward(F), b)
      BY <1>8, <2>2, <2>4
  <2>. QED  BY <2>5 DEF b
<1>9. CASE /\ Upcoming(f) = Visit(u) /\ u \in Documents /\ u.type = "object" /\ tok = Tok("{", Nil)
           /\ Expect(f) \in {"start", "item", "value"} /\ Onward(F) = Append(F, Opening(f, u))
  <2>1. tok.is = "{"
    <3>. HIDE DEF tok
    <3>. QED  BY <1>4, <1>9
  <2>2. b = Append(c, Level(Nil, EmptyObject))
    <3>. HIDE DEF b, tok, key
    <3>. QED  BY <1>3, <2>1
  <2>3. Container(u)
      BY <1>9 DEF Container
  <2>4. Collected(d, Append(F, Opening(f, u)),
                  Append(c, Level(Nil, IF u.type = "array" THEN EmptyArray ELSE EmptyObject)))
      BY <1>9, <2>3, ContainerBegun
  <2>. HIDE DEF b, u, f
  <2>5. Collected(d, Onward(F), b)
      BY <1>9, <2>2, <2>4
  <2>. QED  BY <2>5 DEF b
<1>10. CASE /\ Upcoming(f) = Visit(u) /\ u \in Documents /\ ~Container(u) /\ tok = TokenOf(u)
            /\ Expect(f) \in {"start", "item", "value"} /\ Onward(F) = Bump(F)
  <2>1. /\ tok.is = u.type /\ tok.v = u.body /\ u.type \in {"string", "atom", "null"}
        /\ u = Val(u.type, u.body)
      BY <1>10, Kinds DEF Container, TokenOf, Tok
  <2>2. Scalar(tok) = u
    <3>. HIDE DEF tok, u
    <3>1. tok.is # "null"
        BY DEF tok
    <3>. QED  BY <2>1, <3>1 DEF Scalar
  <2>3. ~key
      BY <1>2, <1>10
  <2>4. b = Build(c, u)
    <3>. HIDE DEF b, tok, key, u
    <3>. QED  BY <1>3, <2>1, <2>2, <2>3
  <2>5. ~Upcoming(f).put
      BY <1>10, TwoCalls
  <2>6. Collected(d, Bump(F), Build(c, u))
      BY <2>5, ValuePlaced
  <2>. QED  BY <1>10, <2>4, <2>6
<1>11. QED
  <2>. HIDE DEF n, f, tok, u, b
  <2>. QED  BY ZenonT(30), <1>5, <1>6, <1>7, <1>8, <1>9, <1>10, ComesNext DEF n, f, tok, u, b

-------------------------------------------------------------------------------
(* The text that was written, and how far it was read.                     *)

ReadSoFar(G) ==
    /\ Expected(G[pos], grammar)
    /\ \A i \in 1..pos : ~NotUtf8(text[i])
    /\ (\A i \in 1..pos : text[i].is # "null") => Collected(doc, G[pos], ctx)

\* The text is the document as far as it was written, what is left is still to be written, and
\* parser and builder are where the document is after the tokens that were read.
TextInv ==
    /\ step = "value" => doc # Nil
    /\ doc # Nil =>
         /\ doc \in Documents /\ text \in Seq(Token) /\ pos \in 0..Len(text)
         /\ \E G : Course(doc, text, G) /\ Due(G[Len(text)], todo) /\ (step # "refused" => ReadSoFar(G))
         /\ step = "write" => pos = 0
         /\ step = "value" => pos = Len(text) /\ Complete
         /\ step = "refused" => todo # <<>> \/ \E i \in 1..Len(text) : NotUtf8(text[i])

\* The parser is done where the document is at its end, and there nothing is left to write.
LEMMA EndReached ==
    ASSUME NEW d \in Documents, NEW F, Frames(d, F), NEW g, Expected(F, g), NEW r, Due(F, r)
    PROVE  /\ Ended(Top(F)) <=> r = <<>>
           /\ Ended(Top(F)) <=> g[Len(g)] = "done"
<1>. DEFINE n == Len(F)
            f == Top(F)
<1>1. n \in Nat /\ n \in 1..n /\ f = F[n]
    BY LenProperties DEF Frames, Top
<1>2. g[Len(g)] = Expect(f)
    BY <1>1 DEF Expected
<1>3. /\ Ended(f) => f.of = Document(d) /\ f.at = 1
      /\ f.of \in {Document(d)} \cup Documents /\ f.at \in Nat
    BY <1>1, FrameParts
<1>4. f.of = Document(d) => f.of.type = "document" /\ Len(Todo(f.of)) = 1
    BY TodoIsSeq DEF Document, Val
<1>5. f.of \in Documents => f.of.type \in {"string", "atom", "null", "array", "object"}
    BY Kinds
<1>6. f.at \in 0..Len(Todo(f.of))
    BY <1>1, FrameParts
<1>7. Ended(f) <=> Expect(f) = "done"
  <2>1. CASE f.of = Document(d)
    <3>1. f.at = 0 \/ f.at = 1
      <4>1. f.at \in 0..1
          BY <1>4, <1>6, <2>1
      <4>. HIDE DEF f
      <4>. QED  BY <4>1
    <3>2. Expect(f) = IF f.at = 0 THEN "start" ELSE "done"
        BY <1>4, <2>1 DEF Expect
    <3>3. Ended(f) <=> f.at = 1
        BY <1>4, <2>1 DEF Ended
    <3>. QED  BY <3>1, <3>2, <3>3
  <2>2. CASE f.of # Document(d)
    <3>1. ~Ended(f) /\ f.of.type \in {"string", "atom", "null", "array", "object"}
        BY <1>3, <1>5, <2>2
    <3>. QED  BY <3>1 DEF Expect
  <2>. QED  BY <2>1, <2>2
<1>8. Ended(f) => r = <<>>
  <2>. SUFFICES ASSUME Ended(f) PROVE r = <<>>
      OBVIOUS
  <2>1. r = Rest(f)
      BY DEF Due
  <2>2. Rest(F[n]) = <<>>
      BY <1>1, Rests
  <2>. QED  BY <1>1, <2>1, <2>2
<1>9. ~Ended(f) => r # <<>>
  <2>. SUFFICES ASSUME ~Ended(f) PROVE r # <<>>
      OBVIOUS
  <2>1. Rest(F[n]) # <<>> /\ Upcoming(F[n]) \in AnyCall /\ Beyond(F[n]) \in Seq(AnyCall)
      BY <1>1, Rests
  <2>2. CASE r = Rest(f)
      BY <1>1, <2>1, <2>2
  <2>3. CASE ~Upcoming(f).put /\ r = Calls(Upcoming(f).what) \o Beyond(f)
    <3>1. Upcoming(f).what \in Documents
        BY <1>1, <2>1, <2>3, TwoCalls
    <3>2. Calls(Upcoming(f).what) \o Beyond(f) # <<>>
        BY <1>1, <2>1, <3>1, Looked
    <3>. QED  BY <2>3, <3>2
  <2>. QED  BY <2>2, <2>3 DEF Due
<1>. QED  BY <1>2, <1>7, <1>8, <1>9

\* At the start nothing is written.
LEMMA TextStarts == JsonInit => TextInv
<1>. SUFFICES ASSUME JsonInit PROVE TextInv
    OBVIOUS
<1>1. CASE JsonIdle
    BY <1>1 DEF JsonIdle, TextInv
<1>2. CASE /\ doc \in Documents /\ todo = <<Visit(doc)>> /\ text = <<>> /\ pos = 0
           /\ grammar = <<"start">> /\ ctx = <<>> /\ step = "write"
  <2>. DEFINE S == Start(doc)
              G == [p \in {0} |-> S]
  <2>1. Frames(doc, S) /\ Len(S) = 1 /\ Due(S, <<Visit(doc)>>)
      BY <1>2, Begun
  <2>2. S[1] = [of |-> Document(doc), at |-> 0, below |-> <<>>] /\ Top(S) = S[1]
      BY <2>1 DEF Start, Top
  <2>3. Expect(S[1]) = "start" /\ ~Ended(Top(S))
    <3>1. S[1].of = Document(doc) /\ S[1].at = 0
        BY <2>2
    <3>2. Document(doc).type = "document"
        BY DEF Document, Val
    <3>3. Len(Todo(Document(doc))) = 1
        BY <1>2, TodoIsSeq
    <3>. HIDE DEF S
    <3>. QED  BY <2>2, <3>1, <3>2, <3>3 DEF Expect, Ended
  <2>4. text \in Seq(Token) /\ Len(text) = 0
      BY <1>2, EmptySeq
  <2>. HIDE DEF S
  <2>5. Expected(S, grammar)
    <3>1. Len(grammar) = 1 /\ grammar[1] = "start"
        BY <1>2
    <3>. QED  BY <2>1, <2>3, <3>1 DEF Expected
  <2>6. Collected(doc, S, ctx)
      BY <1>2, <2>1, <2>3, EmptySeq DEF Collected
  <2>7. G[0] = S
      OBVIOUS
  <2>. HIDE DEF G
  <2>8. Course(doc, text, G)
      BY <2>1, <2>4, <2>7 DEF Course, S
  <2>9. ReadSoFar(G)
      BY <1>2, <2>5, <2>6, <2>7 DEF ReadSoFar
  <2>10. Due(G[Len(text)], todo)
      BY <1>2, <2>1, <2>4, <2>7
  <2>11. pos \in 0..Len(text)
      BY <1>2, <2>4
  <2>. QED  BY <1>2, <2>4, <2>8, <2>9, <2>10, <2>11 DEF TextInv
<1>. QED  BY <1>1, <1>2 DEF JsonInit

\* Every step keeps the text and what was read of it together with the document.
LEMMA TextGoesOn == JsonInv /\ JsonInv' /\ TextInv /\ [JsonNext]_jvars => TextInv'
<1>. SUFFICES ASSUME JsonInv, JsonInv', TextInv, [JsonNext]_jvars PROVE TextInv'
    OBVIOUS
<1>. DEFINE n == Len(text)
            d == doc
<1>1. ASSUME doc # Nil
      PROVE  /\ d \in Documents /\ text \in Seq(Token) /\ pos \in 0..n /\ n \in Nat
             /\ \E G : Course(d, text, G) /\ Due(G[n], todo) /\ (step # "refused" => ReadSoFar(G))
    BY <1>1, LenProperties DEF TextInv
<1>2. ASSUME Write, doc # Nil
      PROVE  TextInv'
  <2>1. PICK G : Course(d, text, G) /\ Due(G[n], todo) /\ ReadSoFar(G)
      BY <1>1, <1>2 DEF Write
  <2>2. step = "write" /\ todo # <<>> /\ pos = 0 /\ pos' = pos /\ step' = step /\ doc' = doc
        /\ grammar' = grammar /\ ctx' = ctx
      BY <1>2 DEF Write, TextInv
  <2>3. Frames(d, G[n]) /\ G[0] = Start(d)
      BY <1>1, <1>2, <2>1 DEF Course
  <2>4. CASE Head(todo).put
    <3>1. text' = Append(text, Head(todo).what) /\ todo' = Tail(todo)
        BY <1>2, <2>4 DEF Write
    <3>2. /\ ~Ended(Top(G[n])) /\ Head(todo).what = Says(G[n]) /\ Says(G[n]) \in Token
          /\ Due(Onward(G[n]), Tail(todo))
        BY <1>1, <1>2, <2>1, <2>2, <2>3, <2>4, Spelled
    <3>. DEFINE tok == Head(todo).what
    <3>3. tok \in Token /\ tok = Says(G[n])
        BY <3>2
    <3>. HIDE DEF tok
    <3>4. PICK H : Course(d, Append(text, tok), H) /\ H[n + 1] = Onward(G[n])
        BY <1>1, <1>2, <2>1, <3>2, <3>3, CourseGrows
    <3>5. text' \in Seq(Token) /\ Len(text') = n + 1
      <4>1. text' = Append(text, tok)
          BY <3>1 DEF tok
      <4>. QED  BY <1>1, <1>2, <3>3, <4>1, AppendProperties
    <3>6. Course(doc', text', H) /\ Due(H[Len(text')], todo')
        BY <2>2, <3>1, <3>2, <3>4, <3>5 DEF tok
    <3>7. H[0] = G[0]
        BY <2>3, <3>4 DEF Course
    <3>8. ReadSoFar(H)'
      <4>1. Expected(H[0], grammar) /\ Collected(doc, H[0], ctx)
          BY <2>1, <2>2, <3>7 DEF ReadSoFar
      <4>. QED  BY <2>2, <4>1 DEF ReadSoFar
    <3>9. pos' \in 0..Len(text')
        BY <1>1, <1>2, <2>2, <3>5
    <3>. QED  BY <1>1, <1>2, <2>2, <3>5, <3>6, <3>8, <3>9 DEF TextInv
  <2>5. CASE ~Head(todo).put
    <3>1. text' = text /\ todo' = Calls(Head(todo).what) \o Tail(todo)
        BY <1>2, <2>5 DEF Write
    <3>2. Due(G[n], todo')
        BY <1>1, <1>2, <2>1, <2>2, <2>3, <2>5, <3>1, Expanded
    <3>3. ReadSoFar(G)'
        BY <2>1, <2>2, <3>1 DEF ReadSoFar
    <3>. QED  BY <1>1, <1>2, <2>1, <2>2, <3>1, <3>2, <3>3 DEF TextInv
  <2>. QED  BY <2>4, <2>5
<1>3. ASSUME Write, doc = Nil
      PROVE  TextInv'
    BY <1>3 DEF Write, TextInv
<1>4. CASE Reopen
  <2>1. step = "write" /\ step' = "read" /\ UNCHANGED <<doc, todo, text, pos, grammar, ctx>>
      BY <1>4 DEF Reopen
  <2>2. \A G : ReadSoFar(G)' <=> ReadSoFar(G)
      BY <2>1 DEF ReadSoFar
  <2>. QED  BY <2>1, <2>2 DEF TextInv
<1>5. CASE Parse
  <2>1. PICK G : Course(d, text, G) /\ Due(G[n], todo) /\ ReadSoFar(G)
      BY <1>1, <1>5 DEF Parse
  <2>. DEFINE tok == text[pos + 1]
              F == G[pos]
              key == grammar[Len(grammar)] = "key"
  <2>2. /\ doc # Nil /\ step = "read" /\ pos < n /\ Feed(tok)
        /\ pos' = pos + 1 /\ doc' = doc /\ todo' = todo /\ text' = text
      BY <1>5 DEF Parse
  <2>3. d \in Documents /\ n \in Nat /\ pos \in 0..n /\ pos + 1 \in 1..n /\ (pos + 1) - 1 = pos /\ pos + 1 \in 0..n
      BY <1>1, <2>2
  <2>4. Frames(d, F) /\ ~Ended(Top(F)) /\ tok = Says(F) /\ G[pos + 1] = Onward(F)
    <3>1. /\ Frames(d, G[pos]) /\ ~Ended(Top(G[(pos + 1) - 1]))
          /\ text[pos + 1] = Says(G[(pos + 1) - 1]) /\ G[pos + 1] = Onward(G[(pos + 1) - 1])
        BY <2>1, <2>3 DEF Course
    <3>. QED  BY <2>3, <3>1
  <2>5. grammar \in Seq(Expectation) /\ IsSeq(ctx) /\ NoThrow'
      BY DEF JsonInv
  <2>6. /\ Takes(grammar, tok) <=> ~NotUtf8(tok)
        /\ Takes(grammar, tok) => Expected(G[pos + 1], Shift(grammar, tok))
    <3>1. Expected(F, grammar)
        BY <2>1 DEF ReadSoFar
    <3>. HIDE DEF tok, F
    <3>. QED  BY <2>3, <2>4, <2>5, <3>1, Understood
  <2>7. CASE ~Takes(grammar, tok)
    <3>1. step' = "refused" /\ NotUtf8(text[pos + 1])
        BY <2>2, <2>6, <2>7 DEF Feed
    <3>. QED  BY <1>1, <2>1, <2>2, <2>3, <3>1 DEF TextInv
  <2>8. CASE Takes(grammar, tok)
    <3>1. Calm(ctx, tok, key)
        BY <2>2, <2>5, <2>8 DEF Feed, NoThrow
    <3>2. grammar' = Shift(grammar, tok) /\ ctx' = Callback(ctx, tok, key) /\ step' = step
        BY <2>2, <2>8, <3>1 DEF Feed
    <3>3. 1..(pos + 1) = 1..pos \cup {pos + 1}
        BY <2>3
    <3>4. (\A i \in 1..(pos + 1) : text[i].is # "null") => Collected(d, G[pos + 1], ctx')
      <4>. SUFFICES ASSUME \A i \in 1..(pos + 1) : text[i].is # "null"
                    PROVE  Collected(d, G[pos + 1], ctx')
          OBVIOUS
      <4>1. Collected(d, F, ctx) /\ Expected(F, grammar)
          BY <2>1, <3>3 DEF ReadSoFar
      <4>2. tok.is # "null"
          BY <3>3
      <4>. HIDE DEF tok, F
      <4>3. Collected(d, Onward(F), Callback(ctx, tok, key))
          BY <2>3, <2>4, <2>5, <4>1, <4>2, Gathered
      <4>. QED  BY <2>4, <3>2, <4>3
    <3>5. \A i \in 1..(pos + 1) : ~NotUtf8(text[i])
        BY <2>1, <2>6, <2>8, <3>3 DEF ReadSoFar
    <3>6. ReadSoFar(G)'
        BY <2>2, <2>6, <2>8, <3>2, <3>4, <3>5 DEF ReadSoFar
    <3>. QED  BY <1>1, <2>1, <2>2, <2>3, <3>2, <3>6 DEF TextInv
  <2>. QED  BY <2>7, <2>8
<1>6. CASE Finish
  <2>1. PICK G : Course(d, text, G) /\ Due(G[n], todo) /\ ReadSoFar(G)
      BY <1>1, <1>6 DEF Finish
  <2>2. /\ doc # Nil /\ step = "read" /\ pos = n
        /\ step' = IF ~Complete THEN "refused" ELSE IF HasResult THEN "value" ELSE "thrown"
        /\ UNCHANGED <<doc, todo, text, pos, grammar, ctx>>
      BY <1>6 DEF Finish
  <2>3. Complete <=> todo = <<>>
    <3>1. Frames(d, G[n])
        BY <1>1, <2>1, <2>2 DEF Course
    <3>2. Expected(G[n], grammar)
        BY <2>1, <2>2 DEF ReadSoFar
    <3>. QED  BY <1>1, <2>1, <2>2, <3>1, <3>2, EndReached DEF Complete
  <2>4. Complete' <=> Complete
      BY <2>2 DEF Complete
  <2>5. ReadSoFar(G)'
      BY <2>1, <2>2 DEF ReadSoFar
  <2>6. step' # "write" /\ (step' = "value" => Complete) /\ (step' = "refused" => todo # <<>>)
      BY <2>2, <2>3
  <2>. HIDE DEF d
  <2>7. Course(doc, text, G) /\ Due(G[Len(text)], todo) /\ doc \in Documents /\ text \in Seq(Token) /\ pos \in 0..Len(text)
      BY <1>1, <2>1, <2>2 DEF d
  <2>8. Course(doc, text, G)' /\ Due(G[Len(text)], todo)' /\ (doc \in Documents /\ text \in Seq(Token) /\ pos \in 0..Len(text))'
      BY <2>2, <2>7
  <2>. QED  BY <2>2, <2>4, <2>5, <2>6, <2>8 DEF TextInv
<1>7. ASSUME NEW tok \in Token, Receive(tok)
      PROVE  TextInv'
    BY <1>7 DEF Receive, Feed, TextInv
<1>8. CASE UNCHANGED jvars
  <2>1. UNCHANGED <<doc, todo, text, pos, grammar, ctx, step>>
      BY <1>8 DEF jvars
  <2>2. \A G : ReadSoFar(G)' <=> ReadSoFar(G)
      BY <2>1 DEF ReadSoFar
  <2>3. Complete' <=> Complete
      BY <2>1 DEF Complete
  <2>. QED  BY <2>1, <2>2, <2>3 DEF TextInv
<1>. QED  BY <1>2, <1>3, <1>4, <1>5, <1>6, <1>7, <1>8 DEF JsonNext

\* What the text is when it was read or refused.
LEMMA TextMeans == TextInv => OnlyWholeTexts /\ ReadBack
<1>. SUFFICES ASSUME TextInv PROVE OnlyWholeTexts /\ ReadBack
    OBVIOUS
<1>1. ASSUME step = "value"
      PROVE  /\ todo = <<>> /\ \A i \in 1..Len(text) : ~NotUtf8(text[i])
             /\ (\A i \in 1..Len(text) : text[i].is # "null") => ctx[1].val = doc
  <2>1. /\ doc \in Documents /\ pos = Len(text) /\ pos \in 0..Len(text) /\ Complete
        /\ \E G : Course(doc, text, G) /\ Due(G[Len(text)], todo) /\ ReadSoFar(G)
      BY <1>1 DEF TextInv
  <2>2. PICK G : Course(doc, text, G) /\ Due(G[Len(text)], todo) /\ ReadSoFar(G)
      BY <2>1
  <2>3. Frames(doc, G[pos]) /\ Expected(G[pos], grammar)
      BY <2>1, <2>2 DEF Course, ReadSoFar
  <2>4. Ended(Top(G[pos])) /\ todo = <<>>
      BY <2>1, <2>2, <2>3, EndReached DEF Complete
  <2>5. (\A i \in 1..Len(text) : text[i].is # "null") => ctx = <<Level(Nil, doc)>>
      BY <2>1, <2>2, <2>4 DEF ReadSoFar, Collected
  <2>6. \A i \in 1..Len(text) : ~NotUtf8(text[i])
      BY <2>1, <2>2 DEF ReadSoFar
  <2>. QED  BY <2>4, <2>5, <2>6 DEF Level
<1>2. OnlyWholeTexts
    BY <1>1 DEF OnlyWholeTexts
<1>3. ASSUME doc # Nil, todo = <<>>, step = "refused"
      PROVE  \E i \in 1..Len(text) : NotUtf8(text[i])
    BY <1>3 DEF TextInv
<1>4. ReadBack
    BY <1>1, <1>3 DEF ReadBack, NotUtf8
<1>. QED  BY <1>2, <1>4

\* Of a file that this program died writing, nothing is taken for the value, whatever was written
\* and wherever it was cut: only a text that was written to its end is read.
THEOREM HalfATextIsNoValue == JsonSpec => []OnlyWholeTexts
    BY JsonStarts, JsonGoesOn, TextStarts, TextGoesOn, TextMeans, PTL DEF JsonSpec

\* What was written is read again, for every document: a text is refused just when a string in it
\* is not UTF-8, and one without a null gives back the document that was written.
THEOREM WhatWasWrittenIsRead == JsonSpec => []ReadBack
    BY JsonStarts, JsonGoesOn, TextStarts, TextGoesOn, TextMeans, PTL DEF JsonSpec

-------------------------------------------------------------------------------
(* XML: the counts.                                                        *)

ImplRecord == [type : {"freed", "element", "attr", "text"}, name : Tag \cup {Anonymous},
               kids : Seq(Impl), element : Seq(Impl), attr : Seq(Impl)]

XmlType ==
    /\ impl \in [Impl -> ImplRecord]
    /\ ref \in [Impl -> Nat] /\ lost \in [Impl -> Nat]
    /\ handle \in [Slot -> Impl \cup {Nobody}]
    /\ stack \in Seq(Impl) /\ path \in Seq(Tag) /\ releasing \in Seq(Impl)

\* Where an Impl is found in a sequence, among the slots, and among the children.
In(s, i)      == {k \in DOMAIN s : s[k] = i}
By(hs, i)     == {h \in Slot : hs[h] = i}
KidsOf(heap_) == [i \in Impl |-> heap_[i].kids]
Below(ks, i)  == {p \in Impl \X Nat : p[2] \in DOMAIN ks[p[1]] /\ ks[p[1]][p[2]] = i}

Counted(i) ==
    /\ IsFiniteSet(By(handle, i)) /\ IsFiniteSet(Below(KidsOf(impl), i))
    /\ ref[i] = Cardinality(By(handle, i)) + Cardinality(In(stack, i))
                + Cardinality(In(releasing, i)) + Cardinality(Below(KidsOf(impl), i)) + lost[i]

\* What is freed is empty and uncounted; what is alive is counted.
Tidy(i) ==
    /\ Live(i) <=> ref[i] > 0
    /\ ~Live(i) => impl[i].kids = <<>> /\ impl[i].element = <<>> /\ impl[i].attr = <<>> /\ lost[i] = 0
    /\ ToSet(impl[i].element) \cup ToSet(impl[i].attr) \subseteq ToSet(impl[i].kids)

XmlCounts == \A i \in Impl : Counted(i) /\ Tidy(i)

-------------------------------------------------------------------------------
(* Occurrences.                                                            *)

\* A sequence has finitely many places.
LEMMA InFinite ==
    ASSUME NEW S, NEW s \in Seq(S), NEW i
    PROVE  IsFiniteSet(In(s, i)) /\ Cardinality(In(s, i)) \in Nat
<1>1. DOMAIN s = 1..Len(s) /\ Len(s) \in Nat
    BY LenProperties
<1>2. IsFiniteSet(1..Len(s))
    BY <1>1, FS_Interval
<1>3. In(s, i) \in SUBSET (1..Len(s))
    BY <1>1 DEF In
<1>4. IsFiniteSet(In(s, i))
    BY <1>2, <1>3, FS_Subset
<1>. QED  BY <1>4, FS_CardinalityType

\* The empty sequence has none.
LEMMA InEmpty ==
    ASSUME NEW i
    PROVE  In(<<>>, i) = {} /\ Cardinality(In(<<>>, i)) = 0
<1>1. In(<<>>, i) = {}
    BY DEF In
<1>. QED  BY <1>1, FS_EmptySet

\* One of one element.
LEMMA InSingle ==
    ASSUME NEW x, NEW i
    PROVE  Cardinality(In(<<x>>, i)) = IF x = i THEN 1 ELSE 0
<1>1. DOMAIN <<x>> = {1} /\ <<x>>[1] = x
    OBVIOUS
<1>2. CASE x = i
  <2>1. In(<<x>>, i) = {1}
      BY <1>1, <1>2 DEF In
  <2>. QED  BY <1>2, <2>1, FS_Singleton
<1>3. CASE x # i
  <2>1. In(<<x>>, i) = {}
      BY <1>1, <1>3 DEF In
  <2>. QED  BY <1>3, <2>1, FS_EmptySet
<1>. QED  BY <1>2, <1>3

\* A one-to-one image of a finite set is as large.
LEMMA SameSize ==
    ASSUME NEW S, NEW T, NEW f \in [S -> T], IsFiniteSet(S),
           \A a, b \in S : f[a] = f[b] => a = b,
           \A t \in T : \E a \in S : f[a] = t
    PROVE  IsFiniteSet(T) /\ Cardinality(T) = Cardinality(S)
<1>1. f \in Bijection(S, T)
    BY Fun_IsBij
<1>2. ExistsBijection(S, T)
    BY <1>1 DEF ExistsBijection
<1>. QED  BY <1>2, FS_Bijection

\* What is in s and then in t.
LEMMA InConcat ==
    ASSUME NEW S, NEW s \in Seq(S), NEW t \in Seq(S), NEW i
    PROVE  Cardinality(In(s \o t, i)) = Cardinality(In(s, i)) + Cardinality(In(t, i))
<1>. DEFINE n == Len(s)
            m == Len(t)
            B == {k \in (n + 1)..(n + m) : t[k - n] = i}
            f == [a \in In(t, i) |-> a + n]
<1>1. n \in Nat /\ m \in Nat /\ DOMAIN s = 1..n /\ DOMAIN t = 1..m
    BY LenProperties
<1>2. /\ s \o t \in Seq(S) /\ Len(s \o t) = n + m
      /\ \A k \in 1..(n + m) : (s \o t)[k] = IF k <= n THEN s[k] ELSE t[k - n]
    BY ConcatProperties
<1>3. DOMAIN (s \o t) = 1..(n + m)
    BY <1>2, LenProperties
<1>. HIDE DEF n, m
<1>4. IsFiniteSet(B) /\ Cardinality(B) = Cardinality(In(t, i))
  <2>1. f \in [In(t, i) -> B]
      BY <1>1 DEF In
  <2>2. \A a, b \in In(t, i) : f[a] = f[b] => a = b
      BY <1>1 DEF In
  <2>3. \A k \in B : \E a \in In(t, i) : f[a] = k
    <3>1. TAKE k \in B
    <3>2. k - n \in In(t, i) /\ f[k - n] = k
        BY <1>1 DEF In
    <3>. QED  BY <3>2
  <2>4. IsFiniteSet(In(t, i))
      BY InFinite
  <2>. HIDE DEF f, B
  <2>. QED  BY <2>1, <2>2, <2>3, <2>4, SameSize
<1>5. In(s \o t, i) = In(s, i) \cup B
    BY <1>1, <1>2, <1>3 DEF In
<1>6. In(s, i) \cap B = {}
    BY <1>1 DEF In
<1>7. IsFiniteSet(In(s, i)) /\ Cardinality(In(s, i)) \in Nat /\ Cardinality(In(t, i)) \in Nat
    BY InFinite
<1>. HIDE DEF B
<1>8. Cardinality(In(s, i) \cup B) = Cardinality(In(s, i)) + Cardinality(B) - Cardinality({})
    BY <1>4, <1>6, <1>7, FS_Union
<1>. QED  BY <1>4, <1>5, <1>7, <1>8, FS_EmptySet

\* One more.
LEMMA InAppend ==
    ASSUME NEW S, NEW s \in Seq(S), NEW x \in S, NEW i
    PROVE  Cardinality(In(Append(s, x), i)) = Cardinality(In(s, i)) + (IF x = i THEN 1 ELSE 0)
<1>1. Append(s, x) = s \o <<x>> /\ <<x>> \in Seq(S)
    BY AppendIsConcat
<1>2. Cardinality(In(s \o <<x>>, i)) = Cardinality(In(s, i)) + Cardinality(In(<<x>>, i))
    BY <1>1, InConcat
<1>3. Cardinality(In(<<x>>, i)) = IF x = i THEN 1 ELSE 0
    BY InSingle
<1>. QED  BY <1>1, <1>2, <1>3

\* One less.
LEMMA InTail ==
    ASSUME NEW S, NEW s \in Seq(S), s # <<>>, NEW i
    PROVE  /\ Tail(s) \in Seq(S) /\ Head(s) \in S
           /\ Cardinality(In(s, i)) = Cardinality(In(Tail(s), i)) + (IF Head(s) = i THEN 1 ELSE 0)
<1>1. Tail(s) \in Seq(S) /\ Head(s) \in S /\ <<Head(s)>> \in Seq(S)
    BY HeadTailProperties
<1>2. s = <<Head(s)>> \o Tail(s)
    OBVIOUS
<1>3. Cardinality(In(Tail(s), i)) \in Nat
    BY <1>1, InFinite
<1>4. Cardinality(In(s, i)) = Cardinality(In(<<Head(s)>>, i)) + Cardinality(In(Tail(s), i))
    BY ZenonT(30), <1>1, <1>2, InConcat
<1>5. Cardinality(In(<<Head(s)>>, i)) = IF Head(s) = i THEN 1 ELSE 0
    BY InSingle
<1>. QED  BY <1>1, <1>3, <1>4, <1>5

\* One less at the end.
LEMMA InFront ==
    ASSUME NEW S, NEW s \in Seq(S), s # <<>>, NEW i
    PROVE  /\ Front(s) \in Seq(S) /\ Last(s) \in S
           /\ Len(Front(s)) = Len(s) - 1 /\ \A k \in 1..(Len(s) - 1) : Front(s)[k] = s[k]
           /\ Cardinality(In(s, i)) = Cardinality(In(Front(s), i)) + (IF Last(s) = i THEN 1 ELSE 0)
<1>1. Len(s) \in Nat /\ Len(s) > 0
    BY EmptySeq, LenProperties
<1>2. Front(s) \in Seq(S) /\ Last(s) \in S /\ s = Append(Front(s), Last(s))
    BY <1>1, ElementOfSeq, LenProperties DEF Front, Last
<1>3. Len(Front(s)) = Len(s) - 1 /\ \A k \in 1..(Len(s) - 1) : Front(s)[k] = s[k]
  <2>. DEFINE n == Len(s) - 1
  <2>1. n \in Nat /\ \A k \in 1..n : s[k] \in S
      BY <1>1, ElementOfSeq
  <2>2. /\ Len(SubSeq(s, 1, n)) = IF 1 <= n THEN n - 1 + 1 ELSE 0
        /\ \A k \in 1..(n - 1 + 1) : SubSeq(s, 1, n)[k] = s[1 + k - 1]
    <3>. HIDE DEF n
    <3>. QED  BY <2>1, SubSeqProperties, 1 \in Int, n \in Int
  <2>3. n - 1 + 1 = n /\ \A k \in 1..n : 1 + k - 1 = k
      BY <2>1
  <2>. QED  BY <2>1, <2>2, <2>3 DEF Front
<1>4. Cardinality(In(Append(Front(s), Last(s)), i)) = Cardinality(In(Front(s), i)) + (IF Last(s) = i THEN 1 ELSE 0)
    BY <1>2, InAppend
<1>. QED  BY <1>2, <1>3, <1>4

\* What is found is counted, and the other way round.
LEMMA InSome ==
    ASSUME NEW S, NEW s \in Seq(S), NEW i
    PROVE  i \in ToSet(s) <=> Cardinality(In(s, i)) > 0
<1>1. i \in ToSet(s) <=> In(s, i) # {}
    BY DEF ToSet, In
<1>2. IsFiniteSet(In(s, i)) /\ Cardinality(In(s, i)) \in Nat
    BY InFinite
<1>. QED  BY <1>1, <1>2, FS_EmptySet

-------------------------------------------------------------------------------
(* Slots and children.                                                     *)

\* A slot gets x.
LEMMA ByAssigned ==
    ASSUME NEW hs \in [Slot -> Impl \cup {Nobody}], NEW h \in Slot, NEW x, NEW new,
           new[h] = x, \A k \in Slot \ {h} : new[k] = hs[k],
           NEW i \in Impl, IsFiniteSet(By(hs, i))
    PROVE  /\ IsFiniteSet(By(new, i))
           /\ Cardinality(By(new, i)) \in Nat /\ Cardinality(By(hs, i)) \in Nat
           /\ Cardinality(By(new, i)) + (IF hs[h] = i THEN 1 ELSE 0)
                 = Cardinality(By(hs, i)) + (IF x = i THEN 1 ELSE 0)
<1>. DEFINE rest == By(hs, i) \ {h}
<1>1. IsFiniteSet(rest) /\ Cardinality(rest) = IF h \in By(hs, i) THEN Cardinality(By(hs, i)) - 1
                                                                   ELSE Cardinality(By(hs, i))
    BY FS_RemoveElement
<1>2. h \in By(hs, i) <=> hs[h] = i
    BY DEF By
<1>3. By(new, i) = IF x = i THEN rest \cup {h} ELSE rest
    BY DEF By
<1>4. IsFiniteSet(rest \cup {h}) /\ Cardinality(rest \cup {h}) = Cardinality(rest) + 1
    BY <1>1, FS_AddElement
<1>5. Cardinality(By(hs, i)) \in Nat /\ Cardinality(rest) \in Nat
    BY <1>1, FS_CardinalityType
<1>. HIDE DEF rest
<1>. QED  BY <1>1, <1>2, <1>3, <1>4, <1>5

\* The children of one Impl change.
LEMMA BelowChanged ==
    ASSUME NEW ks \in [Impl -> Seq(Impl)], NEW ls \in [Impl -> Seq(Impl)], NEW j \in Impl,
           \A k \in Impl : k # j => ls[k] = ks[k],
           NEW i \in Impl, IsFiniteSet(Below(ks, i))
    PROVE  /\ IsFiniteSet(Below(ls, i))
           /\ Cardinality(Below(ks, i)) \in Nat /\ Cardinality(Below(ls, i)) \in Nat
           /\ Cardinality(Below(ls, i)) + Cardinality(In(ks[j], i))
                = Cardinality(Below(ks, i)) + Cardinality(In(ls[j], i))
<1>. DEFINE others == {p \in Below(ks, i) : p[1] # j}
            At(s) == {p \in {j} \X Nat : p[2] \in In(s, i)}
<1>1. IsFiniteSet(others)
    BY FS_Subset
<1>2. ASSUME NEW s \in Seq(Impl)
      PROVE  IsFiniteSet(At(s)) /\ Cardinality(At(s)) = Cardinality(In(s, i)) /\ Cardinality(In(s, i)) \in Nat
  <2>. DEFINE f == [k \in In(s, i) |-> <<j, k>>]
  <2>1. DOMAIN s \subseteq Nat
      BY LenProperties
  <2>2. f \in [In(s, i) -> At(s)]
      BY <2>1 DEF In
  <2>3. \A a, b \in In(s, i) : f[a] = f[b] => a = b
      OBVIOUS
  <2>4. \A p \in At(s) : \E a \in In(s, i) : f[a] = p
      OBVIOUS
  <2>5. IsFiniteSet(In(s, i)) /\ Cardinality(In(s, i)) \in Nat
      BY InFinite
  <2>. HIDE DEF f, At
  <2>. QED  BY ZenonT(30), <2>2, <2>3, <2>4, <2>5, SameSize
<1>3. Below(ks, i) = others \cup At(ks[j]) /\ others \cap At(ks[j]) = {}
  <2>1. \A k \in DOMAIN ks[j] : k \in Nat
      BY LenProperties
  <2>. QED  BY <2>1 DEF Below, In
<1>4. Below(ls, i) = others \cup At(ls[j]) /\ others \cap At(ls[j]) = {}
  <2>1. \A k \in DOMAIN ls[j] : k \in Nat
      BY LenProperties
  <2>. QED  BY <2>1 DEF Below, In
<1>5. ks[j] \in Seq(Impl) /\ ls[j] \in Seq(Impl)
    OBVIOUS
<1>a. /\ IsFiniteSet(At(ks[j])) /\ Cardinality(At(ks[j])) = Cardinality(In(ks[j], i)) /\ Cardinality(In(ks[j], i)) \in Nat
      /\ IsFiniteSet(At(ls[j])) /\ Cardinality(At(ls[j])) = Cardinality(In(ls[j], i)) /\ Cardinality(In(ls[j], i)) \in Nat
    BY <1>2, <1>5
<1>. HIDE DEF others, At
<1>b. ASSUME NEW A, NEW B, IsFiniteSet(A), IsFiniteSet(B), A \cap B = {}
      PROVE  IsFiniteSet(A \cup B) /\ Cardinality(A \cup B) = Cardinality(A) + Cardinality(B) - Cardinality({})
  <2>1. IsFiniteSet(A \cup B) /\ Cardinality(A \cup B) = Cardinality(A) + Cardinality(B) - Cardinality(A \cap B)
      BY <1>b, FS_Union
  <2>. QED  BY <1>b, <2>1
<1>6. Cardinality(Below(ks, i)) = Cardinality(others) + Cardinality(At(ks[j])) - Cardinality({})
    BY <1>1, <1>a, <1>3, <1>b
<1>7. /\ Cardinality(Below(ls, i)) = Cardinality(others) + Cardinality(At(ls[j])) - Cardinality({})
      /\ IsFiniteSet(Below(ls, i))
  <2>1. IsFiniteSet(At(ls[j])) /\ others \cap At(ls[j]) = {} /\ Below(ls, i) = others \cup At(ls[j])
      BY <1>a, <1>4
  <2>. QED  BY ZenonT(30), <1>1, <2>1, <1>b
<1>8. Cardinality(others) \in Nat /\ Cardinality({}) = 0
    BY <1>1, FS_CardinalityType, FS_EmptySet
<1>. QED  BY <1>a, <1>6, <1>7, <1>8

\* A child is counted.
LEMMA BelowSome ==
    ASSUME NEW ks \in [Impl -> Seq(Impl)], NEW i \in Impl, IsFiniteSet(Below(ks, i))
    PROVE  /\ Cardinality(Below(ks, i)) \in Nat
           /\ Cardinality(Below(ks, i)) > 0 <=> \E j \in Impl : i \in ToSet(ks[j])
<1>1. Below(ks, i) # {} <=> \E j \in Impl : i \in ToSet(ks[j])
  <2>1. \A j \in Impl : DOMAIN ks[j] \subseteq Nat
    <3>1. TAKE j \in Impl
    <3>. QED  BY LenProperties
  <2>2. ASSUME NEW j \in Impl, NEW k \in DOMAIN ks[j], ks[j][k] = i
        PROVE  <<j, k>> \in Below(ks, i)
      BY <2>1, <2>2 DEF Below
  <2>3. ASSUME NEW p \in Below(ks, i)
        PROVE  p[1] \in Impl /\ i \in ToSet(ks[p[1]])
      BY <2>3 DEF Below, ToSet
  <2>4. ASSUME NEW j \in Impl, i \in ToSet(ks[j])
        PROVE  Below(ks, i) # {}
    <3>1. PICK k \in DOMAIN ks[j] : ks[j][k] = i
        BY <2>4 DEF ToSet
    <3>. QED  BY <2>2, <3>1
  <2>. QED  BY <2>3, <2>4
<1>2. Cardinality(Below(ks, i)) \in Nat
    BY FS_CardinalityType
<1>. QED  BY <1>1, <1>2, FS_EmptySet

-------------------------------------------------------------------------------
(* The heap.                                                               *)

\* What records and sequences of Impls are.
LEMMA RecordType ==
    ASSUME XmlType, NEW i \in Impl
    PROVE  /\ impl[i] \in ImplRecord
           /\ impl[i].kids \in Seq(Impl) /\ impl[i].element \in Seq(Impl) /\ impl[i].attr \in Seq(Impl)
           /\ impl[i].type \in {"freed", "element", "attr", "text"} /\ impl[i].name \in Tag \cup {Anonymous}
           /\ i \in Nat /\ i # Nobody
    BY XmlAssumption DEF XmlType, ImplRecord, Impl, Nobody

\* An address that is free.
LEMMA NewIsFree ==
    ASSUME Free # {}
    PROVE  New \in Free /\ New \in Impl /\ ~Live(New)
<1>1. Free \subseteq Nat
    BY XmlAssumption DEF Free, Impl
<1>2. PICK i \in Free : \A j \in Free : ~(<<j, i>> \in OpToRel(<, Nat))
    BY <1>1, WFMin, NatLessThanWellFounded
<1>3. \A j \in Free : i <= j
  <2>1. TAKE j \in Free
  <2>2. i \in Nat /\ j \in Nat
      BY <1>1
  <2>3. ~(<<j, i>> \in OpToRel(<, Nat))
      BY <1>2
  <2>4. ~(j < i)
      BY <2>2, <2>3 DEF OpToRel
  <2>. QED  BY <2>2, <2>4
<1>4. New \in Free
    BY <1>3 DEF New
<1>. QED  BY <1>4 DEF Free

\* A new Impl is a record.
LEMMA FreshType ==
    ASSUME NEW t \in {"element", "attr", "text"}, NEW n \in Tag \cup {Anonymous}
    PROVE  /\ Fresh(t, n) \in ImplRecord
           /\ Fresh(t, n).type = t /\ Fresh(t, n).name = n
           /\ Fresh(t, n).kids = <<>> /\ Fresh(t, n).element = <<>> /\ Fresh(t, n).attr = <<>>
<1>1. <<>> \in Seq(Impl)
    BY EmptySeq
<1>. QED  BY <1>1 DEF Fresh, ImplRecord

\* A part of a sequence has no other elements.
LEMMA PartOf ==
    ASSUME NEW S, NEW v \in Seq(S), NEW a \in Nat \ {0}, NEW b \in Nat, b <= Len(v)
    PROVE  SubSeq(v, a, b) \in Seq(S) /\ ToSet(SubSeq(v, a, b)) \subseteq ToSet(v)
<1>1. Len(v) \in Nat /\ DOMAIN v = 1..Len(v)
    BY LenProperties
<1>2. \A k \in a..b : k \in DOMAIN v /\ v[k] \in ToSet(v) /\ v[k] \in S
    BY <1>1, ElementOfSeq DEF ToSet
<1>3. SubSeq(v, a, b) \in Seq(ToSet(v)) /\ SubSeq(v, a, b) \in Seq(S)
    BY <1>2, SubSeqProperties
<1>4. ToSet(SubSeq(v, a, b)) \subseteq ToSet(v)
  <2>. DEFINE u == SubSeq(v, a, b)
  <2>1. DOMAIN u = 1..Len(u) /\ \A k \in 1..Len(u) : u[k] \in ToSet(v)
      BY <1>3, LenProperties, ElementOfSeq
  <2>. QED  BY <2>1 DEF ToSet
<1>. QED  BY <1>3, <1>4

\* What is found in a vector is in it.
LEMMA NamedPart ==
    ASSUME NEW v \in Seq(Impl), NEW n
    PROVE  /\ Before(v, n) \in 0..Len(v) /\ UpTo(v, n) \in 0..Len(v)
           /\ Named(v, n) \in Seq(Impl) /\ ToSet(Named(v, n)) \subseteq ToSet(v)
<1>1. Len(v) \in Nat /\ DOMAIN v = 1..Len(v)
    BY LenProperties
<1>2. IsFiniteSet(1..Len(v)) /\ Cardinality(1..Len(v)) = Len(v)
  <2>1. Cardinality(1..Len(v)) = IF 1 > Len(v) THEN 0 ELSE Len(v) - 1 + 1
      BY <1>1, FS_Interval
  <2>. QED  BY <1>1, <2>1, FS_Interval
<1>3. ASSUME NEW T \in SUBSET (1..Len(v))
      PROVE  Cardinality(T) \in 0..Len(v)
  <2>1. IsFiniteSet(T) /\ Cardinality(T) <= Len(v)
      BY <1>2, FS_Subset
  <2>2. Cardinality(T) \in Nat
      BY <2>1, FS_CardinalityType
  <2>. QED  BY <1>1, <2>1, <2>2
<1>4. Before(v, n) \in 0..Len(v) /\ UpTo(v, n) \in 0..Len(v)
    BY <1>1, <1>3 DEF Before, UpTo
<1>5. Before(v, n) + 1 \in Nat \ {0} /\ UpTo(v, n) \in Nat /\ UpTo(v, n) <= Len(v)
    BY <1>1, <1>4
<1>6. SubSeq(v, Before(v, n) + 1, UpTo(v, n)) \in Seq(Impl)
      /\ ToSet(SubSeq(v, Before(v, n) + 1, UpTo(v, n))) \subseteq ToSet(v)
    BY <1>5, PartOf
<1>. QED  BY <1>4, <1>6 DEF Named

\* What two sequences hold together.
LEMMA ConcatSet ==
    ASSUME NEW S, NEW s \in Seq(S), NEW t \in Seq(S)
    PROVE  s \o t \in Seq(S) /\ ToSet(s \o t) = ToSet(s) \cup ToSet(t)
<1>1. s \o t \in Seq(S)
    BY ConcatProperties
<1>2. \A i : i \in ToSet(s \o t) <=> i \in ToSet(s) \/ i \in ToSet(t)
  <2>1. TAKE i
  <2>2. Cardinality(In(s \o t, i)) = Cardinality(In(s, i)) + Cardinality(In(t, i))
      BY InConcat
  <2>3. Cardinality(In(s, i)) \in Nat /\ Cardinality(In(t, i)) \in Nat
      BY InFinite
  <2>4. /\ i \in ToSet(s) <=> Cardinality(In(s, i)) > 0
        /\ i \in ToSet(t) <=> Cardinality(In(t, i)) > 0
        /\ i \in ToSet(s \o t) <=> Cardinality(In(s \o t, i)) > 0
      BY <1>1, InSome
  <2>. QED  BY <2>2, <2>3, <2>4
<1>. QED  BY <1>1, <1>2

\* What an insertion adds.
LEMMA Inserted ==
    ASSUME NEW v \in Seq(Impl), NEW j \in Impl, NEW n
    PROVE  Insert(v, j, n) \in Seq(Impl) /\ ToSet(Insert(v, j, n)) \subseteq ToSet(v) \cup {j}
<1>. DEFINE p == UpTo(v, n) + 1
            u == SubSeq(v, 1, p - 1)
            w == SubSeq(v, p, Len(v))
<1>1. Len(v) \in Nat /\ p \in Nat \ {0} /\ p - 1 \in Nat /\ p - 1 <= Len(v)
    BY LenProperties, NamedPart
<1>2. u \in Seq(Impl) /\ w \in Seq(Impl) /\ ToSet(u) \subseteq ToSet(v) /\ ToSet(w) \subseteq ToSet(v)
    BY <1>1, PartOf
<1>3. <<j>> \in Seq(Impl) /\ ToSet(<<j>>) = {j}
    BY DEF ToSet
<1>4. Insert(v, j, n) = (u \o <<j>>) \o w
    BY DEF Insert, InsertAt
<1>. HIDE DEF u, w
<1>5. u \o <<j>> \in Seq(Impl) /\ ToSet(u \o <<j>>) = ToSet(u) \cup {j}
  <2>. DEFINE one == <<j>>
  <2>1. one \in Seq(Impl) /\ ToSet(one) = {j}
      BY <1>3
  <2>. HIDE DEF one
  <2>2. u \o one \in Seq(Impl) /\ ToSet(u \o one) = ToSet(u) \cup ToSet(one)
      BY <1>2, <2>1, ConcatSet
  <2>. QED  BY <2>1, <2>2 DEF one
<1>. DEFINE x == u \o <<j>>
<1>6. x \o w \in Seq(Impl) /\ ToSet(x \o w) = ToSet(x) \cup ToSet(w)
  <2>1. x \in Seq(Impl)
      BY <1>5
  <2>. HIDE DEF x
  <2>. QED  BY <1>2, <2>1, ConcatSet
<1>. QED  BY <1>2, <1>4, <1>5, <1>6

\* Impl::Add, as far as it went.
LEMMA GrownRecord ==
    ASSUME NEW r \in ImplRecord, NEW j \in Impl, NEW t, NEW n
    PROVE  /\ Grown(r, j, t, n) \in ImplRecord
           /\ Grown(r, j, t, n).type = r.type /\ Grown(r, j, t, n).name = r.name
           /\ Grown(r, j, t, n).kids = Append(r.kids, j)
           /\ ToSet(Grown(r, j, t, n).kids) = ToSet(r.kids) \cup {j}
           /\ ToSet(Grown(r, j, t, n).element) \subseteq ToSet(r.element) \cup {j}
           /\ ToSet(Grown(r, j, t, n).attr) \subseteq ToSet(r.attr) \cup {j}
<1>1. r.kids \in Seq(Impl) /\ r.element \in Seq(Impl) /\ r.attr \in Seq(Impl)
    BY DEF ImplRecord
<1>2. Append(r.kids, j) \in Seq(Impl) /\ ToSet(Append(r.kids, j)) = ToSet(r.kids) \cup {j}
  <2>1. Append(r.kids, j) = r.kids \o <<j>> /\ <<j>> \in Seq(Impl) /\ ToSet(<<j>>) = {j}
      BY <1>1, AppendIsConcat DEF ToSet
  <2>2. r.kids \o <<j>> \in Seq(Impl) /\ ToSet(r.kids \o <<j>>) = ToSet(r.kids) \cup ToSet(<<j>>)
    <3>. DEFINE one == <<j>>
    <3>1. r.kids \in Seq(Impl) /\ one \in Seq(Impl)
        BY <1>1, <2>1
    <3>. HIDE DEF one
    <3>2. r.kids \o one \in Seq(Impl) /\ ToSet(r.kids \o one) = ToSet(r.kids) \cup ToSet(one)
        BY <3>1, ConcatSet
    <3>. QED  BY <3>2 DEF one
  <2>. QED  BY <2>1, <2>2
<1>3. /\ Insert(r.element, j, n) \in Seq(Impl) /\ ToSet(Insert(r.element, j, n)) \subseteq ToSet(r.element) \cup {j}
      /\ Insert(r.attr, j, n) \in Seq(Impl) /\ ToSet(Insert(r.attr, j, n)) \subseteq ToSet(r.attr) \cup {j}
    BY <1>1, Inserted
<1>. DEFINE e == IF t = "element" THEN Insert(r.element, j, n) ELSE r.element
            a == IF t = "attr" THEN Insert(r.attr, j, n) ELSE r.attr
<1>4. Grown(r, j, t, n) = [r EXCEPT !.kids = Append(r.kids, j), !.element = e, !.attr = a]
    BY DEF Grown
<1>5. e \in Seq(Impl) /\ a \in Seq(Impl) /\ ToSet(e) \subseteq ToSet(r.element) \cup {j} /\ ToSet(a) \subseteq ToSet(r.attr) \cup {j}
    BY <1>1, <1>3
<1>. HIDE DEF e, a
<1>. QED  BY <1>2, <1>4, <1>5 DEF ImplRecord

-------------------------------------------------------------------------------
(* What the counts say.                                                    *)

\* The children of every Impl.
LEMMA KidsType ==
    ASSUME XmlType
    PROVE  /\ KidsOf(impl) \in [Impl -> Seq(Impl)]
           /\ \A i \in Impl : KidsOf(impl)[i] = impl[i].kids
<1>1. \A i \in Impl : impl[i].kids \in Seq(Impl)
    BY RecordType
<1>. QED  BY <1>1 DEF KidsOf

\* The counts are numbers, and say who is referred to.
LEMMA CountTypes ==
    ASSUME XmlType, NEW i \in Impl, Counted(i)
    PROVE  /\ Cardinality(By(handle, i)) \in Nat
           /\ Cardinality(In(stack, i)) \in Nat
           /\ Cardinality(In(releasing, i)) \in Nat
           /\ Cardinality(Below(KidsOf(impl), i)) \in Nat
           /\ ref[i] \in Nat /\ lost[i] \in Nat
           /\ Cardinality(By(handle, i)) > 0 <=> \E h \in Slot : handle[h] = i
           /\ Cardinality(In(stack, i)) > 0 <=> i \in ToSet(stack)
           /\ Cardinality(In(releasing, i)) > 0 <=> i \in ToSet(releasing)
           /\ Cardinality(Below(KidsOf(impl), i)) > 0 <=> i \in Kids(Impl)
<1>1. /\ stack \in Seq(Impl) /\ releasing \in Seq(Impl) /\ ref[i] \in Nat /\ lost[i] \in Nat
      /\ IsFiniteSet(By(handle, i)) /\ IsFiniteSet(Below(KidsOf(impl), i))
    BY DEF XmlType, Counted
<1>2. /\ Cardinality(In(stack, i)) \in Nat /\ Cardinality(In(releasing, i)) \in Nat
      /\ Cardinality(In(stack, i)) > 0 <=> i \in ToSet(stack)
      /\ Cardinality(In(releasing, i)) > 0 <=> i \in ToSet(releasing)
    BY <1>1, InFinite, InSome
<1>3. Cardinality(By(handle, i)) \in Nat /\ (Cardinality(By(handle, i)) = 0 <=> By(handle, i) = {})
    BY <1>1, FS_CardinalityType, FS_EmptySet
<1>4. By(handle, i) # {} <=> \E h \in Slot : handle[h] = i
    BY DEF By
<1>5. /\ Cardinality(Below(KidsOf(impl), i)) \in Nat
      /\ Cardinality(Below(KidsOf(impl), i)) > 0 <=> \E j \in Impl : i \in ToSet(KidsOf(impl)[j])
    BY <1>1, KidsType, BelowSome
<1>6. i \in Kids(Impl) <=> \E j \in Impl : i \in ToSet(KidsOf(impl)[j])
    BY KidsType DEF Kids
<1>. QED  BY <1>1, <1>2, <1>3, <1>4, <1>5, <1>6

\* Whatever is referred to is alive.
LEMMA ReferredLive ==
    ASSUME XmlType, XmlCounts, NEW i \in Impl
    PROVE  /\ (\E h \in Slot : handle[h] = i) \/ i \in ToSet(stack) \/ i \in ToSet(releasing) \/ i \in Kids(Impl) => Live(i)
           /\ ~Live(i) => /\ ref[i] = 0 /\ lost[i] = 0
                          /\ Cardinality(By(handle, i)) = 0 /\ Cardinality(In(stack, i)) = 0
                          /\ Cardinality(In(releasing, i)) = 0 /\ Cardinality(Below(KidsOf(impl), i)) = 0
<1>1. Counted(i) /\ Tidy(i)
    BY DEF XmlCounts
<1>2. ref[i] = Cardinality(By(handle, i)) + Cardinality(In(stack, i))
                + Cardinality(In(releasing, i)) + Cardinality(Below(KidsOf(impl), i)) + lost[i]
    BY <1>1 DEF Counted
<1>3. (Live(i) <=> ref[i] > 0) /\ (~Live(i) => lost[i] = 0)
    BY <1>1 DEF Tidy
<1>. QED  BY <1>1, <1>2, <1>3, CountTypes

\* The invariant says that nothing dangles.
LEMMA CountsHold ==
    ASSUME XmlType, XmlCounts
    PROVE  NoDangling
<1>. SUFFICES ASSUME NEW i \in Held \cup Kids(Impl)
              PROVE  Live(i)
    BY DEF NoDangling
<1>1. stack \in Seq(Impl) /\ releasing \in Seq(Impl) /\ handle \in [Slot -> Impl \cup {Nobody}]
    BY DEF XmlType
<1>2. ToSet(stack) \subseteq Impl /\ ToSet(releasing) \subseteq Impl
    BY <1>1, LenProperties, ElementOfSeq DEF ToSet
<1>3. Kids(Impl) \subseteq Impl
  <2>1. \A j \in Impl : ToSet(impl[j].kids) \subseteq Impl
    <3>1. TAKE j \in Impl
    <3>2. impl[j].kids \in Seq(Impl)
        BY RecordType
    <3>. QED  BY <3>2, LenProperties, ElementOfSeq DEF ToSet
  <2>. QED  BY <2>1 DEF Kids
<1>4. CASE i \in Kids(Impl)
    BY <1>3, <1>4, ReferredLive
<1>5. CASE i \in Held
  <2>1. i \in ToSet(releasing) \/ i \in ToSet(stack) \/ (\E h \in Slot : handle[h] = i /\ i # Nobody)
      BY <1>5 DEF Held
  <2>2. i \in Impl
      BY <1>1, <1>2, <2>1
  <2>. QED  BY <2>1, <2>2, ReferredLive
<1>. QED  BY <1>4, <1>5

\* A slot is assigned: what it had is let go.
LEMMA Assigned ==
    ASSUME XmlType, Quiet, NEW h \in Slot, NEW x \in Impl \cup {Nobody}, Assign(h, x), NEW i \in Impl, Counted(i)
    PROVE  /\ handle' \in [Slot -> Impl \cup {Nobody}] /\ releasing' \in Seq(Impl)
           /\ IsFiniteSet(By(handle', i))
           /\ Cardinality(By(handle', i)) + Cardinality(In(releasing', i))
                = Cardinality(By(handle, i)) + (IF x = i THEN 1 ELSE 0)
           /\ Cardinality(In(releasing, i)) = 0
<1>1. handle' = [handle EXCEPT ![h] = x] /\ handle \in [Slot -> Impl \cup {Nobody}]
    BY DEF Assign, XmlType
<1>2. IsFiniteSet(By(handle, i))
    BY DEF Counted
<1>3. /\ IsFiniteSet(By(handle', i))
      /\ Cardinality(By(handle', i)) \in Nat /\ Cardinality(By(handle, i)) \in Nat
      /\ Cardinality(By(handle', i)) + (IF handle[h] = i THEN 1 ELSE 0)
            = Cardinality(By(handle, i)) + (IF x = i THEN 1 ELSE 0)
  <2>1. handle \in [Slot -> Impl \cup {Nobody}]
      BY DEF XmlType
  <2>2. handle'[h] = x /\ \A k \in Slot \ {h} : handle'[k] = handle[k]
      BY <1>1
  <2>. QED  BY <1>2, <2>1, <2>2, ByAssigned
<1>4. releasing' \in Seq(Impl) /\ Cardinality(In(releasing', i)) = IF handle[h] = i THEN 1 ELSE 0
  <2>1. CASE handle[h] = Nobody
    <3>1. releasing' = <<>>
        BY <2>1 DEF Assign
    <3>2. i # Nobody
        BY RecordType
    <3>. QED  BY <2>1, <3>1, <3>2, InEmpty, EmptySeq
  <2>2. CASE handle[h] # Nobody
    <3>1. releasing' = <<handle[h]>> /\ handle[h] \in Impl
        BY <1>1, <2>2 DEF Assign
    <3>2. Cardinality(In(<<handle[h]>>, i)) = IF handle[h] = i THEN 1 ELSE 0
        BY InSingle
    <3>. QED  BY <3>1, <3>2
  <2>. QED  BY <2>1, <2>2
<1>5. Cardinality(In(releasing, i)) = 0
    BY InEmpty DEF Quiet
<1>6. handle' \in [Slot -> Impl \cup {Nobody}]
    BY <1>1
<1>. QED  BY <1>3, <1>4, <1>5, <1>6

\* The children of one Impl change, and no others.
LEMMA KidsStep ==
    ASSUME XmlType, impl' \in [Impl -> ImplRecord], NEW j \in Impl,
           \A k \in Impl \ {j} : impl'[k].kids = impl[k].kids,
           NEW i \in Impl, Counted(i)
    PROVE  /\ IsFiniteSet(Below(KidsOf(impl'), i))
           /\ Cardinality(Below(KidsOf(impl'), i)) \in Nat
           /\ Cardinality(Below(KidsOf(impl'), i)) + Cardinality(In(impl[j].kids, i))
                = Cardinality(Below(KidsOf(impl), i)) + Cardinality(In(impl'[j].kids, i))
<1>. DEFINE ks == KidsOf(impl)
            ls == KidsOf(impl')
<1>1. ks \in [Impl -> Seq(Impl)] /\ \A k \in Impl : ks[k] = impl[k].kids
    BY KidsType
<1>2. \A k \in Impl : impl'[k].kids \in Seq(Impl)
    BY DEF ImplRecord
<1>3. ls \in [Impl -> Seq(Impl)] /\ \A k \in Impl : ls[k] = impl'[k].kids
    BY <1>2 DEF KidsOf
<1>4. IsFiniteSet(Below(ks, i))
    BY DEF Counted
<1>. HIDE DEF ks, ls
<1>5. \A k \in Impl : k # j => ls[k] = ks[k]
    BY <1>1, <1>3
<1>6. /\ IsFiniteSet(Below(ls, i)) /\ Cardinality(Below(ls, i)) \in Nat
      /\ Cardinality(Below(ls, i)) + Cardinality(In(ks[j], i)) = Cardinality(Below(ks, i)) + Cardinality(In(ls[j], i))
    BY <1>1, <1>3, <1>4, <1>5, BelowChanged
<1>7. ks[j] = impl[j].kids /\ ls[j] = impl'[j].kids
    BY <1>1, <1>3
<1>. QED  BY <1>6, <1>7 DEF ks, ls

-------------------------------------------------------------------------------
(* One step of the heap.                                                   *)

\* A new Impl that hangs nowhere.
LEMMA FreshHeap ==
    ASSUME XmlType, Free # {}, NEW t \in {"element", "attr", "text"}, NEW n \in Tag \cup {Anonymous},
           impl' = [impl EXCEPT ![New] = Fresh(t, n)]
    PROVE  /\ impl' \in [Impl -> ImplRecord]
           /\ impl'[New] = Fresh(t, n)
           /\ \A k \in Impl \ {New} : impl'[k] = impl[k]
<1>1. New \in Impl /\ impl \in [Impl -> ImplRecord]
    BY NewIsFree DEF XmlType
<1>2. Fresh(t, n) \in ImplRecord
    BY FreshType
<1>. QED  BY <1>1, <1>2

\* A new Impl that is added to one that is alive.
LEMMA AdoptHeap ==
    ASSUME XmlType, Free # {}, NEW i \in Impl, Live(i),
           NEW t \in {"element", "attr", "text"}, NEW n \in Tag \cup {Anonymous},
           impl' = [Adopt(i, New, t, n) EXCEPT ![New] = Fresh(t, n)]
    PROVE  /\ impl' \in [Impl -> ImplRecord] /\ i # New
           /\ impl'[New] = Fresh(t, n)
           /\ impl'[i] = Grown(impl[i], New, t, n)
           /\ \A k \in Impl \ {New, i} : impl'[k] = impl[k]
<1>1. New \in Impl /\ ~Live(New) /\ impl \in [Impl -> ImplRecord] /\ i # New
    BY NewIsFree DEF XmlType
<1>2. Fresh(t, n) \in ImplRecord /\ Grown(impl[i], New, t, n) \in ImplRecord
    BY <1>1, FreshType, GrownRecord
<1>3. impl' = [impl EXCEPT ![i] = Grown(impl[i], New, t, n), ![New] = Fresh(t, n)]
    BY DEF Adopt
<1>. HIDE DEF New
<1>. QED  BY <1>1, <1>2, <1>3

\* An Impl that is as it was.
LEMMA SameTidy ==
    ASSUME XmlType, XmlCounts, NEW i \in Impl, impl'[i] = impl[i], lost'[i] = lost[i], ref'[i] > 0 <=> ref[i] > 0
    PROVE  Tidy(i)'
<1>1. Tidy(i)
    BY DEF XmlCounts
<1>. QED  BY <1>1 DEF Tidy, Live

\* An Impl that is new.
LEMMA NewTidy ==
    ASSUME NEW i \in Impl, NEW t \in {"element", "attr", "text"}, NEW n \in Tag \cup {Anonymous},
           impl'[i] = Fresh(t, n), ref'[i] > 0
    PROVE  Tidy(i)'
<1>1. impl'[i].type # "freed" /\ impl'[i].element = <<>> /\ impl'[i].attr = <<>>
    BY FreshType
<1>2. ToSet(<<>>) = {}
    BY DEF ToSet
<1>. QED  BY <1>1, <1>2 DEF Tidy, Live

\* An Impl with one more child.
LEMMA GrownTidy ==
    ASSUME XmlType, XmlCounts, NEW i \in Impl, Live(i), NEW j \in Impl, NEW t, NEW n,
           impl'[i] = Grown(impl[i], j, t, n), ref'[i] > 0
    PROVE  Tidy(i)'
<1>1. ToSet(impl[i].element) \cup ToSet(impl[i].attr) \subseteq ToSet(impl[i].kids)
    BY DEF XmlCounts, Tidy
<1>2. impl[i] \in ImplRecord
    BY RecordType
<1>3. /\ impl'[i].type = impl[i].type /\ ToSet(impl'[i].kids) = ToSet(impl[i].kids) \cup {j}
      /\ ToSet(impl'[i].element) \subseteq ToSet(impl[i].element) \cup {j}
      /\ ToSet(impl'[i].attr) \subseteq ToSet(impl[i].attr) \cup {j}
  <2>1. PICK s : s = impl[i]
      OBVIOUS
  <2>2. s \in ImplRecord
      BY <1>2, <2>1
  <2>3. Grown(s, j, t, n).type = s.type
      BY <2>2, GrownRecord
  <2>4. ToSet(Grown(s, j, t, n).kids) = ToSet(s.kids) \cup {j}
      BY <2>2, GrownRecord
  <2>5. ToSet(Grown(s, j, t, n).element) \subseteq ToSet(s.element) \cup {j}
      BY <2>2, GrownRecord
  <2>6. ToSet(Grown(s, j, t, n).attr) \subseteq ToSet(s.attr) \cup {j}
      BY <2>2, GrownRecord
  <2>. QED  BY <2>1, <2>3, <2>4, <2>5, <2>6
<1>. QED  BY <1>1, <1>3 DEF Tidy, Live

\* No child is gained or lost by an Impl that is new, or unchanged.
LEMMA SameBelow ==
    ASSUME XmlType, XmlCounts, impl' \in [Impl -> ImplRecord],
           \A k \in Impl : impl'[k].kids = impl[k].kids, NEW i \in Impl
    PROVE  /\ IsFiniteSet(Below(KidsOf(impl'), i))
           /\ Cardinality(Below(KidsOf(impl'), i)) = Cardinality(Below(KidsOf(impl), i))
<1>1. KidsOf(impl') = KidsOf(impl)
    BY DEF KidsOf
<1>. QED  BY <1>1 DEF XmlCounts, Counted

\* One child is gained.
LEMMA OneBelow ==
    ASSUME XmlType, XmlCounts, impl' \in [Impl -> ImplRecord], NEW j \in Impl, NEW x \in Impl,
           \A k \in Impl \ {j} : impl'[k].kids = impl[k].kids,
           impl'[j].kids = Append(impl[j].kids, x), NEW i \in Impl
    PROVE  /\ IsFiniteSet(Below(KidsOf(impl'), i))
           /\ Cardinality(Below(KidsOf(impl'), i)) = Cardinality(Below(KidsOf(impl), i)) + (IF x = i THEN 1 ELSE 0)
<1>1. Counted(i)
    BY DEF XmlCounts
<1>2. impl[j].kids \in Seq(Impl)
    BY RecordType
<1>3. /\ IsFiniteSet(Below(KidsOf(impl'), i)) /\ Cardinality(Below(KidsOf(impl'), i)) \in Nat
      /\ Cardinality(Below(KidsOf(impl'), i)) + Cardinality(In(impl[j].kids, i))
           = Cardinality(Below(KidsOf(impl), i)) + Cardinality(In(impl'[j].kids, i))
    BY <1>1, KidsStep
<1>4. Cardinality(In(Append(impl[j].kids, x), i)) = Cardinality(In(impl[j].kids, i)) + (IF x = i THEN 1 ELSE 0)
    BY <1>2, InAppend
<1>5. Cardinality(In(impl[j].kids, i)) \in Nat /\ Cardinality(Below(KidsOf(impl), i)) \in Nat
    BY <1>1, <1>2, InFinite, CountTypes
<1>. QED  BY <1>3, <1>4, <1>5

-------------------------------------------------------------------------------
(* The counts are kept.                                                    *)

\* Nothing is referred to that is not counted, and nothing is alive that is not.
XmlSound == XmlType /\ XmlCounts

\* What the counts are made of.
LEMMA CountSum ==
    ASSUME XmlSound, NEW i \in Impl
    PROVE  /\ Counted(i) /\ Tidy(i)
           /\ ref[i] = Cardinality(By(handle, i)) + Cardinality(In(stack, i))
                + Cardinality(In(releasing, i)) + Cardinality(Below(KidsOf(impl), i)) + lost[i]
           /\ (Live(i) <=> ref[i] > 0)
<1>1. Counted(i) /\ Tidy(i) /\ XmlType
    BY DEF XmlSound, XmlCounts
<1>2. ref[i] = Cardinality(By(handle, i)) + Cardinality(In(stack, i))
                + Cardinality(In(releasing, i)) + Cardinality(Below(KidsOf(impl), i)) + lost[i]
    BY <1>1 DEF Counted
<1>3. Live(i) <=> ref[i] > 0
    BY <1>1 DEF Tidy
<1>. QED  BY <1>1, <1>2, <1>3

\* They are numbers.
LEMMA SumTypes ==
    ASSUME XmlSound, NEW i \in Impl
    PROVE  /\ Cardinality(By(handle, i)) \in Nat /\ Cardinality(In(stack, i)) \in Nat
           /\ Cardinality(In(releasing, i)) \in Nat /\ Cardinality(Below(KidsOf(impl), i)) \in Nat
           /\ ref[i] \in Nat /\ lost[i] \in Nat
<1>1. Counted(i) /\ XmlType
    BY DEF XmlSound, XmlCounts
<1>. QED  BY <1>1, CountTypes

\* What is free is referred to by nobody.
LEMMA NewIsZero ==
    ASSUME XmlSound, Free # {}
    PROVE  /\ New \in Impl /\ ~Live(New) /\ ref[New] = 0 /\ lost[New] = 0
           /\ Cardinality(By(handle, New)) = 0 /\ Cardinality(In(stack, New)) = 0
           /\ Cardinality(In(releasing, New)) = 0 /\ Cardinality(Below(KidsOf(impl), New)) = 0
           /\ impl[New].kids = <<>>
<1>1. New \in Impl /\ ~Live(New) /\ XmlType /\ XmlCounts
    BY NewIsFree DEF XmlSound
<1>2. impl[New].kids = <<>>
    BY <1>1 DEF XmlCounts, Tidy
<1>. QED  BY <1>1, <1>2, ReferredLive

\* The sum for one Impl after a step.
LEMMA SumAgain ==
    ASSUME NEW i \in Impl, IsFiniteSet(By(handle', i)), IsFiniteSet(Below(KidsOf(impl'), i)),
           ref'[i] = Cardinality(By(handle', i)) + Cardinality(In(stack', i))
                + Cardinality(In(releasing', i)) + Cardinality(Below(KidsOf(impl'), i)) + lost'[i]
    PROVE  Counted(i)'
    BY DEF Counted

\* A slot that is in use refers to an Impl that is alive.
LEMMA HandleLive ==
    ASSUME XmlSound, NEW h \in Slot, handle[h] # Nobody
    PROVE  handle[h] \in Impl /\ Live(handle[h])
<1>1. XmlType /\ XmlCounts /\ handle[h] \in Impl
    BY DEF XmlSound, XmlType
<1>. QED  BY <1>1, ReferredLive

\* Node::Node, Node::Element and Node::Text
LEMMA MakeSound ==
    ASSUME XmlSound, NEW h \in Slot, NEW t \in {"element", "attr", "text"}, NEW n \in Tag \cup {Anonymous}, Make(h, t, n)
    PROVE  XmlSound'
<1>. USE DEF XmlSound
<1>1. /\ Quiet /\ Free # {} /\ impl' = [impl EXCEPT ![New] = Fresh(t, n)] /\ ref' = [ref EXCEPT ![New] = 1]
      /\ Assign(h, New) /\ UNCHANGED <<stack, path, lost>>
    BY DEF Make, Call
<1>2. /\ New \in Impl /\ ~Live(New) /\ ref[New] = 0 /\ lost[New] = 0
      /\ Cardinality(By(handle, New)) = 0 /\ Cardinality(In(stack, New)) = 0
      /\ Cardinality(In(releasing, New)) = 0 /\ Cardinality(Below(KidsOf(impl), New)) = 0
      /\ impl[New].kids = <<>>
    BY <1>1, NewIsZero
<1>3. /\ impl' \in [Impl -> ImplRecord] /\ impl'[New] = Fresh(t, n) /\ \A k \in Impl \ {New} : impl'[k] = impl[k]
    BY <1>1, FreshHeap
<1>4. \A k \in Impl : impl'[k].kids = impl[k].kids
    BY <1>2, <1>3, FreshType
<1>5. ref' \in [Impl -> Nat] /\ ref'[New] = 1 /\ \A k \in Impl \ {New} : ref'[k] = ref[k]
    BY <1>1, <1>2 DEF XmlType
<1>6. XmlType'
  <2>1. Counted(New) /\ New \in Impl \cup {Nobody}
      BY <1>2 DEF XmlCounts
  <2>2. handle' \in [Slot -> Impl \cup {Nobody}] /\ releasing' \in Seq(Impl)
      BY <1>1, <1>2, <2>1, Assigned
  <2>. QED  BY <1>1, <1>3, <1>5, <2>2 DEF XmlType
<1>7. ASSUME NEW i \in Impl
      PROVE  Counted(i)' /\ Tidy(i)'
  <2>1. /\ IsFiniteSet(By(handle', i))
        /\ Cardinality(By(handle', i)) + Cardinality(In(releasing', i))
                = Cardinality(By(handle, i)) + (IF New = i THEN 1 ELSE 0)
        /\ Cardinality(In(releasing, i)) = 0
      BY <1>1, <1>2, Assigned DEF XmlCounts
  <2>2. IsFiniteSet(Below(KidsOf(impl'), i)) /\ Cardinality(Below(KidsOf(impl'), i)) = Cardinality(Below(KidsOf(impl), i))
      BY <1>3, <1>4, SameBelow
  <2>3. ref'[i] = ref[i] + (IF New = i THEN 1 ELSE 0)
      BY <1>2, <1>5
  <2>4. Cardinality(By(handle', i)) \in Nat /\ Cardinality(In(releasing', i)) \in Nat
    <3>1. releasing' \in Seq(Impl)
        BY <1>6 DEF XmlType
    <3>. QED  BY <2>1, <3>1, InFinite, FS_CardinalityType
  <2>5. ref'[i] = Cardinality(By(handle', i)) + Cardinality(In(stack', i))
                + Cardinality(In(releasing', i)) + Cardinality(Below(KidsOf(impl'), i)) + lost'[i]
    <3>1. /\ stack' = stack /\ lost'[i] = lost[i]
          /\ ref[i] = Cardinality(By(handle, i)) + Cardinality(In(stack, i))
                + Cardinality(In(releasing, i)) + Cardinality(Below(KidsOf(impl), i)) + lost[i]
        BY <1>1, CountSum
    <3>2. /\ Cardinality(By(handle, i)) \in Nat /\ Cardinality(In(stack, i)) \in Nat
          /\ Cardinality(Below(KidsOf(impl), i)) \in Nat /\ lost[i] \in Nat
        BY SumTypes
    <3>. QED  BY <2>1, <2>2, <2>3, <2>4, <3>1, <3>2
  <2>6. Counted(i)'
      BY <2>1, <2>2, <2>5, SumAgain
  <2>7. CASE i = New
      BY <1>3, <1>5, <2>6, <2>7, NewTidy
  <2>8. CASE i # New
    <3>1. impl'[i] = impl[i] /\ lost'[i] = lost[i] /\ ref'[i] = ref[i]
        BY <1>1, <1>3, <1>5, <2>8
    <3>. QED  BY <2>6, <3>1, SameTidy
  <2>. QED  BY <2>6, <2>7, <2>8
<1>. QED  BY <1>6, <1>7 DEF XmlCounts

\* The sum for one Impl, when what is gained is counted.
LEMMA Balanced ==
    ASSUME XmlSound, XmlType', NEW i \in Impl,
           IsFiniteSet(By(handle', i)), IsFiniteSet(Below(KidsOf(impl'), i)),
           NEW a \in Int, NEW b \in Int, NEW c \in Int, NEW d \in Int,
           Cardinality(By(handle', i)) + Cardinality(In(releasing', i))
                = Cardinality(By(handle, i)) + Cardinality(In(releasing, i)) + a,
           Cardinality(In(stack', i)) = Cardinality(In(stack, i)) + b,
           Cardinality(Below(KidsOf(impl'), i)) = Cardinality(Below(KidsOf(impl), i)) + c,
           lost'[i] = lost[i] + d,
           ref'[i] = ref[i] + a + b + c + d
    PROVE  Counted(i)'
<1>1. ref[i] = Cardinality(By(handle, i)) + Cardinality(In(stack, i))
                + Cardinality(In(releasing, i)) + Cardinality(Below(KidsOf(impl), i)) + lost[i]
    BY CountSum
<1>2. /\ Cardinality(By(handle, i)) \in Nat /\ Cardinality(In(stack, i)) \in Nat
      /\ Cardinality(In(releasing, i)) \in Nat /\ Cardinality(Below(KidsOf(impl), i)) \in Nat
      /\ ref[i] \in Nat /\ lost[i] \in Nat
    BY SumTypes
<1>3. Cardinality(By(handle', i)) \in Nat /\ Cardinality(In(releasing', i)) \in Nat
  <2>1. releasing' \in Seq(Impl)
      BY DEF XmlType
  <2>. QED  BY <2>1, InFinite, FS_CardinalityType
<1>4. ref'[i] = Cardinality(By(handle', i)) + Cardinality(In(stack', i))
                + Cardinality(In(releasing', i)) + Cardinality(Below(KidsOf(impl'), i)) + lost'[i]
    BY <1>1, <1>2, <1>3
<1>. QED  BY <1>4, SumAgain

\* A slot is assigned, an Impl is counted once more, and no Impl changes: Node::Node(const Node&),
\* *i, and TreeBuilder::Result.
LEMMA ReferSound ==
    ASSUME XmlSound, Quiet, NEW h \in Slot, NEW x \in Impl, Live(x), Assign(h, x),
           ref' = [ref EXCEPT ![x] = @ + 1], UNCHANGED <<impl, stack, path, lost>>
    PROVE  XmlSound'
<1>. USE DEF XmlSound
<1>1. ref' \in [Impl -> Nat] /\ ref'[x] = ref[x] + 1 /\ \A k \in Impl \ {x} : ref'[k] = ref[k]
    BY DEF XmlType
<1>2. XmlType'
  <2>1. Counted(x) /\ x \in Impl \cup {Nobody}
      BY DEF XmlCounts
  <2>2. handle' \in [Slot -> Impl \cup {Nobody}] /\ releasing' \in Seq(Impl)
      BY <2>1, Assigned
  <2>. QED  BY <1>1, <2>2 DEF XmlType
<1>3. ASSUME NEW i \in Impl
      PROVE  Counted(i)' /\ Tidy(i)'
  <2>. DEFINE one == IF x = i THEN 1 ELSE 0
  <2>1. /\ IsFiniteSet(By(handle', i))
        /\ Cardinality(By(handle', i)) + Cardinality(In(releasing', i)) = Cardinality(By(handle, i)) + one
        /\ Cardinality(In(releasing, i)) = 0
      BY Assigned DEF XmlCounts
  <2>2. IsFiniteSet(Below(KidsOf(impl'), i)) /\ Cardinality(Below(KidsOf(impl'), i)) = Cardinality(Below(KidsOf(impl), i))
      BY SameBelow DEF XmlType
  <2>3. ref'[i] = ref[i] + one /\ one \in Nat
      BY <1>1
  <2>. HIDE DEF one
  <2>4. Counted(i)'
    <3>1. /\ Cardinality(By(handle, i)) \in Nat /\ Cardinality(In(stack, i)) \in Nat
          /\ Cardinality(Below(KidsOf(impl), i)) \in Nat /\ ref[i] \in Nat /\ lost[i] \in Nat
        BY SumTypes
    <3>2. Cardinality(By(handle', i)) + Cardinality(In(releasing', i))
              = Cardinality(By(handle, i)) + Cardinality(In(releasing, i)) + one
        BY <2>1, <3>1
    <3>3. /\ Cardinality(In(stack', i)) = Cardinality(In(stack, i)) + 0
          /\ Cardinality(Below(KidsOf(impl'), i)) = Cardinality(Below(KidsOf(impl), i)) + 0
          /\ lost'[i] = lost[i] + 0
          /\ ref'[i] = ref[i] + one + 0 + 0 + 0
        BY <2>2, <2>3, <3>1
    <3>4. 0 \in Int /\ one \in Int
        BY <2>3
    <3>. QED  BY <1>2, <2>1, <2>2, <3>2, <3>3, <3>4, Balanced
  <2>5. ref'[i] > 0 <=> ref[i] > 0
    <3>1. ref[i] \in Nat /\ (Live(i) <=> ref[i] > 0)
        BY CountSum, SumTypes
    <3>. QED  BY <2>3, <3>1 DEF one
  <2>. QED  BY <2>4, <2>5, SameTidy
<1>. QED  BY <1>2, <1>3 DEF XmlCounts

\* Node::~Node
LEMMA DropSound ==
    ASSUME XmlSound, NEW h \in Slot, Drop(h)
    PROVE  XmlSound'
<1>. USE DEF XmlSound
<1>1. Quiet /\ Assign(h, Nobody) /\ UNCHANGED <<impl, ref, lost, stack, path>>
    BY DEF Drop, Call, heap
<1>2. XmlType'
  <2>1. CASE Impl = {}
    <3>1. handle' = [handle EXCEPT ![h] = Nobody] /\ handle[h] = Nobody
        BY <1>1, <2>1 DEF Assign, XmlType
    <3>2. releasing' = <<>>
        BY <1>1, <3>1 DEF Assign
    <3>. QED  BY <1>1, <3>1, <3>2, EmptySeq DEF XmlType
  <2>2. CASE Impl # {}
    <3>1. PICK i \in Impl : Counted(i)
        BY <2>2 DEF XmlCounts
    <3>2. handle' \in [Slot -> Impl \cup {Nobody}] /\ releasing' \in Seq(Impl)
        BY <1>1, <3>1, Assigned
    <3>. QED  BY <1>1, <3>2 DEF XmlType
  <2>. QED  BY <2>1, <2>2
<1>3. ASSUME NEW i \in Impl
      PROVE  Counted(i)' /\ Tidy(i)'
  <2>1. i # Nobody
      BY RecordType
  <2>2. /\ IsFiniteSet(By(handle', i))
        /\ Cardinality(By(handle', i)) + Cardinality(In(releasing', i)) = Cardinality(By(handle, i)) + 0
        /\ Cardinality(In(releasing, i)) = 0
    <3>1. /\ IsFiniteSet(By(handle', i))
          /\ Cardinality(By(handle', i)) + Cardinality(In(releasing', i))
                = Cardinality(By(handle, i)) + (IF Nobody = i THEN 1 ELSE 0)
          /\ Cardinality(In(releasing, i)) = 0
        BY <1>1, Assigned DEF XmlCounts
    <3>. QED  BY <2>1, <3>1
  <2>3. IsFiniteSet(Below(KidsOf(impl'), i)) /\ Cardinality(Below(KidsOf(impl'), i)) = Cardinality(Below(KidsOf(impl), i))
      BY <1>1, SameBelow DEF XmlType
  <2>4. Counted(i)'
    <3>1. /\ Cardinality(By(handle, i)) \in Nat /\ Cardinality(In(stack, i)) \in Nat
          /\ Cardinality(Below(KidsOf(impl), i)) \in Nat /\ ref[i] \in Nat /\ lost[i] \in Nat
        BY SumTypes
    <3>2. Cardinality(By(handle', i)) + Cardinality(In(releasing', i))
              = Cardinality(By(handle, i)) + Cardinality(In(releasing, i)) + 0
        BY <2>2, <3>1
    <3>3. /\ Cardinality(In(stack', i)) = Cardinality(In(stack, i)) + 0
          /\ Cardinality(Below(KidsOf(impl'), i)) = Cardinality(Below(KidsOf(impl), i)) + 0
          /\ lost'[i] = lost[i] + 0
          /\ ref'[i] = ref[i] + 0 + 0 + 0 + 0
        BY <1>1, <2>3, <3>1
    <3>4. 0 \in Int
        OBVIOUS
    <3>. QED  BY <1>2, <2>2, <2>3, <3>2, <3>3, <3>4, Balanced
  <2>5. impl'[i] = impl[i] /\ lost'[i] = lost[i] /\ ref'[i] = ref[i]
      BY <1>1
  <2>. QED  BY <2>4, <2>5, SameTidy
<1>. QED  BY <1>2, <1>3 DEF XmlCounts

\* A new Impl hangs on another, and is in nobody's hand: AddText, AddAttribute, OnCharData.
LEMMA AddNewSound ==
    ASSUME XmlSound, Free # {}, NEW p \in Impl, Live(p),
           NEW t \in {"element", "attr", "text"}, NEW n \in Tag \cup {Anonymous},
           impl' = [Adopt(p, New, t, n) EXCEPT ![New] = Fresh(t, n)],
           ref' = [ref EXCEPT ![New] = 1], UNCHANGED <<handle, stack, path, releasing, lost>>
    PROVE  XmlSound'
<1>. USE DEF XmlSound
<1>1. /\ New \in Impl /\ ~Live(New) /\ ref[New] = 0 /\ impl[New].kids = <<>>
    BY NewIsZero
<1>2. /\ impl' \in [Impl -> ImplRecord] /\ p # New /\ impl'[New] = Fresh(t, n)
      /\ impl'[p] = Grown(impl[p], New, t, n) /\ \A k \in Impl \ {New, p} : impl'[k] = impl[k]
    BY ZenonT(30), AdoptHeap
<1>3. /\ \A k \in Impl \ {p} : impl'[k].kids = impl[k].kids
      /\ impl'[p].kids = Append(impl[p].kids, New)
  <2>1. impl[p] \in ImplRecord
      BY RecordType
  <2>2. PICK r : r = impl[p]
      OBVIOUS
  <2>3. Grown(r, New, t, n).kids = Append(r.kids, New)
      BY <1>1, <2>1, <2>2, GrownRecord
  <2>. QED  BY <1>1, <1>2, <2>2, <2>3, FreshType
<1>4. ref' \in [Impl -> Nat] /\ ref'[New] = 1 /\ \A k \in Impl \ {New} : ref'[k] = ref[k]
    BY <1>1 DEF XmlType
<1>5. XmlType'
    BY <1>2, <1>4 DEF XmlType
<1>6. ASSUME NEW i \in Impl
      PROVE  Counted(i)' /\ Tidy(i)'
  <2>1. IsFiniteSet(By(handle', i)) /\ Cardinality(By(handle, i)) \in Nat /\ Cardinality(In(releasing, i)) \in Nat
        /\ Cardinality(In(stack, i)) \in Nat /\ lost[i] \in Nat
      BY SumTypes DEF XmlCounts, Counted
  <2>2. /\ IsFiniteSet(Below(KidsOf(impl'), i))
        /\ Cardinality(Below(KidsOf(impl'), i)) = Cardinality(Below(KidsOf(impl), i)) + (IF New = i THEN 1 ELSE 0)
      BY <1>1, <1>2, <1>3, OneBelow
  <2>3. ref'[i] = ref[i] + (IF New = i THEN 1 ELSE 0)
      BY <1>1, <1>4
  <2>4. ref'[i] = Cardinality(By(handle', i)) + Cardinality(In(stack', i))
                + Cardinality(In(releasing', i)) + Cardinality(Below(KidsOf(impl'), i)) + lost'[i]
    <3>1. ref[i] = Cardinality(By(handle, i)) + Cardinality(In(stack, i))
                + Cardinality(In(releasing, i)) + Cardinality(Below(KidsOf(impl), i)) + lost[i]
        BY CountSum
    <3>2. Cardinality(Below(KidsOf(impl), i)) \in Nat
        BY SumTypes
    <3>. QED  BY <2>1, <2>2, <2>3, <3>1, <3>2
  <2>5. Counted(i)'
      BY <2>1, <2>2, <2>4, SumAgain
  <2>6. CASE i = New
      BY <2>5, <1>2, <1>4, <2>6, NewTidy
  <2>7. CASE i = p
    <3>1. ref'[i] > 0
        BY <1>2, <1>4, <2>7, CountSum
    <3>. QED  BY <2>5, <1>1, <1>2, <2>7, <3>1, GrownTidy
  <2>8. CASE i # New /\ i # p
      BY <2>5, <1>2, <1>4, <2>8, SameTidy
  <2>. QED  BY <2>5, <2>6, <2>7, <2>8
<1>. QED  BY <1>5, <1>6 DEF XmlCounts

\* Node::AddElement
LEMMA AddElementSound ==
    ASSUME XmlSound, NEW h \in Slot, NEW g \in Slot, NEW n \in Tag, AddElement(h, n, g)
    PROVE  XmlSound'
<1>. USE DEF XmlSound
<1>. DEFINE p == handle[h]
<1>1. /\ Quiet /\ Free # {} /\ p # Nobody
      /\ impl' = [Adopt(p, New, "element", n) EXCEPT ![New] = Fresh("element", n)]
      /\ ref' = [ref EXCEPT ![New] = 2] /\ Assign(g, New) /\ UNCHANGED <<stack, path, lost>>
    BY DEF AddElement, Call, Holds
<1>a. p \in Impl /\ Live(p)
    BY <1>1, HandleLive
<1>b. "element" \in {"element", "attr", "text"} /\ n \in Tag \cup {Anonymous}
    OBVIOUS
<1>. HIDE DEF p
<1>2. /\ New \in Impl /\ ~Live(New) /\ ref[New] = 0 /\ impl[New].kids = <<>>
    BY <1>1, NewIsZero
<1>3. /\ impl' \in [Impl -> ImplRecord] /\ p # New /\ impl'[New] = Fresh("element", n)
      /\ impl'[p] = Grown(impl[p], New, "element", n) /\ \A k \in Impl \ {New, p} : impl'[k] = impl[k]
    BY <1>1, <1>a, <1>b, AdoptHeap
<1>4. /\ \A k \in Impl \ {p} : impl'[k].kids = impl[k].kids
      /\ impl'[p].kids = Append(impl[p].kids, New)
  <2>1. impl[p] \in ImplRecord
      BY <1>a, RecordType
  <2>2. PICK r : r = impl[p]
      OBVIOUS
  <2>3. Grown(r, New, "element", n).kids = Append(r.kids, New)
      BY <1>2, <2>1, <2>2, GrownRecord
  <2>. QED  BY <1>2, <1>3, <1>b, <2>2, <2>3, FreshType
<1>5. ref' \in [Impl -> Nat] /\ ref'[New] = 2 /\ \A k \in Impl \ {New} : ref'[k] = ref[k]
    BY <1>1, <1>2 DEF XmlType
<1>6. XmlType'
  <2>1. Counted(New) /\ New \in Impl \cup {Nobody}
      BY <1>2 DEF XmlCounts
  <2>2. handle' \in [Slot -> Impl \cup {Nobody}] /\ releasing' \in Seq(Impl)
      BY <1>1, <1>2, <2>1, Assigned
  <2>. QED  BY <1>1, <1>3, <1>5, <2>2 DEF XmlType
<1>7. ASSUME NEW i \in Impl
      PROVE  Counted(i)' /\ Tidy(i)'
  <2>1. /\ IsFiniteSet(By(handle', i))
        /\ Cardinality(By(handle', i)) + Cardinality(In(releasing', i))
                = Cardinality(By(handle, i)) + (IF New = i THEN 1 ELSE 0)
        /\ Cardinality(In(releasing, i)) = 0
      BY <1>1, <1>2, Assigned DEF XmlCounts
  <2>2. /\ IsFiniteSet(Below(KidsOf(impl'), i))
        /\ Cardinality(Below(KidsOf(impl'), i)) = Cardinality(Below(KidsOf(impl), i)) + (IF New = i THEN 1 ELSE 0)
      BY <1>2, <1>3, <1>4, <1>a, OneBelow
  <2>3. ref'[i] = ref[i] + (IF New = i THEN 2 ELSE 0) /\ UNCHANGED <<stack, lost>>
      BY <1>1, <1>2, <1>5
  <2>a. Cardinality(By(handle', i)) \in Nat /\ Cardinality(In(releasing', i)) \in Nat
    <3>1. releasing' \in Seq(Impl)
        BY <1>6 DEF XmlType
    <3>. QED  BY <2>1, <3>1, InFinite, FS_CardinalityType
  <2>4. ref'[i] = Cardinality(By(handle', i)) + Cardinality(In(stack', i))
                + Cardinality(In(releasing', i)) + Cardinality(Below(KidsOf(impl'), i)) + lost'[i]
    <3>1. ref[i] = Cardinality(By(handle, i)) + Cardinality(In(stack, i))
                + Cardinality(In(releasing, i)) + Cardinality(Below(KidsOf(impl), i)) + lost[i]
        BY CountSum
    <3>2. /\ Cardinality(By(handle, i)) \in Nat /\ Cardinality(In(stack, i)) \in Nat /\ lost[i] \in Nat
          /\ Cardinality(Below(KidsOf(impl), i)) \in Nat
        BY SumTypes
    <3>. QED  BY <2>1, <2>2, <2>3, <2>a, <3>1, <3>2
  <2>5. Counted(i)'
      BY <2>1, <2>2, <2>4, SumAgain
  <2>6. CASE i = New
      BY <2>5, <1>3, <1>5, <1>b, <2>6, NewTidy
  <2>7. CASE i = p
    <3>1. ref'[i] > 0
        BY <1>3, <1>5, <1>a, <2>7, CountSum
    <3>. QED  BY <2>5, <1>2, <1>3, <1>a, <2>7, <3>1, GrownTidy
  <2>8. CASE i # New /\ i # p
    <3>1. impl'[i] = impl[i] /\ ref'[i] = ref[i] /\ lost'[i] = lost[i]
        BY <1>1, <1>3, <1>5, <2>8
    <3>. QED  BY <2>5, <3>1, SameTidy
  <2>. QED  BY <2>5, <2>6, <2>7, <2>8
<1>. QED  BY <1>6, <1>7 DEF XmlCounts

\* A new Impl that nobody gets, and that is lost.
LEMMA OrphanSound ==
    ASSUME XmlSound, Free # {}, NEW t \in {"element", "attr", "text"}, NEW n \in Tag \cup {Anonymous},
           impl' = [impl EXCEPT ![New] = Fresh(t, n)], ref' = [ref EXCEPT ![New] = 1],
           lost' = [lost EXCEPT ![New] = @ + 1], UNCHANGED <<handle, stack, path, releasing>>
    PROVE  XmlSound'
<1>. USE DEF XmlSound
<1>1. /\ New \in Impl /\ ~Live(New) /\ ref[New] = 0 /\ lost[New] = 0 /\ impl[New].kids = <<>>
    BY NewIsZero
<1>2. /\ impl' \in [Impl -> ImplRecord] /\ impl'[New] = Fresh(t, n) /\ \A k \in Impl \ {New} : impl'[k] = impl[k]
    BY FreshHeap
<1>3. \A k \in Impl : impl'[k].kids = impl[k].kids
    BY <1>1, <1>2, FreshType
<1>4. /\ ref' \in [Impl -> Nat] /\ ref'[New] = 1 /\ \A k \in Impl \ {New} : ref'[k] = ref[k]
      /\ lost' \in [Impl -> Nat] /\ lost'[New] = 1 /\ \A k \in Impl \ {New} : lost'[k] = lost[k]
    BY <1>1 DEF XmlType
<1>5. XmlType'
    BY <1>2, <1>4 DEF XmlType
<1>6. ASSUME NEW i \in Impl
      PROVE  Counted(i)' /\ Tidy(i)'
  <2>1. IsFiniteSet(By(handle', i))
      BY DEF XmlCounts, Counted
  <2>2. IsFiniteSet(Below(KidsOf(impl'), i)) /\ Cardinality(Below(KidsOf(impl'), i)) = Cardinality(Below(KidsOf(impl), i))
      BY <1>2, <1>3, SameBelow
  <2>3. ref'[i] - lost'[i] = ref[i] - lost[i] /\ ref'[i] \in Nat /\ lost'[i] \in Nat
      BY <1>1, <1>4, SumTypes
  <2>4. ref'[i] = Cardinality(By(handle', i)) + Cardinality(In(stack', i))
                + Cardinality(In(releasing', i)) + Cardinality(Below(KidsOf(impl'), i)) + lost'[i]
    <3>1. ref[i] = Cardinality(By(handle, i)) + Cardinality(In(stack, i))
                + Cardinality(In(releasing, i)) + Cardinality(Below(KidsOf(impl), i)) + lost[i]
        BY CountSum
    <3>2. /\ Cardinality(By(handle, i)) \in Nat /\ Cardinality(In(stack, i)) \in Nat /\ lost[i] \in Nat
          /\ Cardinality(Below(KidsOf(impl), i)) \in Nat /\ Cardinality(In(releasing, i)) \in Nat
        BY SumTypes
    <3>. QED  BY <2>2, <2>3, <3>1, <3>2
  <2>5. Counted(i)'
      BY <2>1, <2>2, <2>4, SumAgain
  <2>6. CASE i = New
      BY <2>5, <1>2, <1>4, <2>6, NewTidy
  <2>7. CASE i # New
    <3>1. impl'[i] = impl[i] /\ ref'[i] = ref[i] /\ lost'[i] = lost[i]
        BY <1>2, <1>4, <2>7
    <3>. QED  BY <2>5, <3>1, SameTidy
  <2>. QED  BY <2>5, <2>6, <2>7
<1>. QED  BY <1>5, <1>6 DEF XmlCounts

\* Node::AddText
LEMMA AddTextSound ==
    ASSUME XmlSound, NEW h \in Slot, AddText(h)
    PROVE  XmlSound'
<1>. DEFINE p == handle[h]
<1>1. /\ Free # {} /\ p # Nobody
      /\ impl' = [Adopt(p, New, "text", Anonymous) EXCEPT ![New] = Fresh("text", Anonymous)]
      /\ ref' = [ref EXCEPT ![New] = 1] /\ UNCHANGED <<handle, stack, path, releasing, lost>>
    BY DEF AddText, Holds
<1>2. p \in Impl /\ Live(p)
    BY <1>1, HandleLive
<1>. HIDE DEF p
<1>. QED  BY <1>1, <1>2, AddNewSound

\* Node::AddAttribute, which throws for a name that is there.
LEMMA AddAttributeSound ==
    ASSUME XmlSound, NEW h \in Slot, NEW n \in Tag, AddAttribute(h, n)
    PROVE  XmlSound'
<1>. DEFINE p == handle[h]
<1>1. /\ Free # {} /\ p # Nobody /\ ref' = [ref EXCEPT ![New] = 1]
      /\ UNCHANGED <<handle, stack, path, releasing>>
    BY DEF AddAttribute, Holds
<1>2. p \in Impl /\ Live(p)
    BY <1>1, HandleLive
<1>3. \/ impl' = [impl EXCEPT ![New] = Fresh("attr", n)] /\ lost' = [lost EXCEPT ![New] = @ + 1]
      \/ impl' = [Adopt(p, New, "attr", n) EXCEPT ![New] = Fresh("attr", n)] /\ UNCHANGED lost
    BY DEF AddAttribute
<1>4. n \in Tag \cup {Anonymous}
    OBVIOUS
<1>. HIDE DEF p
<1>5. CASE impl' = [impl EXCEPT ![New] = Fresh("attr", n)] /\ lost' = [lost EXCEPT ![New] = @ + 1]
    BY <1>1, <1>4, <1>5, OrphanSound
<1>6. CASE impl' = [Adopt(p, New, "attr", n) EXCEPT ![New] = Fresh("attr", n)] /\ UNCHANGED lost
    BY <1>1, <1>2, <1>4, <1>6, AddNewSound
<1>. QED  BY <1>3, <1>5, <1>6

\* An Impl is counted once more, and somebody has it, or it is lost.
LEMMA AdoptedSound ==
    ASSUME XmlSound, NEW p \in Impl, Live(p), NEW j \in Impl, Live(j), NEW t, NEW n,
           impl' = Adopt(p, j, t, n), ref' = Taken(j), UNCHANGED <<handle, stack, path, releasing, lost>>
    PROVE  XmlSound'
<1>. USE DEF XmlSound
<1>1. impl[p] \in ImplRecord /\ impl \in [Impl -> ImplRecord]
    BY RecordType DEF XmlType
<1>. DEFINE g == Grown(impl[p], j, t, n)
<1>2. g \in ImplRecord /\ g.kids = Append(impl[p].kids, j)
  <2>1. PICK r : r = impl[p]
      OBVIOUS
  <2>2. Grown(r, j, t, n) \in ImplRecord /\ Grown(r, j, t, n).kids = Append(r.kids, j)
      BY <1>1, <2>1, GrownRecord
  <2>. QED  BY <2>1, <2>2
<1>3. impl' = [impl EXCEPT ![p] = g]
    BY DEF Adopt
<1>. HIDE DEF g
<1>4. /\ impl' \in [Impl -> ImplRecord] /\ impl'[p] = g /\ \A k \in Impl \ {p} : impl'[k] = impl[k]
    BY <1>1, <1>2, <1>3
<1>5. /\ \A k \in Impl \ {p} : impl'[k].kids = impl[k].kids
      /\ impl'[p].kids = Append(impl[p].kids, j)
    BY <1>2, <1>4
<1>6. ref' \in [Impl -> Nat] /\ ref'[j] = ref[j] + 1 /\ \A k \in Impl \ {j} : ref'[k] = ref[k]
    BY DEF XmlType, Taken
<1>7. XmlType'
    BY <1>4, <1>6 DEF XmlType
<1>8. ASSUME NEW i \in Impl
      PROVE  Counted(i)' /\ Tidy(i)'
  <2>1. IsFiniteSet(By(handle', i)) /\ Cardinality(By(handle, i)) \in Nat /\ Cardinality(In(releasing, i)) \in Nat
        /\ Cardinality(In(stack, i)) \in Nat /\ lost[i] \in Nat
      BY SumTypes DEF XmlCounts, Counted
  <2>2. /\ IsFiniteSet(Below(KidsOf(impl'), i))
        /\ Cardinality(Below(KidsOf(impl'), i)) = Cardinality(Below(KidsOf(impl), i)) + (IF j = i THEN 1 ELSE 0)
      BY <1>4, <1>5, OneBelow
  <2>3. ref'[i] = ref[i] + (IF j = i THEN 1 ELSE 0)
      BY <1>6, SumTypes
  <2>4. ref'[i] = Cardinality(By(handle', i)) + Cardinality(In(stack', i))
                + Cardinality(In(releasing', i)) + Cardinality(Below(KidsOf(impl'), i)) + lost'[i]
    <3>1. ref[i] = Cardinality(By(handle, i)) + Cardinality(In(stack, i))
                + Cardinality(In(releasing, i)) + Cardinality(Below(KidsOf(impl), i)) + lost[i]
        BY CountSum
    <3>2. Cardinality(Below(KidsOf(impl), i)) \in Nat
        BY SumTypes
    <3>. QED  BY <2>1, <2>2, <2>3, <3>1, <3>2
  <2>5. Counted(i)'
      BY <2>1, <2>2, <2>4, SumAgain
  <2>6. ref'[i] > 0 <=> ref[i] > 0
    <3>1. ref[j] > 0 /\ ref[i] \in Nat
        BY CountSum, SumTypes
    <3>. QED  BY <2>3, <3>1
  <2>7. CASE i = p
    <3>1. ref'[i] > 0
        BY <2>6, <2>7, CountSum
    <3>2. impl'[i] = Grown(impl[i], j, t, n)
        BY <1>4, <2>7 DEF g
    <3>. QED  BY <2>5, <2>7, <3>1, <3>2, GrownTidy
  <2>8. CASE i # p
      BY <2>5, <2>6, <1>4, <2>8, SameTidy
  <2>. QED  BY <2>5, <2>7, <2>8
<1>. QED  BY <1>7, <1>8 DEF XmlCounts

\* A reference that is taken and lost.
LEMMA LeakSound ==
    ASSUME XmlSound, NEW j \in Impl, Live(j), ref' = Taken(j), lost' = [lost EXCEPT ![j] = @ + 1],
           UNCHANGED <<impl, handle, stack, path, releasing>>
    PROVE  XmlSound'
<1>. USE DEF XmlSound
<1>1. /\ ref' \in [Impl -> Nat] /\ ref'[j] = ref[j] + 1 /\ \A k \in Impl \ {j} : ref'[k] = ref[k]
      /\ lost' \in [Impl -> Nat] /\ lost'[j] = lost[j] + 1 /\ \A k \in Impl \ {j} : lost'[k] = lost[k]
    BY DEF XmlType, Taken
<1>2. XmlType'
    BY <1>1 DEF XmlType
<1>3. ASSUME NEW i \in Impl
      PROVE  Counted(i)' /\ Tidy(i)'
  <2>1. IsFiniteSet(By(handle', i))
      BY DEF XmlCounts, Counted
  <2>2. IsFiniteSet(Below(KidsOf(impl'), i)) /\ Cardinality(Below(KidsOf(impl'), i)) = Cardinality(Below(KidsOf(impl), i))
      BY SameBelow DEF XmlType
  <2>3. ref'[i] - lost'[i] = ref[i] - lost[i] /\ ref'[i] \in Nat /\ lost'[i] \in Nat
      BY <1>1, SumTypes
  <2>4. ref'[i] = Cardinality(By(handle', i)) + Cardinality(In(stack', i))
                + Cardinality(In(releasing', i)) + Cardinality(Below(KidsOf(impl'), i)) + lost'[i]
    <3>1. ref[i] = Cardinality(By(handle, i)) + Cardinality(In(stack, i))
                + Cardinality(In(releasing, i)) + Cardinality(Below(KidsOf(impl), i)) + lost[i]
        BY CountSum
    <3>2. /\ Cardinality(By(handle, i)) \in Nat /\ Cardinality(In(stack, i)) \in Nat /\ lost[i] \in Nat
          /\ Cardinality(Below(KidsOf(impl), i)) \in Nat /\ Cardinality(In(releasing, i)) \in Nat
        BY SumTypes
    <3>. QED  BY <2>2, <2>3, <3>1, <3>2
  <2>5. Counted(i)'
      BY <2>1, <2>2, <2>4, SumAgain
  <2>6. Tidy(i)'
    <3>1. ref[i] \in Nat /\ ref[j] > 0 /\ (Live(i) <=> ref[i] > 0) /\ Tidy(i)
        BY CountSum, SumTypes
    <3>2. ref'[i] > 0 <=> ref[i] > 0
        BY <1>1, <3>1
    <3>3. ~Live(i) => i # j
        OBVIOUS
    <3>. QED  BY <1>1, <3>1, <3>2, <3>3 DEF Tidy, Live
  <2>. QED  BY <2>5, <2>6
<1>. QED  BY <1>2, <1>3 DEF XmlCounts

\* Node::AddNode, which throws for an attribute whose name is there.
LEMMA AddNodeSound ==
    ASSUME XmlSound, NEW h \in Slot, NEW g \in Slot, AddNode(h, g)
    PROVE  XmlSound'
<1>. DEFINE i == handle[h]
            j == handle[g]
<1>1. /\ i # Nobody /\ j # Nobody /\ ref' = Taken(j) /\ UNCHANGED <<handle, stack, path, releasing>>
      /\ \/ lost' = [lost EXCEPT ![j] = @ + 1] /\ UNCHANGED impl
         \/ impl' = Adopt(i, j, impl[j].type, impl[j].name) /\ UNCHANGED lost
    BY DEF AddNode, Holds
<1>2. i \in Impl /\ Live(i) /\ j \in Impl /\ Live(j)
    BY <1>1, HandleLive
<1>. HIDE DEF i, j
<1>3. CASE lost' = [lost EXCEPT ![j] = @ + 1] /\ UNCHANGED impl
    BY <1>1, <1>2, <1>3, LeakSound
<1>4. CASE impl' = Adopt(i, j, impl[j].type, impl[j].name) /\ UNCHANGED lost
    BY <1>1, <1>2, <1>4, AdoptedSound
<1>. QED  BY <1>1, <1>3, <1>4

\* Node::Node(const Node&)
LEMMA CopySound ==
    ASSUME XmlSound, NEW h \in Slot, NEW g \in Slot, Copy(h, g)
    PROVE  XmlSound'
<1>. DEFINE j == handle[g]
<1>1. /\ Quiet /\ j # Nobody /\ ref' = [ref EXCEPT ![j] = @ + 1] /\ Assign(h, j)
      /\ UNCHANGED <<impl, stack, path, lost>>
    BY DEF Copy, Call
<1>2. j \in Impl /\ Live(j)
    BY <1>1, HandleLive
<1>. HIDE DEF j
<1>. QED  BY <1>1, <1>2, ReferSound

\* What a node has below it is alive.
LEMMA KidLive ==
    ASSUME XmlSound, NEW i \in Impl, NEW j \in ToSet(impl[i].kids)
    PROVE  j \in Impl /\ Live(j)
<1>1. XmlType /\ XmlCounts
    BY DEF XmlSound
<1>2. impl[i].kids \in Seq(Impl)
    BY <1>1, RecordType
<1>3. j \in Impl
    BY <1>2, LenProperties, ElementOfSeq DEF ToSet
<1>4. j \in Kids(Impl)
    BY DEF Kids
<1>. QED  BY <1>1, <1>3, <1>4, ReferredLive

\* So is what it finds by name.
LEMMA FoundLive ==
    ASSUME XmlSound, NEW i \in Impl, NEW t \in {"element", "attr"}, NEW n, NEW j \in ToSet(ByName(i, t, n))
    PROVE  j \in Impl /\ Live(j)
<1>1. XmlType
    BY DEF XmlSound
<1>2. impl[i].element \in Seq(Impl) /\ impl[i].attr \in Seq(Impl)
    BY <1>1, RecordType
<1>3. /\ ToSet(Named(impl[i].element, n)) \subseteq ToSet(impl[i].element)
      /\ ToSet(Named(impl[i].attr, n)) \subseteq ToSet(impl[i].attr)
    BY <1>2, NamedPart
<1>4. j \in ToSet(impl[i].element) \cup ToSet(impl[i].attr)
    BY <1>3 DEF ByName
<1>5. ToSet(impl[i].element) \cup ToSet(impl[i].attr) \subseteq ToSet(impl[i].kids)
    BY DEF XmlSound, XmlCounts, Tidy
<1>. QED  BY <1>4, <1>5, KidLive

\* A least place.
LEMMA LeastPlace ==
    ASSUME NEW S \in SUBSET Nat, S # {}
    PROVE  Min(S) \in S
<1>1. PICK i \in S : \A j \in S : ~(<<j, i>> \in OpToRel(<, Nat))
    BY WFMin, NatLessThanWellFounded
<1>2. \A j \in S : i <= j
  <2>1. TAKE j \in S
  <2>2. i \in Nat /\ j \in Nat
      OBVIOUS
  <2>3. ~(<<j, i>> \in OpToRel(<, Nat))
      BY <1>1
  <2>4. ~(j < i)
      BY <2>2, <2>3 DEF OpToRel
  <2>. QED  BY <2>2, <2>4
<1>. QED  BY <1>2 DEF Min

\* *i for an iterator
LEMMA ChildSound ==
    ASSUME XmlSound, NEW h \in Slot, NEW g \in Slot, NEW j \in Impl, Child(h, j, g)
    PROVE  XmlSound'
<1>. DEFINE i == handle[h]
<1>1. /\ Quiet /\ i # Nobody /\ ref' = [ref EXCEPT ![j] = @ + 1] /\ Assign(g, j)
      /\ UNCHANGED <<impl, stack, path, lost>>
      /\ \/ j \in ToSet(Children(i)) \cup ToSet(Attributes(i))
         \/ \E t \in {"element", "attr"}, n \in Tag :
               j \in ToSet(ByName(i, t, n)) \cup ToSet(FirstWith(Children(i), t, n))
    BY DEF Child, Call, Dereference, Taken
<1>2. i \in Impl
    BY <1>1, HandleLive
<1>. HIDE DEF i
<1>a. XmlType
    BY DEF XmlSound
<1>3. Live(j)
  <2>1. CASE j \in ToSet(Children(i))
      BY <1>2, <2>1, KidLive DEF Children
  <2>2. CASE j \in ToSet(Attributes(i))
    <3>1. ToSet(impl[i].element) \cup ToSet(impl[i].attr) \subseteq ToSet(impl[i].kids)
        BY <1>2 DEF XmlSound, XmlCounts, Tidy
    <3>2. j \in ToSet(impl[i].kids)
        BY <2>2, <3>1 DEF Attributes
    <3>. QED  BY <1>2, <3>2, KidLive
  <2>3. ASSUME NEW t \in {"element", "attr"}, NEW n \in Tag, j \in ToSet(ByName(i, t, n))
        PROVE  Live(j)
      BY <1>2, <2>3, FoundLive
  <2>4. ASSUME NEW t \in {"element", "attr"}, NEW n \in Tag, j \in ToSet(FirstWith(Children(i), t, n))
        PROVE  Live(j)
    <3>. DEFINE nodes == Children(i)
                having == {k \in DOMAIN nodes : ByName(nodes[k], t, n) # <<>>}
    <3>1. nodes \in Seq(Impl)
        BY <1>2, <1>a, RecordType DEF Children
    <3>2. DOMAIN nodes = 1..Len(nodes) /\ Len(nodes) \in Nat
        BY <3>1, LenProperties
    <3>3. FirstWith(nodes, t, n) = IF having = {} THEN <<>> ELSE ByName(nodes[Min(having)], t, n)
        BY DEF FirstWith
    <3>4. ToSet(<<>>) = {}
        BY DEF ToSet
    <3>5. having # {} /\ j \in ToSet(ByName(nodes[Min(having)], t, n))
        BY <2>4, <3>3, <3>4
    <3>6. having \in SUBSET Nat
        BY <3>2
    <3>7. Min(having) \in having
      <4>. HIDE DEF having
      <4>. QED  BY <3>5, <3>6, LeastPlace
    <3>8. nodes[Min(having)] \in Impl
        BY <3>1, <3>7, <3>2, ElementOfSeq
    <3>. HIDE DEF nodes, having
    <3>. QED  BY <3>5, <3>8, FoundLive
  <2>. QED  BY <1>1, <2>1, <2>2, <2>3, <2>4
<1>. QED  BY <1>1, <1>3, ReferSound

\* What is on the stack is alive.
LEMMA StackLive ==
    ASSUME XmlSound, NEW i \in ToSet(stack)
    PROVE  i \in Impl /\ Live(i)
<1>1. XmlType /\ XmlCounts /\ stack \in Seq(Impl)
    BY DEF XmlSound, XmlType
<1>2. i \in Impl
    BY <1>1, LenProperties, ElementOfSeq DEF ToSet
<1>. QED  BY <1>1, <1>2, ReferredLive

\* The ends of the stack.
LEMMA StackEnds ==
    ASSUME XmlSound, stack # <<>>
    PROVE  /\ Last(stack) \in Impl /\ Live(Last(stack)) /\ Head(stack) \in Impl /\ Live(Head(stack))
           /\ Head(stack) = stack[1] /\ Last(stack) = stack[Len(stack)] /\ Len(stack) \in Nat /\ Len(stack) > 0
<1>1. stack \in Seq(Impl) /\ Len(stack) \in Nat /\ DOMAIN stack = 1..Len(stack) /\ Len(stack) > 0
    BY LenProperties, EmptySeq DEF XmlSound, XmlType
<1>2. Head(stack) = stack[1] /\ Last(stack) = stack[Len(stack)]
    BY <1>1 DEF Last
<1>3. Head(stack) \in ToSet(stack) /\ Last(stack) \in ToSet(stack)
    BY <1>1, <1>2 DEF ToSet
<1>. QED  BY <1>1, <1>2, <1>3, StackLive

\* TreeBuilder::Result
LEMMA ResultSound ==
    ASSUME XmlSound, NEW h \in Slot, Result(h)
    PROVE  XmlSound'
<1>. DEFINE kids == impl[Head(stack)].kids
            root == Head(kids)
<1>1. /\ Quiet /\ stack # <<>> /\ kids # <<>> /\ ref' = [ref EXCEPT ![root] = @ + 1] /\ Assign(h, root)
      /\ UNCHANGED <<impl, stack, path, lost>>
    BY DEF Result, Call, BeforeRoot
<1>2. Head(stack) \in Impl
    BY <1>1, StackEnds
<1>3. kids \in Seq(Impl)
    BY <1>2, RecordType DEF XmlSound
<1>4. root \in ToSet(kids)
    BY <1>1, <1>3, LenProperties, EmptySeq DEF ToSet
<1>5. root \in Impl /\ Live(root)
    BY <1>2, <1>4, KidLive
<1>. HIDE DEF root, kids
<1>. QED  BY <1>1, <1>5, ReferSound

\* The stack has an element for every open one, and the dummy.
Paired == IF stack = <<>> THEN path = <<>> ELSE Len(stack) = Len(path) + 1

\* TreeBuilder::OnCharData
LEMMA OnCharDataSound ==
    ASSUME XmlSound, Paired, OnCharData
    PROVE  XmlSound'
<1>1. /\ Free # {} /\ stack # <<>>
      /\ impl' = [Adopt(Last(stack), New, "text", Anonymous) EXCEPT ![New] = Fresh("text", Anonymous)]
      /\ ref' = [ref EXCEPT ![New] = 1] /\ UNCHANGED <<handle, stack, path, releasing, lost>>
    BY DEF OnCharData, Paired, Inside
<1>2. Last(stack) \in Impl /\ Live(Last(stack))
    BY <1>1, StackEnds
<1>. QED  BY <1>1, <1>2, AddNewSound

\* A count that moves from the stack to the releases.
LEMMA MovedSound ==
    ASSUME XmlSound, XmlType', UNCHANGED <<impl, ref, lost, handle>>,
           \A i \in Impl : Cardinality(In(stack', i)) + Cardinality(In(releasing', i))
                             = Cardinality(In(stack, i)) + Cardinality(In(releasing, i))
    PROVE  XmlSound'
<1>1. ASSUME NEW i \in Impl
      PROVE  Counted(i)' /\ Tidy(i)'
  <2>1. IsFiniteSet(By(handle', i)) /\ IsFiniteSet(Below(KidsOf(impl'), i))
      BY DEF XmlSound, XmlCounts, Counted
  <2>2. /\ ref[i] = Cardinality(By(handle, i)) + Cardinality(In(stack, i))
                + Cardinality(In(releasing, i)) + Cardinality(Below(KidsOf(impl), i)) + lost[i]
        /\ Tidy(i)
      BY CountSum
  <2>3. /\ Cardinality(By(handle, i)) \in Nat /\ Cardinality(In(stack, i)) \in Nat
        /\ Cardinality(In(releasing, i)) \in Nat /\ Cardinality(Below(KidsOf(impl), i)) \in Nat
        /\ lost[i] \in Nat
      BY SumTypes
  <2>4. Cardinality(In(stack', i)) \in Nat /\ Cardinality(In(releasing', i)) \in Nat
    <3>1. stack' \in Seq(Impl) /\ releasing' \in Seq(Impl)
        BY DEF XmlType
    <3>. QED  BY <3>1, InFinite
  <2>5. ref'[i] = Cardinality(By(handle', i)) + Cardinality(In(stack', i))
                + Cardinality(In(releasing', i)) + Cardinality(Below(KidsOf(impl'), i)) + lost'[i]
      BY <2>2, <2>3, <2>4
  <2>. QED  BY <2>1, <2>2, <2>5, SumAgain DEF Tidy, Live
<1>. QED  BY <1>1 DEF XmlSound, XmlCounts

\* TreeBuilder::EndElement
LEMMA EndElementSound ==
    ASSUME XmlSound, Paired, EndElement
    PROVE  XmlSound'
<1>1. /\ Quiet /\ stack # <<>> /\ path # <<>> /\ stack' = Front(stack) /\ path' = Front(path)
      /\ releasing' = <<Last(stack)>> /\ UNCHANGED <<impl, ref, lost, handle>>
    BY DEF EndElement, Paired, Inside, heap
<1>2. stack \in Seq(Impl) /\ path \in Seq(Tag) /\ XmlType
    BY DEF XmlSound, XmlType
<1>3. Front(path) \in Seq(Tag)
    BY <1>1, <1>2, InFront
<1>4. ASSUME NEW i
      PROVE  /\ Front(stack) \in Seq(Impl) /\ Last(stack) \in Impl
             /\ Cardinality(In(stack, i)) = Cardinality(In(Front(stack), i)) + (IF Last(stack) = i THEN 1 ELSE 0)
             /\ Cardinality(In(Front(stack), i)) \in Nat
  <2>1. /\ Front(stack) \in Seq(Impl) /\ Last(stack) \in Impl
        /\ Cardinality(In(stack, i)) = Cardinality(In(Front(stack), i)) + (IF Last(stack) = i THEN 1 ELSE 0)
      BY <1>1, <1>2, InFront
  <2>. QED  BY <2>1, InFinite
<1>5. XmlType'
  <2>1. Front(stack) \in Seq(Impl) /\ Last(stack) \in Impl
      BY <1>4
  <2>2. <<Last(stack)>> \in Seq(Impl)
      BY <2>1
  <2>. QED  BY <1>1, <1>2, <1>3, <2>1, <2>2 DEF XmlType
<1>6. ASSUME NEW i \in Impl
      PROVE  Cardinality(In(stack', i)) + Cardinality(In(releasing', i))
               = Cardinality(In(stack, i)) + Cardinality(In(releasing, i))
  <2>1. Cardinality(In(releasing', i)) = IF Last(stack) = i THEN 1 ELSE 0
      BY <1>1, InSingle
  <2>2. Cardinality(In(releasing, i)) = 0
      BY <1>1, InEmpty DEF Quiet
  <2>. QED  BY <1>1, <1>4, <2>1, <2>2
<1>. QED  BY <1>1, <1>5, <1>6, MovedSound

\* The builder goes.
LEMMA DropBuilderSound ==
    ASSUME XmlSound, DropBuilder
    PROVE  XmlSound'
<1>1. Quiet /\ stack' = <<>> /\ path' = <<>> /\ releasing' = stack /\ UNCHANGED <<impl, ref, lost, handle>>
    BY DEF DropBuilder, heap
<1>2. XmlType /\ stack \in Seq(Impl)
    BY DEF XmlSound, XmlType
<1>3. XmlType'
    BY <1>1, <1>2, EmptySeq DEF XmlType
<1>4. ASSUME NEW i \in Impl
      PROVE  Cardinality(In(stack', i)) + Cardinality(In(releasing', i))
               = Cardinality(In(stack, i)) + Cardinality(In(releasing, i))
  <2>1. Cardinality(In(stack', i)) = 0 /\ Cardinality(In(releasing, i)) = 0
      BY <1>1, InEmpty DEF Quiet
  <2>2. Cardinality(In(stack, i)) \in Nat
      BY <1>2, InFinite
  <2>. QED  BY <1>1, <2>1, <2>2
<1>. QED  BY <1>1, <1>3, <1>4, MovedSound

\* TreeBuilder::TreeBuilder
LEMMA NewBuilderSound ==
    ASSUME XmlSound, NewBuilder
    PROVE  XmlSound'
<1>. USE DEF XmlSound
<1>1. /\ stack = <<>> /\ Free # {} /\ impl' = [impl EXCEPT ![New] = Fresh("element", Anonymous)]
      /\ ref' = [ref EXCEPT ![New] = 1] /\ stack' = <<New>> /\ path' = <<>> /\ UNCHANGED <<handle, releasing, lost>>
    BY DEF NewBuilder
<1>2. /\ New \in Impl /\ ~Live(New) /\ ref[New] = 0 /\ lost[New] = 0 /\ impl[New].kids = <<>>
    BY <1>1, NewIsZero
<1>3. /\ impl' \in [Impl -> ImplRecord] /\ impl'[New] = Fresh("element", Anonymous)
      /\ \A k \in Impl \ {New} : impl'[k] = impl[k]
    BY <1>1, FreshHeap
<1>4. \A k \in Impl : impl'[k].kids = impl[k].kids
    BY <1>2, <1>3, FreshType
<1>5. ref' \in [Impl -> Nat] /\ ref'[New] = 1 /\ \A k \in Impl \ {New} : ref'[k] = ref[k]
    BY <1>1, <1>2 DEF XmlType
<1>6. XmlType'
  <2>1. <<New>> \in Seq(Impl) /\ <<>> \in Seq(Tag)
      BY <1>2, EmptySeq
  <2>. QED  BY <1>1, <1>3, <1>5, <2>1 DEF XmlType
<1>7. ASSUME NEW i \in Impl
      PROVE  Counted(i)' /\ Tidy(i)'
  <2>1. IsFiniteSet(By(handle', i))
      BY <1>1 DEF XmlCounts, Counted
  <2>2. IsFiniteSet(Below(KidsOf(impl'), i)) /\ Cardinality(Below(KidsOf(impl'), i)) = Cardinality(Below(KidsOf(impl), i))
      BY <1>3, <1>4, SameBelow
  <2>3. ref'[i] = ref[i] + (IF New = i THEN 1 ELSE 0)
      BY <1>2, <1>5
  <2>4. Cardinality(In(stack', i)) = (IF New = i THEN 1 ELSE 0) /\ Cardinality(In(stack, i)) = 0
      BY <1>1, InSingle, InEmpty
  <2>5. ref'[i] = Cardinality(By(handle', i)) + Cardinality(In(stack', i))
                + Cardinality(In(releasing', i)) + Cardinality(Below(KidsOf(impl'), i)) + lost'[i]
    <3>1. ref[i] = Cardinality(By(handle, i)) + Cardinality(In(stack, i))
                + Cardinality(In(releasing, i)) + Cardinality(Below(KidsOf(impl), i)) + lost[i]
        BY CountSum
    <3>2. /\ Cardinality(By(handle, i)) \in Nat /\ Cardinality(In(releasing, i)) \in Nat /\ lost[i] \in Nat
          /\ Cardinality(Below(KidsOf(impl), i)) \in Nat
        BY SumTypes
    <3>3. handle' = handle /\ releasing' = releasing /\ lost' = lost
        BY <1>1
    <3>. QED  BY <2>2, <2>3, <2>4, <3>1, <3>2, <3>3
  <2>6. Counted(i)'
      BY <2>1, <2>2, <2>5, SumAgain
  <2>7. CASE i = New
      BY <1>3, <1>5, <2>6, <2>7, NewTidy
  <2>8. CASE i # New
    <3>1. impl'[i] = impl[i] /\ lost'[i] = lost[i] /\ ref'[i] = ref[i]
        BY <1>1, <1>3, <1>5, <2>8
    <3>. QED  BY <2>6, <3>1, SameTidy
  <2>. QED  BY <2>6, <2>7, <2>8
<1>. QED  BY <1>6, <1>7 DEF XmlCounts

\* What is freed is a record without children.
LEMMA FreedType == Freed \in ImplRecord /\ Freed.kids = <<>> /\ Freed.element = <<>> /\ Freed.attr = <<>> /\ Freed.type = "freed"
<1>1. <<>> \in Seq(Impl)
    BY EmptySeq
<1>. QED  BY <1>1 DEF Freed, Fresh, ImplRecord

\* Impl::Release of a reference that is not the last one.
LEMMA ReleaseSomeSound ==
    ASSUME XmlSound, Release, ref[Head(releasing)] # 1
    PROVE  XmlSound'
<1>. DEFINE i == Head(releasing)
<1>1. /\ releasing # <<>> /\ ref' = [ref EXCEPT ![i] = @ - 1] /\ releasing' = Tail(releasing)
      /\ UNCHANGED <<impl, handle, stack, path, lost>>
    BY DEF Release
<1>2. XmlType /\ releasing \in Seq(Impl)
    BY DEF XmlSound, XmlType
<1>3. ASSUME NEW k
      PROVE  /\ Tail(releasing) \in Seq(Impl) /\ i \in Impl
             /\ Cardinality(In(releasing, k)) = Cardinality(In(Tail(releasing), k)) + (IF i = k THEN 1 ELSE 0)
    BY <1>1, <1>2, InTail
<1>4. Tail(releasing) \in Seq(Impl) /\ i \in Impl
    BY <1>3
<1>. HIDE DEF i
<1>5. ref[i] \in Nat /\ ref[i] > 1
  <2>1. Cardinality(In(releasing, i)) = Cardinality(In(Tail(releasing), i)) + 1 /\ Cardinality(In(Tail(releasing), i)) \in Nat
      BY <1>3, <1>4, InFinite
  <2>2. ref[i] \in Nat /\ ref[i] >= Cardinality(In(releasing, i))
    <3>1. ref[i] = Cardinality(By(handle, i)) + Cardinality(In(stack, i))
                + Cardinality(In(releasing, i)) + Cardinality(Below(KidsOf(impl), i)) + lost[i]
        BY <1>4, CountSum
    <3>2. /\ Cardinality(By(handle, i)) \in Nat /\ Cardinality(In(stack, i)) \in Nat
          /\ Cardinality(In(releasing, i)) \in Nat /\ Cardinality(Below(KidsOf(impl), i)) \in Nat
          /\ ref[i] \in Nat /\ lost[i] \in Nat
        BY <1>4, SumTypes
    <3>. QED  BY <3>1, <3>2
  <2>. QED  BY <2>1, <2>2 DEF i
<1>6. ref' \in [Impl -> Nat] /\ ref'[i] = ref[i] - 1 /\ \A k \in Impl \ {i} : ref'[k] = ref[k]
    BY <1>1, <1>2, <1>4, <1>5 DEF XmlType
<1>7. XmlType'
    BY <1>1, <1>2, <1>4, <1>6 DEF XmlType
<1>8. ASSUME NEW k \in Impl
      PROVE  Counted(k)' /\ Tidy(k)'
  <2>1. IsFiniteSet(By(handle', k)) /\ IsFiniteSet(Below(KidsOf(impl'), k))
      BY <1>1 DEF XmlSound, XmlCounts, Counted
  <2>2. /\ ref[k] = Cardinality(By(handle, k)) + Cardinality(In(stack, k))
                + Cardinality(In(releasing, k)) + Cardinality(Below(KidsOf(impl), k)) + lost[k]
        /\ ref'[k] = ref[k] - (IF i = k THEN 1 ELSE 0)
    <3>1. ref[k] = Cardinality(By(handle, k)) + Cardinality(In(stack, k))
                + Cardinality(In(releasing, k)) + Cardinality(Below(KidsOf(impl), k)) + lost[k]
        BY CountSum
    <3>2. ref'[k] = ref[k] - (IF i = k THEN 1 ELSE 0)
      <4>1. ref[k] \in Nat
          BY SumTypes
      <4>. QED  BY <1>4, <1>6, <4>1
    <3>. QED  BY <3>1, <3>2
  <2>3. /\ Cardinality(By(handle, k)) \in Nat /\ Cardinality(In(stack, k)) \in Nat
        /\ Cardinality(Below(KidsOf(impl), k)) \in Nat /\ lost[k] \in Nat
      BY SumTypes
  <2>4. /\ Cardinality(In(releasing, k)) = Cardinality(In(releasing', k)) + (IF i = k THEN 1 ELSE 0)
        /\ Cardinality(In(releasing', k)) \in Nat
      BY <1>1, <1>3, <1>4, InFinite
  <2>5. handle' = handle /\ stack' = stack /\ impl' = impl /\ lost' = lost
      BY <1>1
  <2>6. ref'[k] = Cardinality(By(handle', k)) + Cardinality(In(stack', k))
                + Cardinality(In(releasing', k)) + Cardinality(Below(KidsOf(impl'), k)) + lost'[k]
      BY <2>2, <2>3, <2>4, <2>5
  <2>7. Counted(k)'
      BY <2>1, <2>6, SumAgain
  <2>8. ref'[k] > 0 <=> ref[k] > 0
      BY <1>5, <1>6
  <2>9. impl'[k] = impl[k] /\ lost'[k] = lost[k] /\ XmlCounts
      BY <2>5 DEF XmlSound
  <2>. QED  BY <1>2, <2>7, <2>8, <2>9, SameTidy
<1>. QED  BY <1>7, <1>8 DEF XmlSound, XmlCounts

\* Impl::Release of the last reference, and Impl::~Impl: the children are let go.
LEMMA ReleaseLastSound ==
    ASSUME XmlSound, Release, ref[Head(releasing)] = 1
    PROVE  XmlSound'
<1>. DEFINE i == Head(releasing)
<1>1. /\ releasing # <<>> /\ ref' = [ref EXCEPT ![i] = @ - 1] /\ releasing' = impl[i].kids \o Tail(releasing)
      /\ impl' = [impl EXCEPT ![i] = Freed] /\ UNCHANGED <<handle, stack, path, lost>>
    BY DEF Release
<1>2. XmlType /\ XmlCounts /\ releasing \in Seq(Impl) /\ impl \in [Impl -> ImplRecord] /\ ref \in [Impl -> Nat]
    BY DEF XmlSound, XmlType
<1>3. ASSUME NEW k
      PROVE  /\ Tail(releasing) \in Seq(Impl) /\ i \in Impl
             /\ Cardinality(In(releasing, k)) = Cardinality(In(Tail(releasing), k)) + (IF i = k THEN 1 ELSE 0)
    BY <1>1, <1>2, InTail
<1>4. Tail(releasing) \in Seq(Impl) /\ i \in Impl
    BY <1>3
<1>5. ref[i] = 1
    OBVIOUS
<1>. HIDE DEF i
<1>6. /\ impl[i].kids \in Seq(Impl)
      /\ impl' \in [Impl -> ImplRecord] /\ impl'[i] = Freed /\ \A k \in Impl \ {i} : impl'[k] = impl[k]
  <2>1. impl[i].kids \in Seq(Impl)
      BY <1>2, <1>4, RecordType
  <2>2. Freed \in ImplRecord
      BY FreedType
  <2>. QED  BY <1>1, <1>2, <1>4, <2>1, <2>2
<1>7. ref' \in [Impl -> Nat] /\ ref'[i] = 0 /\ \A k \in Impl \ {i} : ref'[k] = ref[k]
  <2>1. ref'[i] = 0 /\ 0 \in Nat
      BY <1>1, <1>2, <1>4, <1>5
  <2>2. ref' = [ref EXCEPT ![i] = 0]
      BY <1>1, <1>2, <1>4, <2>1
  <2>. QED  BY <1>2, <2>1, <2>2
<1>8. impl[i].kids \o Tail(releasing) \in Seq(Impl)
    BY <1>4, <1>6, ConcatSet
<1>9. XmlType'
    BY <1>1, <1>2, <1>6, <1>7, <1>8 DEF XmlType
<1>10. ASSUME NEW k \in Impl
       PROVE  Counted(k)' /\ Tidy(k)'
  <2>1. IsFiniteSet(By(handle', k)) /\ Counted(k)
      BY <1>1, <1>2 DEF XmlCounts, Counted
  <2>2. /\ ref[k] = Cardinality(By(handle, k)) + Cardinality(In(stack, k))
                + Cardinality(In(releasing, k)) + Cardinality(Below(KidsOf(impl), k)) + lost[k]
        /\ ref'[k] = ref[k] - (IF i = k THEN 1 ELSE 0)
    <3>1. ref[k] \in Nat
        BY <1>2
    <3>. QED  BY CountSum, <1>4, <1>5, <1>7, <3>1
  <2>3. /\ Cardinality(By(handle, k)) \in Nat /\ Cardinality(In(stack, k)) \in Nat
        /\ Cardinality(Below(KidsOf(impl), k)) \in Nat /\ lost[k] \in Nat
      BY SumTypes
  <2>4. /\ Cardinality(In(releasing', k)) = Cardinality(In(impl[i].kids, k)) + Cardinality(In(Tail(releasing), k))
        /\ Cardinality(In(impl[i].kids, k)) \in Nat /\ Cardinality(In(Tail(releasing), k)) \in Nat
    <3>. DEFINE s == impl[i].kids
                t == Tail(releasing)
    <3>1. s \in Seq(Impl) /\ t \in Seq(Impl) /\ releasing' = s \o t
        BY <1>1, <1>4, <1>6
    <3>. HIDE DEF s, t
    <3>2. Cardinality(In(s \o t, k)) = Cardinality(In(s, k)) + Cardinality(In(t, k))
        BY <3>1, InConcat
    <3>3. Cardinality(In(s, k)) \in Nat /\ Cardinality(In(t, k)) \in Nat
        BY <3>1, InFinite
    <3>. QED  BY <3>1, <3>2, <3>3 DEF s, t
  <2>5. /\ IsFiniteSet(Below(KidsOf(impl'), k)) /\ Cardinality(Below(KidsOf(impl'), k)) \in Nat
        /\ Cardinality(Below(KidsOf(impl'), k)) + Cardinality(In(impl[i].kids, k)) = Cardinality(Below(KidsOf(impl), k)) + 0
    <3>1. \A m \in Impl \ {i} : impl'[m].kids = impl[m].kids
        BY <1>6
    <3>2. /\ IsFiniteSet(Below(KidsOf(impl'), k)) /\ Cardinality(Below(KidsOf(impl'), k)) \in Nat
          /\ Cardinality(Below(KidsOf(impl'), k)) + Cardinality(In(impl[i].kids, k))
                = Cardinality(Below(KidsOf(impl), k)) + Cardinality(In(impl'[i].kids, k))
        BY <1>2, <1>4, <1>6, <2>1, <3>1, KidsStep
    <3>3. Cardinality(In(impl'[i].kids, k)) = 0
        BY <1>6, FreedType, InEmpty
    <3>. QED  BY <3>2, <3>3
  <2>6. handle' = handle /\ stack' = stack /\ lost' = lost
      BY <1>1
  <2>7. Cardinality(In(releasing, k)) = Cardinality(In(Tail(releasing), k)) + (IF i = k THEN 1 ELSE 0)
      BY <1>3
  <2>8. ref'[k] = Cardinality(By(handle', k)) + Cardinality(In(stack', k))
                + Cardinality(In(releasing', k)) + Cardinality(Below(KidsOf(impl'), k)) + lost'[k]
      BY <2>2, <2>3, <2>4, <2>5, <2>6, <2>7
  <2>9. Counted(k)'
      BY <2>1, <2>5, <2>8, SumAgain
  <2>10. CASE k # i
    <3>1. impl'[k] = impl[k] /\ ref'[k] = ref[k] /\ lost'[k] = lost[k]
        BY <1>1, <1>6, <1>7, <2>10
    <3>. QED  BY <1>2, <2>9, <3>1, SameTidy
  <2>11. CASE k = i
    <3>1. lost[i] = 0
        BY <1>5, <2>2, <2>3, <2>4, <2>7, <2>11
    <3>2. /\ impl'[k].type = "freed" /\ impl'[k].kids = <<>> /\ impl'[k].element = <<>> /\ impl'[k].attr = <<>>
          /\ ref'[k] = 0 /\ lost'[k] = 0
        BY <1>6, <1>7, <2>6, <2>11, <3>1, FreedType
    <3>3. ToSet(<<>>) = {}
        BY DEF ToSet
    <3>4. Tidy(k)'
        BY <3>2, <3>3 DEF Tidy, Live
    <3>. QED  BY <2>9, <3>4
  <2>. QED  BY <2>10, <2>11
<1>. QED  BY <1>9, <1>10 DEF XmlSound, XmlCounts



\* What is in a sequence without repetitions is there once.
LEMMA InOnce ==
    ASSUME NEW S, NEW s \in Seq(S), IsInjective(s), NEW i
    PROVE  Cardinality(In(s, i)) = IF i \in ToSet(s) THEN 1 ELSE 0
<1>1. CASE i \in ToSet(s)
  <2>1. PICK k \in DOMAIN s : s[k] = i
      BY <1>1 DEF ToSet
  <2>2. In(s, i) = {k}
      BY <2>1 DEF In, IsInjective
  <2>. QED  BY <1>1, <2>2, FS_Singleton
<1>2. CASE i \notin ToSet(s)
  <2>1. In(s, i) = {}
      BY <1>2 DEF In, ToSet
  <2>. QED  BY <1>2, <2>1, FS_EmptySet
<1>. QED  BY <1>1, <1>2

\* A new Impl that others hang on, every one of them once.
LEMMA HangSound ==
    ASSUME XmlSound, Quiet, Free # {}, NEW g \in Slot, NEW set \in Seq(Impl), NEW order \in Seq(Impl),
           ToSet(order) \subseteq ToSet(set), IsInjective(set), \A j \in ToSet(set) : Live(j),
           impl' = [impl EXCEPT ![New] = [Fresh("element", Anonymous) EXCEPT !.kids = set, !.element = order]],
           ref' = [i \in Impl |-> IF i = New THEN 1 ELSE IF i \in ToSet(set) THEN ref[i] + 1 ELSE ref[i]],
           Assign(g, New), UNCHANGED <<stack, path, lost>>
    PROVE  XmlSound'
<1>. DEFINE r == [Fresh("element", Anonymous) EXCEPT !.kids = set, !.element = order]
<1>1. /\ New \in Impl /\ ~Live(New) /\ ref[New] = 0 /\ impl[New].kids = <<>> /\ New \notin ToSet(set)
    BY NewIsZero
<1>2. r \in ImplRecord /\ r.kids = set /\ r.element = order /\ r.attr = <<>> /\ r.type = "element"
  <2>1. <<>> \in Seq(Impl)
      BY EmptySeq
  <2>. QED  BY <2>1 DEF Fresh, ImplRecord
<1>3. impl' = [impl EXCEPT ![New] = r]
    OBVIOUS
<1>4. XmlType /\ XmlCounts /\ impl \in [Impl -> ImplRecord] /\ ref \in [Impl -> Nat]
    BY DEF XmlSound, XmlType
<1>. HIDE DEF r
<1>5. impl' \in [Impl -> ImplRecord] /\ impl'[New] = r /\ \A k \in Impl \ {New} : impl'[k] = impl[k]
    BY <1>1, <1>2, <1>3, <1>4
<1>6. /\ ref' \in [Impl -> Nat] /\ ref'[New] = 1
      /\ \A k \in Impl \ {New} : ref'[k] = IF k \in ToSet(set) THEN ref[k] + 1 ELSE ref[k]
    BY <1>1, <1>4
<1>7. XmlType'
  <2>1. Counted(New) /\ New \in Impl \cup {Nobody}
      BY <1>1, <1>4 DEF XmlCounts
  <2>2. handle' \in [Slot -> Impl \cup {Nobody}] /\ releasing' \in Seq(Impl)
      BY <1>1, <1>4, <2>1, Assigned
  <2>. QED  BY <1>4, <1>5, <1>6, <2>2 DEF XmlType
<1>8. ASSUME NEW i \in Impl
      PROVE  Counted(i)' /\ Tidy(i)'
  <2>1. Counted(i)
      BY <1>4 DEF XmlCounts
  <2>2. /\ IsFiniteSet(By(handle', i))
        /\ Cardinality(By(handle', i)) + Cardinality(In(releasing', i))
                = Cardinality(By(handle, i)) + (IF New = i THEN 1 ELSE 0)
        /\ Cardinality(In(releasing, i)) = 0
      BY <1>1, <1>4, <2>1, Assigned
  <2>3. Cardinality(By(handle', i)) \in Nat /\ Cardinality(In(releasing', i)) \in Nat
    <3>1. releasing' \in Seq(Impl)
        BY <1>7 DEF XmlType
    <3>. QED  BY <2>2, <3>1, InFinite, FS_CardinalityType
  <2>4. /\ IsFiniteSet(Below(KidsOf(impl'), i))
        /\ Cardinality(Below(KidsOf(impl'), i)) = Cardinality(Below(KidsOf(impl), i)) + (IF i \in ToSet(set) THEN 1 ELSE 0)
    <3>1. \A m \in Impl \ {New} : impl'[m].kids = impl[m].kids
        BY <1>5
    <3>2. /\ IsFiniteSet(Below(KidsOf(impl'), i)) /\ Cardinality(Below(KidsOf(impl'), i)) \in Nat
          /\ Cardinality(Below(KidsOf(impl'), i)) + Cardinality(In(impl[New].kids, i))
                = Cardinality(Below(KidsOf(impl), i)) + Cardinality(In(impl'[New].kids, i))
        BY <1>1, <1>4, <1>5, <2>1, <3>1, KidsStep
    <3>3. Cardinality(In(impl[New].kids, i)) = 0
        BY <1>1, InEmpty
    <3>4. Cardinality(In(impl'[New].kids, i)) = IF i \in ToSet(set) THEN 1 ELSE 0
        BY <1>2, <1>5, InOnce
    <3>5. Cardinality(Below(KidsOf(impl), i)) \in Nat
        BY SumTypes
    <3>. QED  BY <3>2, <3>3, <3>4, <3>5
  <2>5. ref'[i] = ref[i] + (IF New = i THEN 1 ELSE 0) + (IF i \in ToSet(set) THEN 1 ELSE 0)
    <3>1. ref[i] \in Nat
        BY SumTypes
    <3>. QED  BY <1>1, <1>6, <3>1
  <2>6. ref'[i] = Cardinality(By(handle', i)) + Cardinality(In(stack', i))
                + Cardinality(In(releasing', i)) + Cardinality(Below(KidsOf(impl'), i)) + lost'[i]
    <3>1. ref[i] = Cardinality(By(handle, i)) + Cardinality(In(stack, i))
                + Cardinality(In(releasing, i)) + Cardinality(Below(KidsOf(impl), i)) + lost[i]
        BY CountSum
    <3>2. /\ Cardinality(By(handle, i)) \in Nat /\ Cardinality(In(stack, i)) \in Nat
          /\ Cardinality(Below(KidsOf(impl), i)) \in Nat /\ lost[i] \in Nat
        BY SumTypes
    <3>3. Cardinality(In(stack', i)) = Cardinality(In(stack, i)) /\ lost'[i] = lost[i]
        OBVIOUS
    <3>. DEFINE a == IF New = i THEN 1 ELSE 0
                b == IF i \in ToSet(set) THEN 1 ELSE 0
    <3>4. a \in Nat /\ b \in Nat
        OBVIOUS
    <3>5. /\ Cardinality(By(handle', i)) + Cardinality(In(releasing', i)) = Cardinality(By(handle, i)) + a
          /\ Cardinality(Below(KidsOf(impl'), i)) = Cardinality(Below(KidsOf(impl), i)) + b
          /\ ref'[i] = ref[i] + a + b /\ Cardinality(In(releasing, i)) = 0
        BY <2>2, <2>4, <2>5
    <3>. HIDE DEF a, b
    <3>6. ref'[i] = Cardinality(By(handle, i)) + a + Cardinality(In(stack', i)) + Cardinality(Below(KidsOf(impl'), i)) + lost'[i]
        BY SMTT(30), <3>1, <3>2, <3>3, <3>4, <3>5
    <3>. QED  BY <2>3, <3>2, <3>3, <3>4, <3>5, <3>6
  <2>7. Counted(i)'
      BY <2>2, <2>4, <2>6, SumAgain
  <2>8. CASE i = New
    <3>1. ToSet(<<>>) = {}
        BY DEF ToSet
    <3>2. impl'[i].type = "element" /\ impl'[i].kids = set /\ impl'[i].element = order /\ impl'[i].attr = <<>>
        BY <1>2, <1>5, <2>8
    <3>3. ToSet(impl'[i].element) \cup ToSet(impl'[i].attr) \subseteq ToSet(impl'[i].kids)
        BY <3>1, <3>2
    <3>4. impl'[i].type # "freed" /\ ref'[i] > 0
        BY <1>6, <2>8, <3>2
    <3>5. Tidy(i)'
        BY <3>3, <3>4 DEF Tidy, Live
    <3>. QED  BY <2>7, <3>5
  <2>9. CASE i # New
    <3>1. impl'[i] = impl[i] /\ lost'[i] = lost[i]
        BY <1>5, <2>9
    <3>2. ref'[i] > 0 <=> ref[i] > 0
      <4>1. i \in ToSet(set) => ref[i] > 0
          BY CountSum
      <4>2. ref[i] \in Nat
          BY SumTypes
      <4>. QED  BY <2>5, <2>9, <4>1, <4>2
    <3>. QED  BY <1>4, <2>7, <3>1, <3>2, SameTidy
  <2>. QED  BY <2>7, <2>8, <2>9
<1>. QED  BY <1>7, <1>8 DEF XmlSound, XmlCounts

\* NodeSet::Find
LEMMA FindSound ==
    ASSUME XmlSound, NEW h \in Slot, NEW g \in Slot, NEW t \in {"element", "attr"}, NEW n \in Tag, NEW v, Find(h, t, n, v, g)
    PROVE  XmlSound'
<1>. DEFINE all == Children(handle[h])
            Matches(i) == \E j \in ToSet(ByName(i, t, n)) : ValueOf(j) = v
            places == {k \in DOMAIN all : Matches(all[k])}
            size == Cardinality(places)
<1>1. Quiet /\ Free # {} /\ handle[h] # Nobody /\ Assign(g, New) /\ UNCHANGED <<stack, path, lost>>
    BY DEF Find, Call
<1>2. PICK at \in [1..size -> places], order \in [1..size -> 1..size] :
         LET set == [k \in 1..size |-> all[at[k]]]
         IN /\ IsInjective(set)
            /\ impl' = [impl EXCEPT ![New] = [Fresh("element", Anonymous) EXCEPT
                               !.kids = set, !.element = [k \in 1..size |-> set[order[k]]]]]
            /\ ref' = [i \in Impl |-> IF i = New THEN 1 ELSE
                                      IF i \in ToSet(set) THEN ref[i] + 1 ELSE ref[i]]
    BY DEF Find
<1>3. handle[h] \in Impl
    BY <1>1, HandleLive
<1>4. all \in Seq(Impl) /\ DOMAIN all = 1..Len(all) /\ Len(all) \in Nat
    BY <1>3, RecordType, LenProperties DEF XmlSound, Children
<1>5. size \in Nat
  <2>1. IsFiniteSet(1..Len(all)) /\ places \in SUBSET (1..Len(all))
      BY <1>4, FS_Interval
  <2>2. IsFiniteSet(places)
      BY <2>1, FS_Subset
  <2>. QED  BY <2>2, FS_CardinalityType
<1>6. \A k \in 1..size : at[k] \in DOMAIN all /\ order[k] \in 1..size
  <2>1. \A k \in 1..size : at[k] \in places
      OBVIOUS
  <2>. QED  BY <2>1
<1>. HIDE DEF places, size
<1>. DEFINE set == [k \in 1..size |-> all[at[k]]]
            named == [k \in 1..size |-> set[order[k]]]
<1>7. set \in Seq(Impl) /\ ToSet(set) \subseteq ToSet(all) /\ named \in Seq(Impl) /\ ToSet(named) \subseteq ToSet(set)
  <2>1. \A k \in 1..size : all[at[k]] \in Impl
      BY <1>4, <1>6, ElementOfSeq
  <2>2. \A k \in 1..size : set[order[k]] \in Impl
      BY <1>6, <2>1
  <2>3. set \in [1..size -> Impl] /\ named \in [1..size -> Impl]
      BY <2>1, <2>2
  <2>4. set \in Seq(Impl) /\ named \in Seq(Impl)
      BY <1>5, <2>3, SeqDef
  <2>5. ToSet(set) \subseteq ToSet(all)
      BY <1>6 DEF ToSet
  <2>6. ToSet(named) \subseteq ToSet(set)
      BY <1>6 DEF ToSet
  <2>. QED  BY <2>4, <2>5, <2>6
<1>8. \A j \in ToSet(set) : Live(j)
  <2>1. TAKE j \in ToSet(set)
  <2>2. j \in ToSet(impl[handle[h]].kids)
      BY <1>7 DEF Children
  <2>. QED  BY <1>3, <2>2, KidLive
<1>9. /\ IsInjective(set)
      /\ impl' = [impl EXCEPT ![New] = [Fresh("element", Anonymous) EXCEPT !.kids = set, !.element = named]]
      /\ ref' = [i \in Impl |-> IF i = New THEN 1 ELSE IF i \in ToSet(set) THEN ref[i] + 1 ELSE ref[i]]
    BY <1>2
<1>. HIDE DEF set, named
<1>. QED  BY <1>1, <1>7, <1>8, <1>9, HangSound





\* What TreeBuilder::StartElement does with the Impls it has made.
StartedWith(n, attr, new) ==
    /\ impl' = [i \in Impl |->
           IF i = Last(stack) THEN Grown(impl[i], new[1], "element", n)
           ELSE IF i = new[1] THEN [Fresh("element", n) EXCEPT !.kids = Tail(new), !.attr = Tail(new)]
           ELSE IF i \in ToSet(Tail(new)) THEN Fresh("attr", attr[CHOOSE k \in DOMAIN attr : new[k + 1] = i])
           ELSE impl[i]]
    /\ ref' = [i \in Impl |-> IF i = new[1] THEN 2 ELSE IF i \in ToSet(new) THEN 1 ELSE ref[i]]
    /\ stack' = Append(stack, new[1]) /\ path' = Append(path, n)
    /\ UNCHANGED <<handle, releasing, lost>>

\* The element and its attributes are different Impls.
Once(new) ==
    /\ \A i : /\ Cardinality(In(new, i)) = IF i \in ToSet(new) THEN 1 ELSE 0
              /\ Cardinality(In(new, i)) = Cardinality(In(Tail(new), i)) + (IF new[1] = i THEN 1 ELSE 0)
              /\ Cardinality(In(Tail(new), i)) \in Nat
              /\ i \in ToSet(new) <=> i = new[1] \/ i \in ToSet(Tail(new))
    /\ new[1] \notin ToSet(Tail(new))

\* What an element that is started looks like: it hangs on the top of the stack, its attributes on it.
Started(n, new) ==
    /\ Last(stack) \in Impl /\ Live(Last(stack)) /\ Last(stack) \notin ToSet(new) /\ Last(stack) # new[1]
    /\ new \in Seq(Impl) /\ new # <<>> /\ ToSet(new) \subseteq Free
    /\ Tail(new) \in Seq(Impl) /\ new[1] \in Impl /\ new[1] \in Free
    /\ Once(new)
    /\ impl'[Last(stack)] = Grown(impl[Last(stack)], new[1], "element", n)
    /\ impl'[Last(stack)].kids = Append(impl[Last(stack)].kids, new[1])
    /\ impl'[new[1]].kids = Tail(new) /\ impl'[new[1]].attr = Tail(new) /\ impl'[new[1]].element = <<>>
    /\ impl'[new[1]].type = "element" /\ impl'[new[1]].name = n
    /\ \A i \in ToSet(Tail(new)) : \E t \in Tag : i \in Impl /\ impl'[i] = Fresh("attr", t)
    /\ \A i \in Impl \ (ToSet(new) \cup {Last(stack)}) : impl'[i] = impl[i]
    /\ impl' \in [Impl -> ImplRecord]

\* StartElement makes it so.
LEMMA StartShape ==
    ASSUME XmlSound, stack # <<>>, NEW n \in Tag, NEW attr \in Seq(Tag), NEW new \in [1..(1 + Len(attr)) -> Free],
           \A k, l \in DOMAIN new : k < l => new[k] < new[l], StartedWith(n, attr, new)
    PROVE  Started(n, new)
<1>. DEFINE top == Last(stack)
            a == new[1]
            rest == Tail(new)
            R == [Fresh("element", n) EXCEPT !.kids = rest, !.attr = rest]
<1>1. /\ XmlType /\ XmlCounts /\ impl \in [Impl -> ImplRecord] /\ stack \in Seq(Impl) /\ path \in Seq(Tag)
      /\ ref \in [Impl -> Nat]
    BY DEF XmlSound, XmlType
<1>2. top \in Impl /\ Live(top)
    BY StackEnds
<1>3. Len(attr) \in Nat /\ DOMAIN attr = 1..Len(attr)
    BY LenProperties
<1>4. /\ new \in Seq(Impl) /\ Len(new) = 1 + Len(attr) /\ DOMAIN new = 1..(1 + Len(attr)) /\ new # <<>> /\ Head(new) = a
      /\ ToSet(new) \subseteq Free
  <2>1. Free \subseteq Impl
      BY DEF Free
  <2>2. new \in [1..(1 + Len(attr)) -> Impl] /\ 1 + Len(attr) \in Nat
      BY <1>3, <2>1
  <2>3. new \in Seq(Impl)
    <3>. DEFINE m == 1 + Len(attr)
    <3>1. m \in Nat /\ new \in [1..m -> Impl]
        BY <2>2
    <3>. HIDE DEF m
    <3>. QED  BY <3>1, SeqDef
  <2>4. DOMAIN new = 1..(1 + Len(attr))
      OBVIOUS
  <2>5. Len(new) = 1 + Len(attr)
      BY <2>2, <2>3, <2>4, LenProperties
  <2>6. new # <<>> /\ Head(new) = a
      BY <1>3, <2>3, <2>5, EmptySeq
  <2>7. ToSet(new) \subseteq Free
      BY DEF ToSet
  <2>. QED  BY <2>3, <2>4, <2>5, <2>6, <2>7
<1>5. /\ rest \in Seq(Impl) /\ a \in Impl /\ a \in Free /\ Len(rest) = Len(attr)
      /\ \A k \in 1..Len(attr) : rest[k] = new[k + 1]
  <2>1. rest \in Seq(Impl) /\ Len(rest) = Len(new) - 1 /\ \A k \in 1..(Len(new) - 1) : rest[k] = new[k + 1]
      BY <1>4, HeadTailProperties
  <2>2. 1 \in 1..(1 + Len(attr))
      BY <1>3
  <2>3. a \in Free
      BY <2>2
  <2>4. Len(new) - 1 = Len(attr)
      BY <1>3, <1>4
  <2>. QED  BY <2>1, <2>3, <2>4 DEF Free
<1>6. ASSUME NEW i
      PROVE  /\ Cardinality(In(new, i)) = IF i \in ToSet(new) THEN 1 ELSE 0
             /\ Cardinality(In(new, i)) = Cardinality(In(rest, i)) + (IF a = i THEN 1 ELSE 0)
             /\ Cardinality(In(rest, i)) \in Nat
             /\ i \in ToSet(rest) <=> Cardinality(In(rest, i)) > 0
  <2>1. IsInjective(new)
    <3>1. ASSUME NEW k \in DOMAIN new, NEW l \in DOMAIN new, new[k] = new[l] PROVE k = l
      <4>1. k \in Nat /\ l \in Nat /\ new[k] \in Nat /\ new[l] \in Nat
        <5>1. Free \subseteq Nat
            BY XmlAssumption DEF Free, Impl
        <5>2. k \in 1..(1 + Len(attr)) /\ l \in 1..(1 + Len(attr))
            BY <1>4
        <5>3. new[k] \in Free /\ new[l] \in Free
            BY <5>2
        <5>4. k \in Nat /\ l \in Nat
            BY <1>3, <5>2
        <5>5. new[k] \in Nat /\ new[l] \in Nat
            BY <5>1, <5>3
        <5>. QED  BY <5>4, <5>5
      <4>2. ~(k < l) /\ ~(l < k)
          BY <3>1, <4>1
      <4>. QED  BY <4>1, <4>2
    <3>. QED  BY <3>1 DEF IsInjective
  <2>2. Cardinality(In(new, i)) = IF i \in ToSet(new) THEN 1 ELSE 0
      BY <1>4, <2>1, InOnce
  <2>3. Cardinality(In(new, i)) = Cardinality(In(rest, i)) + (IF a = i THEN 1 ELSE 0)
      BY <1>4, InTail
  <2>4. Cardinality(In(rest, i)) \in Nat /\ (i \in ToSet(rest) <=> Cardinality(In(rest, i)) > 0)
      BY <1>5, InFinite, InSome
  <2>. QED  BY <2>2, <2>3, <2>4
<1>7. /\ a \notin ToSet(rest) /\ \A i : i \in ToSet(new) <=> i = a \/ i \in ToSet(rest)
      /\ top \notin ToSet(new) /\ top # a
  <2>1. a \in ToSet(new) /\ a \notin ToSet(rest)
    <3>1. a \in ToSet(new)
        BY <1>3, <1>4 DEF ToSet
    <3>. QED  BY <1>6, <3>1
  <2>2. ASSUME NEW i PROVE i \in ToSet(new) <=> i = a \/ i \in ToSet(rest)
      BY <1>6, <2>1
  <2>3. top \notin ToSet(new)
      BY <1>2, <1>4 DEF Free
  <2>. QED  BY <2>1, <2>2, <2>3
<1>8. R \in ImplRecord /\ R.kids = rest /\ R.attr = rest /\ R.element = <<>> /\ R.type = "element" /\ R.name = n
  <2>1. <<>> \in Seq(Impl)
      BY EmptySeq
  <2>. QED  BY <1>5, <2>1 DEF Fresh, ImplRecord
<1>9. ASSUME NEW i \in ToSet(rest)
      PROVE  attr[CHOOSE k \in DOMAIN attr : new[k + 1] = i] \in Tag
  <2>1. PICK k \in DOMAIN rest : rest[k] = i
      BY DEF ToSet
  <2>2. k \in DOMAIN attr /\ new[k + 1] = i
      BY <1>3, <1>5, <2>1, LenProperties
  <2>3. (CHOOSE l \in DOMAIN attr : new[l + 1] = i) \in DOMAIN attr
      BY <2>2
  <2>. QED  BY <1>3, <2>3, ElementOfSeq
<1>10. /\ impl' = [i \in Impl |->
               IF i = top THEN Grown(impl[i], a, "element", n)
               ELSE IF i = a THEN R
               ELSE IF i \in ToSet(rest) THEN Fresh("attr", attr[CHOOSE k \in DOMAIN attr : new[k + 1] = i])
               ELSE impl[i]]
       /\ ref' = [i \in Impl |-> IF i = a THEN 2 ELSE IF i \in ToSet(new) THEN 1 ELSE ref[i]]
       /\ stack' = Append(stack, a) /\ path' = Append(path, n) /\ handle' = handle /\ releasing' = releasing
       /\ lost' = lost
    BY DEF StartedWith
<1>. HIDE DEF top, a, rest, R
<1>11. /\ impl'[top] = Grown(impl[top], a, "element", n) /\ impl'[a] = R
       /\ \A i \in ToSet(rest) : \E t \in Tag : i \in Impl /\ impl'[i] = Fresh("attr", t)
       /\ \A i \in Impl \ (ToSet(new) \cup {top}) : impl'[i] = impl[i]
  <2>1. impl'[top] = Grown(impl[top], a, "element", n)
      BY <1>2, <1>10
  <2>2. impl'[a] = R
      BY <1>5, <1>7, <1>10
  <2>3. ASSUME NEW i \in ToSet(rest)
        PROVE  \E t \in Tag : i \in Impl /\ impl'[i] = Fresh("attr", t)
    <3>1. i \in Impl /\ i # top /\ i # a
        BY <1>4, <1>7 DEF Free
    <3>2. impl'[i] = Fresh("attr", attr[CHOOSE k \in DOMAIN attr : new[k + 1] = i])
        BY <1>10, <3>1
    <3>. QED  BY <1>9, <3>1, <3>2
  <2>4. \A i \in Impl \ (ToSet(new) \cup {top}) : impl'[i] = impl[i]
      BY <1>7, <1>10
  <2>. QED  BY <2>1, <2>2, <2>3, <2>4
<1>12. Grown(impl[top], a, "element", n) \in ImplRecord /\ impl'[top].kids = Append(impl[top].kids, a)
  <2>1. impl[top] \in ImplRecord
      BY <1>1, <1>2, RecordType
  <2>2. PICK r : r = impl[top]
      OBVIOUS
  <2>3. Grown(r, a, "element", n) \in ImplRecord
      BY <1>5, <2>1, <2>2, GrownRecord
  <2>4. Grown(r, a, "element", n).kids = Append(r.kids, a)
      BY <1>5, <2>1, <2>2, GrownRecord
  <2>. QED  BY <1>11, <2>2, <2>3, <2>4
<1>13. impl' \in [Impl -> ImplRecord]
  <2>1. ASSUME NEW i \in Impl PROVE impl'[i] \in ImplRecord
    <3>1. CASE i \in ToSet(rest)
      <4>1. PICK t \in Tag : impl'[i] = Fresh("attr", t)
          BY <1>11, <3>1
      <4>. QED  BY <4>1, FreshType
    <3>2. CASE i = a \/ i = top
        BY <1>8, <1>11, <1>12, <3>2
    <3>3. CASE i \notin ToSet(new) /\ i # top
        BY <1>1, <1>11, <3>3
    <3>. QED  BY <1>7, <3>1, <3>2, <3>3
  <2>2. DOMAIN impl' = Impl /\ impl' = [i \in DOMAIN impl' |-> impl'[i]]
      BY <1>10
  <2>. QED  BY <2>1, <2>2
<1>14. ASSUME NEW i
       PROVE  /\ Cardinality(In(new, i)) = IF i \in ToSet(new) THEN 1 ELSE 0
              /\ Cardinality(In(new, i)) = Cardinality(In(rest, i)) + (IF a = i THEN 1 ELSE 0)
              /\ Cardinality(In(rest, i)) \in Nat
              /\ i \in ToSet(new) <=> i = a \/ i \in ToSet(rest)
    BY <1>6, <1>7
<1>15. /\ impl'[a].kids = rest /\ impl'[a].attr = rest /\ impl'[a].element = <<>>
       /\ impl'[a].type = "element" /\ impl'[a].name = n
    BY <1>8, <1>11
<1>16. Once(new)
    BY <1>7, <1>14 DEF Once, a, rest
<1>. QED  BY <1>2, <1>4, <1>5, <1>7, <1>11, <1>12, <1>13, <1>15, <1>16 DEF top, a, rest, Started

\* The counts are right when an element was started.
LEMMA StartSound ==
    ASSUME XmlSound, stack # <<>>, NEW n \in Tag, NEW attr \in Seq(Tag), NEW new \in [1..(1 + Len(attr)) -> Free],
           \A k, l \in DOMAIN new : k < l => new[k] < new[l], StartedWith(n, attr, new)
    PROVE  XmlSound'
<1>. DEFINE top == Last(stack)
            a == new[1]
            rest == Tail(new)
<1>1. Started(n, new)
    BY StartShape
<1>2. /\ XmlType /\ XmlCounts /\ impl \in [Impl -> ImplRecord] /\ stack \in Seq(Impl) /\ path \in Seq(Tag)
      /\ ref \in [Impl -> Nat]
    BY DEF XmlSound, XmlType
<1>3. top \in Impl /\ Live(top)
    BY <1>1 DEF Started
<1>4. new \in Seq(Impl) /\ new # <<>> /\ ToSet(new) \subseteq Free
    BY <1>1 DEF Started
<1>5. rest \in Seq(Impl) /\ a \in Impl /\ a \in Free
    BY <1>1 DEF Started
<1>6. ASSUME NEW i
      PROVE  /\ Cardinality(In(new, i)) = IF i \in ToSet(new) THEN 1 ELSE 0
             /\ Cardinality(In(new, i)) = Cardinality(In(rest, i)) + (IF a = i THEN 1 ELSE 0)
             /\ Cardinality(In(rest, i)) \in Nat
  <2>1. Once(new)
      BY <1>1 DEF Started
  <2>. QED  BY <2>1 DEF Once
<1>7. /\ a \notin ToSet(rest) /\ \A i : i \in ToSet(new) <=> i = a \/ i \in ToSet(rest)
      /\ top \notin ToSet(new) /\ top # a
  <2>1. Once(new) /\ top \notin ToSet(new) /\ top # a
      BY <1>1 DEF Started
  <2>. QED  BY <2>1 DEF Once
<1>8. impl'[a].kids = rest /\ impl'[a].attr = rest /\ impl'[a].element = <<>> /\ impl'[a].type = "element"
    BY <1>1 DEF Started
<1>9. /\ ref' = [i \in Impl |-> IF i = a THEN 2 ELSE IF i \in ToSet(new) THEN 1 ELSE ref[i]]
       /\ stack' = Append(stack, a) /\ path' = Append(path, n) /\ handle' = handle /\ releasing' = releasing
       /\ lost' = lost
    BY DEF StartedWith
<1>10. /\ impl'[top] = Grown(impl[top], a, "element", n)
       /\ \A i \in ToSet(rest) : \E t \in Tag : i \in Impl /\ impl'[i] = Fresh("attr", t)
       /\ \A i \in Impl \ (ToSet(new) \cup {top}) : impl'[i] = impl[i]
    BY <1>1 DEF Started
<1>11. impl'[top].kids = Append(impl[top].kids, a)
    BY <1>1 DEF Started
<1>12. impl' \in [Impl -> ImplRecord]
    BY <1>1 DEF Started
<1>. HIDE DEF top, a, rest
<1>13. /\ ref' \in [Impl -> Nat] /\ ref'[a] = 2 /\ \A i \in ToSet(rest) : ref'[i] = 1
       /\ \A i \in Impl \ ToSet(new) : ref'[i] = ref[i]
  <2>1. ref' \in [Impl -> Nat]
      BY <1>2, <1>9
  <2>2. \A i \in ToSet(rest) : i \in Impl /\ i # a /\ i \in ToSet(new)
      BY <1>4, <1>7 DEF Free
  <2>3. ref'[a] = 2 /\ \A i \in ToSet(rest) : ref'[i] = 1
      BY <1>5, <1>9, <2>2
  <2>4. \A i \in Impl \ ToSet(new) : ref'[i] = ref[i]
      BY <1>7, <1>9
  <2>. QED  BY <2>1, <2>3, <2>4
<1>14. XmlType'
  <2>1. stack' \in Seq(Impl) /\ path' \in Seq(Tag)
      BY <1>2, <1>5, <1>9, AppendProperties
  <2>. QED  BY <1>2, <1>9, <1>12, <1>13, <2>1 DEF XmlType
<1>15. \A i \in ToSet(new) : i \in Impl /\ impl[i].kids = <<>> /\ lost[i] = 0 /\ ref[i] = 0
  <2>1. TAKE i \in ToSet(new)
  <2>2. i \in Impl /\ ~Live(i)
      BY <1>4 DEF Free
  <2>3. impl[i].kids = <<>> /\ lost[i] = 0
      BY <1>2, <2>2 DEF XmlCounts, Tidy
  <2>4. ref[i] = 0
      BY <1>2, <2>2, ReferredLive
  <2>. QED  BY <2>2, <2>3, <2>4
<1>16. ASSUME NEW i \in Impl
       PROVE  /\ IsFiniteSet(Below(KidsOf(impl'), i))
              /\ Cardinality(Below(KidsOf(impl'), i)) = Cardinality(Below(KidsOf(impl), i)) + Cardinality(In(new, i))
  <2>. DEFINE ks == KidsOf(impl)
              ms == [ks EXCEPT ![a] = rest]
              ls == KidsOf(impl')
  <2>1. ks \in [Impl -> Seq(Impl)] /\ \A k \in Impl : ks[k] = impl[k].kids
      BY <1>2, KidsType
  <2>2. ls \in [Impl -> Seq(Impl)] /\ \A k \in Impl : ls[k] = impl'[k].kids
    <3>1. \A k \in Impl : impl'[k].kids \in Seq(Impl)
        BY <1>12 DEF ImplRecord
    <3>. QED  BY <3>1 DEF KidsOf
  <2>3. IsFiniteSet(Below(ks, i))
      BY <1>2 DEF XmlCounts, Counted
  <2>. HIDE DEF ks, ls
  <2>4. ms \in [Impl -> Seq(Impl)] /\ ms[a] = rest /\ \A k \in Impl : k # a => ms[k] = ks[k]
      BY <1>5, <2>1
  <2>. HIDE DEF ms
  <2>5. /\ IsFiniteSet(Below(ms, i))
        /\ Cardinality(Below(ks, i)) \in Nat /\ Cardinality(Below(ms, i)) \in Nat
        /\ Cardinality(Below(ms, i)) + Cardinality(In(ks[a], i))
             = Cardinality(Below(ks, i)) + Cardinality(In(ms[a], i))
      BY <1>5, <2>1, <2>3, <2>4, BelowChanged
  <2>6. Cardinality(In(ks[a], i)) = 0 /\ ms[a] = rest
    <3>1. ks[a] = <<>>
        BY <1>5, <1>7, <1>15, <2>1
    <3>. QED  BY <2>4, <3>1, InEmpty
  <2>7. \A k \in Impl : k # top => ls[k] = ms[k]
    <3>1. ASSUME NEW k \in Impl, k # top PROVE ls[k] = ms[k]
      <4>1. CASE k = a
          BY <1>8, <1>10, <2>2, <2>4, <4>1
      <4>2. CASE k \in ToSet(rest)
        <5>1. PICK t \in Tag : impl'[k] = Fresh("attr", t)
            BY <1>10, <4>2
        <5>2. impl'[k].kids = <<>>
          <6>1. t \in Tag \cup {Anonymous} /\ "attr" \in {"element", "attr", "text"}
              OBVIOUS
          <6>2. Fresh("attr", t).kids = <<>>
              BY <6>1, FreshType
          <6>. QED  BY <5>1, <6>2
        <5>3. impl[k].kids = <<>> /\ k # a
            BY <1>7, <1>15, <4>2
        <5>. QED  BY <2>1, <2>2, <2>4, <5>2, <5>3
      <4>3. CASE k \notin ToSet(new)
        <5>1. impl'[k] = impl[k] /\ k # a
            BY <1>7, <1>10, <3>1, <4>3
        <5>. QED  BY <2>1, <2>2, <2>4, <5>1
      <4>. QED  BY <1>7, <4>1, <4>2, <4>3
    <3>. QED  BY <3>1
  <2>8. /\ IsFiniteSet(Below(ls, i))
        /\ Cardinality(Below(ls, i)) \in Nat
        /\ Cardinality(Below(ls, i)) + Cardinality(In(ms[top], i))
             = Cardinality(Below(ms, i)) + Cardinality(In(ls[top], i))
    <3>1. ls \in [Impl -> Seq(Impl)] /\ ms \in [Impl -> Seq(Impl)] /\ top \in Impl /\ IsFiniteSet(Below(ms, i))
        BY <1>3, <2>2, <2>4, <2>5
    <3>. QED  BY <2>7, <3>1, BelowChanged
  <2>9. ms[top] = impl[top].kids /\ ls[top] = Append(impl[top].kids, a) /\ impl[top].kids \in Seq(Impl)
      BY <1>2, <1>3, <1>7, <1>11, <2>1, <2>2, <2>4, RecordType
  <2>10. /\ Cardinality(In(Append(impl[top].kids, a), i)) = Cardinality(In(impl[top].kids, i)) + (IF a = i THEN 1 ELSE 0)
         /\ Cardinality(In(impl[top].kids, i)) \in Nat
      BY <1>5, <2>9, InAppend, InFinite
  <2>11. Cardinality(In(new, i)) = Cardinality(In(rest, i)) + (IF a = i THEN 1 ELSE 0) /\ Cardinality(In(rest, i)) \in Nat
      BY <1>6
  <2>12. Cardinality(Below(ls, i)) = Cardinality(Below(ks, i)) + Cardinality(In(new, i))
    <3>1. Cardinality(Below(ms, i)) = Cardinality(Below(ks, i)) + Cardinality(In(rest, i))
        BY <2>5, <2>6
    <3>2. Cardinality(Below(ls, i)) + Cardinality(In(impl[top].kids, i))
             = Cardinality(Below(ms, i)) + (Cardinality(In(impl[top].kids, i)) + (IF a = i THEN 1 ELSE 0))
        BY <2>8, <2>9, <2>10
    <3>. DEFINE one == IF a = i THEN 1 ELSE 0
    <3>3. one \in Nat /\ Cardinality(In(new, i)) = Cardinality(In(rest, i)) + one
        BY <2>11
    <3>. QED  BY <2>5, <2>8, <2>10, <2>11, <3>1, <3>2, <3>3
  <2>. QED  BY <2>8, <2>12 DEF ks, ls
<1>17. ASSUME NEW i \in Impl
       PROVE  Counted(i)' /\ Tidy(i)'
  <2>1. IsFiniteSet(By(handle', i))
      BY <1>2, <1>9 DEF XmlCounts, Counted
  <2>2. Cardinality(In(stack', i)) = Cardinality(In(stack, i)) + (IF a = i THEN 1 ELSE 0)
      BY <1>2, <1>5, <1>9, InAppend
  <2>3. ref'[i] = ref[i] + (IF a = i THEN 1 ELSE 0) + Cardinality(In(new, i))
    <3>1. Cardinality(In(new, i)) = IF i \in ToSet(new) THEN 1 ELSE 0
        BY <1>6
    <3>2. CASE i = a
        BY <1>7, <1>13, <1>15, <3>1, <3>2
    <3>3. CASE i \in ToSet(rest)
        BY <1>7, <1>13, <1>15, <3>1, <3>3
    <3>4. CASE i \notin ToSet(new)
      <4>1. ref'[i] = ref[i] /\ ref[i] \in Nat /\ i # a
          BY <1>2, <1>7, <1>13, <3>4
      <4>. QED  BY <3>1, <3>4, <4>1
    <3>. QED  BY <1>7, <3>2, <3>3, <3>4
  <2>4. ref'[i] = Cardinality(By(handle', i)) + Cardinality(In(stack', i))
                + Cardinality(In(releasing', i)) + Cardinality(Below(KidsOf(impl'), i)) + lost'[i]
    <3>1. ref[i] = Cardinality(By(handle, i)) + Cardinality(In(stack, i))
                + Cardinality(In(releasing, i)) + Cardinality(Below(KidsOf(impl), i)) + lost[i]
        BY CountSum
    <3>2. /\ Cardinality(By(handle, i)) \in Nat /\ Cardinality(In(stack, i)) \in Nat
          /\ Cardinality(In(releasing, i)) \in Nat
          /\ Cardinality(Below(KidsOf(impl), i)) \in Nat /\ lost[i] \in Nat
        BY SumTypes
    <3>. DEFINE one == IF a = i THEN 1 ELSE 0
                many == Cardinality(In(new, i))
    <3>3. one \in Nat /\ many \in Nat
        BY <1>6
    <3>4. /\ Cardinality(In(stack', i)) = Cardinality(In(stack, i)) + one
          /\ ref'[i] = ref[i] + one + many
          /\ Cardinality(Below(KidsOf(impl'), i)) = Cardinality(Below(KidsOf(impl), i)) + many
          /\ Cardinality(By(handle', i)) = Cardinality(By(handle, i))
          /\ Cardinality(In(releasing', i)) = Cardinality(In(releasing, i)) /\ lost'[i] = lost[i]
        BY <1>9, <1>16, <2>2, <2>3
    <3>. HIDE DEF one, many
    <3>5. ref'[i] = Cardinality(By(handle, i)) + (Cardinality(In(stack, i)) + one) + Cardinality(In(releasing, i))
                      + (Cardinality(Below(KidsOf(impl), i)) + many) + lost[i]
      <4>1. ref'[i] = ref[i] + one + many
          BY <3>4
      <4>. QED  BY SMTT(30), <3>1, <3>2, <3>3, <4>1
    <3>. QED  BY <3>4, <3>5
  <2>5. Counted(i)'
      BY <1>16, <2>1, <2>4, SumAgain
  <2>6. CASE i = top
    <3>1. ref'[i] > 0
        BY <1>3, <1>7, <1>13, <2>6, CountSum
    <3>2. impl'[i] = Grown(impl[i], a, "element", n) /\ Live(i)
        BY <1>3, <1>10, <2>6
    <3>3. Tidy(i)'
        BY <1>2, <1>5, <3>1, <3>2, GrownTidy
    <3>. QED  BY <2>5, <3>3
  <2>7. CASE i = a
    <3>1. ToSet(<<>>) = {}
        BY DEF ToSet
    <3>2. impl'[i].type = "element" /\ impl'[i].kids = rest /\ impl'[i].element = <<>> /\ impl'[i].attr = rest
        BY <1>8, <1>10, <2>7
    <3>3. ToSet(impl'[i].element) \cup ToSet(impl'[i].attr) \subseteq ToSet(impl'[i].kids)
        BY <3>1, <3>2
    <3>4. impl'[i].type # "freed" /\ ref'[i] > 0
        BY <1>13, <2>7, <3>2
    <3>5. Tidy(i)'
        BY <3>3, <3>4 DEF Tidy, Live
    <3>. QED  BY <2>5, <3>5
  <2>8. CASE i \in ToSet(rest)
    <3>1. PICK t \in Tag : impl'[i] = Fresh("attr", t)
        BY <1>10, <2>8
    <3>2. ref'[i] = 1 /\ t \in Tag \cup {Anonymous} /\ "attr" \in {"element", "attr", "text"}
        BY <1>13, <2>8
    <3>3. Tidy(i)'
      <4>1. ref'[i] > 0
          BY <3>2
      <4>. QED  BY <3>1, <3>2, <4>1, NewTidy
    <3>. QED  BY <2>5, <3>3
  <2>9. CASE i \notin ToSet(new) /\ i # top
    <3>1. impl'[i] = impl[i] /\ ref'[i] = ref[i] /\ lost'[i] = lost[i]
        BY <1>9, <1>10, <1>13, <2>9
    <3>. QED  BY <1>2, <2>5, <3>1, SameTidy
  <2>. QED  BY <1>7, <2>5, <2>6, <2>7, <2>8, <2>9
<1>. QED  BY <1>14, <1>17 DEF XmlSound, XmlCounts







\* TreeBuilder::StartElement
LEMMA StartElementSound ==
    ASSUME XmlSound, Paired, NEW n \in Tag, NEW attr \in Attrs, StartElement(n, attr)
    PROVE  XmlSound'
<1>1. attr \in Seq(Tag)
  <2>1. <<>> \in Seq(Tag) /\ \A t \in Tag : <<t>> \in Seq(Tag)
      BY EmptySeq
  <2>. QED  BY <2>1 DEF Attrs
<1>2. stack # <<>>
    BY DEF StartElement, Paired, Inside, BeforeRoot
<1>3. PICK new \in [1..(1 + Len(attr)) -> Free] : (\A k, l \in DOMAIN new : k < l => new[k] < new[l]) /\ StartedWith(n, attr, new)
    BY DEF StartElement, StartedWith, Push
<1>. QED  BY <1>1, <1>2, <1>3, StartSound

\* Every step of the library and of the builder keeps the counts.
LEMMA XmlStep ==
    ASSUME XmlSound, Paired, [XmlNext]_xmlvars
    PROVE  XmlSound'
<1>1. CASE UNCHANGED xmlvars
  <2>1. UNCHANGED <<impl, ref, lost, handle, stack, path, releasing>>
      BY <1>1 DEF xmlvars, heap
  <2>. QED  BY <2>1 DEF XmlSound, XmlType, XmlCounts, Counted, Tidy, Live
<1>2. CASE Release
    BY <1>2, ReleaseSomeSound, ReleaseLastSound
<1>3. ASSUME NEW h \in Slot, NEW n \in Tag, Make(h, "element", n) \/ AddAttribute(h, n)
      PROVE  XmlSound'
  <2>1. n \in Tag \cup {Anonymous}
      OBVIOUS
  <2>. QED  BY <1>3, <2>1, MakeSound, AddAttributeSound
<1>4. ASSUME NEW h \in Slot, Make(h, "text", Anonymous)
      PROVE  XmlSound'
  <2>1. Anonymous \in Tag \cup {Anonymous} /\ "text" \in {"element", "attr", "text"}
      OBVIOUS
  <2>. QED  BY <1>4, <2>1, MakeSound
<1>5. ASSUME NEW h \in Slot, NEW g \in Slot, Copy(h, g) \/ AddNode(h, g)
      PROVE  XmlSound'
    BY <1>5, CopySound, AddNodeSound
<1>6. ASSUME NEW h \in Slot, NEW g \in Slot, NEW n \in Tag, AddElement(h, n, g)
      PROVE  XmlSound'
    BY <1>6, AddElementSound
<1>7. ASSUME NEW h \in Slot, NEW g \in Slot, NEW j \in Impl, Child(h, j, g)
      PROVE  XmlSound'
    BY <1>7, ChildSound
<1>8. ASSUME NEW h \in Slot, NEW g \in Slot, NEW t \in {"element", "attr"}, NEW n \in Tag, NEW v \in 0..1, Find(h, t, n, v, g)
      PROVE  XmlSound'
    BY <1>8, FindSound
<1>9. ASSUME NEW h \in Slot, Drop(h) \/ AddText(h) \/ Result(h)
      PROVE  XmlSound'
    BY <1>9, DropSound, AddTextSound, ResultSound
<1>10. ASSUME NEW n \in Tag, NEW attr \in Attrs, StartElement(n, attr)
       PROVE  XmlSound'
    BY <1>10, StartElementSound
<1>11. CASE NewBuilder \/ EndElement \/ OnCharData \/ DropBuilder
    BY <1>11, NewBuilderSound, EndElementSound, OnCharDataSound, DropBuilderSound
<1>. QED  BY <1>1, <1>2, <1>3, <1>4, <1>5, <1>6, <1>7, <1>8, <1>9, <1>10, <1>11 DEF XmlNext

\* Only the builder's calls change the stack and the path, and they change them together.
LEMMA PairedStep ==
    ASSUME XmlSound, Paired, [XmlNext]_xmlvars
    PROVE  Paired'
<1>1. stack \in Seq(Impl) /\ path \in Seq(Tag) /\ Len(stack) \in Nat /\ Len(path) \in Nat
    BY LenProperties DEF XmlSound, XmlType
<1>2. CASE stack' = stack /\ path' = path
    BY <1>2 DEF Paired
<1>3. CASE stack' = <<>> /\ path' = <<>>
    BY <1>3 DEF Paired
<1>4. CASE NewBuilder
  <2>1. stack' = <<New>> /\ path' = <<>>
      BY <1>4 DEF NewBuilder
  <2>2. Len(<<New>>) = 1 /\ <<New>> # <<>> /\ Len(<<>>) = 0
      OBVIOUS
  <2>. QED  BY <2>1, <2>2 DEF Paired
<1>5. CASE EndElement
  <2>1. stack # <<>> /\ path # <<>> /\ stack' = Front(stack) /\ path' = Front(path)
      BY <1>5 DEF EndElement, Paired, Inside
  <2>2. Len(Front(stack)) = Len(stack) - 1 /\ Len(Front(path)) = Len(path) - 1 /\ Len(path) > 0
    <3>1. Len(Front(stack)) = Len(stack) - 1
        BY <1>1, <2>1, InFront
    <3>2. Len(Front(path)) = Len(path) - 1
        BY <1>1, <2>1, InFront
    <3>3. Len(path) > 0
        BY <1>1, <2>1, EmptySeq
    <3>. QED  BY <3>1, <3>2, <3>3
  <2>3. Front(stack) # <<>>
      BY <1>1, <2>1, <2>2 DEF Paired
  <2>. QED  BY <1>1, <2>1, <2>2, <2>3 DEF Paired
<1>6. ASSUME NEW n \in Tag, NEW attr \in Attrs, StartElement(n, attr)
      PROVE  Paired'
  <2>1. PICK a \in Impl : stack' = Append(stack, a) /\ path' = Append(path, n)
    <3>1. PICK new \in [1..(1 + Len(attr)) -> Free] : stack' = Append(stack, new[1])
        BY <1>6 DEF StartElement, Push
    <3>2. 1 \in 1..(1 + Len(attr))
        BY EmptySeq, LenProperties DEF Attrs
    <3>. QED  BY <1>6, <3>1, <3>2 DEF StartElement, Free
  <2>2. stack # <<>>
      BY <1>6 DEF StartElement, Paired, Inside, BeforeRoot
  <2>3. Len(Append(stack, a)) = Len(stack) + 1 /\ Len(Append(path, n)) = Len(path) + 1 /\ Append(stack, a) # <<>>
      BY <1>1, AppendProperties
  <2>. QED  BY <1>1, <2>1, <2>2, <2>3 DEF Paired
<1>7. CASE UNCHANGED xmlvars \/ Release
    BY <1>2, <1>7 DEF xmlvars, Release
<1>8. ASSUME NEW h \in Slot, NEW n \in Tag, Make(h, "element", n) \/ AddAttribute(h, n)
      PROVE  Paired'
    BY <1>2, <1>8 DEF Make, AddAttribute
<1>9. ASSUME NEW h \in Slot, NEW g \in Slot, Make(h, "text", Anonymous) \/ Copy(h, g) \/ AddNode(h, g)
      PROVE  Paired'
    BY <1>2, <1>9 DEF Make, Copy, AddNode
<1>10. ASSUME NEW h \in Slot, NEW g \in Slot, NEW n \in Tag, AddElement(h, n, g)
       PROVE  Paired'
    BY <1>2, <1>10 DEF AddElement
<1>11. ASSUME NEW h \in Slot, NEW g \in Slot, NEW j \in Impl, Child(h, j, g)
       PROVE  Paired'
    BY <1>2, <1>11 DEF Child
<1>12. ASSUME NEW h \in Slot, NEW g \in Slot, NEW t \in {"element", "attr"}, NEW n \in Tag, NEW v \in 0..1, Find(h, t, n, v, g)
       PROVE  Paired'
    BY <1>2, <1>12 DEF Find
<1>13. ASSUME NEW h \in Slot, Drop(h) \/ AddText(h) \/ Result(h)
       PROVE  Paired'
    BY <1>2, <1>13 DEF Drop, AddText, Result
<1>14. CASE OnCharData \/ DropBuilder
    BY <1>2, <1>3, <1>14 DEF OnCharData, DropBuilder
<1>. QED  BY <1>4, <1>5, <1>6, <1>7, <1>8, <1>9, <1>10, <1>11, <1>12, <1>13, <1>14 DEF XmlNext

\* At first nothing is alive, and nothing counted.
LEMMA XmlStart ==
    ASSUME XmlIdle
    PROVE  XmlSound /\ Paired
<1>1. /\ impl = [i \in Impl |-> Freed] /\ ref = [i \in Impl |-> 0] /\ lost = [i \in Impl |-> 0]
      /\ handle = [h \in Slot |-> Nobody] /\ stack = <<>> /\ path = <<>> /\ releasing = <<>>
    BY DEF XmlIdle
<1>2. XmlType
  <2>1. Freed \in ImplRecord
      BY FreedType
  <2>. QED  BY <1>1, <2>1, EmptySeq DEF XmlType
<1>3. ASSUME NEW i \in Impl
      PROVE  Counted(i) /\ Tidy(i)
  <2>1. impl[i] = Freed /\ ref[i] = 0 /\ lost[i] = 0 /\ i # Nobody
      BY <1>1, <1>2, RecordType
  <2>2. By(handle, i) = {}
      BY <1>1, <2>1 DEF By
  <2>3. Below(KidsOf(impl), i) = {}
    <3>1. \A k \in Impl : KidsOf(impl)[k] = <<>>
        BY <1>1, FreedType DEF KidsOf
    <3>2. DOMAIN <<>> = {}
        OBVIOUS
    <3>. QED  BY <3>1, <3>2 DEF Below
  <2>4. Cardinality(In(stack, i)) = 0 /\ Cardinality(In(releasing, i)) = 0
      BY <1>1, InEmpty
  <2>5. Counted(i)
      BY <2>1, <2>2, <2>3, <2>4, FS_EmptySet DEF Counted
  <2>6. ToSet(<<>>) = {}
      BY DEF ToSet
  <2>7. Tidy(i)
      BY <2>1, <2>6, FreedType DEF Tidy, Live
  <2>. QED  BY <2>5, <2>7
<1>. QED  BY <1>1, <1>2, <1>3 DEF XmlSound, XmlCounts, Paired

\* The counts are right in every state.
LEMMA XmlAlways == XmlSpec => [](XmlSound /\ Paired)
<1>1. XmlIdle => XmlSound /\ Paired
    BY XmlStart
<1>2. (XmlSound /\ Paired) /\ [XmlNext]_xmlvars => (XmlSound /\ Paired)'
    BY XmlStep, PairedStep
<1>. QED  BY <1>1, <1>2, PTL DEF XmlSpec

\* No handle, frame, release under way or live node's child refers to an Impl that was
\* deleted (Node.cc:58, TreeBuilder.cc:103).
THEOREM NothingDangles == XmlSpec => []NoDangling
<1>1. XmlSound => NoDangling
    BY CountsHold DEF XmlSound
<1>. QED  BY <1>1, XmlAlways, PTL



-------------------------------------------------------------------------------
(* What is reached.                                                        *)

\* A set reaches its members.
LEMMA ReachedSelf ==
    ASSUME NEW S, NEW i \in Impl, i \in S
    PROVE  i \in Reached(S)
    BY DEF Reached

\* What is reached reaches its children.
LEMMA ReachedKid ==
    ASSUME NEW S, NEW j \in Reached(S), NEW i \in Impl, i \in ToSet(impl[j].kids)
    PROVE  i \in Reached(S)
<1>1. ASSUME NEW T \in SUBSET Impl, S \subseteq T, Kids(T) \subseteq T
      PROVE  i \in T
  <2>1. j \in T
      BY <1>1 DEF Reached
  <2>2. i \in Kids(T)
      BY <2>1 DEF Kids
  <2>. QED  BY <1>1, <2>2
<1>. QED  BY <1>1 DEF Reached

\* And whatever they reach.
LEMMA ReachedAll ==
    ASSUME NEW S, NEW i \in Reached(S)
    PROVE  Reached({i}) \subseteq Reached(S)
<1>1. ASSUME NEW k \in Reached({i}), NEW T \in SUBSET Impl, S \subseteq T, Kids(T) \subseteq T
      PROVE  k \in T
  <2>1. i \in T
      BY <1>1 DEF Reached
  <2>2. {i} \subseteq T
      BY <2>1
  <2>. QED  BY <1>1, <2>2 DEF Reached
<1>2. \A k \in Reached({i}) : k \in Impl
    BY DEF Reached
<1>. QED  BY <1>1, <1>2 DEF Reached

\* An Impl that is counted by nobody but by a node has that node, alive.
LEMMA ParentOf ==
    ASSUME XmlSound, Quiet, NEW i \in Impl, Live(i), i \notin Held, lost[i] = 0
    PROVE  \E j \in Impl : Live(j) /\ i \in ToSet(impl[j].kids)
<1>1. XmlType /\ XmlCounts /\ Counted(i) /\ ref[i] > 0
    BY CountSum DEF XmlSound
<1>2. ref[i] = Cardinality(By(handle, i)) + Cardinality(In(stack, i))
                + Cardinality(In(releasing, i)) + Cardinality(Below(KidsOf(impl), i)) + lost[i]
    BY CountSum
<1>3. i # Nobody /\ i \notin ToSet(stack) /\ ~(\E h \in Slot : handle[h] = i)
  <2>1. i # Nobody
      BY <1>1, RecordType
  <2>. QED  BY <2>1 DEF Held
<1>4. Cardinality(In(releasing, i)) = 0
    BY InEmpty DEF Quiet
<1>5. /\ Cardinality(By(handle, i)) \in Nat /\ Cardinality(In(stack, i)) \in Nat
      /\ Cardinality(Below(KidsOf(impl), i)) \in Nat
      /\ Cardinality(By(handle, i)) > 0 <=> \E h \in Slot : handle[h] = i
      /\ Cardinality(In(stack, i)) > 0 <=> i \in ToSet(stack)
      /\ Cardinality(Below(KidsOf(impl), i)) > 0 <=> i \in Kids(Impl)
    BY <1>1, CountTypes
<1>6. Cardinality(By(handle, i)) = 0 /\ Cardinality(In(stack, i)) = 0
    BY <1>3, <1>5
<1>7. i \in Kids(Impl)
    BY <1>1, <1>2, <1>4, <1>5, <1>6
<1>8. PICK j \in Impl : i \in ToSet(impl[j].kids)
    BY <1>7 DEF Kids
<1>9. Live(j)
  <2>1. ToSet(<<>>) = {}
      BY DEF ToSet
  <2>. QED  BY <1>1, <1>8, <2>1 DEF XmlCounts, Tidy
<1>. QED  BY <1>8, <1>9

\* The counts say that nothing is left over: from a node that nobody reaches one could go up
\* from parent to parent, and would reach more and more.
LEMMA CountsReclaim ==
    ASSUME XmlSound
    PROVE  Reclaimed
<1>. DEFINE Owned == Reached(Held)
            Leaked == Reached({j \in Impl : lost[j] > 0})
            Looped == Reached({j \in Impl : j \in Reached(Kids({j}))})
            left == {i \in Impl : Live(i) /\ i \notin Owned /\ i \notin Leaked /\ i \notin Looped}
            size == [i \in Impl |-> Cardinality(Impl \ Reached({i}))]
            sizes == {size[i] : i \in left}
<1>. SUFFICES ASSUME Quiet, left # {}
              PROVE  FALSE
    BY DEF Reclaimed
<1>1. IsFiniteSet(Impl) /\ \A i \in Impl : size[i] \in Nat
  <2>1. IsFiniteSet(Impl)
      BY XmlAssumption, FS_Interval DEF Impl
  <2>2. ASSUME NEW i \in Impl PROVE size[i] \in Nat
    <3>1. IsFiniteSet(Impl \ Reached({i}))
        BY <2>1, FS_Subset
    <3>. QED  BY <3>1, FS_CardinalityType
  <2>. QED  BY <2>1, <2>2
<1>2. ASSUME NEW i \in left
      PROVE  \E j \in left : i \in ToSet(impl[j].kids)
  <2>1. i \notin Held
      BY <1>2, ReachedSelf
  <2>2. lost[i] = 0
    <3>1. ~(lost[i] > 0)
        BY <1>2, ReachedSelf
    <3>2. lost[i] \in Nat
        BY <1>2, SumTypes
    <3>. QED  BY <3>1, <3>2
  <2>3. PICK j \in Impl : Live(j) /\ i \in ToSet(impl[j].kids)
      BY <1>2, <2>1, <2>2, ParentOf
  <2>4. j \notin Owned /\ j \notin Leaked /\ j \notin Looped
      BY <1>2, <2>3, ReachedKid
  <2>. QED  BY <2>3, <2>4
<1>3. ASSUME NEW i \in left, NEW j \in left, i \in ToSet(impl[j].kids)
      PROVE  size[j] < size[i]
  <2>1. j \notin Reached(Kids({j}))
      BY <1>3, ReachedSelf
  <2>2. i \in Kids({j})
      BY <1>3 DEF Kids
  <2>3. i \in Reached(Kids({j})) /\ i \in Reached({j}) /\ j \in Reached({j})
      BY <1>3, <2>2, ReachedSelf, ReachedKid
  <2>4. Reached({i}) \subseteq Reached(Kids({j})) /\ Reached({i}) \subseteq Reached({j})
      BY <2>3, ReachedAll
  <2>5. j \in Impl \ Reached({i}) /\ j \notin Impl \ Reached({j})
      BY <1>3, <2>1, <2>3, <2>4
  <2>6. Impl \ Reached({j}) \subseteq Impl \ Reached({i}) /\ Impl \ Reached({j}) # Impl \ Reached({i})
      BY <2>4, <2>5
  <2>7. IsFiniteSet(Impl \ Reached({i}))
      BY <1>1, FS_Subset
  <2>8. Cardinality(Impl \ Reached({j})) < Cardinality(Impl \ Reached({i}))
    <3>. DEFINE S == Impl \ Reached({j})
                T == Impl \ Reached({i})
    <3>1. IsFiniteSet(T) /\ S \in SUBSET T /\ S # T
        BY <2>6, <2>7
    <3>. HIDE DEF S, T
    <3>2. IsFiniteSet(S) /\ Cardinality(S) <= Cardinality(T) /\ (Cardinality(S) = Cardinality(T) => S = T)
        BY <3>1, FS_Subset
    <3>3. Cardinality(S) \in Nat /\ Cardinality(T) \in Nat
        BY <3>1, <3>2, FS_CardinalityType
    <3>4. Cardinality(S) < Cardinality(T)
        BY <3>1, <3>2, <3>3
    <3>. QED  BY <3>4 DEF S, T
  <2>. QED  BY <1>3, <2>8
<1>. HIDE DEF left, size
<1>4. left \subseteq Impl
    BY DEF left
<1>5. sizes \in SUBSET Nat /\ sizes # {}
    BY <1>1, <1>4
<1>6. PICK x \in sizes : \A y \in sizes : ~(<<y, x>> \in OpToRel(<, Nat))
  <2>. HIDE DEF sizes
  <2>. QED  BY <1>5, WFMin, NatLessThanWellFounded
<1>7. PICK i \in left : x = size[i]
    BY <1>6
<1>8. PICK j \in left : i \in ToSet(impl[j].kids)
    BY <1>2
<1>9. size[j] < size[i] /\ size[j] \in sizes /\ size[j] \in Nat /\ size[i] \in Nat
    BY <1>1, <1>3, <1>4, <1>8
<1>10. ~(<<size[j], size[i]>> \in OpToRel(<, Nat))
    BY <1>6, <1>7, <1>9
<1>. QED  BY <1>9, <1>10 DEF OpToRel

\* Whatever nobody can reach has been deleted, but for what a throwing AddAttribute or AddNode
\* loses (Node.cc:88) and for nodes below themselves.
THEOREM NothingLeft == XmlSpec => []Reclaimed
<1>1. XmlSound => Reclaimed
    BY CountsReclaim
<1>. QED  BY <1>1, XmlAlways, PTL

-------------------------------------------------------------------------------
(* The stack.                                                              *)

\* The nodes that a builder has to itself: nobody has a variable for them, and nobody else has
\* them below.  While an element is open, whatever is below them is one of them.
Apart(P) ==
    /\ ToSet(stack) \subseteq P
    /\ \A i \in P : Live(i)
    /\ \A h \in Slot : handle[h] \notin P
    /\ \A i \in Impl \ P : \A x \in ToSet(impl[i].kids) : x \notin P
    /\ IF path = <<>> THEN P = {stack[1]} ELSE \A i \in P : \A x \in ToSet(impl[i].kids) : x \in P

\* The stack is one way down from the dummy, which hangs nowhere.
Chain ==
    /\ \A i \in Impl : stack[1] \notin ToSet(impl[i].kids)
    /\ \A k, l \in DOMAIN stack : stack[k] = stack[l] => k = l
    /\ \A k \in DOMAIN path : impl[stack[k + 1]].name = path[k] /\ Last(impl[stack[k]].kids) = stack[k + 1]
    /\ Len(impl[stack[1]].kids) <= 1

Nested == stack # <<>> => \E P \in SUBSET Impl : Apart(P) /\ Chain

\* The places of the stack.
LEMMA StackPlaces ==
    ASSUME XmlSound, Paired, stack # <<>>
    PROVE  /\ Len(stack) \in Nat /\ Len(path) \in Nat /\ Len(stack) = Len(path) + 1
           /\ DOMAIN stack = 1..Len(stack) /\ DOMAIN path = 1..Len(path)
           /\ 1 \in DOMAIN stack /\ stack[1] \in ToSet(stack) /\ Last(stack) = stack[Len(stack)]
           /\ \A k \in DOMAIN path : k \in DOMAIN stack /\ k + 1 \in DOMAIN stack /\ k # Len(stack)
           /\ \A k \in DOMAIN stack : stack[k] \in ToSet(stack) /\ stack[k] \in Impl
           /\ path # <<>> <=> Len(path) > 0
           /\ Head(stack) = stack[1]
<1>1. stack \in Seq(Impl) /\ path \in Seq(Tag)
    BY DEF XmlSound, XmlType
<1>2. Len(stack) \in Nat /\ Len(path) \in Nat /\ DOMAIN stack = 1..Len(stack) /\ DOMAIN path = 1..Len(path)
    BY <1>1, LenProperties
<1>3. Len(stack) = Len(path) + 1
    BY DEF Paired
<1>4. \A k \in DOMAIN stack : stack[k] \in ToSet(stack) /\ stack[k] \in Impl
    BY <1>1, <1>2, ElementOfSeq DEF ToSet
<1>5. path # <<>> <=> Len(path) > 0
    BY <1>1, <1>2, EmptySeq
<1>. QED  BY <1>1, <1>2, <1>3, <1>4, <1>5, StackEnds

\* The nesting says what the assertions of the builder say.
LEMMA NestingHolds ==
    ASSUME XmlSound, Paired, Nested
    PROVE  WellNested
<1>. SUFFICES ASSUME stack # <<>>
              PROVE  /\ Len(stack) = Len(path) + 1
                     /\ \A k \in DOMAIN path : /\ impl[stack[k + 1]].name = path[k]
                                               /\ Last(impl[stack[k]].kids) = stack[k + 1]
                     /\ Len(impl[Head(stack)].kids) <= 1
    BY DEF WellNested
<1>1. Chain
    BY DEF Nested
<1>. QED  BY <1>1, StackPlaces DEF Chain

\* A step that leaves the builder and its nodes alone.
LEMMA NestOutside ==
    ASSUME XmlSound, Paired, stack # <<>>, NEW P \in SUBSET Impl, Apart(P), Chain, UNCHANGED <<stack, path>>,
           \A i \in P : impl'[i] = impl[i],
           \A i \in Impl \ P : \A x \in ToSet(impl'[i].kids) : x \notin P,
           \A h \in Slot : handle'[h] \notin P
    PROVE  Nested'
<1>1. \A k \in DOMAIN stack : stack[k] \in P
    BY StackPlaces DEF Apart
<1>2. Apart(P)'
    BY DEF Apart, Live
<1>3. Chain'
  <2>1. \A i \in Impl : stack[1] \notin ToSet(impl'[i].kids)
      BY <1>1, StackPlaces DEF Chain
  <2>2. \A k \in DOMAIN path : impl'[stack[k + 1]].name = path[k] /\ Last(impl'[stack[k]].kids) = stack[k + 1]
      BY <1>1, StackPlaces DEF Chain
  <2>3. Len(impl'[stack[1]].kids) <= 1
      BY <1>1, StackPlaces DEF Chain
  <2>4. \A k, l \in DOMAIN stack : stack[k] = stack[l] => k = l
      BY DEF Chain
  <2>5. stack' = stack /\ path' = path
      OBVIOUS
  <2>. QED  BY <2>1, <2>2, <2>3, <2>4, <2>5 DEF Chain
<1>. QED  BY <1>2, <1>3 DEF Nested

\* What is new is none of the builder's, and neither is what a variable has, or has below.
LEMMA Outsiders ==
    ASSUME XmlSound, NEW P \in SUBSET Impl, Apart(P)
    PROVE  /\ Free # {} => New \in Impl /\ New \notin P
           /\ \A h \in Slot : handle[h] # Nobody => handle[h] \in Impl \ P
           /\ \A i \in Impl \ P : \A x \in ToSet(impl[i].kids) : x \in Impl \ P
<1>1. Free # {} => New \in Impl /\ New \notin P
    BY NewIsZero DEF Apart
<1>2. \A h \in Slot : handle[h] # Nobody => handle[h] \in Impl \ P
    BY HandleLive DEF Apart
<1>3. \A i \in Impl \ P : \A x \in ToSet(impl[i].kids) : x \in Impl \ P
    BY KidLive DEF Apart
<1>. QED  BY <1>1, <1>2, <1>3

\* A variable gets something that is not the builder's, or nothing.
LEMMA NestRefer ==
    ASSUME XmlSound, Paired, Nested, stack # <<>>, NEW h \in Slot, NEW x,
           \A P \in SUBSET Impl : Apart(P) /\ Chain => x \notin P,
           handle' = [handle EXCEPT ![h] = x], UNCHANGED <<impl, stack, path>>
    PROVE  Nested'
<1>1. PICK P \in SUBSET Impl : Apart(P) /\ Chain
    BY DEF Nested
<1>2. \A k \in Slot : handle'[k] \notin P
  <2>1. \A k \in Slot : handle[k] \notin P
      BY <1>1 DEF Apart
  <2>2. handle \in [Slot -> Impl \cup {Nobody}] /\ x \notin P
      BY <1>1 DEF XmlSound, XmlType
  <2>. QED  BY <2>1, <2>2
<1>3. \A i \in Impl \ P : \A y \in ToSet(impl'[i].kids) : y \notin P
    BY <1>1 DEF Apart
<1>. QED  BY <1>1, <1>2, <1>3, NestOutside

\* One Impl that is not the builder's changes, and gets nothing of the builder's below it.
LEMMA NestChange ==
    ASSUME XmlSound, Paired, stack # <<>>, NEW P \in SUBSET Impl, Apart(P), Chain, UNCHANGED <<stack, path>>,
           NEW a \in Impl \ P, NEW b \in Impl \ P,
           \A i \in Impl \ {a, b} : impl'[i] = impl[i],
           \A x \in ToSet(impl'[a].kids) : x \notin P,
           \A x \in ToSet(impl'[b].kids) : x \notin P,
           \A h \in Slot : handle'[h] \notin P
    PROVE  Nested'
<1>1. \A i \in P : impl'[i] = impl[i]
    OBVIOUS
<1>2. \A i \in Impl \ P : \A x \in ToSet(impl'[i].kids) : x \notin P
    BY DEF Apart
<1>. QED  BY <1>1, <1>2, NestOutside

\* A variable gets what is new, or keeps what it has.
LEMMA NestHandles ==
    ASSUME XmlSound, NEW P \in SUBSET Impl, Apart(P), NEW x, x \notin P,
           handle' = handle \/ \E h \in Slot : handle' = [handle EXCEPT ![h] = x]
    PROVE  \A k \in Slot : handle'[k] \notin P
<1>1. handle \in [Slot -> Impl \cup {Nobody}] /\ \A k \in Slot : handle[k] \notin P
    BY DEF XmlSound, XmlType, Apart
<1>. QED  BY <1>1

\* Node::Node, Node::Element and Node::Text
LEMMA MakeNested ==
    ASSUME XmlSound, Paired, Nested, NEW h \in Slot, NEW t \in {"element", "attr", "text"}, NEW n \in Tag \cup {Anonymous}, Make(h, t, n)
    PROVE  Nested'
<1>1. /\ Free # {} /\ impl' = [impl EXCEPT ![New] = Fresh(t, n)] /\ handle' = [handle EXCEPT ![h] = New]
      /\ UNCHANGED <<stack, path>> /\ XmlType
    BY DEF Make, Assign, XmlSound
<1>. SUFFICES ASSUME stack # <<>> PROVE Nested'
    BY <1>1 DEF Nested
<1>2. PICK P \in SUBSET Impl : Apart(P) /\ Chain
    BY DEF Nested
<1>3. New \in Impl \ P
    BY <1>1, <1>2, Outsiders
<1>4. impl'[New] = Fresh(t, n) /\ \A k \in Impl \ {New} : impl'[k] = impl[k]
    BY <1>1, FreshHeap
<1>5. \A x \in ToSet(impl'[New].kids) : x \notin P
    BY <1>4, FreshType DEF ToSet
<1>6. \A k \in Slot : handle'[k] \notin P
    BY <1>1, <1>2, <1>3, NestHandles
<1>7. \A i \in Impl \ {New, New} : impl'[i] = impl[i]
    BY <1>4
<1>. QED  BY <1>1, <1>2, <1>3, <1>5, <1>6, <1>7, NestChange

\* A new Impl that nobody gets.
LEMMA OrphanNested ==
    ASSUME XmlSound, Paired, Nested, Free # {}, NEW t \in {"element", "attr", "text"}, NEW n \in Tag \cup {Anonymous},
           impl' = [impl EXCEPT ![New] = Fresh(t, n)], UNCHANGED <<handle, stack, path>>
    PROVE  Nested'
<1>1. XmlType
    BY DEF XmlSound
<1>. SUFFICES ASSUME stack # <<>> PROVE Nested'
    BY DEF Nested
<1>2. PICK P \in SUBSET Impl : Apart(P) /\ Chain
    BY DEF Nested
<1>3. New \in Impl \ P
    BY <1>2, Outsiders
<1>4. impl'[New] = Fresh(t, n) /\ \A k \in Impl \ {New} : impl'[k] = impl[k]
    BY <1>1, FreshHeap
<1>5. \A x \in ToSet(impl'[New].kids) : x \notin P
    BY <1>4, FreshType DEF ToSet
<1>6. \A k \in Slot : handle'[k] \notin P
    BY <1>2 DEF Apart
<1>7. \A i \in Impl \ {New, New} : impl'[i] = impl[i]
    BY <1>4
<1>. QED  BY <1>2, <1>3, <1>5, <1>6, <1>7, NestChange

\* A new Impl hangs on one that a variable has, and a variable may get it: AddElement, AddText,
\* AddAttribute.
LEMMA AddNested ==
    ASSUME XmlSound, Paired, Nested, Free # {}, NEW h \in Slot, handle[h] # Nobody,
           NEW t \in {"element", "attr", "text"}, NEW n \in Tag \cup {Anonymous},
           impl' = [Adopt(handle[h], New, t, n) EXCEPT ![New] = Fresh(t, n)],
           handle' = handle \/ \E g \in Slot : handle' = [handle EXCEPT ![g] = New], UNCHANGED <<stack, path>>
    PROVE  Nested'
<1>. DEFINE p == handle[h]
<1>1. XmlType /\ p \in Impl /\ Live(p) /\ impl' = [Adopt(p, New, t, n) EXCEPT ![New] = Fresh(t, n)]
    BY HandleLive DEF XmlSound
<1>. SUFFICES ASSUME stack # <<>> PROVE Nested'
    BY DEF Nested
<1>2. PICK P \in SUBSET Impl : Apart(P) /\ Chain
    BY DEF Nested
<1>3. New \in Impl \ P /\ p \in Impl \ P
    BY <1>2, Outsiders
<1>. HIDE DEF p
<1>4. /\ impl'[New] = Fresh(t, n) /\ impl'[p] = Grown(impl[p], New, t, n)
      /\ \A k \in Impl \ {New, p} : impl'[k] = impl[k]
    BY <1>1, AdoptHeap
<1>5. \A x \in ToSet(impl'[New].kids) : x \notin P
    BY <1>4, FreshType DEF ToSet
<1>6. \A x \in ToSet(impl'[p].kids) : x \notin P
  <2>1. ToSet(impl'[p].kids) = ToSet(impl[p].kids) \cup {New}
    <3>1. PICK r \in ImplRecord : r = impl[p]
        BY <1>3, RecordType DEF XmlSound
    <3>2. ToSet(Grown(r, New, t, n).kids) = ToSet(r.kids) \cup {New}
        BY <1>3, GrownRecord
    <3>. QED  BY <1>4, <3>1, <3>2
  <2>. QED  BY <1>2, <1>3, <2>1 DEF Apart
<1>7. \A k \in Slot : handle'[k] \notin P
    BY <1>2, <1>3, NestHandles
<1>. QED  BY <1>2, <1>3, <1>4, <1>5, <1>6, <1>7, NestChange

\* Node::AddNode
LEMMA AdoptNested ==
    ASSUME XmlSound, Paired, Nested, NEW h \in Slot, NEW g \in Slot, handle[h] # Nobody, handle[g] # Nobody,
           NEW t, NEW n, impl' = Adopt(handle[h], handle[g], t, n), UNCHANGED <<handle, stack, path>>
    PROVE  Nested'
<1>. DEFINE p == handle[h]
            j == handle[g]
<1>. SUFFICES ASSUME stack # <<>> PROVE Nested'
    BY DEF Nested
<1>1. PICK P \in SUBSET Impl : Apart(P) /\ Chain
    BY DEF Nested
<1>2. j \in Impl \ P /\ p \in Impl \ P /\ impl' = Adopt(p, j, t, n)
    BY <1>1, Outsiders
<1>. HIDE DEF p, j
<1>3. impl'[p] = Grown(impl[p], j, t, n) /\ \A k \in Impl \ {p, p} : impl'[k] = impl[k]
  <2>1. impl \in [Impl -> ImplRecord]
      BY DEF XmlSound, XmlType
  <2>. QED  BY <1>2, <2>1 DEF Adopt
<1>4. \A x \in ToSet(impl'[p].kids) : x \notin P
  <2>1. ToSet(impl'[p].kids) = ToSet(impl[p].kids) \cup {j}
    <3>1. PICK r \in ImplRecord : r = impl[p]
        BY <1>2, RecordType DEF XmlSound
    <3>2. ToSet(Grown(r, j, t, n).kids) = ToSet(r.kids) \cup {j}
        BY <1>2, GrownRecord
    <3>. QED  BY <1>3, <3>1, <3>2
  <2>. QED  BY <1>1, <1>2, <2>1 DEF Apart
<1>5. \A k \in Slot : handle'[k] \notin P
    BY <1>1 DEF Apart
<1>. QED  BY <1>1, <1>2, <1>3, <1>4, <1>5, NestChange

\* *i for an iterator: what a variable's node has below it, or its nodes below them, is not
\* the builder's.
LEMMA ChildNested ==
    ASSUME XmlSound, Paired, Nested, NEW h \in Slot, NEW g \in Slot, NEW j \in Impl, Child(h, j, g)
    PROVE  Nested'
<1>. DEFINE i == handle[h]
<1>1. /\ i # Nobody /\ handle' = [handle EXCEPT ![g] = j] /\ UNCHANGED <<impl, stack, path>>
      /\ \/ j \in ToSet(Children(i)) \cup ToSet(Attributes(i))
         \/ \E t \in {"element", "attr"}, n \in Tag :
               j \in ToSet(ByName(i, t, n)) \cup ToSet(FirstWith(Children(i), t, n))
    BY DEF Child, Assign
<1>. SUFFICES ASSUME stack # <<>> PROVE Nested'
    BY <1>1 DEF Nested
<1>2. ASSUME NEW P \in SUBSET Impl, Apart(P), Chain
      PROVE  j \notin P
  <2>1. i \in Impl \ P /\ \A k \in Impl \ P : \A x \in ToSet(impl[k].kids) : x \in Impl \ P
      BY <1>1, <1>2, Outsiders
  <2>2. ASSUME NEW k \in Impl \ P
        PROVE  /\ \A x \in ToSet(impl[k].attr) : x \in Impl \ P
               /\ \A t \in {"element", "attr"}, n \in Tag : \A x \in ToSet(ByName(k, t, n)) : x \in Impl \ P
    <3>1. ToSet(impl[k].element) \cup ToSet(impl[k].attr) \subseteq ToSet(impl[k].kids)
        BY DEF XmlSound, XmlCounts, Tidy
    <3>2. impl[k].element \in Seq(Impl) /\ impl[k].attr \in Seq(Impl)
        BY RecordType DEF XmlSound
    <3>3. \A n \in Tag : /\ ToSet(Named(impl[k].element, n)) \subseteq ToSet(impl[k].element)
                         /\ ToSet(Named(impl[k].attr, n)) \subseteq ToSet(impl[k].attr)
        BY <3>2, NamedPart
    <3>4. \A x \in ToSet(impl[k].attr) : x \in Impl \ P
        BY <2>1, <3>1
    <3>5. ASSUME NEW n \in Tag
          PROVE  /\ \A x \in ToSet(ByName(k, "element", n)) : x \in Impl \ P
                 /\ \A x \in ToSet(ByName(k, "attr", n)) : x \in Impl \ P
        BY <2>1, <3>1, <3>3 DEF ByName
    <3>. QED  BY <3>4, <3>5
  <2>. HIDE DEF i
  <2>3. ASSUME NEW t \in {"element", "attr"}, NEW n \in Tag, j \in ToSet(FirstWith(Children(i), t, n))
        PROVE  j \notin P
    <3>. DEFINE nodes == Children(i)
                having == {k \in DOMAIN nodes : ByName(nodes[k], t, n) # <<>>}
    <3>1. nodes \in Seq(Impl) /\ nodes = impl[i].kids
        BY <2>1, RecordType DEF Children, XmlSound
    <3>2. DOMAIN nodes = 1..Len(nodes) /\ Len(nodes) \in Nat
        BY <3>1, LenProperties
    <3>3. FirstWith(nodes, t, n) = IF having = {} THEN <<>> ELSE ByName(nodes[Min(having)], t, n)
        BY DEF FirstWith
    <3>4. ToSet(<<>>) = {}
        BY DEF ToSet
    <3>5. having # {} /\ j \in ToSet(ByName(nodes[Min(having)], t, n))
        BY <2>3, <3>3, <3>4
    <3>6. having \in SUBSET Nat
        BY <3>2
    <3>7. Min(having) \in having
      <4>. HIDE DEF having
      <4>. QED  BY <3>5, <3>6, LeastPlace
    <3>8. nodes[Min(having)] \in ToSet(nodes)
        BY <3>7 DEF ToSet
    <3>9. nodes[Min(having)] \in Impl \ P
        BY <2>1, <3>1, <3>8
    <3>. HIDE DEF nodes, having
    <3>. QED  BY <2>2, <3>5, <3>9
  <2>. QED  BY <1>1, <2>1, <2>2, <2>3 DEF Children, Attributes
<1>. HIDE DEF i
<1>. QED  BY <1>1, <1>2, NestRefer

\* Node::Node(const Node&)
LEMMA CopyNested ==
    ASSUME XmlSound, Paired, Nested, NEW h \in Slot, NEW g \in Slot, Copy(h, g)
    PROVE  Nested'
<1>1. handle' = [handle EXCEPT ![h] = handle[g]] /\ UNCHANGED <<impl, stack, path>>
    BY DEF Copy, Assign
<1>2. \A P \in SUBSET Impl : Apart(P) /\ Chain => handle[g] \notin P
    BY DEF Apart
<1>3. CASE stack = <<>>
    BY <1>1, <1>3 DEF Nested
<1>4. CASE stack # <<>>
    BY <1>1, <1>2, <1>4, NestRefer
<1>. QED  BY <1>3, <1>4

\* Node::~Node
LEMMA DropNested ==
    ASSUME XmlSound, Paired, Nested, NEW h \in Slot, Drop(h)
    PROVE  Nested'
<1>1. handle' = [handle EXCEPT ![h] = Nobody] /\ UNCHANGED <<impl, stack, path>>
    BY DEF Drop, Assign, heap
<1>2. \A P \in SUBSET Impl : Apart(P) /\ Chain => Nobody \notin P
    BY DEF Impl, Nobody
<1>3. CASE stack = <<>>
    BY <1>1, <1>3 DEF Nested
<1>4. CASE stack # <<>>
    BY <1>1, <1>2, <1>4, NestRefer
<1>. QED  BY <1>3, <1>4

\* TreeBuilder::Result: the root is below the dummy, which alone is the builder's by then.
LEMMA ResultNested ==
    ASSUME XmlSound, Paired, Nested, NEW h \in Slot, Result(h)
    PROVE  Nested'
<1>. DEFINE root == Head(impl[Head(stack)].kids)
<1>1. /\ stack # <<>> /\ path = <<>> /\ impl[Head(stack)].kids # <<>> /\ handle' = [handle EXCEPT ![h] = root]
      /\ UNCHANGED <<impl, stack, path>>
    BY DEF Result, Assign, BeforeRoot, Inside
<1>2. root \in ToSet(impl[Head(stack)].kids) /\ Head(stack) \in Impl /\ Head(stack) = stack[1]
  <2>1. Head(stack) \in Impl /\ Head(stack) = stack[1]
      BY <1>1, StackEnds
  <2>2. impl[Head(stack)].kids \in Seq(Impl)
      BY <2>1, RecordType DEF XmlSound
  <2>. QED  BY SMTT(30), <1>1, <2>1, <2>2, LenProperties, EmptySeq DEF ToSet
<1>3. ASSUME NEW P \in SUBSET Impl, Apart(P), Chain
      PROVE  root \notin P
  <2>1. P = {stack[1]}
      BY <1>1, <1>3 DEF Apart
  <2>2. root # stack[1]
      BY <1>2, <1>3 DEF Chain
  <2>. QED  BY <2>1, <2>2
<1>. HIDE DEF root
<1>. QED  BY <1>1, <1>3, NestRefer

\* NodeSet::Find
LEMMA FindNested ==
    ASSUME XmlSound, Paired, Nested, NEW h \in Slot, NEW g \in Slot, NEW t \in {"element", "attr"}, NEW n \in Tag, NEW v, Find(h, t, n, v, g)
    PROVE  Nested'
<1>. DEFINE all == Children(handle[h])
            Matches(i) == \E j \in ToSet(ByName(i, t, n)) : ValueOf(j) = v
            places == {k \in DOMAIN all : Matches(all[k])}
            size == Cardinality(places)
<1>1. Free # {} /\ handle[h] # Nobody /\ handle' = [handle EXCEPT ![g] = New] /\ UNCHANGED <<stack, path>>
    BY DEF Find, Assign
<1>. SUFFICES ASSUME stack # <<>> PROVE Nested'
    BY <1>1 DEF Nested
<1>2. PICK at \in [1..size -> places], order \in [1..size -> 1..size] :
         impl' = [impl EXCEPT ![New] = [Fresh("element", Anonymous) EXCEPT
                               !.kids = [k \in 1..size |-> all[at[k]]],
                               !.element = [k \in 1..size |-> [l \in 1..size |-> all[at[l]]][order[k]]]]]
    BY DEF Find
<1>3. PICK P \in SUBSET Impl : Apart(P) /\ Chain
    BY DEF Nested
<1>4. New \in Impl \ P /\ handle[h] \in Impl \ P
    BY <1>1, <1>3, Outsiders
<1>5. /\ \A k \in Impl \ {New, New} : impl'[k] = impl[k]
      /\ impl'[New].kids = [k \in 1..size |-> all[at[k]]]
  <2>1. impl \in [Impl -> ImplRecord]
      BY DEF XmlSound, XmlType
  <2>. HIDE DEF size, places, all
  <2>. QED  BY <1>2, <1>4, <2>1 DEF Fresh
<1>6. \A x \in ToSet(impl'[New].kids) : x \notin P
  <2>1. \A k \in 1..size : all[at[k]] \in ToSet(impl[handle[h]].kids)
    <3>1. \A k \in 1..size : at[k] \in places
        OBVIOUS
    <3>2. \A k \in 1..size : at[k] \in DOMAIN all
        BY <3>1
    <3>. QED  BY <3>2 DEF Children, ToSet
  <2>2. \A k \in 1..size : all[at[k]] \notin P
      BY <1>3, <1>4, <2>1 DEF Apart
  <2>. HIDE DEF size, places, all
  <2>. QED  BY <1>5, <2>2 DEF ToSet
<1>7. \A k \in Slot : handle'[k] \notin P
    BY <1>1, <1>3, <1>4, NestHandles
<1>. HIDE DEF size, places, all
<1>. QED  BY <1>1, <1>3, <1>4, <1>5, <1>6, <1>7, NestChange





\* Impl::Release: what goes with its last reference is not on the stack, and below nobody.
LEMMA ReleaseNested ==
    ASSUME XmlSound, Paired, Nested, Release
    PROVE  Nested'
<1>. DEFINE i == Head(releasing)
<1>1. releasing # <<>> /\ UNCHANGED <<handle, stack, path>> /\ releasing \in Seq(Impl) /\ impl \in [Impl -> ImplRecord]
    BY DEF Release, XmlSound, XmlType
<1>. SUFFICES ASSUME stack # <<>> PROVE Nested'
    BY <1>1 DEF Nested
<1>2. PICK P \in SUBSET Impl : Apart(P) /\ Chain
    BY DEF Nested
<1>3. CASE ref[i] # 1
  <2>1. impl' = impl
      BY <1>3 DEF Release
  <2>2. /\ \A k \in P : impl'[k] = impl[k]
        /\ \A k \in Impl \ P : \A x \in ToSet(impl'[k].kids) : x \notin P
        /\ \A h \in Slot : handle'[h] \notin P
      BY <1>1, <1>2, <2>1 DEF Apart
  <2>. QED  BY <1>1, <1>2, <2>2, NestOutside
<1>4. CASE ref[i] = 1
  <2>1. i \in Impl /\ impl' = [impl EXCEPT ![i] = Freed] /\ Cardinality(In(releasing, i)) = Cardinality(In(Tail(releasing), i)) + 1
    <3>1. i \in Impl
        BY <1>1, InTail
    <3>2. Cardinality(In(releasing, i)) = Cardinality(In(Tail(releasing), i)) + (IF i = i THEN 1 ELSE 0)
        BY <1>1, <3>1, InTail
    <3>. QED  BY <1>4, <3>1, <3>2 DEF Release
  <2>2. i \notin ToSet(stack) /\ \A k \in Impl : i \notin ToSet(impl[k].kids)
    <3>. HIDE DEF i
    <3>1. ref[i] = Cardinality(By(handle, i)) + Cardinality(In(stack, i))
                + Cardinality(In(releasing, i)) + Cardinality(Below(KidsOf(impl), i)) + lost[i]
        BY <2>1, CountSum
    <3>2. /\ Cardinality(By(handle, i)) \in Nat /\ Cardinality(In(stack, i)) \in Nat
          /\ Cardinality(In(releasing, i)) \in Nat /\ Cardinality(Below(KidsOf(impl), i)) \in Nat /\ lost[i] \in Nat
        BY <2>1, SumTypes
    <3>3. Cardinality(In(Tail(releasing), i)) \in Nat
        BY <1>1, HeadTailProperties, InFinite
    <3>4. Cardinality(In(stack, i)) = 0 /\ Cardinality(Below(KidsOf(impl), i)) = 0
        BY SMTT(30), <1>4, <2>1, <3>1, <3>2, <3>3
    <3>5. XmlType /\ Counted(i)
        BY <2>1 DEF XmlSound, XmlCounts
    <3>6. i \notin ToSet(stack) /\ i \notin Kids(Impl)
        BY <2>1, <3>4, <3>5, CountTypes
    <3>. QED  BY <3>6 DEF Kids
  <2>. HIDE DEF i
  <2>3. impl'[i].kids = <<>> /\ \A k \in Impl \ {i} : impl'[k] = impl[k]
      BY <1>1, <2>1, FreedType
  <2>4. ToSet(<<>>) = {}
      BY DEF ToSet
  <2>5. PICK Q \in SUBSET Impl : Q = P \ {i}
      OBVIOUS
  <2>6. Apart(Q)'
    <3>1. ToSet(stack) \subseteq P \ {i} /\ \A h \in Slot : handle[h] \notin P \ {i}
        BY <1>2, <2>2 DEF Apart
    <3>2. \A k \in P \ {i} : impl'[k].type # "freed"
        BY <1>2, <2>3 DEF Apart, Live
    <3>3. \A k \in Impl \ (P \ {i}) : \A x \in ToSet(impl'[k].kids) : x \notin P \ {i}
        BY <1>2, <2>3, <2>4 DEF Apart
    <3>4. IF path = <<>> THEN P \ {i} = {stack[1]} ELSE \A k \in P \ {i} : \A x \in ToSet(impl'[k].kids) : x \in P \ {i}
      <4>1. CASE path = <<>>
        <5>1. stack[1] # i /\ P = {stack[1]}
            BY <1>2, <2>2, <4>1, StackPlaces DEF Apart
        <5>. QED  BY <4>1, <5>1
      <4>2. CASE path # <<>>
          BY <1>2, <2>2, <2>3, <4>2 DEF Apart
      <4>. QED  BY <4>1, <4>2
    <3>. QED  BY <1>1, <2>5, <3>1, <3>2, <3>3, <3>4 DEF Apart, Live
  <2>7. Chain'
    <3>1. \A k \in DOMAIN stack : impl'[stack[k]] = impl[stack[k]]
        BY <2>2, <2>3, StackPlaces
    <3>2. \A k \in Impl : stack[1] \notin ToSet(impl'[k].kids)
        BY <1>2, <2>3, <2>4 DEF Chain
    <3>3. \A k \in DOMAIN path : impl'[stack[k + 1]].name = path[k] /\ Last(impl'[stack[k]].kids) = stack[k + 1]
        BY <1>2, <3>1, StackPlaces DEF Chain
    <3>4. Len(impl'[stack[1]].kids) <= 1
        BY <1>2, <3>1, StackPlaces DEF Chain
    <3>5. \A k, l \in DOMAIN stack : stack[k] = stack[l] => k = l
        BY <1>2 DEF Chain
    <3>6. stack' = stack /\ path' = path
        BY <1>1
    <3>. QED  BY <3>2, <3>3, <3>4, <3>5, <3>6 DEF Chain
  <2>. QED  BY <2>6, <2>7 DEF Nested
<1>. QED  BY <1>3, <1>4

\* TreeBuilder::TreeBuilder
LEMMA NewBuilderNested ==
    ASSUME XmlSound, NewBuilder
    PROVE  Nested'
<1>1. /\ Free # {} /\ impl' = [impl EXCEPT ![New] = Fresh("element", Anonymous)]
      /\ stack' = <<New>> /\ path' = <<>> /\ UNCHANGED handle /\ XmlType /\ XmlCounts
    BY DEF NewBuilder, XmlSound
<1>2. New \in Impl /\ ~Live(New)
    BY <1>1, NewIsZero
<1>3. impl'[New] = Fresh("element", Anonymous) /\ \A k \in Impl \ {New} : impl'[k] = impl[k]
    BY <1>1, FreshHeap
<1>4. impl'[New].kids = <<>> /\ impl'[New].type = "element" /\ ToSet(<<>>) = {}
    BY <1>3, FreshType DEF ToSet
<1>5. \A k \in Impl : New \notin ToSet(impl'[k].kids)
  <2>1. \A k \in Impl : New \notin ToSet(impl[k].kids)
      BY <1>2, KidLive
  <2>. QED  BY <1>3, <1>4, <2>1
<1>6. \A h \in Slot : handle[h] # New
    BY <1>1, <1>2, ReferredLive
<1>7. stack'[1] = New /\ ToSet(stack') = {New} /\ DOMAIN stack' = {1} /\ DOMAIN path' = {}
    BY <1>1 DEF ToSet
<1>. HIDE DEF New
<1>8. PICK Q \in SUBSET Impl : Q = {New}
    BY <1>2
<1>9. Apart(Q)'
  <2>1. \A i \in {New} : impl'[i].type # "freed"
      BY <1>4
  <2>2. \A h \in Slot : handle'[h] \notin {New}
      BY <1>1, <1>6
  <2>3. \A i \in Impl \ {New} : \A x \in ToSet(impl'[i].kids) : x \notin {New}
      BY <1>5
  <2>. QED  BY <1>1, <1>7, <1>8, <2>1, <2>2, <2>3 DEF Apart, Live
<1>10. Chain'
    BY <1>4, <1>5, <1>7 DEF Chain
<1>. QED  BY <1>9, <1>10 DEF Nested

\* TreeBuilder::OnCharData
LEMMA OnCharDataNested ==
    ASSUME XmlSound, Paired, Nested, OnCharData
    PROVE  Nested'
<1>. DEFINE p == Last(stack)
<1>1. /\ Free # {} /\ path # <<>> /\ stack # <<>>
      /\ impl' = [Adopt(p, New, "text", Anonymous) EXCEPT ![New] = Fresh("text", Anonymous)]
      /\ UNCHANGED <<handle, stack, path>> /\ XmlType /\ XmlCounts
    BY DEF OnCharData, Inside, Paired, XmlSound
<1>2. New \in Impl /\ ~Live(New) /\ p \in Impl /\ Live(p)
    BY <1>1, NewIsZero, StackEnds
<1>3. /\ impl'[New] = Fresh("text", Anonymous) /\ impl'[p] = Grown(impl[p], New, "text", Anonymous)
      /\ \A k \in Impl \ {New, p} : impl'[k] = impl[k] /\ p # New
    BY <1>1, <1>2, AdoptHeap
<1>4. impl'[New].kids = <<>> /\ impl'[New].type = "text" /\ ToSet(<<>>) = {}
    BY <1>3, FreshType DEF ToSet
<1>5. /\ ToSet(impl'[p].kids) = ToSet(impl[p].kids) \cup {New}
      /\ impl'[p].name = impl[p].name /\ impl'[p].type = impl[p].type
  <2>1. PICK r \in ImplRecord : r = impl[p]
      BY <1>1, <1>2, RecordType
  <2>2. ToSet(Grown(r, New, "text", Anonymous).kids) = ToSet(r.kids) \cup {New}
      BY <1>2, GrownRecord
  <2>3. Grown(r, New, "text", Anonymous).name = r.name
      BY <1>2, GrownRecord
  <2>4. Grown(r, New, "text", Anonymous).type = r.type
      BY <1>2, GrownRecord
  <2>. QED  BY <1>3, <2>1, <2>2, <2>3, <2>4
<1>6. PICK P \in SUBSET Impl : Apart(P) /\ Chain
    BY <1>1 DEF Nested
<1>7. /\ New \notin P /\ p \in P /\ \A h \in Slot : handle[h] # New
      /\ \A k \in Impl : New \notin ToSet(impl[k].kids)
  <2>1. New \notin P /\ p \in P
      BY <1>1, <1>2, <1>6, StackPlaces DEF Apart
  <2>2. \A h \in Slot : handle[h] # New
      BY <1>1, <1>2, ReferredLive
  <2>3. \A k \in Impl : New \notin ToSet(impl[k].kids)
      BY <1>2, KidLive
  <2>. QED  BY <2>1, <2>2, <2>3
<1>8. \A k \in DOMAIN stack : stack[k] # New /\ (k # Len(stack) => stack[k] # p)
  <2>1. \A k \in DOMAIN stack : stack[k] # New
      BY <1>1, <1>6, <1>7, StackPlaces DEF Apart
  <2>2. Len(stack) \in DOMAIN stack /\ p = stack[Len(stack)]
      BY <1>1, StackPlaces
  <2>. QED  BY <1>6, <2>1, <2>2 DEF Chain
<1>. HIDE DEF p, New
<1>9. PICK Q \in SUBSET Impl : Q = P \cup {New}
    BY <1>2
<1>10. Apart(Q)'
  <2>1. ToSet(stack) \subseteq P \cup {New} /\ \A h \in Slot : handle[h] \notin P \cup {New}
      BY <1>6, <1>7 DEF Apart
  <2>2. \A k \in P \cup {New} : impl'[k].type # "freed"
      BY <1>3, <1>4, <1>5, <1>6 DEF Apart, Live
  <2>3. \A k \in Impl \ (P \cup {New}) : \A x \in ToSet(impl'[k].kids) : x \notin P \cup {New}
      BY <1>3, <1>6, <1>7 DEF Apart
  <2>4. \A k \in P \cup {New} : \A x \in ToSet(impl'[k].kids) : x \in P \cup {New}
    <3>1. \A k \in P : \A x \in ToSet(impl[k].kids) : x \in P
        BY <1>1, <1>6 DEF Apart
    <3>. QED  BY <1>3, <1>4, <1>5, <1>7, <3>1
  <2>5. stack' = stack /\ path' = path /\ handle' = handle
      BY <1>1
  <2>. QED  BY <1>1, <1>9, <2>1, <2>2, <2>3, <2>4, <2>5 DEF Apart, Live
<1>11. Chain'
  <2>1. \A k \in Impl : stack[1] \notin ToSet(impl'[k].kids)
      BY <1>1, <1>3, <1>4, <1>5, <1>6, <1>8, StackPlaces DEF Chain
  <2>2. \A k \in DOMAIN path : impl'[stack[k + 1]].name = path[k] /\ Last(impl'[stack[k]].kids) = stack[k + 1]
    <3>1. ASSUME NEW k \in DOMAIN path
          PROVE  impl'[stack[k + 1]].name = impl[stack[k + 1]].name /\ impl'[stack[k]] = impl[stack[k]]
      <4>1. k \in DOMAIN stack /\ k + 1 \in DOMAIN stack /\ k # Len(stack) /\ stack[k] \in Impl /\ stack[k + 1] \in Impl
          BY <1>1, StackPlaces
      <4>2. stack[k] # New /\ stack[k + 1] # New /\ stack[k] # p
          BY <1>8, <4>1
      <4>. QED  BY <1>3, <1>5, <4>1, <4>2
    <3>. QED  BY <1>6, <3>1 DEF Chain
  <2>3. Len(impl'[stack[1]].kids) <= 1
    <3>1. 1 \in DOMAIN stack /\ stack[1] \in Impl /\ 1 # Len(stack)
        BY <1>1, StackPlaces
    <3>2. impl'[stack[1]] = impl[stack[1]]
        BY <1>3, <1>8, <3>1
    <3>. QED  BY <1>6, <3>2 DEF Chain
  <2>4. \A k, l \in DOMAIN stack : stack[k] = stack[l] => k = l
      BY <1>6 DEF Chain
  <2>5. stack' = stack /\ path' = path
      BY <1>1
  <2>. QED  BY <2>1, <2>2, <2>3, <2>4, <2>5 DEF Chain
<1>. QED  BY <1>10, <1>11 DEF Nested













\* TreeBuilder::EndElement: when the root is whole, only the dummy is left to the builder.
LEMMA EndElementNested ==
    ASSUME XmlSound, Paired, Nested, EndElement
    PROVE  Nested'
<1>1. /\ stack # <<>> /\ path # <<>> /\ stack' = Front(stack) /\ path' = Front(path) /\ UNCHANGED <<impl, handle>>
      /\ stack \in Seq(Impl) /\ path \in Seq(Tag)
    BY DEF EndElement, Inside, Paired, heap, XmlSound, XmlType
<1>2. PICK P \in SUBSET Impl : Apart(P) /\ Chain
    BY <1>1 DEF Nested
<1>3. /\ Front(stack) \in Seq(Impl) /\ Len(Front(stack)) = Len(stack) - 1 /\ \A k \in 1..(Len(stack) - 1) : Front(stack)[k] = stack[k]
      /\ Front(path) \in Seq(Tag) /\ Len(Front(path)) = Len(path) - 1 /\ \A k \in 1..(Len(path) - 1) : Front(path)[k] = path[k]
  <2>1. Front(stack) \in Seq(Impl) /\ Len(Front(stack)) = Len(stack) - 1 /\ \A k \in 1..(Len(stack) - 1) : Front(stack)[k] = stack[k]
      BY <1>1, InFront
  <2>2. Front(path) \in Seq(Tag) /\ Len(Front(path)) = Len(path) - 1 /\ \A k \in 1..(Len(path) - 1) : Front(path)[k] = path[k]
      BY <1>1, InFront
  <2>. QED  BY <2>1, <2>2
<1>. DEFINE u == Front(stack)
            w == Front(path)
<1>4. /\ Len(stack) \in Nat /\ Len(path) \in Nat /\ Len(stack) = Len(path) + 1 /\ Len(path) > 0
      /\ DOMAIN stack = 1..Len(stack) /\ DOMAIN path = 1..Len(path)
      /\ DOMAIN u = 1..(Len(stack) - 1) /\ DOMAIN w = 1..(Len(path) - 1)
      /\ (w = <<>> <=> Len(path) = 1)
  <2>1. /\ Len(stack) \in Nat /\ Len(path) \in Nat /\ Len(stack) = Len(path) + 1 /\ Len(path) > 0
        /\ DOMAIN stack = 1..Len(stack) /\ DOMAIN path = 1..Len(path)
      BY <1>1, StackPlaces
  <2>2. DOMAIN u = 1..(Len(stack) - 1) /\ DOMAIN w = 1..(Len(path) - 1)
      BY <1>3, LenProperties
  <2>3. w = <<>> <=> Len(w) = 0
      BY <1>3, EmptySeq
  <2>. QED  BY <1>3, <2>1, <2>2, <2>3
<1>5. \A k \in DOMAIN u : u[k] = stack[k] /\ k \in DOMAIN stack
    BY <1>3, <1>4
<1>6. u[1] = stack[1] /\ 1 \in DOMAIN u
    BY <1>4, <1>5
<1>7. \A k \in DOMAIN w : w[k] = path[k] /\ k \in DOMAIN path /\ k \in DOMAIN u /\ k + 1 \in DOMAIN u
    BY <1>3, <1>4
<1>8. stack' = u /\ path' = w /\ impl' = impl /\ handle' = handle
    BY <1>1
<1>. HIDE DEF u, w
<1>9. Chain'
  <2>1. \A i \in Impl : u[1] \notin ToSet(impl[i].kids)
      BY <1>2, <1>6 DEF Chain
  <2>2. \A k, l \in DOMAIN u : u[k] = u[l] => k = l
      BY <1>2, <1>5 DEF Chain
  <2>3. \A k \in DOMAIN w : impl[u[k + 1]].name = w[k] /\ Last(impl[u[k]].kids) = u[k + 1]
      BY <1>2, <1>5, <1>7 DEF Chain
  <2>4. Len(impl[u[1]].kids) <= 1
      BY <1>2, <1>6 DEF Chain
  <2>. QED  BY <1>8, <2>1, <2>2, <2>3, <2>4 DEF Chain
<1>10. ToSet(u) \subseteq ToSet(stack) /\ stack[1] \in ToSet(stack)
    BY <1>1, <1>5, StackPlaces DEF ToSet
<1>11. CASE w = <<>>
  <2>1. PICK Q \in SUBSET Impl : Q = {stack[1]}
      BY <1>1, StackPlaces
  <2>2. ToSet(u) \subseteq Q
    <3>1. DOMAIN u = {1}
        BY <1>4, <1>11
    <3>. QED  BY <1>6, <2>1, <3>1 DEF ToSet
  <2>3. (\A i \in Q : Live(i)) /\ \A h \in Slot : handle[h] \notin Q
      BY <1>2, <1>10, <2>1 DEF Apart
  <2>4. \A i \in Impl \ Q : \A x \in ToSet(impl[i].kids) : x \notin Q
      BY <1>2, <2>1 DEF Chain
  <2>5. Apart(Q)'
      BY <1>6, <1>8, <1>11, <2>1, <2>2, <2>3, <2>4 DEF Apart, Live
  <2>. QED  BY <1>9, <2>5 DEF Nested
<1>12. CASE w # <<>>
  <2>1. Apart(P)'
      BY <1>1, <1>2, <1>8, <1>10, <1>12 DEF Apart, Live
  <2>. QED  BY <1>9, <2>1 DEF Nested
<1>. QED  BY <1>11, <1>12

\* TreeBuilder::StartElement: the builder has the new Impls to itself.
LEMMA StartNested ==
    ASSUME XmlSound, Paired, Nested, stack # <<>>, path # <<>> \/ impl[Head(stack)].kids = <<>>, NEW n \in Tag, NEW attr \in Seq(Tag),
           NEW new \in [1..(1 + Len(attr)) -> Free],
           \A k, l \in DOMAIN new : k < l => new[k] < new[l], StartedWith(n, attr, new)
    PROVE  Nested'
<1>. DEFINE top == Last(stack)
            a == new[1]
            rest == Tail(new)
<1>1. Started(n, new)
    BY StartShape
<1>2. /\ top \in Impl /\ Live(top) /\ top # a /\ a \in Impl /\ rest \in Seq(Impl) /\ ToSet(new) \subseteq Free
      /\ impl'[top] = Grown(impl[top], a, "element", n)
      /\ impl'[top].kids = Append(impl[top].kids, a)
      /\ impl'[a].kids = rest /\ impl'[a].type = "element" /\ impl'[a].name = n
      /\ \A i \in ToSet(rest) : \E t \in Tag : i \in Impl /\ impl'[i] = Fresh("attr", t)
      /\ \A i \in Impl \ (ToSet(new) \cup {top}) : impl'[i] = impl[i]
    BY <1>1 DEF Started
<1>3. \A i : i \in ToSet(new) <=> i = a \/ i \in ToSet(rest)
  <2>1. Once(new)
      BY <1>1 DEF Started
  <2>. QED  BY <2>1 DEF Once
<1>4. stack' = Append(stack, a) /\ path' = Append(path, n) /\ handle' = handle
    BY DEF StartedWith
<1>5. /\ XmlType /\ XmlCounts /\ stack \in Seq(Impl) /\ path \in Seq(Tag)
    BY DEF XmlSound, XmlType
<1>. HIDE DEF top, a, rest
<1>6. PICK P \in SUBSET Impl : Apart(P) /\ Chain
    BY DEF Nested
<1>7. /\ \A i \in ToSet(new) : i \in Impl /\ ~Live(i) /\ i \notin P
      /\ \A i \in ToSet(new) : \A k \in Impl : i \notin ToSet(impl[k].kids)
      /\ \A i \in ToSet(new) : \A h \in Slot : handle[h] # i
      /\ \A i \in ToSet(new) : i \notin ToSet(stack)
  <2>1. \A i \in ToSet(new) : i \in Impl /\ ~Live(i)
      BY <1>2 DEF Free
  <2>2. \A i \in ToSet(new) : i \notin P
      BY <1>6, <2>1 DEF Apart
  <2>3. \A i \in ToSet(new) : \A k \in Impl : i \notin ToSet(impl[k].kids)
      BY <2>1, KidLive
  <2>4. \A i \in ToSet(new) : \A h \in Slot : handle[h] # i
      BY <1>5, <2>1, ReferredLive
  <2>5. \A i \in ToSet(new) : i \notin ToSet(stack)
      BY <2>1, StackLive
  <2>. QED  BY <2>1, <2>2, <2>3, <2>4, <2>5
<1>8. /\ ToSet(impl'[top].kids) = ToSet(impl[top].kids) \cup {a}
      /\ impl'[top].name = impl[top].name /\ impl'[top].type = impl[top].type
      /\ impl[top].kids \in Seq(Impl)
  <2>1. a \in Impl
      BY <1>2
  <2>2. PICK r \in ImplRecord : r = impl[top]
      BY <1>2, <1>5, RecordType
  <2>3. ToSet(Grown(r, a, "element", n).kids) = ToSet(r.kids) \cup {a}
      BY SMTT(30), <2>1, GrownRecord
  <2>4. Grown(r, a, "element", n).name = r.name
      BY <2>1, GrownRecord
  <2>5. Grown(r, a, "element", n).type = r.type
      BY <2>1, GrownRecord
  <2>. QED  BY <1>2, <1>5, <2>2, <2>3, <2>4, <2>5, RecordType
<1>9. \A i \in ToSet(rest) : \A x \in ToSet(impl'[i].kids) : FALSE
  <2>1. TAKE i \in ToSet(rest)
  <2>2. PICK t \in Tag : impl'[i] = Fresh("attr", t)
      BY <1>2
  <2>3. t \in Tag \cup {Anonymous} /\ "attr" \in {"element", "attr", "text"}
      OBVIOUS
  <2>4. impl'[i].kids = <<>>
      BY <2>2, <2>3, FreshType
  <2>. QED  BY <2>4 DEF ToSet
<1>10. \A i \in ToSet(rest) : impl'[i].type # "freed"
  <2>1. TAKE i \in ToSet(rest)
  <2>2. PICK t \in Tag : impl'[i] = Fresh("attr", t)
      BY <1>2
  <2>3. t \in Tag \cup {Anonymous} /\ "attr" \in {"element", "attr", "text"}
      OBVIOUS
  <2>. QED  BY <2>2, <2>3, FreshType
<1>. DEFINE m == Len(stack)
            u == Append(stack, a)
<1>11. /\ m \in Nat /\ Len(path) \in Nat /\ m = Len(path) + 1 /\ DOMAIN stack = 1..m /\ DOMAIN path = 1..Len(path)
       /\ top = stack[m] /\ m \in DOMAIN stack /\ 1 \in DOMAIN stack
       /\ \A k \in DOMAIN stack : stack[k] \in ToSet(stack) /\ stack[k] \in Impl
       /\ path # <<>> <=> Len(path) > 0
       /\ Head(stack) = stack[1]
    BY StackPlaces DEF top
<1>12. /\ DOMAIN u = 1..(m + 1) /\ u[m + 1] = a /\ \A k \in 1..m : u[k] = stack[k]
       /\ ToSet(u) = ToSet(stack) \cup {a}
  <2>1. u \in Seq(Impl) /\ Len(u) = m + 1 /\ u[m + 1] = a /\ \A k \in 1..m : u[k] = stack[k]
      BY <1>2, <1>5, AppendProperties
  <2>2. DOMAIN u = 1..(m + 1)
      BY <2>1, LenProperties
  <2>3. \A k \in 1..(m + 1) : k = m + 1 \/ k \in 1..m
      BY <1>11
  <2>4. m + 1 \in 1..(m + 1) /\ \A k \in 1..m : k \in 1..(m + 1)
      BY <1>11
  <2>. HIDE DEF u, m
  <2>5. ToSet(u) = ToSet(stack) \cup {a}
      BY <1>11, <2>1, <2>2, <2>3, <2>4 DEF ToSet
  <2>. QED  BY <2>1, <2>2, <2>5
<1>13. /\ DOMAIN Append(path, n) = 1..m /\ Append(path, n)[m] = n
       /\ \A k \in 1..(m - 1) : Append(path, n)[k] = path[k] /\ Append(path, n) # <<>>
       /\ Append(path, n) # <<>>
  <2>. DEFINE w == Append(path, n)
  <2>1. w \in Seq(Tag) /\ Len(w) = Len(path) + 1 /\ w[Len(path) + 1] = n /\ \A k \in 1..Len(path) : w[k] = path[k]
      BY <1>5, AppendProperties
  <2>2. DOMAIN w = 1..Len(w)
      BY <2>1, LenProperties
  <2>3. w # <<>>
      BY <1>11, <2>1, EmptySeq
  <2>. HIDE DEF w
  <2>. QED  BY <1>11, <2>1, <2>2, <2>3 DEF w
<1>. HIDE DEF u, m
<1>14. top \in P /\ a \notin P /\ a \in ToSet(new) /\ top \notin ToSet(new)
    BY <1>2, <1>3, <1>6, <1>7, <1>11 DEF Apart
<1>15. PICK Q \in SUBSET Impl : Q = P \cup ToSet(new)
    BY <1>7
<1>16. Apart(Q)'
  <2>1. ToSet(u) \subseteq Q /\ \A h \in Slot : handle[h] \notin Q
      BY <1>6, <1>7, <1>12, <1>14, <1>15 DEF Apart
  <2>2. \A i \in Q : impl'[i].type # "freed"
    <3>1. TAKE i \in Q
    <3>2. CASE i \in ToSet(new)
        BY <1>2, <1>3, <1>10, <3>2
    <3>3. CASE i \in P /\ i # top
        BY <1>2, <1>6, <1>7, <3>3 DEF Apart, Live
    <3>4. CASE i = top
        BY <1>2, <1>8, <3>4 DEF Live
    <3>. QED  BY <1>15, <3>2, <3>3, <3>4
  <2>3. \A i \in Impl \ Q : \A x \in ToSet(impl'[i].kids) : x \notin Q
    <3>1. TAKE i \in Impl \ Q
    <3>2. i \notin ToSet(new) /\ i # top /\ i \notin P
        BY <1>14, <1>15
    <3>3. impl'[i] = impl[i]
        BY <1>2, <3>2
    <3>. QED  BY <1>6, <1>7, <1>15, <3>2, <3>3 DEF Apart
  <2>4. \A i \in Q : \A x \in ToSet(impl'[i].kids) : x \in Q
    <3>1. \A i \in P : \A x \in ToSet(impl[i].kids) : x \in P
      <4>1. CASE path # <<>>
          BY <1>6, <4>1 DEF Apart
      <4>2. CASE path = <<>>
        <5>1. P = {stack[1]} /\ impl[stack[1]].kids = <<>>
            BY <1>6, <1>11, <4>2 DEF Apart
        <5>. QED  BY <5>1 DEF ToSet
      <4>. QED  BY <4>1, <4>2
    <3>2. TAKE i \in Q
    <3>3. CASE i = a
        BY <1>2, <1>3, <1>15, <3>3
    <3>4. CASE i \in ToSet(rest)
        BY <1>9, <3>4
    <3>5. CASE i = top
        BY <1>8, <1>14, <1>15, <3>1, <3>5
    <3>6. CASE i \in P /\ i # top
      <4>1. impl'[i] = impl[i]
          BY <1>2, <1>7, <3>6
      <4>. QED  BY <1>15, <3>1, <3>6, <4>1
    <3>. QED  BY <1>3, <1>15, <3>3, <3>4, <3>5, <3>6
  <2>5. stack' = u /\ path' # <<>> /\ handle' = handle
      BY <1>4, <1>13 DEF u
  <2>. QED  BY <2>1, <2>2, <2>3, <2>4, <2>5 DEF Apart, Live
<1>17. \A k \in 1..m : /\ stack[k] \notin ToSet(new) /\ stack[k] \in Impl /\ stack[k] # a
                       /\ impl'[stack[k]].name = impl[stack[k]].name
                       /\ k # m => impl'[stack[k]] = impl[stack[k]]
  <2>1. TAKE k \in 1..m
  <2>2. stack[k] \notin ToSet(new) /\ stack[k] \in Impl /\ stack[k] # a
      BY <1>7, <1>11, <1>14
  <2>3. k # m => stack[k] # top
      BY <1>6, <1>11 DEF Chain
  <2>4. stack[k] # top => impl'[stack[k]] = impl[stack[k]]
      BY <1>2, <2>2
  <2>. QED  BY <1>8, <2>2, <2>3, <2>4
<1>18. Chain'
  <2>1. \A i \in Impl : u[1] \notin ToSet(impl'[i].kids)
    <3>1. u[1] = stack[1] /\ u[1] \notin ToSet(new) /\ u[1] # a
        BY <1>11, <1>12, <1>17
    <3>2. TAKE i \in Impl
    <3>3. CASE i = a
        BY <1>2, <1>3, <3>1, <3>3
    <3>4. CASE i \in ToSet(rest)
        BY <1>9, <3>4
    <3>5. CASE i = top
        BY <1>2, <1>6, <1>8, <3>1, <3>5 DEF Chain
    <3>6. CASE i \notin ToSet(new) /\ i # top
        BY <1>2, <1>6, <3>1, <3>6 DEF Chain
    <3>. QED  BY <1>3, <3>3, <3>4, <3>5, <3>6
  <2>2. \A k, l \in DOMAIN u : u[k] = u[l] => k = l
    <3>1. TAKE k, l \in DOMAIN u
    <3>2. (k = m + 1 \/ k \in 1..m) /\ (l = m + 1 \/ l \in 1..m)
        BY <1>11, <1>12
    <3>3. CASE k \in 1..m /\ l \in 1..m
        BY <1>6, <1>11, <1>12, <3>3 DEF Chain
    <3>. QED  BY <1>12, <1>17, <3>2, <3>3
  <2>3. ASSUME NEW k \in DOMAIN Append(path, n)
        PROVE  impl'[u[k + 1]].name = Append(path, n)[k] /\ Last(impl'[u[k]].kids) = u[k + 1]
    <3>1. CASE k = m
      <4>1. u[k] = top /\ u[k + 1] = a
          BY <1>11, <1>12, <3>1
      <4>2. Last(impl'[top].kids) = a
        <5>. DEFINE s == impl[top].kids
        <5>1. s \in Seq(Impl) /\ impl'[top].kids = Append(s, a)
            BY <1>2, <1>8
        <5>. HIDE DEF s
        <5>2. Append(s, a) \in Seq(Impl) /\ Len(Append(s, a)) = Len(s) + 1 /\ Append(s, a)[Len(s) + 1] = a
            BY <1>2, <5>1, AppendProperties
        <5>. QED  BY <5>1, <5>2 DEF Last
      <4>. QED  BY <1>2, <1>13, <3>1, <4>1, <4>2
    <3>2. CASE k \in 1..(m - 1)
      <4>1. k \in 1..m /\ k + 1 \in 1..m /\ k # m /\ k \in DOMAIN path
          BY <1>11, <3>2
      <4>2. impl'[stack[k + 1]].name = impl[stack[k + 1]].name /\ impl'[stack[k]] = impl[stack[k]]
          BY <1>17, <4>1
      <4>3. impl[stack[k + 1]].name = path[k] /\ Last(impl[stack[k]].kids) = stack[k + 1]
          BY <1>6, <4>1 DEF Chain
      <4>. QED  BY <1>12, <1>13, <3>2, <4>1, <4>2, <4>3
    <3>. QED  BY <1>11, <1>13, <3>1, <3>2
  <2>4. Len(impl'[u[1]].kids) <= 1
    <3>1. u[1] = stack[1] /\ 1 \in 1..m
        BY <1>11, <1>12
    <3>2. CASE m # 1
      <4>1. impl'[stack[1]] = impl[stack[1]]
          BY <1>17, <3>1, <3>2
      <4>. QED  BY <1>6, <3>1, <4>1 DEF Chain
    <3>3. CASE m = 1
      <4>1. impl[stack[1]].kids = <<>> /\ stack[1] = top
          BY <1>11, <3>3
      <4>2. impl'[top].kids = Append(<<>>, a) /\ Len(Append(<<>>, a)) = 1
          BY <1>2, <4>1
      <4>. QED  BY <3>1, <4>1, <4>2
    <3>. QED  BY <3>2, <3>3
  <2>5. stack' = u /\ path' = Append(path, n)
      BY <1>4 DEF u
  <2>. QED  BY <2>1, <2>2, <2>3, <2>4, <2>5 DEF Chain
<1>. QED  BY <1>16, <1>18 DEF Nested

\* TreeBuilder::StartElement
LEMMA StartElementNested ==
    ASSUME XmlSound, Paired, Nested, NEW n \in Tag, NEW attr \in Attrs, StartElement(n, attr)
    PROVE  Nested'
<1>1. attr \in Seq(Tag)
  <2>1. <<>> \in Seq(Tag) /\ \A t \in Tag : <<t>> \in Seq(Tag)
      BY EmptySeq
  <2>. QED  BY <2>1 DEF Attrs
<1>2. stack # <<>> /\ (path # <<>> \/ impl[Head(stack)].kids = <<>>)
    BY DEF StartElement, Paired, Inside, BeforeRoot
<1>3. PICK new \in [1..(1 + Len(attr)) -> Free] : (\A k, l \in DOMAIN new : k < l => new[k] < new[l]) /\ StartedWith(n, attr, new)
    BY DEF StartElement, StartedWith, Push
<1>. QED  BY <1>1, <1>2, <1>3, StartNested

\* Every step keeps the builder's nodes to the builder, and the stack one way down.
LEMMA NestedStep ==
    ASSUME XmlSound, Paired, Nested, [XmlNext]_xmlvars
    PROVE  Nested'
<1>1. CASE UNCHANGED xmlvars
  <2>1. UNCHANGED <<impl, handle, stack, path>>
      BY <1>1 DEF xmlvars, heap
  <2>. QED  BY <2>1 DEF Nested, Apart, Chain, Live
<1>2. CASE Release
    BY <1>2, ReleaseNested
<1>3. ASSUME NEW h \in Slot, NEW n \in Tag, Make(h, "element", n)
      PROVE  Nested'
  <2>1. n \in Tag \cup {Anonymous} /\ "element" \in {"element", "attr", "text"}
      OBVIOUS
  <2>. QED  BY <1>3, <2>1, MakeNested
<1>4. ASSUME NEW h \in Slot, Make(h, "text", Anonymous)
      PROVE  Nested'
  <2>1. Anonymous \in Tag \cup {Anonymous} /\ "text" \in {"element", "attr", "text"}
      OBVIOUS
  <2>. QED  BY <1>4, <2>1, MakeNested
<1>5. ASSUME NEW h \in Slot, NEW n \in Tag, AddAttribute(h, n)
      PROVE  Nested'
  <2>1. n \in Tag \cup {Anonymous} /\ "attr" \in {"element", "attr", "text"}
      OBVIOUS
  <2>2. Free # {} /\ handle[h] # Nobody /\ UNCHANGED <<handle, stack, path>>
      BY <1>5 DEF AddAttribute, Holds
  <2>3. CASE impl' = [impl EXCEPT ![New] = Fresh("attr", n)]
      BY <2>1, <2>2, <2>3, OrphanNested
  <2>4. CASE impl' = [Adopt(handle[h], New, "attr", n) EXCEPT ![New] = Fresh("attr", n)]
      BY <2>1, <2>2, <2>4, AddNested
  <2>. QED  BY <1>5, <2>3, <2>4 DEF AddAttribute
<1>6. ASSUME NEW h \in Slot, AddText(h)
      PROVE  Nested'
  <2>1. Anonymous \in Tag \cup {Anonymous} /\ "text" \in {"element", "attr", "text"}
      OBVIOUS
  <2>2. /\ Free # {} /\ handle[h] # Nobody /\ UNCHANGED <<handle, stack, path>>
        /\ impl' = [Adopt(handle[h], New, "text", Anonymous) EXCEPT ![New] = Fresh("text", Anonymous)]
      BY <1>6 DEF AddText, Holds
  <2>. QED  BY <2>1, <2>2, AddNested
<1>7. ASSUME NEW h \in Slot, NEW g \in Slot, NEW n \in Tag, AddElement(h, n, g)
      PROVE  Nested'
  <2>1. n \in Tag \cup {Anonymous} /\ "element" \in {"element", "attr", "text"}
      OBVIOUS
  <2>2. /\ Free # {} /\ handle[h] # Nobody /\ UNCHANGED <<stack, path>> /\ handle' = [handle EXCEPT ![g] = New]
        /\ impl' = [Adopt(handle[h], New, "element", n) EXCEPT ![New] = Fresh("element", n)]
      BY <1>7 DEF AddElement, Holds, Assign
  <2>. QED  BY <2>1, <2>2, AddNested
<1>8. ASSUME NEW h \in Slot, NEW g \in Slot, AddNode(h, g)
      PROVE  Nested'
  <2>1. handle[h] # Nobody /\ handle[g] # Nobody /\ UNCHANGED <<handle, stack, path>>
      BY <1>8 DEF AddNode, Holds
  <2>2. CASE impl' = impl
      BY <2>1, <2>2 DEF Nested, Apart, Chain, Live
  <2>3. CASE impl' = Adopt(handle[h], handle[g], impl[handle[g]].type, impl[handle[g]].name)
      BY <2>1, <2>3, AdoptNested
  <2>. QED  BY <1>8, <2>2, <2>3 DEF AddNode
<1>9. ASSUME NEW h \in Slot, NEW g \in Slot, Copy(h, g)
      PROVE  Nested'
    BY <1>9, CopyNested
<1>10. ASSUME NEW h \in Slot, NEW g \in Slot, NEW j \in Impl, Child(h, j, g)
       PROVE  Nested'
    BY <1>10, ChildNested
<1>11. ASSUME NEW h \in Slot, NEW g \in Slot, NEW t \in {"element", "attr"}, NEW n \in Tag, NEW v \in 0..1, Find(h, t, n, v, g)
       PROVE  Nested'
    BY <1>11, FindNested
<1>12. ASSUME NEW h \in Slot, Drop(h) \/ Result(h)
       PROVE  Nested'
    BY <1>12, DropNested, ResultNested
<1>13. ASSUME NEW n \in Tag, NEW attr \in Attrs, StartElement(n, attr)
       PROVE  Nested'
    BY <1>13, StartElementNested
<1>14. CASE NewBuilder \/ EndElement \/ OnCharData
    BY <1>14, NewBuilderNested, EndElementNested, OnCharDataNested
<1>15. CASE DropBuilder
  <2>1. stack' = <<>>
      BY <1>15 DEF DropBuilder
  <2>. QED  BY <2>1 DEF Nested
<1>. QED  BY <1>1, <1>2, <1>3, <1>4, <1>5, <1>6, <1>7, <1>8, <1>9, <1>10, <1>11, <1>12, <1>13, <1>14, <1>15 DEF XmlNext

\* The stack of the builder is the open elements on the dummy, each the last of the one below,
\* whatever the program does with its own nodes meanwhile (TreeBuilder.cc:120, TreeBuilder.cc:86).
THEOREM StackNests == XmlSpec => []WellNested
<1>1. XmlIdle => Nested
    BY DEF XmlIdle, Nested
<1>2. XmlSound /\ Paired /\ Nested /\ [XmlNext]_xmlvars => Nested'
    BY NestedStep
<1>3. XmlSound /\ Paired /\ Nested => WellNested
    BY NestingHolds
<1>. QED  BY <1>1, <1>2, <1>3, XmlAlways, PTL DEF XmlSpec

===============================================================================
