--------------------------------- MODULE Json ---------------------------------
(***************************************************************************)
(* How values are written as text and read back: Val::Visit and            *)
(* JsonWriter on one side, JsonParser, ValBuilder and ValResponse on the   *)
(* other, with the parser and the generator of yajl between them.          *)
(*                                                                         *)
(* A text is a sequence of tokens; commas and colons are those that the    *)
(* generator puts and the parser expects.  A text is either a file that    *)
(* this program wrote (the index, the configuration) and may have died     *)
(* writing, or the answer of a server, which is any tokens at all and may  *)
(* end anywhere.                                                           *)
(***************************************************************************)
EXTENDS Integers, Sequences, SequencesExt

CONSTANTS
    Name,       \* strings, as numbers: a std::map keeps its keys in order
    BadName,    \* those that are not UTF-8
    Atom,       \* numbers and booleans
    Nil,        \* nothing: no key, no body, no document
    Documents,  \* the values that are written, and what is in them
    MaxTokens   \* bound: the length of an answer

ASSUME JsonAssumption ==
    /\ Name \subseteq Nat /\ BadName \subseteq Name
    /\ Nil \notin Name
    /\ MaxTokens \in Nat

VARIABLES
    doc,        \* the value to write, Nil for the answer of a server
    todo,       \* what Val::Visit has still to do
    text,       \* the tokens written, or received
    pos,        \* how many of them were read
    grammar,    \* yajl: what each open container expects
    ctx,        \* ValBuilder::m_ctx, the top is the last
    step        \* "write", "read", then "value", "refused" or "thrown"

jvars == <<doc, todo, text, pos, grammar, ctx, step>>

\* A value: Val::Impl<T>.
Val(t, b) == [type |-> t, body |-> b]

Null        == Val("null", Nil)
EmptyObject == Val("object", [n \in {} |-> Nil])
EmptyArray  == Val("array", <<>>)

\* Val::Set, operator[], Add: a value with values of S in it.
IsVal(v, S) ==
    \/ v \in {Val("string", n) : n \in Name} \cup {Val("atom", a) : a \in Atom} \cup {Null}
    \/ v = Val("array", v.body) /\ v.body \in Seq(S)
    \/ /\ v = Val("object", v.body) /\ v.body \in [DOMAIN v.body -> S]
       /\ DOMAIN v.body \subseteq Name /\ IsFiniteSet(DOMAIN v.body)

ASSUME DocumentsAssumption == \A v \in Documents : IsVal(v, Documents)

Tok(s, v) == [is |-> s, v |-> v]

Token == {Tok("string", n) : n \in Name} \cup {Tok("atom", a) : a \in Atom}
         \cup {Tok(s, Nil) : s \in {"null", "{", "}", "[", "]"}}

-----------------------------------------------------------------------------
(* Writing.                                                                *)

Put(tok) == [put |-> TRUE, what |-> tok]
Visit(v) == [put |-> FALSE, what |-> v]

\* The k-th key of a std::map: k - 1 come before it.
KeyAt(map, k) == CHOOSE n \in DOMAIN map : Cardinality({m \in DOMAIN map : m < n}) = k - 1

\* What Val::Visit calls, in its order, and JsonWriter makes of it. A key is written as
\* any other string, its value follows.
Calls(v) ==
    CASE v.type = "object" ->
           <<Put(Tok("{", Nil))>>
           \o [i \in 1..(2 * Cardinality(DOMAIN v.body)) |->
                 IF i % 2 = 1 THEN Put(Tok("string", KeyAt(v.body, (i + 1) \div 2)))
                              ELSE Visit(v.body[KeyAt(v.body, i \div 2)])]
           \o <<Put(Tok("}", Nil))>>
      [] v.type = "array" ->
           <<Put(Tok("[", Nil))>> \o [i \in 1..Len(v.body) |-> Visit(v.body[i])]
           \o <<Put(Tok("]", Nil))>>
      [] OTHER -> <<Put(Tok(v.type, v.body))>>

\* Val::Visit goes on.
Write ==
    /\ step = "write" /\ todo # <<>>
    /\ IF Head(todo).put
       THEN /\ text' = Append(text, Head(todo).what)
            /\ todo' = Tail(todo)
       ELSE /\ todo' = Calls(Head(todo).what) \o Tail(todo)
            /\ UNCHANGED text
    /\ UNCHANGED <<doc, pos, grammar, ctx, step>>

\* The next run reads the file, when it is complete or the process died.
Reopen ==
    /\ step = "write"
    /\ step' = "read"
    /\ UNCHANGED <<doc, todo, text, pos, grammar, ctx>>

-----------------------------------------------------------------------------
(* The grammar: yajl.                                                      *)

\* A value has been read where one was expected.
Got(g) == [g EXCEPT ![Len(g)] =
             CASE @ = "start" -> "done" [] @ = "value" -> "key" [] OTHER -> @]

Takes(g, tok) ==
    LET s == g[Len(g)] IN
    CASE tok.is = "}"      -> s = "key"
      [] tok.is = "]"      -> s = "item"
      [] tok.is = "string" -> s # "done" /\ tok.v \in Name \ BadName
      [] OTHER             -> s \in {"start", "item", "value"}

Shift(g, tok) ==
    CASE tok.is = "{"        -> Append(g, "key")
      [] tok.is = "["        -> Append(g, "item")
      [] tok.is \in {"}", "]"} -> Got(SubSeq(g, 1, Len(g) - 1))
      [] OTHER -> IF g[Len(g)] = "key" THEN [g EXCEPT ![Len(g)] = "value"] ELSE Got(g)

-----------------------------------------------------------------------------
(* The builder.                                                            *)

Level(k, v) == [key |-> k, val |-> v]

Top(c) == c[Len(c)]
Pop(c) == SubSeq(c, 1, Len(c) - 1)

\* vector::push_back and map::insert; the latter keeps the first value of a key.
Longer(ar, v)   == Val("array", Append(ar.body, v))
With(obj, k, v) ==
    Val("object", [n \in DOMAIN obj.body \cup {k} |->
                     IF n \in DOMAIN obj.body THEN obj.body[n] ELSE v])

\* ValBuilder::Build has a place for a value: an array, an object with a key, or nothing
\* yet. Otherwise it throws.
CanBuild(c) ==
    \/ c = <<>>
    \/ Top(c).val.type = "array"
    \/ Top(c).val.type = "object" /\ Top(c).key # Nil

\* Faulty: the key stays.
BuildKeepsKey(c, v) ==
    IF c = <<>> THEN <<Level(Nil, v)>>
    ELSE IF Top(c).val.type = "array" THEN Append(Pop(c), Level(Top(c).key, Longer(Top(c).val, v)))
    ELSE Append(Pop(c), Level(Top(c).key, With(Top(c).val, Top(c).key, v)))

\* Faulty: a later value of the same key takes the place of the first.
BuildLast(c, v) ==
    IF c = <<>> THEN <<Level(Nil, v)>>
    ELSE IF Top(c).val.type = "array" THEN Append(Pop(c), Level(Top(c).key, Longer(Top(c).val, v)))
    ELSE Append(Pop(c), Level(Nil, Val("object", (Top(c).key :> v) @@ Top(c).val.body)))

\* ValBuilder::Build
Build(c, v) ==
    IF c = <<>> THEN <<Level(Nil, v)>>
    ELSE IF Top(c).val.type = "array" THEN Append(Pop(c), Level(Top(c).key, Longer(Top(c).val, v)))
    ELSE Append(Pop(c), Level(Nil, With(Top(c).val, Top(c).key, v)))

\* ValBuilder::End: of another type, it does nothing.
CanEnd(c, t) ==
    c # <<>> /\ (Top(c).val.type = t => Top(c).key = Nil /\ CanBuild(Pop(c)))

\* Faulty: what is in a container is dropped with it.
EndDrops(c, t) == IF Len(c) > 1 THEN Pop(c) ELSE c

End(c, t) == IF Top(c).val.type = t THEN Build(Pop(c), Top(c).val) ELSE c

\* What the value of a token is; a null is built as an empty object: VisitNull.
Scalar(tok) == IF tok.is = "null" THEN EmptyObject ELSE Val(tok.is, tok.v)

\* Whether a callback returns without an exception, which would go through yajl.
Calm(c, tok, key) ==
    CASE tok.is \in {"{", "["} -> TRUE
      [] tok.is = "}" -> CanEnd(c, "object")
      [] tok.is = "]" -> CanEnd(c, "array")
      [] OTHER -> IF key THEN c # <<>> ELSE CanBuild(c)

\* The callbacks of JsonParser and what they do to the builder.
Callback(c, tok, key) ==
    CASE tok.is = "{" -> Append(c, Level(Nil, EmptyObject))
      [] tok.is = "[" -> Append(c, Level(Nil, EmptyArray))
      [] tok.is = "}" -> End(c, "object")
      [] tok.is = "]" -> End(c, "array")
      [] OTHER -> IF key THEN Append(Pop(c), Level(tok.v, Top(c).val)) ELSE Build(c, Scalar(tok))

\* JsonParser::Parse of a text that goes on with this token.
Feed(tok) ==
    IF ~Takes(grammar, tok)
    THEN step' = "refused" /\ UNCHANGED <<grammar, ctx>>
    ELSE IF Calm(ctx, tok, grammar[Len(grammar)] = "key")
    THEN /\ grammar' = Shift(grammar, tok)
         /\ ctx' = Callback(ctx, tok, grammar[Len(grammar)] = "key")
         /\ UNCHANGED step
    ELSE step' = "thrown" /\ UNCHANGED <<grammar, ctx>>

-----------------------------------------------------------------------------
(* Reading.                                                                *)

\* ParseJson of a file.
Parse ==
    /\ step = "read" /\ doc # Nil /\ pos < Len(text)
    /\ Feed(text[pos + 1])
    /\ pos' = pos + 1
    /\ UNCHANGED <<doc, todo, text>>

\* Faulty: what was read is taken for the value, as ValResponse does.
Unfinished == Len(ctx) = 1

\* yajl_complete_parse
Complete == grammar[Len(grammar)] = "done"

\* JsonParser::Finish, then ValBuilder::Result.
\* ValBuilder::Result throws on an empty stack, and on one of several.
HasResult == Len(ctx) = 1

Finish ==
    /\ step = "read" /\ doc # Nil /\ pos = Len(text)
    /\ step' = IF ~Complete THEN "refused"
               ELSE IF HasResult THEN "value" ELSE "thrown"
    /\ UNCHANGED <<doc, todo, text, pos, grammar, ctx>>

\* ValResponse::Write. Nobody calls ValResponse::Finish: whoever asks for the Response()
\* gets what there is, if no container but the first is open.
Receive(tok) ==
    /\ step = "read" /\ doc = Nil /\ Len(text) < MaxTokens
    /\ Feed(tok)
    /\ text' = Append(text, tok) /\ pos' = pos + 1
    /\ UNCHANGED <<doc, todo>>

JsonIdle ==
    /\ doc = Nil /\ todo = <<>> /\ text = <<>> /\ pos = 0
    /\ grammar = <<"start">> /\ ctx = <<>> /\ step = "read"

JsonInit ==
    \/ JsonIdle
    \/ /\ doc \in Documents /\ todo = <<Visit(doc)>> /\ text = <<>> /\ pos = 0
       /\ grammar = <<"start">> /\ ctx = <<>> /\ step = "write"

JsonNext ==
    \/ Write
    \/ Reopen
    \/ Parse
    \/ Finish
    \/ \E tok \in Token : Receive(tok)

JsonSpec == JsonInit /\ [][JsonNext]_jvars

-----------------------------------------------------------------------------
(* Properties.                                                             *)

\* No text makes a callback throw through yajl, or look at the top of an empty stack, or
\* leaves Result with a half-built value (ValBuilder.cc:74, 84, 108, 136): the grammar
\* and the stack of the builder always agree.
NoThrow == step # "thrown"

\* Of a file that this program died writing, nothing is taken for the value: the next run
\* has no index, or no configuration, rather than half of one.
OnlyWholeTexts == step = "value" => todo = <<>>

\* What is read is what was written, with two exceptions: a null comes back as an empty
\* object, and a text with a string that is not UTF-8 is written without complaint and
\* then refused.
ReadBack ==
    doc # Nil /\ todo = <<>> /\ step \in {"value", "refused"} =>
       /\ step = "refused" <=> \E i \in 1..Len(text) : text[i].is = "string" /\ text[i].v \in BadName
       /\ step = "value" /\ (\A i \in 1..Len(text) : text[i].is # "null") => ctx[1].val = doc

\* The later value says all that the earlier said: the fields of an object, the elements
\* of an array.
Extends(v, w) ==
    /\ w.type = v.type
    /\ IF v.type \in {"object", "array"}
       THEN \A k \in DOMAIN v.body : k \in DOMAIN w.body /\ w.body[k] = v.body[k]
       ELSE w.body = v.body

\* The Response() of an answer that was cut off says nothing that the whole answer does
\* not say: a token taken from it is the token that was sent (OAuth2.cc:57, 86), whatever
\* follows, a second value of the same key included.
PartialAnswersAgree ==
    [][ctx # <<>> => ctx' # <<>> /\ Extends(ctx[1].val, ctx'[1].val)]_ctx

===============================================================================
