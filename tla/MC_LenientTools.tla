---------------------------- MODULE MC_LenientTools ----------------------------
(***************************************************************************)
(* Values for the constants of LenientTools.                               *)
(***************************************************************************)
EXTENDS LenientTools, FiniteSetsExt

\* The fields of In: each type, alone and within one other.
Plainly  == {GoType(g) : g \in {"bool", "int", "float", "string", "any"}}
MCFieldTypes == Plainly \cup {TypeOf(g, t) : g \in {"ptr", "slice", "struct", "map"}, t \in Plainly}

\* Numbers around the ends of float64 and int64, words, and their quotes.
Bare == {Number(Token("int", n)) : n \in {0, 1, 5, FloatMax, FloatMax + 1, IntMax, IntMax + 1}}
        \cup {Number(Token("dec", 5)), Number(Token("frac", 1)), Boolean(TRUE), Boolean(FALSE), Null}
MCScalars == Bare \cup {String(v.tok) : v \in Bare}
             \cup {String(Word(w)) : w \in {"TRUE", "NaN", "hello"}}

Within(S) == {Array(<<v>>) : v \in S} \cup {Object([a |-> v]) : v \in S}
MCArgs ==
    {Object([a |-> v]) : v \in MCScalars \cup Within(MCScalars)}
    \cup {Object(<<>>), Object([b |-> Null]), Object([a |-> Boolean(TRUE), b |-> Null])}
    \cup {Object([a |-> Array(<<v, String(Token("int", 5))>>)]) : v \in MCScalars}

\* Schemas of one keyword or of those that act on each other, one within
\* another.
Leaves == {True, False, Blank, [Blank EXCEPT !.type = "string"]}
Props(S) == {[Blank.props EXCEPT !["a"] = x] : x \in S}

OfObjects(S) ==
    {[Blank EXCEPT !.props = p, !.addlProps = q, !.unevalProps = u] :
        p \in Props(OneOf(S)), q \in OneOf(S), u \in OneOf({True, False})}
OfArrays(S) ==
    {[Blank EXCEPT !.tuple = p, !.addlItems = q, !.items = u] :
        p \in {<<>>} \cup {<<s>> : s \in S}, q \in OneOf(S), u \in OneOf(S)}
Single(S) ==
    {[Blank EXCEPT !.not = {s}] : s \in S} \cup {[Blank EXCEPT !.allOf = {Blank, s}] : s \in S}
    \cup {[Blank EXCEPT !.deps["a"] = d] : d \in {DependsOn({s}) : s \in S} \cup {DependsOnNames({"b"})}}

Simple == OfObjects(Leaves) \cup OfArrays(Leaves) \cup Single(Leaves)
MCForeign ==
    Leaves \cup Simple \cup Single(Simple)
    \cup {[Blank EXCEPT !.props["a"] = {s}, !.required = {"b"}] : s \in Simple}
    \cup {[s EXCEPT !.unevalProps = {u}] :
            s \in Single(OfObjects(Leaves)), u \in {False, [Blank EXCEPT !.type = "string"]}}

Small == {Null, Number(Token("int", 5)), String(Word("hello"))}
MCCompared ==
    Small \cup {Array(<<v>>) : v \in Small} \cup {Array(<<v, w>>) : v \in Small, w \in Small}
    \cup {Object(f) : f \in {<<>>} \cup [{"a"} -> Small] \cup [{"b"} -> Small] \cup [{"a", "b"} -> Small]}
    \cup {Object([a |-> v, b |-> Null]) : v \in Within(Small)}

-----------------------------------------------------------------------------
\* The operators that recur are what their steps say.  The LET keeps TLC's
\* coverage statistics from unrolling them.
MCNormSchema(s)      == LET step == NormSchemaStep(s) IN step
MCEvaluated(s, v)    == LET step == EvaluatedStep(s, v) IN step
MCValid(s, v)        == LET step == ValidStep(s, v) IN step
MCNoBooleans(s)      == LET step == NoBooleansStep(s) IN step
MCLooksAtAll(s)      == LET step == LooksAtAllStep(s) IN step
MCLosesAnnotation(s) == LET step == LosesAnnotationStep(s) IN step
MCForType(t)         == LET step == ForTypeStep(t) IN step
MCUnmarshalAny(v)    == LET step == UnmarshalAnyStep(v) IN step
MCScalarsOf(v)       == LET step == ScalarsStep(v) IN step
MCDecodable(v, t)    == LET step == DecodableStep(v, t) IN step
MCDecoded(v, t)      == LET step == DecodedStep(v, t) IN step
MCCoerceValue(v, s)  == LET step == CoerceValueStep(v, s) IN step
MCMeant(v, t)        == LET step == MeantStep(v, t) IN step
MCDepth(v)           == IF Parts(v) = {} THEN 0 ELSE 1 + Max({Depth(w) : w \in Parts(v)})
MCNesting(t)         == IF t.of = <<>> THEN 0 ELSE 1 + Nesting(t.of[1])
MCHeight(s)          == IF Children(s) = {} THEN 0 ELSE 1 + Max({Height(c) : c \in Children(s)})

\* Sets that have what comes up: parts, rewritten schemas, decoded, coerced
\* and meant values.
MCNames   == {"a", "b"}
MCGoTypes == MCFieldTypes \cup {Struct(t) : t \in MCFieldTypes}
Inferred  == {ForType(t) : t \in MCGoTypes} \cup {OpenSchema}
MCDocs    == LET given   == Inferred \cup MCForeign \cup Simple \cup Leaves
                 written == given \cup {NormSchema(s) : s \in given}
             IN written \cup UNION {Children(s) : s \in written}

AllScalars == MCScalars \cup {Number(Token("int", n)) : n \in {10, 16}} \cup {Number(Word("NaN"))}
Pairs == {Array(<<v, w>>) : v \in AllScalars, w \in {String(Token("int", 5)), Number(Token("int", 5))}}
MCValues ==
    MCCompared \cup AllScalars \cup Within(AllScalars) \cup Pairs
    \cup {Object([a |-> v]) : v \in AllScalars \cup Within(AllScalars) \cup Pairs}
    \cup {Object([a |-> v, b |-> Null]) : v \in {Boolean(TRUE), Null, String(Word("true"))}}
=============================================================================
