-------------------------------- MODULE Schemas --------------------------------
(***************************************************************************)
(* JSON schemas as the server advertises them: normSchema and its helpers  *)
(* (schema_portable.go), and what a schema accepts, which is jsonschema's  *)
(* business and is here to say what the rewriting must not change.         *)
(*                                                                         *)
(* A schema is a boolean or an object of keywords.  One keyword stands for *)
(* each group of the code: `not' for schemaKeys, with `items' in its two   *)
(* forms, addlProps and unevalProps for closedKeys, addlItems for          *)
(* openKeys, allOf for schemaListKeys, props for schemaMapKeys, and deps.  *)
(* A keyword for one subschema is the set of none or one, for a name as    *)
(* well, and allOf the set of its members: an absent one is empty.         *)
(*                                                                         *)
(* What recurs over schemas is a constant operator here, and its step a    *)
(* definition: the operator does at a schema what the step says, which     *)
(* uses the operator at the parts.  A schema is a finite tree, so this     *)
(* leaves each operator no choice, and the proofs can follow the tree.     *)
(***************************************************************************)
EXTENDS Integers, Sequences

CONSTANTS
    Docs,                \* schemas, with their parts and rewritten forms
    Height(_),           \* of a schema, more than that of any part
    Names,               \* of properties
    Values,              \* JSON values, with their parts
    Depth(_),            \* of a value, more than that of any part
    NormSchema(_),       \* by NormSchemaStep
    Evaluated(_, _),     \* by EvaluatedStep
    Valid(_, _),         \* by ValidStep
    NoBooleans(_),       \* by NoBooleansStep
    LooksAtAll(_),       \* by LooksAtAllStep
    LosesAnnotation(_)   \* by LosesAnnotationStep

\* A draft-07 dependency is a subschema, or a list of names.
DependsOn(S)      == [schema |-> S, names |-> {}]
DependsOnNames(N) == [schema |-> {}, names |-> N]

\* The schema {}, which says nothing.
Blank == [bool |-> "no", type |-> "any", nullable |-> FALSE,
          not |-> {}, items |-> {}, tuple |-> <<>>,
          addlProps |-> {}, unevalProps |-> {}, addlItems |-> {},
          allOf |-> {}, props |-> [k \in Names |-> {}],
          deps |-> [k \in Names |-> DependsOn({})], required |-> {}]

True  == [Blank EXCEPT !.bool = "true"]
False == [Blank EXCEPT !.bool = "false"]

IsBool(s) == s.bool # "no"

\* A keyword that may be true and is not there: what is not said is true.
AbsentAsTrue == {}

SchemaTypes == {"any", "null", "boolean", "integer", "number", "string", "array", "object"}
OneOf(S)    == {{}} \cup {{s} : s \in S}
SchemaOver(S) ==
    [bool : {"no", "true", "false"}, type : SchemaTypes, nullable : BOOLEAN,
     not : OneOf(S), items : OneOf(S), tuple : Seq(S),
     addlProps : OneOf(S), unevalProps : OneOf(S), addlItems : OneOf(S),
     allOf : SUBSET S, props : [Names -> OneOf(S)],
     deps : [Names -> [schema : OneOf(S), names : SUBSET Names]], required : SUBSET Names]

\* The subschemas that look at the same value as s, and all of them.
InPlace(s)  == s.allOf \cup UNION {s.deps[k].schema : k \in Names}
Children(s) ==
    InPlace(s) \cup s.not \cup s.items \cup s.addlItems \cup s.addlProps \cup s.unevalProps
    \cup {s.tuple[i] : i \in DOMAIN s.tuple} \cup UNION {s.props[k] : k \in Names}

\* What the code is given was parsed from JSON: it is finite, and a boolean has
\* no keywords.
ASSUME DocAssumption ==
    /\ Docs \subseteq SchemaOver(Docs)
    /\ \A s \in Docs :
          /\ IsBool(s) => s \in {True, False}
          /\ Height(s) \in Nat
          /\ \A c \in Children(s) : Height(c) < Height(s)

-----------------------------------------------------------------------------
(***************************************************************************)
(* The rewriting.                                                          *)
(***************************************************************************)
NormSchemaSet(S)  == {NormSchema(s) : s \in S}
NormSchemaList(l) == [i \in DOMAIN l |-> NormSchema(l[i])]
NormSchemaMap(m)  == [k \in Names |-> NormSchemaSet(m[k])]

\* false under these closes an object, and is kept.
ClosedKeys == {"addlProps", "unevalProps"}

\* Mutant of NormSingleDropTrue: false survives under every keyword.
NormSingleKeepFalse(S, k) ==
    IF S = {True} THEN AbsentAsTrue ELSE IF S = {False} THEN S ELSE NormSchemaSet(S)

\* true is dropped, false under a key that is not closed rewritten.
NormSingleDropTrue(S, k) ==
    IF S = {True} THEN AbsentAsTrue
    ELSE IF k \in ClosedKeys /\ S = {False} THEN S
    ELSE NormSchemaSet(S)

NormDependencies(m) == [k \in Names |-> [m[k] EXCEPT !.schema = NormSchemaSet(@)]]

NormSchemaObject(s) ==
    [s EXCEPT !.not         = NormSchemaSet(@),
              !.items       = NormSchemaSet(@),
              !.tuple       = NormSchemaList(@),
              !.addlProps   = NormSingleDropTrue(@, "addlProps"),
              !.unevalProps = NormSingleDropTrue(@, "unevalProps"),
              !.addlItems   = NormSingleDropTrue(@, "addlItems"),
              !.allOf       = NormSchemaSet(@),
              !.props       = NormSchemaMap(@),
              !.deps        = NormDependencies(@)]

NormSchemaStep(s) ==
    CASE s.bool = "true"  -> Blank
      [] s.bool = "false" -> [Blank EXCEPT !.not = {Blank}]
      [] OTHER            -> NormSchemaObject(s)

PortableSchema(s) == NormSchema(s)

-----------------------------------------------------------------------------
(***************************************************************************)
(* JSON values.  A scalar is written as a token; a string is what stands   *)
(* in quotes, which may be the token of another scalar.  Whole numbers can *)
(* be written n and n.0, others are n and a half.                          *)
(***************************************************************************)
Token(form, n) == [form |-> form, n |-> n]
Word(form)     == Token(form, 0)

Scalar(t, tok) == [t |-> t, tok |-> tok, elems |-> <<>>, fields |-> <<>>]
Null           == Scalar("null", Word("null"))
Number(tok)    == Scalar("number", tok)
Boolean(b)     == Scalar("boolean", Word(IF b THEN "true" ELSE "false"))
String(tok)    == Scalar("string", tok)
Array(l)       == [t |-> "array", tok |-> Word("none"), elems |-> l, fields |-> <<>>]
Object(f)      == [t |-> "object", tok |-> Word("none"), elems |-> <<>>, fields |-> f]

Parts(v) == {v.elems[i] : i \in DOMAIN v.elems} \cup {v.fields[k] : k \in DOMAIN v.fields}

\* A value is one of the above and finite.  Only a number has an n.
ASSUME ValueAssumption ==
    /\ UNION {Parts(v) : v \in Values} \subseteq Values
    /\ \A v \in Values :
          /\ \/ v \in {Null, Boolean(TRUE), Boolean(FALSE)}
             \/ v = Number(v.tok) /\ v.tok.form \in {"int", "dec", "frac", "NaN"}
             \/ v = String(v.tok) \/ v = Array(v.elems) \/ v = Object(v.fields)
          /\ v.tok.n \in Nat /\ v.tok = Token(v.tok.form, v.tok.n)
          /\ v.tok.form \in {"int", "dec", "frac"} \/ v.tok.n = 0
          /\ v.elems = [i \in 1 .. Len(v.elems) |-> v.elems[i]]
          /\ v.fields = [k \in DOMAIN v.fields |-> v.fields[k]] /\ DOMAIN v.fields \subseteq Names
          /\ Depth(v) \in Nat /\ \A w \in Parts(v) : Depth(w) < Depth(v)

-----------------------------------------------------------------------------
(***************************************************************************)
(* What a schema accepts.                                                  *)
(***************************************************************************)
HasType(s, v) ==
    \/ s.type \in {"any", v.t}
    \/ s.type = "integer" /\ v.t = "number" /\ v.tok.form \in {"int", "dec"}
    \/ s.nullable /\ v.t = "null"

\* The properties that neither properties nor its like speak of.
Additional(s, v) == {k \in DOMAIN v.fields : s.props[k] = {}}

\* The properties of v that the keywords beside unevaluatedProperties looked
\* at: an additionalProperties that is true looks at all, an absent one at none.
EvaluatedBeside(s, v) ==
    (IF s.addlProps # {} THEN DOMAIN v.fields ELSE DOMAIN v.fields \ Additional(s, v))
    \cup UNION {Evaluated(c, v) : c \in s.allOf \cup UNION {s.deps[k].schema : k \in DOMAIN v.fields}}

EvaluatedStep(s, v) ==
    EvaluatedBeside(s, v) \cup (IF s.unevalProps # {} THEN DOMAIN v.fields ELSE {})

All(S, v) == \A s \in S : Valid(s, v)

ValidElems(s, v) ==
    \A i \in DOMAIN v.elems :
        IF i \in DOMAIN s.tuple THEN Valid(s.tuple[i], v.elems[i])
        ELSE All(IF DOMAIN s.tuple # {} THEN s.addlItems ELSE s.items, v.elems[i])

ValidFields(s, v) ==
    /\ s.required \subseteq DOMAIN v.fields
    /\ \A k \in DOMAIN v.fields :
          /\ All(IF s.props[k] = {} THEN s.addlProps ELSE s.props[k], v.fields[k])
          /\ All(s.deps[k].schema, v) /\ s.deps[k].names \subseteq DOMAIN v.fields
    /\ \A k \in DOMAIN v.fields \ EvaluatedBeside(s, v) : All(s.unevalProps, v.fields[k])

ValidStep(s, v) ==
    /\ s.bool # "false"
    /\ HasType(s, v)
    /\ \A c \in s.not : ~Valid(c, v)
    /\ All(s.allOf, v)
    /\ v.t = "array" => ValidElems(s, v)
    /\ v.t = "object" => ValidFields(s, v)

-----------------------------------------------------------------------------
(***************************************************************************)
(* What the properties of LenientTools say about a schema.                 *)
(***************************************************************************)
\* A client that reads every schema as an object can read s, which may say
\* false where that closes an object.
NoBooleansStep(s) ==
    /\ ~IsBool(s)
    /\ \A c \in Children([s EXCEPT !.addlProps = {}, !.unevalProps = {}]) : NoBooleans(c)
    /\ \A c \in s.addlProps \cup s.unevalProps : c = False \/ NoBooleans(c)

\* A true in s looks at every property.
LooksAtAllStep(s) ==
    \/ True \in s.addlProps \cup s.unevalProps
    \/ \E c \in InPlace(s) : LooksAtAll(c)

\* Somewhere in s an unevaluatedProperties that is not true relies on a true
\* beside or below it, which the rewriting drops.
LosesAnnotationStep(s) ==
    \/ s.unevalProps \notin {{}, {True}} /\ LooksAtAll(s)
    \/ \E c \in Children(s) : LosesAnnotation(c)

\* Every operator follows its step, and Docs has all that comes up on the way.
ASSUME SchemaAssumption ==
    /\ {NormSchema(s) : s \in Docs} \subseteq Docs
    /\ \A s \in Docs : /\ NormSchema(s) = NormSchemaStep(s)
                       /\ NoBooleans(s) = NoBooleansStep(s)
                       /\ LooksAtAll(s) = LooksAtAllStep(s)
                       /\ LosesAnnotation(s) = LosesAnnotationStep(s)
    /\ \A s \in Docs, v \in Values : /\ Evaluated(s, v) = EvaluatedStep(s, v)
                                     /\ Valid(s, v) = ValidStep(s, v)
=============================================================================
