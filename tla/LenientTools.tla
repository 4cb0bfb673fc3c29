------------------------------ MODULE LenientTools ------------------------------
(***************************************************************************)
(* Tools with lenient arguments: AddTool and registerOpenSchema with the   *)
(* handlers they install (lenient.go), and the middleware that rewrites    *)
(* what tools/list shows (schema_portable.go).  The handler's argument is  *)
(* a struct of one field, of any type the constants give.                  *)
(*                                                                         *)
(* Numbers have the width of the code's: a float64 is exact up to FloatMax *)
(* and every other integer from there, an int64 ends at IntMax.            *)
(***************************************************************************)
EXTENDS Schemas

CONSTANTS
    GoTypes,            \* Go types, with their parts,
    Nesting(_),         \* of a type, more than that of its part,
    FieldTypes,         \* the types of the field of In,
    Foreign,            \* the schemas of tools that are registered with the SDK,
    Args,               \* the arguments of calls,
    FloatMax,           \* 2^53
    IntMax,             \* 2^63 - 1
    ForType(_),         \* by ForTypeStep, and so on
    UnmarshalAny(_),
    Scalars(_),
    Decodable(_, _),
    Decoded(_, _),
    CoerceValue(_, _),
    Meant(_, _)

ASSUME WidthAssumption ==
    /\ FloatMax \in Nat \ {0} /\ IntMax \in Nat
    /\ FloatMax < IntMax /\ IntMax < 2 * FloatMax

VARIABLES
    pc,          \* "start", "added", "listed", "called"
    kind,        \* who registered the tool: "lenient", "open" or "foreign"
    goType,      \* In
    typed,       \* the schema the handler validates with
    registered,  \* the schema of the tool the server holds
    listed,      \* the schema a client was shown
    args,        \* what the client sent
    result       \* what the handler did: the tool was run with .in, or not

vars == <<pc, kind, goType, typed, registered, listed, args, result>>

-----------------------------------------------------------------------------
(***************************************************************************)
(* Go types, and the schemas jsonschema infers for them.                   *)
(***************************************************************************)
GoType(g)      == [g |-> g, of |-> <<>>]
TypeOf(g, t)   == [g |-> g, of |-> <<t>>]
Struct(t)      == TypeOf("struct", t)
JSONType == [bool |-> "boolean", int |-> "integer", float |-> "number", string |-> "string",
             any |-> "any", slice |-> "array", struct |-> "object", map |-> "object"]

ForTypeStep(t) ==
    IF t.g = "ptr"
    THEN LET s == ForType(t.of[1]) IN IF IsBool(s) THEN s ELSE [s EXCEPT !.nullable = TRUE]
    ELSE LET base == [Blank EXCEPT !.type = JSONType[t.g]]
         IN CASE t.g = "slice"  -> [base EXCEPT !.items = {ForType(t.of[1])}, !.nullable = TRUE]
              [] t.g = "map"    -> [base EXCEPT !.addlProps = {ForType(t.of[1])}]
              [] t.g = "struct" -> [base EXCEPT !.props["a"] = {ForType(t.of[1])},
                                                !.required = {"a"}, !.addlProps = {False}]
              [] t.g = "any"    -> True
              [] OTHER          -> base

\* The schema of a tool whose In has none.
OpenSchema == [Blank EXCEPT !.type = "object"]

ASSUME TypeAssumption ==
    /\ "a" \in Names
    /\ {Struct(t) : t \in FieldTypes} \subseteq GoTypes
    /\ \A t \in GoTypes :
          /\ \/ t.g \in {"bool", "int", "float", "string", "any"}
             \/ /\ t.g \in {"ptr", "slice", "struct", "map"} /\ t = TypeOf(t.g, t.of[1])
                /\ t.of[1] \in GoTypes /\ Nesting(t.of[1]) < Nesting(t)
          /\ Nesting(t) \in Nat
          /\ ForType(t) = ForTypeStep(t)
    /\ {ForType(t) : t \in GoTypes} \cup Foreign \cup {OpenSchema} \subseteq Docs

\* Where a float64 has no last bit, to the nearest even neighbour.
RoundTo(n) ==
    IF n <= FloatMax THEN n
    ELSE IF n % 2 = 0 THEN n ELSE IF n % 4 = 1 THEN n - 1 ELSE n + 1

Float(tok) == CASE tok.form = "frac" -> tok
                [] OTHER             -> Token("int", RoundTo(tok.n))

\* json.Unmarshal into a map: every number becomes a float64.
UnmarshalAnyStep(v) ==
    CASE v.t = "number" -> Number(Float(v.tok))
      [] v.t = "array"  -> Array([i \in DOMAIN v.elems |-> UnmarshalAny(v.elems[i])])
      [] v.t = "object" -> Object([k \in DOMAIN v.fields |-> UnmarshalAny(v.fields[k])])
      [] OTHER          -> v

ScalarsStep(v) ==
    (IF v.t \in {"array", "object"} THEN {} ELSE {v}) \cup UNION {Scalars(w) : w \in Parts(v)}

\* json.Marshal refuses what is not a number.
Marshals(v) == Number(Word("NaN")) \notin Scalars(v)

\* json.Unmarshal into a Go value; null leaves the zero value.
DecodableStep(v, t) ==
    \/ v.t = "null" \/ t.g = "any"
    \/ /\ t.g = "ptr" /\ Decodable(v, t.of[1])
    \/ /\ t.g \in {"bool", "string"} /\ v.t = JSONType[t.g]
    \/ /\ t.g = "int" /\ v.t = "number" /\ v.tok.form = "int" /\ v.tok.n <= IntMax
    \/ /\ t.g = "float" /\ v.t = "number"
    \/ /\ t.g = "slice" /\ v.t = "array"
       /\ \A i \in DOMAIN v.elems : Decodable(v.elems[i], t.of[1])
    \/ /\ t.g = "map" /\ v.t = "object"
       /\ \A k \in DOMAIN v.fields : Decodable(v.fields[k], t.of[1])
    \/ /\ t.g = "struct" /\ v.t = "object"
       /\ "a" \in DOMAIN v.fields => Decodable(v.fields["a"], t.of[1])

DecodedStep(v, t) ==
    IF v.t = "null" THEN Null
    ELSE CASE t.g \in {"any", "float"} -> UnmarshalAny(v)
           [] t.g = "ptr"    -> Decoded(v, t.of[1])
           [] t.g = "slice"  -> Array([i \in DOMAIN v.elems |-> Decoded(v.elems[i], t.of[1])])
           [] t.g = "map"    -> Object([k \in DOMAIN v.fields |-> Decoded(v.fields[k], t.of[1])])
           [] t.g = "struct" -> Object([k \in DOMAIN v.fields \cap {"a"} |-> Decoded(v.fields[k], t.of[1])])
           [] OTHER          -> v

-----------------------------------------------------------------------------
(***************************************************************************)
(* Coercion.                                                               *)
(***************************************************************************)
\* Mutant of ParseInt: through a float64.
ParseIntAsFloat(tok) == IF tok.form \in {"int", "dec"} THEN <<Number(Float(tok))>> ELSE <<>>

\* strconv.ParseInt: only digits, and no more than an int64 holds.
ParseInt(tok) == IF tok.form = "int" /\ tok.n <= IntMax THEN <<Number(tok)>> ELSE <<>>

ParseFloat(tok) ==
    CASE tok.form \in {"int", "dec", "frac"} -> <<Number(Float(tok))>>
      [] tok.form = "NaN"                    -> <<Number(tok)>>
      [] OTHER                               -> <<>>

ParseBool(tok) ==
    CASE tok.form \in {"true", "TRUE"} \/ tok = Token("int", 1) -> <<Boolean(TRUE)>>
      [] tok.form = "false" \/ tok = Token("int", 0)            -> <<Boolean(FALSE)>>
      [] OTHER                                                  -> <<>>

\* What is not recognised stays a string, for validation to report.
CoerceScalarString(tok, type) ==
    LET parsed == CASE type = "boolean" -> ParseBool(tok)
                    [] type = "integer" -> ParseInt(tok)
                    [] type = "number"  -> ParseFloat(tok)
                    [] OTHER            -> <<>>
    IN IF parsed = <<>> THEN String(tok) ELSE parsed[1]

The(S) == CHOOSE s \in S : TRUE

\* Only properties the schema names; the values of a map are not among them.
CoerceStringTypes(v, s) ==
    Object([k \in DOMAIN v.fields |->
              IF s.props[k] # {} THEN CoerceValue(v.fields[k], The(s.props[k])) ELSE v.fields[k]])

CoerceValueStep(v, s) ==
    CASE v.t = "string" -> CoerceScalarString(v.tok, s.type)
      [] v.t = "object" -> CoerceStringTypes(v, s)
      [] v.t = "array" /\ s.items # {} ->
            Array([i \in DOMAIN v.elems |-> CoerceValue(v.elems[i], The(s.items))])
      [] OTHER          -> v

-----------------------------------------------------------------------------
NotRun    == [ok |-> FALSE, in |-> Null]
RunWith(v) == [ok |-> TRUE, in |-> v]

\* The handler of AddTool, up to the consumer's.
Handle(a) ==
    LET m == CoerceStringTypes(UnmarshalAny(a), typed)
    IN IF Valid(typed, m) /\ Marshals(m) /\ Decodable(m, goType)
       THEN RunWith(Decoded(m, goType)) ELSE NotRun

\* The handler of registerOpenSchema.
HandleOpen(a) == IF Decodable(a, goType) THEN RunWith(Decoded(a, goType)) ELSE NotRun

Init ==
    /\ pc = "start" /\ kind = "foreign" /\ goType = Struct(GoType("any"))
    /\ typed = Blank /\ registered = Blank /\ listed = Blank
    /\ args = Null /\ result = NotRun

\* AddTool: the tool validates with the inferred schema and advertises the
\* portable one.
AddTool ==
    /\ pc = "start" /\ pc' = "added" /\ kind' = "lenient"
    /\ \E t \in FieldTypes : goType' = Struct(t)
    /\ typed' = ForType(goType')
    /\ registered' = PortableSchema(typed')
    /\ UNCHANGED <<listed, args, result>>

\* jsonschema cannot infer a schema for In, or cannot resolve it.
RegisterOpenSchema ==
    /\ pc = "start" /\ pc' = "added" /\ kind' = "open"
    /\ \E t \in FieldTypes : goType' = Struct(t)
    /\ registered' = PortableSchema(OpenSchema)
    /\ UNCHANGED <<typed, listed, args, result>>

\* The consumer registers a tool with the SDK and a schema of its own.
AddForeign ==
    /\ pc = "start" /\ pc' = "added" /\ kind' = "foreign"
    /\ \E s \in Foreign : registered' = s
    /\ UNCHANGED <<goType, typed, listed, args, result>>

\* tools/list through portableToolsListMiddleware.
ListTools ==
    /\ pc = "added" /\ pc' = "listed"
    /\ listed' = PortableSchema(registered)
    /\ UNCHANGED <<kind, goType, typed, registered, args, result>>

\* tools/call of a tool this package registered.
CallTool ==
    /\ pc = "listed" /\ kind # "foreign" /\ pc' = "called"
    /\ args' \in Args
    /\ result' = IF kind = "lenient" THEN Handle(args') ELSE HandleOpen(args')
    /\ UNCHANGED <<kind, goType, typed, registered, listed>>

Next == AddTool \/ RegisterOpenSchema \/ AddForeign \/ ListTools \/ CallTool

Spec == Init /\ [][Next]_vars

-----------------------------------------------------------------------------
(***************************************************************************)
(* Properties.                                                             *)
(***************************************************************************)
\* Every schema in a tools/list can be read by a client that knows no boolean
\* schemas, whoever registered the tool, and accepts what the schema of the
\* registration accepts, for AddTool the one its handler validates with
\* (schema_portable.go:20).  Except that unevaluatedProperties takes note of
\* a true that is dropped: there the two may differ.
Original == IF kind = "lenient" THEN typed ELSE registered

PortableAndEqual ==
    pc = "listed" =>
        /\ NoBooleans(listed)
        /\ LosesAnnotation(Original) \/ \A v \in Values : Valid(listed, v) <=> Valid(Original, v)

SaysTrue  == {Word("true"), Word("TRUE"), Token("int", 1)}
SaysFalse == {Word("false"), Token("int", 0)}

\* What v says when the quotes around the tokens of other types are ignored.
MeantStep(v, t) ==
    CASE t.g = "ptr" -> Meant(v, t.of[1])
      [] v.t = "string" /\ t.g \in {"int", "float"} /\ v.tok.form \in {"int", "dec", "frac"} ->
            Number(v.tok)
      [] v.t = "string" /\ t.g = "bool" /\ v.tok \in SaysTrue \cup SaysFalse ->
            Boolean(v.tok \in SaysTrue)
      [] v.t = "array" /\ t.g = "slice" ->
            Array([i \in DOMAIN v.elems |-> Meant(v.elems[i], t.of[1])])
      [] v.t = "object" /\ t.g = "struct" ->
            Object([k \in DOMAIN v.fields |->
                      IF k = "a" THEN Meant(v.fields[k], t.of[1]) ELSE v.fields[k]])
      [] OTHER -> v

\* What a client sends is an object, and JSON: no number is NaN.
ASSUME ArgsAssumption == \A a \in Args : a.t = "object" /\ Marshals(a)

ASSUME ValueOpsAssumption ==
    /\ Args \cup {UnmarshalAny(v) : v \in Values} \subseteq Values
    /\ {Meant(v, t) : v \in Values, t \in GoTypes} \subseteq Values
    /\ {CoerceValue(v, ForType(t)) : v \in Values, t \in GoTypes} \subseteq Values
    /\ \A v \in Values : UnmarshalAny(v) = UnmarshalAnyStep(v) /\ Scalars(v) = ScalarsStep(v)
    /\ \A v \in Values, t \in GoTypes :
          /\ Decodable(v, t) = DecodableStep(v, t)
          /\ Decoded(v, t) = DecodedStep(v, t)
          /\ Meant(v, t) = MeantStep(v, t)
          /\ CoerceValue(v, ForType(t)) = CoerceValueStep(v, ForType(t))

\* Numbers an int64 and a float64 both hold, written in the usual way.
Plain(v) == \A s \in Scalars(v) :
                s.tok.form # "dec" /\ s.tok.n <= IntMax /\ RoundTo(s.tok.n) = s.tok.n
Quoted(v) == \A s \in Scalars(v) : s.t # "number"

\* A model that sends "5" for 5 and one that sends 5 are served alike
\* (lenient.go:17): with or without quotes, anywhere in structs and slices,
\* the tool gets what was meant whenever the schema it advertised accepts
\* that.  A whole number that no float64 holds is given to the tool exactly
\* when it is in quotes, or not at all.
MeantIsServed ==
    pc = "called" /\ kind = "lenient" =>
        LET meant == Meant(args, goType)
        IN /\ Plain(args) => result = Handle(meant)
           /\ Plain(args) /\ Valid(listed, meant) => result = RunWith(meant)
           /\ Quoted(args) /\ result.ok => result = RunWith(Decoded(meant, goType))
=============================================================================
