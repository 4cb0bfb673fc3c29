-------------------------- MODULE LenientTools_proofs --------------------------
(***************************************************************************)
(* What the rewriting of schemas keeps, for every schema and every value,  *)
(* that every tools/list shows such a rewriting, and that a tool gets what *)
(* was meant, for every type and every argument.                           *)
(*                                                                         *)
(* The lemmas go by induction over the tree of a schema, a value or a type *)
(* by way of the least one at which a lemma fails: it holds at the parts.  *)
(***************************************************************************)
EXTENDS LenientTools, WellFoundedInduction, TLAPS

\* A non-empty set of naturals has a least member.
LEMMA LeastNat ==
    ASSUME NEW T, T \subseteq Nat, T # {}
    PROVE  \E n \in T : \A m \in T : n <= m
PROOF
<1> DEFINE R == OpToRel(<, Nat)
<1>1. IsWellFoundedOn(R, Nat)
  BY NatLessThanWellFounded, Zenon
<1>2. \A m, n \in Nat : m < n => <<m, n>> \in R
  BY DEF OpToRel
<1> HIDE DEF R
<1>3. PICK n \in T : \A m \in T : <<m, n>> \notin R
  BY <1>1, WFMin, Zenon
<1>4. ASSUME NEW m \in T PROVE n <= m
  <2>1. m \in Nat /\ n \in Nat
    OBVIOUS
  <2>2. ~ (m < n)
    BY <1>2, <1>3, <2>1, Zenon
  <2> QED
    BY <2>1, <2>2
<1> QED
  BY <1>4

\* What a schema consists of is in Docs, and smaller.
LEMMA Parsed ==
    ASSUME NEW s \in Docs
    PROVE  /\ s \in SchemaOver(Docs)
           /\ IsBool(s) => s \in {True, False}
           /\ \A c \in Children(s) : c \in Docs
PROOF
<1>1. s \in SchemaOver(Docs) /\ (IsBool(s) => s \in {True, False})
  BY DocAssumption
<1>2. /\ s.not \subseteq Docs /\ s.items \subseteq Docs /\ s.addlItems \subseteq Docs
      /\ s.addlProps \subseteq Docs /\ s.unevalProps \subseteq Docs /\ s.allOf \subseteq Docs
  BY <1>1 DEF SchemaOver, OneOf
<1>3. \A i \in DOMAIN s.tuple : s.tuple[i] \in Docs
  BY <1>1 DEF SchemaOver
<1>4. \A k \in Names : s.props[k] \subseteq Docs /\ s.deps[k].schema \subseteq Docs
  BY <1>1 DEF SchemaOver, OneOf
<1> QED
  BY <1>1, <1>2, <1>3, <1>4 DEF Children, InPlace

LEMMA LeastSchema ==
    ASSUME NEW Bad \in SUBSET Docs, Bad # {}
    PROVE  \E s \in Bad : \A c \in Children(s) : c \in Docs /\ c \notin Bad
PROOF
<1> DEFINE H == {Height(s) : s \in Bad}
<1>1. H \subseteq Nat /\ H # {}
  BY DocAssumption
<1> HIDE DEF H
<1>2. PICK n \in H : \A m \in H : n <= m
  BY <1>1, LeastNat
<1>3. PICK s \in Bad : Height(s) = n
  BY <1>2 DEF H
<1>4. ASSUME NEW c \in Children(s) PROVE c \in Docs /\ c \notin Bad
  <2>1. c \in Docs /\ Height(c) < n /\ Height(c) \in Nat /\ n \in Nat
    BY <1>3, Parsed, DocAssumption
  <2>2. c \in Bad => n <= Height(c)
    BY <1>2 DEF H
  <2> QED
    BY <2>1, <2>2
<1> QED
  BY <1>3, <1>4

-----------------------------------------------------------------------------
\* The form of a rewritten schema: no boolean, an object that differs from
\* what it was in its subschemas.
LEMMA NormBool ==
    ASSUME NEW s \in Docs
    PROVE  /\ NormSchema(s) \in Docs
           /\ s = True => NormSchema(s) = Blank
           /\ s = False => NormSchema(s) = [Blank EXCEPT !.not = {Blank}]
           /\ ~IsBool(s) => NormSchema(s) = NormSchemaObject(s)
PROOF
<1>1. NormSchema(s) \in Docs /\ NormSchema(s) = NormSchemaStep(s)
  BY SchemaAssumption
<1>2. s \in SchemaOver(Docs)
  BY Parsed
<1>3. s.bool \in {"no", "true", "false"}
  BY <1>2 DEF SchemaOver
<1> QED
  BY <1>1, <1>3 DEF NormSchemaStep, IsBool, True, False, Blank

LEMMA NormFields ==
    ASSUME NEW s \in Docs, ~IsBool(s)
    PROVE  LET N == NormSchema(s)
           IN /\ N.bool = "no" /\ N.type = s.type /\ N.nullable = s.nullable
              /\ N.required = s.required
              /\ N.not = NormSchemaSet(s.not) /\ N.items = NormSchemaSet(s.items)
              /\ N.allOf = NormSchemaSet(s.allOf) /\ N.tuple = NormSchemaList(s.tuple)
              /\ N.addlProps = NormSingleDropTrue(s.addlProps, "addlProps")
              /\ N.unevalProps = NormSingleDropTrue(s.unevalProps, "unevalProps")
              /\ N.addlItems = NormSingleDropTrue(s.addlItems, "addlItems")
              /\ \A k \in Names : /\ N.props[k] = NormSchemaSet(s.props[k])
                                  /\ N.deps[k].schema = NormSchemaSet(s.deps[k].schema)
                                  /\ N.deps[k].names = s.deps[k].names
PROOF
<1>1. NormSchema(s) = NormSchemaObject(s)
  BY NormBool
<1>2. s \in SchemaOver(Docs)
  BY Parsed
<1>3. s.bool = "no"
  BY DEF IsBool
<1>4. DOMAIN s = {"bool", "type", "nullable", "not", "items", "tuple", "addlProps",
                  "unevalProps", "addlItems", "allOf", "props", "deps", "required"}
  BY <1>2 DEF SchemaOver
<1>5. LET N == NormSchemaObject(s)
      IN /\ N.bool = s.bool /\ N.type = s.type /\ N.nullable = s.nullable
         /\ N.required = s.required
         /\ N.not = NormSchemaSet(s.not) /\ N.items = NormSchemaSet(s.items)
         /\ N.allOf = NormSchemaSet(s.allOf) /\ N.tuple = NormSchemaList(s.tuple)
         /\ N.addlProps = NormSingleDropTrue(s.addlProps, "addlProps")
         /\ N.unevalProps = NormSingleDropTrue(s.unevalProps, "unevalProps")
         /\ N.addlItems = NormSingleDropTrue(s.addlItems, "addlItems")
         /\ N.props = NormSchemaMap(s.props) /\ N.deps = NormDependencies(s.deps)
  BY <1>4 DEF NormSchemaObject
<1>6. \A k \in Names : /\ NormDependencies(s.deps)[k].schema = NormSchemaSet(s.deps[k].schema)
                       /\ NormDependencies(s.deps)[k].names = s.deps[k].names
  <2> SUFFICES ASSUME NEW k \in Names
               PROVE  /\ NormDependencies(s.deps)[k].schema = NormSchemaSet(s.deps[k].schema)
                      /\ NormDependencies(s.deps)[k].names = s.deps[k].names
    OBVIOUS
  <2>1. s.deps[k] \in [schema : OneOf(Docs), names : SUBSET Names]
    BY <1>2 DEF SchemaOver
  <2>2. NormDependencies(s.deps)[k] = [s.deps[k] EXCEPT !.schema = NormSchemaSet(@)]
    BY DEF NormDependencies
  <2> QED
    BY <2>1, <2>2
<1> QED
  BY <1>1, <1>3, <1>5, <1>6 DEF NormSchemaMap

\* Every part of a rewritten schema is a rewritten part, or the false of an
\* object that is closed.
LEMMA NormNoBool == ASSUME NEW s \in Docs PROVE ~IsBool(NormSchema(s))
PROOF
<1>1. CASE IsBool(s)
  BY <1>1, NormBool, Parsed DEF IsBool, Blank
<1>2. CASE ~IsBool(s)
  BY <1>2, NormFields DEF IsBool
<1> QED
  BY <1>1, <1>2

LEMMA NormSingle ==
    ASSUME NEW S \in OneOf(Docs), NEW k
    PROVE  LET R == NormSingleDropTrue(S, k)
           IN \/ S = {True} /\ R = {}
              \/ k \in ClosedKeys /\ S = {False} /\ R = S
              \/ S # {True} /\ R = NormSchemaSet(S)
PROOF
<1>1. True # False
  BY DEF True, False, Blank
<1> QED
  BY <1>1 DEF NormSingleDropTrue, AbsentAsTrue

LEMMA NormChildren ==
    ASSUME NEW s \in Docs, ~IsBool(s)
    PROVE  LET N == NormSchema(s)
               W == {NormSchema(c) : c \in Children(s)}
           IN /\ N.not \cup N.items \cup N.addlItems \subseteq W
              /\ N.addlProps \cup N.unevalProps \subseteq W \cup {False}
              /\ \A i \in DOMAIN N.tuple : N.tuple[i] \in W
              /\ \A k \in Names : N.props[k] \subseteq W
              /\ InPlace(N) \subseteq {NormSchema(c) : c \in InPlace(s)}
              /\ InPlace(s) \subseteq Children(s)
PROOF
<1> DEFINE N == NormSchema(s)
           W == {NormSchema(c) : c \in Children(s)}
<1>1. s \in SchemaOver(Docs)
  BY Parsed
<1>2. /\ s.addlProps \in OneOf(Docs) /\ s.unevalProps \in OneOf(Docs)
      /\ s.addlItems \in OneOf(Docs)
  BY <1>1 DEF SchemaOver
<1>3. /\ s.not \subseteq Children(s) /\ s.items \subseteq Children(s)
      /\ s.addlItems \subseteq Children(s) /\ s.addlProps \subseteq Children(s)
      /\ s.unevalProps \subseteq Children(s) /\ InPlace(s) \subseteq Children(s)
      /\ \A i \in DOMAIN s.tuple : s.tuple[i] \in Children(s)
      /\ \A k \in Names : s.props[k] \subseteq Children(s)
  BY DEF Children
<1>4. \A S : S \subseteq Children(s) => NormSchemaSet(S) \subseteq W
  BY DEF NormSchemaSet
<1>5. /\ N.not = NormSchemaSet(s.not) /\ N.items = NormSchemaSet(s.items)
      /\ N.tuple = NormSchemaList(s.tuple)
      /\ N.addlProps = NormSingleDropTrue(s.addlProps, "addlProps")
      /\ N.unevalProps = NormSingleDropTrue(s.unevalProps, "unevalProps")
      /\ N.addlItems = NormSingleDropTrue(s.addlItems, "addlItems")
      /\ \A k \in Names : N.props[k] = NormSchemaSet(s.props[k])
  BY NormFields, Zenon
<1>6. InPlace(N) \subseteq {NormSchema(c) : c \in InPlace(s)}
  BY NormFields DEF InPlace, NormSchemaSet
<1> HIDE DEF N, W
<1>7. N.not \cup N.items \subseteq W
  BY <1>3, <1>4, <1>5
<1>8. N.addlItems \subseteq W
  BY <1>2, <1>3, <1>4, <1>5, NormSingle DEF ClosedKeys
<1>9. N.addlProps \cup N.unevalProps \subseteq W \cup {False}
  <2>1. N.addlProps \subseteq W \cup {False}
    BY <1>2, <1>3, <1>4, <1>5, NormSingle
  <2>2. N.unevalProps \subseteq W \cup {False}
    BY <1>2, <1>3, <1>4, <1>5, NormSingle
  <2> QED
    BY <2>1, <2>2
<1>10. \A i \in DOMAIN N.tuple : N.tuple[i] \in W
  BY <1>3, <1>5 DEF NormSchemaList, W
<1>11. \A k \in Names : N.props[k] \subseteq W
  BY <1>3, <1>4, <1>5
<1> QED
  BY <1>3, <1>6, <1>7, <1>8, <1>9, <1>10, <1>11 DEF N, W

-----------------------------------------------------------------------------
(***************************************************************************)
(* No booleans.                                                            *)
(***************************************************************************)
\* A client that reads every schema as an object can read what is rewritten.
LEMMA NormHasNoBooleans == \A s \in Docs : NoBooleans(NormSchema(s))
PROOF
<1> DEFINE Bad == {s \in Docs : ~NoBooleans(NormSchema(s))}
<1>1. SUFFICES ASSUME Bad # {} PROVE FALSE
  OBVIOUS
<1>2. PICK s \in Bad : \A c \in Children(s) : c \in Docs /\ c \notin Bad
  BY <1>1, LeastSchema
<1> DEFINE N == NormSchema(s)
<1>3. s \in Docs /\ N \in Docs /\ N \in SchemaOver(Docs)
  BY NormBool, Parsed
<1>4. NoBooleans(N) = NoBooleansStep(N)
  BY <1>3, SchemaAssumption
<1>5. CASE IsBool(s)
  <2>1. NoBooleansStep(Blank)
    BY DEF NoBooleansStep, Children, InPlace, IsBool, Blank, DependsOn
  <2>2. N = Blank \/ N = [Blank EXCEPT !.not = {Blank}]
    BY <1>3, <1>5, NormBool, Parsed
  <2>3. ASSUME N = [Blank EXCEPT !.not = {Blank}] PROVE NoBooleansStep(N)
    <3>1. N.not = {Blank} /\ ~IsBool(N)
      BY <2>3 DEF Blank, IsBool
    <3>2. NoBooleans(Blank)
      BY <1>3, <2>1, <3>1, Parsed, SchemaAssumption DEF Children
    <3>3. Children([N EXCEPT !.addlProps = {}, !.unevalProps = {}]) \subseteq {Blank}
      BY <2>3 DEF Children, InPlace, Blank, DependsOn
    <3>4. N.addlProps \cup N.unevalProps = {}
      BY <2>3 DEF Blank
    <3> QED
      BY <3>1, <3>2, <3>3, <3>4 DEF NoBooleansStep
  <2> QED
    BY <1>2, <1>4, <2>1, <2>2, <2>3
<1>6. CASE ~IsBool(s)
  <2> DEFINE W == {NormSchema(c) : c \in Children(s)}
             M == [N EXCEPT !.addlProps = {}, !.unevalProps = {}]
  <2>1. \A w \in W : NoBooleans(w)
    BY <1>2
  <2>2. DOMAIN N = DOMAIN Blank
    BY <1>3 DEF SchemaOver, Blank
  <2>3. Children(M) \subseteq W
    <3>1. /\ M.not = N.not /\ M.items = N.items /\ M.addlItems = N.addlItems /\ M.tuple = N.tuple
          /\ M.props = N.props /\ M.allOf = N.allOf /\ M.deps = N.deps
          /\ M.addlProps = {} /\ M.unevalProps = {}
      BY <2>2 DEF Blank
    <3>2. InPlace(M) = InPlace(N)
      BY <3>1 DEF InPlace
    <3> HIDE DEF M
    <3>3. InPlace(N) \subseteq W
      BY <1>3, <1>6, NormChildren
    <3> QED
      BY <1>3, <1>6, <3>1, <3>2, <3>3, NormChildren DEF Children
  <2>4. N.addlProps \cup N.unevalProps \subseteq W \cup {False}
    BY <1>3, <1>6, NormChildren
  <2>5. ~IsBool(N)
    BY <1>3, NormNoBool
  <2>6. NoBooleansStep(N)
    BY <2>1, <2>3, <2>4, <2>5 DEF NoBooleansStep
  <2> QED
    BY <1>2, <1>4, <2>6
<1> QED
  BY <1>5, <1>6

-----------------------------------------------------------------------------
(***************************************************************************)
(* What is rewritten looks at nothing by a true, so that a second          *)
(* rewriting loses nothing.                                                *)
(***************************************************************************)
\* [Blank EXCEPT !.not = {Blank}] is what false becomes.
LEMMA NormBoolFields ==
    ASSUME NEW s \in Docs, IsBool(s)
    PROVE  LET N == NormSchema(s)
           IN /\ N.bool = "no" /\ N.type = "any" /\ N.required = {} /\ N.allOf = {}
              /\ N.addlProps = {} /\ N.unevalProps = {} /\ N.addlItems = {}
              /\ N.items = {} /\ N.tuple = <<>>
              /\ \A k \in Names : N.props[k] = {} /\ N.deps[k] = DependsOn({})
              /\ N.not = IF s = True THEN {} ELSE {Blank}
PROOF
<1>1. s \in {True, False} /\ True # False
  BY Parsed DEF True, False, Blank
<1>2. CASE s = True
  BY <1>2, NormBool DEF Blank
<1>3. CASE s = False
  <2>1. NormSchema(s) = [Blank EXCEPT !.not = {Blank}]
    BY <1>3, NormBool
  <2> HIDE <1>3
  <2>2. /\ NormSchema(s).not = {Blank}
        /\ \A k \in Names : /\ NormSchema(s).props[k] = {}
                            /\ NormSchema(s).deps[k] = DependsOn({})
    BY <2>1 DEF Blank
  <2> QED
    BY <1>1, <1>3, <2>1, <2>2 DEF Blank
<1> QED
  BY <1>1, <1>2, <1>3

LEMMA NoTrueLeft ==
    ASSUME NEW s \in Docs
    PROVE  True \notin NormSchema(s).addlProps \cup NormSchema(s).unevalProps
PROOF
<1>1. CASE IsBool(s)
  BY <1>1, NormBoolFields
<1>2. CASE ~IsBool(s)
  <2>1. True # False /\ IsBool(True)
    BY DEF True, False, Blank, IsBool
  <2>2. True \notin {NormSchema(c) : c \in Children(s)}
    BY <2>1, NormNoBool, Parsed
  <2> QED
    BY <1>2, <2>1, <2>2, NormChildren
<1> QED
  BY <1>1, <1>2

LEMMA NormLooksAtNothing == \A s \in Docs : ~LooksAtAll(NormSchema(s))
PROOF
<1> DEFINE Bad == {s \in Docs : LooksAtAll(NormSchema(s))}
<1>1. SUFFICES ASSUME Bad # {} PROVE FALSE
  OBVIOUS
<1>2. PICK s \in Bad : \A c \in Children(s) : c \in Docs /\ c \notin Bad
  BY <1>1, LeastSchema
<1> DEFINE N == NormSchema(s)
<1>3. s \in Docs /\ N \in Docs /\ LooksAtAllStep(N)
  BY <1>2, NormBool, SchemaAssumption
<1>4. PICK c \in InPlace(N) : LooksAtAll(c)
  BY <1>3, NoTrueLeft DEF LooksAtAllStep
<1>5. CASE IsBool(s)
  BY <1>3, <1>4, <1>5, NormBoolFields DEF InPlace, DependsOn
<1>6. CASE ~IsBool(s)
  BY <1>2, <1>3, <1>4, <1>6, NormChildren
<1> QED
  BY <1>5, <1>6

LEMMA NormLosesNothing == \A s \in Docs : ~LosesAnnotation(NormSchema(s))
PROOF
<1> DEFINE Bad == {s \in Docs : LosesAnnotation(NormSchema(s))}
<1>1. SUFFICES ASSUME Bad # {} PROVE FALSE
  OBVIOUS
<1>2. PICK s \in Bad : \A c \in Children(s) : c \in Docs /\ c \notin Bad
  BY <1>1, LeastSchema
<1> DEFINE N == NormSchema(s)
<1>3. s \in Docs /\ N \in Docs /\ LosesAnnotationStep(N)
  BY <1>2, NormBool, SchemaAssumption
<1>4. PICK c \in Children(N) : LosesAnnotation(c)
  BY <1>3, NormLooksAtNothing DEF LosesAnnotationStep
<1>5. c \in Docs /\ LosesAnnotationStep(c)
  BY <1>3, <1>4, Parsed, SchemaAssumption
<1>6. CASE IsBool(s)
  <2>1. Children(N) \subseteq {Blank}
    BY <1>3, <1>6, NormBoolFields DEF Children, InPlace, DependsOn
  <2>2. Children(Blank) = {} /\ Blank.unevalProps = {}
    BY DEF Children, InPlace, DependsOn, Blank
  <2> QED
    BY <1>4, <1>5, <2>1, <2>2 DEF LosesAnnotationStep
<1>7. CASE ~IsBool(s)
  <2>1. c # False
    <3>1. Children(False) = {} /\ False.unevalProps = {}
      BY DEF Children, InPlace, DependsOn, False, Blank
    <3> QED
      BY <1>5, <3>1 DEF LosesAnnotationStep
  <2>2. Children(N) \subseteq {NormSchema(d) : d \in Children(s)} \cup {False}
    BY <1>3, <1>7, NormChildren DEF Children
  <2> QED
    BY <1>2, <1>4, <2>1, <2>2
<1> QED
  BY <1>6, <1>7

-----------------------------------------------------------------------------
(***************************************************************************)
(* What a value's properties are looked at by.                             *)
(***************************************************************************)
LEMMA ValueNames == \A v \in Values : DOMAIN v.fields \subseteq Names
BY ValueAssumption

LEMMA InPlaceFor ==
    ASSUME NEW s, NEW v \in Values
    PROVE  s.allOf \cup UNION {s.deps[k].schema : k \in DOMAIN v.fields} \subseteq InPlace(s)
BY ValueNames DEF InPlace

\* Where no part that is looked at in place has a true, the rewriting looks at
\* the same properties: the step.
LEMMA SameBeside ==
    ASSUME NEW s \in Docs, ~IsBool(s), ~LooksAtAll(s), NEW v \in Values,
           \A c \in InPlace(s) : Evaluated(NormSchema(c), v) = Evaluated(c, v)
    PROVE  EvaluatedBeside(NormSchema(s), v) = EvaluatedBeside(s, v)
PROOF
<1> DEFINE N == NormSchema(s)
           In(d) == d.allOf \cup UNION {d.deps[k].schema : k \in DOMAIN v.fields}
<1>1. True \notin s.addlProps
  BY SchemaAssumption DEF LooksAtAllStep
<1>2. s.addlProps \in OneOf(Docs)
  BY Parsed DEF SchemaOver
<1>3. N.addlProps = {} <=> s.addlProps = {}
  <2>1. N.addlProps = NormSingleDropTrue(s.addlProps, "addlProps")
    BY NormFields
  <2>2. N.addlProps = s.addlProps \/ N.addlProps = NormSchemaSet(s.addlProps)
    BY <1>1, <1>2, <2>1, NormSingle
  <2> QED
    BY <2>2 DEF NormSchemaSet
<1>4. \A k \in DOMAIN v.fields : N.props[k] = {} <=> s.props[k] = {}
  BY ValueNames, NormFields DEF NormSchemaSet
<1>5. Additional(N, v) = Additional(s, v)
  BY <1>4 DEF Additional
<1>6. In(N) = {NormSchema(c) : c \in In(s)}
  BY ValueNames, NormFields DEF NormSchemaSet
<1>7. In(s) \subseteq InPlace(s)
  BY InPlaceFor
<1> HIDE DEF N
<1>8. UNION {Evaluated(c, v) : c \in In(N)} = UNION {Evaluated(c, v) : c \in In(s)}
  <2> HIDE DEF In
  <2>1. {Evaluated(c, v) : c \in In(N)} = {Evaluated(NormSchema(c), v) : c \in In(s)}
    BY <1>6 DEF N
  <2>2. {Evaluated(NormSchema(c), v) : c \in In(s)} = {Evaluated(c, v) : c \in In(s)}
    BY <1>7
  <2> QED
    BY <2>1, <2>2
<1> QED
  BY <1>3, <1>5, <1>8 DEF EvaluatedBeside, N

LEMMA SameEvaluated ==
    \A s \in Docs : ~LooksAtAll(s) =>
        \A v \in Values : Evaluated(NormSchema(s), v) = Evaluated(s, v)
PROOF
<1> DEFINE Bad == {s \in Docs : ~LooksAtAll(s) /\ \E v \in Values : Evaluated(NormSchema(s), v) # Evaluated(s, v)}
<1>1. SUFFICES ASSUME Bad # {} PROVE FALSE
  OBVIOUS
<1>2. PICK s \in Bad : \A c \in Children(s) : c \in Docs /\ c \notin Bad
  BY <1>1, LeastSchema
<1> DEFINE N == NormSchema(s)
<1>3. PICK v \in Values : Evaluated(N, v) # Evaluated(s, v)
  BY <1>2
<1>4. s \in Docs /\ N \in Docs /\ ~LooksAtAll(s)
  BY <1>2, NormBool
<1>5. Evaluated(N, v) = EvaluatedStep(N, v) /\ Evaluated(s, v) = EvaluatedStep(s, v)
  BY <1>4, SchemaAssumption
<1>6. CASE IsBool(s)
  <2>1. DOMAIN v.fields \subseteq Names
    BY ValueNames
  <2>2. EvaluatedStep(N, v) = {}
    BY <1>4, <1>6, <2>1, NormBoolFields
    DEF EvaluatedStep, EvaluatedBeside, Additional, DependsOn
  <2>3. EvaluatedStep(s, v) = {}
    BY <1>4, <1>6, <2>1, Parsed
    DEF EvaluatedStep, EvaluatedBeside, Additional, DependsOn, True, False, Blank
  <2> QED
    BY <1>3, <1>5, <2>2, <2>3
<1>7. CASE ~IsBool(s)
  <2>1. \A c \in InPlace(s) : ~LooksAtAll(c)
    BY <1>4, SchemaAssumption DEF LooksAtAllStep
  <2>2. \A c \in InPlace(s) : Evaluated(NormSchema(c), v) = Evaluated(c, v)
    BY <1>2, <2>1 DEF Children
  <2>3. EvaluatedBeside(N, v) = EvaluatedBeside(s, v)
    BY <1>4, <1>7, <2>2, SameBeside
  <2>4. True \notin s.unevalProps /\ s.unevalProps \in OneOf(Docs)
    BY <1>4, Parsed, SchemaAssumption DEF LooksAtAllStep, SchemaOver
  <2>5. N.unevalProps = {} <=> s.unevalProps = {}
    BY <1>4, <1>7, <2>4, NormFields, NormSingle DEF NormSchemaSet
  <2> QED
    BY <1>3, <1>5, <2>3, <2>5 DEF EvaluatedStep
<1> QED
  BY <1>6, <1>7

-----------------------------------------------------------------------------
(***************************************************************************)
(* What is accepted.                                                       *)
(***************************************************************************)
LEMMA ValueParts ==
    ASSUME NEW v \in Values
    PROVE  /\ \A i \in DOMAIN v.elems : v.elems[i] \in Values
           /\ \A k \in DOMAIN v.fields : v.fields[k] \in Values /\ k \in Names
PROOF
<1>1. Parts(v) \subseteq Values /\ DOMAIN v.fields \subseteq Names
  <2>1. UNION {Parts(w) : w \in Values} \subseteq Values
    BY ValueAssumption
  <2> QED
    BY <2>1, ValueNames
<1> QED
  BY <1>1 DEF Parts

LEMMA BlankValid == ASSUME Blank \in Docs, NEW v \in Values PROVE Valid(Blank, v)
PROOF
<1>1. ValidElems(Blank, v) /\ HasType(Blank, v)
  BY DEF ValidElems, HasType, All, Blank
<1>2. ValidFields(Blank, v)
  <2>1. \A k \in DOMAIN v.fields : Blank.props[k] = {} /\ Blank.deps[k] = DependsOn({})
    BY ValueNames DEF Blank
  <2>2. Blank.required = {} /\ Blank.addlProps = {} /\ Blank.unevalProps = {}
    BY DEF Blank
  <2> QED
    BY <2>1, <2>2 DEF ValidFields, All, DependsOn
<1>3. ValidStep(Blank, v)
  BY <1>1, <1>2 DEF ValidStep, All, Blank
<1> QED
  BY <1>3, SchemaAssumption

LEMMA TrueValid == ASSUME True \in Docs, NEW v \in Values PROVE Valid(True, v)
PROOF
<1>1. ValidElems(True, v) /\ HasType(True, v)
  BY DEF ValidElems, HasType, All, True, Blank
<1>2. ValidFields(True, v)
  <2>1. \A k \in DOMAIN v.fields : True.props[k] = {} /\ True.deps[k] = DependsOn({})
    BY ValueNames DEF True, Blank
  <2>2. True.required = {} /\ True.addlProps = {} /\ True.unevalProps = {}
    BY DEF True, Blank
  <2> QED
    BY <2>1, <2>2 DEF ValidFields, All, DependsOn
<1>3. ValidStep(True, v)
  BY <1>1, <1>2 DEF ValidStep, All, True, Blank
<1> QED
  BY <1>3, SchemaAssumption

LEMMA FalseInvalid == ASSUME False \in Docs, NEW v \in Values PROVE ~Valid(False, v)
BY SchemaAssumption DEF ValidStep, False, Blank

LEMMA SameBool ==
    ASSUME NEW s \in Docs, IsBool(s), NEW v \in Values
    PROVE  Valid(NormSchema(s), v) <=> Valid(s, v)
PROOF
<1>1. s \in {True, False} /\ True # False
  BY Parsed DEF True, False, Blank
<1>2. CASE s = True
  BY <1>2, NormBool, BlankValid, TrueValid
<1>3. CASE s = False
  <2> DEFINE N == NormSchema(s)
  <2>1. N.not = {Blank} /\ N \in Docs
    BY <1>1, <1>3, NormBool, NormBoolFields
  <2>2. Blank \in Docs
    BY <2>1, Parsed DEF Children
  <2>3. ~ValidStep(N, v)
    BY <2>1, <2>2, BlankValid DEF ValidStep
  <2>4. ~Valid(N, v)
    BY <2>1, <2>3, SchemaAssumption
  <2> QED
    BY <1>3, <2>4, FalseInvalid
<1> QED
  BY <1>1, <1>2, <1>3

LEMMA SameSet ==
    ASSUME NEW S, NEW v, \A c \in S : Valid(NormSchema(c), v) <=> Valid(c, v)
    PROVE  All(NormSchemaSet(S), v) <=> All(S, v)
BY DEF All, NormSchemaSet

LEMMA SameSingle ==
    ASSUME NEW S \in OneOf(Docs), NEW k, NEW v \in Values,
           \A c \in S : Valid(NormSchema(c), v) <=> Valid(c, v)
    PROVE  All(NormSingleDropTrue(S, k), v) <=> All(S, v)
PROOF
<1>1. CASE S = {True}
  <2>1. True \in Docs /\ NormSingleDropTrue(S, k) = {}
    BY <1>1 DEF OneOf, NormSingleDropTrue, AbsentAsTrue
  <2> QED
    BY <1>1, <2>1, TrueValid DEF All
<1>2. CASE NormSingleDropTrue(S, k) = S
  BY <1>2
<1>3. CASE NormSingleDropTrue(S, k) = NormSchemaSet(S)
  BY <1>3, SameSet
<1> QED
  BY <1>1, <1>2, <1>3, NormSingle

\* The same, for an object whose parts have it: what the elements of an array,
\* and what the properties of an object must be.
LEMMA SameElems ==
    ASSUME NEW s \in Docs, ~IsBool(s), NEW v \in Values,
           \A c \in Children(s), w \in Values : Valid(NormSchema(c), w) <=> Valid(c, w)
    PROVE  ValidElems(NormSchema(s), v) <=> ValidElems(s, v)
PROOF
<1> DEFINE N == NormSchema(s)
<1>1. /\ N.tuple = NormSchemaList(s.tuple) /\ N.items = NormSchemaSet(s.items)
      /\ N.addlItems = NormSingleDropTrue(s.addlItems, "addlItems")
  BY NormFields
<1>2. /\ s.items \subseteq Children(s) /\ s.addlItems \subseteq Children(s)
      /\ \A i \in DOMAIN s.tuple : s.tuple[i] \in Children(s)
      /\ s.addlItems \in OneOf(Docs)
  BY Parsed DEF Children, SchemaOver
<1>3. /\ DOMAIN N.tuple = DOMAIN s.tuple
      /\ \A i \in DOMAIN s.tuple : N.tuple[i] = NormSchema(s.tuple[i])
  BY <1>1 DEF NormSchemaList
<1>4. \A w \in Values : /\ All(N.items, w) <=> All(s.items, w)
                        /\ All(N.addlItems, w) <=> All(s.addlItems, w)
  BY <1>1, <1>2, SameSet, SameSingle
<1> HIDE DEF N
<1> SUFFICES ASSUME NEW i \in DOMAIN v.elems
             PROVE  /\ i \in DOMAIN s.tuple => (Valid(N.tuple[i], v.elems[i]) <=> Valid(s.tuple[i], v.elems[i]))
                    /\ All(N.items, v.elems[i]) <=> All(s.items, v.elems[i])
                    /\ All(N.addlItems, v.elems[i]) <=> All(s.addlItems, v.elems[i])
  BY <1>3 DEF ValidElems, N
<1> QED
  BY <1>2, <1>3, <1>4, ValueParts

LEMMA SameFields ==
    ASSUME NEW s \in Docs, ~IsBool(s), ~LosesAnnotation(s), NEW v \in Values,
           \A c \in Children(s), w \in Values : Valid(NormSchema(c), w) <=> Valid(c, w)
    PROVE  ValidFields(NormSchema(s), v) <=> ValidFields(s, v)
PROOF
<1> DEFINE N == NormSchema(s)
           One(k) == IF s.props[k] = {} THEN s.addlProps ELSE s.props[k]
           OneOfN(k) == IF N.props[k] = {} THEN N.addlProps ELSE N.props[k]
           Looked == EvaluatedBeside(s, v)
           LookedN == EvaluatedBeside(N, v)
<1>1. /\ s.addlProps \in OneOf(Docs) /\ s.unevalProps \in OneOf(Docs)
      /\ s.addlProps \subseteq Children(s) /\ s.unevalProps \subseteq Children(s)
      /\ \A k \in Names : s.props[k] \subseteq Children(s) /\ s.deps[k].schema \subseteq Children(s)
  BY Parsed DEF Children, InPlace, SchemaOver
<1>2. /\ N.required = s.required
      /\ N.addlProps = NormSingleDropTrue(s.addlProps, "addlProps")
      /\ N.unevalProps = NormSingleDropTrue(s.unevalProps, "unevalProps")
      /\ \A k \in Names : /\ N.props[k] = NormSchemaSet(s.props[k])
                          /\ N.deps[k].schema = NormSchemaSet(s.deps[k].schema)
                          /\ N.deps[k].names = s.deps[k].names
  BY NormFields
<1>3. ASSUME NEW k \in Names, NEW w \in Values
      PROVE  /\ All(N.props[k], w) <=> All(s.props[k], w)
             /\ All(N.deps[k].schema, w) <=> All(s.deps[k].schema, w)
             /\ N.props[k] = {} <=> s.props[k] = {}
  <2>1. All(N.props[k], w) <=> All(s.props[k], w)
    BY <1>1, <1>2, SameSet
  <2>2. All(N.deps[k].schema, w) <=> All(s.deps[k].schema, w)
    BY <1>1, <1>2, SameSet
  <2> QED
    BY <1>2, <2>1, <2>2 DEF NormSchemaSet
<1>4. \A w \in Values : /\ All(N.addlProps, w) <=> All(s.addlProps, w)
                        /\ All(N.unevalProps, w) <=> All(s.unevalProps, w)
  BY <1>1, <1>2, SameSingle
<1>5. ASSUME NEW k \in DOMAIN v.fields PROVE All(OneOfN(k), v.fields[k]) <=> All(One(k), v.fields[k])
  BY <1>3, <1>4, ValueParts
<1>6. (\A k \in DOMAIN v.fields \ LookedN : All(N.unevalProps, v.fields[k]))
      <=> (\A k \in DOMAIN v.fields \ Looked : All(s.unevalProps, v.fields[k]))
  <2>1. CASE s.unevalProps \in {{}, {True}}
    <3>1. \A w \in Values : All(s.unevalProps, w)
      BY <1>1, <2>1, TrueValid DEF All, OneOf
    <3> QED
      BY <1>4, <3>1, ValueParts
  <2>2. CASE s.unevalProps \notin {{}, {True}}
    <3>1. ~LooksAtAll(s)
      BY <2>2, SchemaAssumption DEF LosesAnnotationStep
    <3>2. \A c \in InPlace(s) : c \in Docs /\ ~LooksAtAll(c)
      BY <3>1, Parsed, SchemaAssumption DEF LooksAtAllStep, Children
    <3>3. LookedN = Looked
      BY <3>1, <3>2, SameEvaluated, SameBeside
    <3> QED
      BY <1>4, <3>3, ValueParts
  <2> QED
    BY <2>1, <2>2
<1>7. \A k \in DOMAIN v.fields : All(N.deps[k].schema, v) <=> All(s.deps[k].schema, v)
  BY <1>3, ValueParts
<1>8. \A k \in DOMAIN v.fields : N.deps[k].names = s.deps[k].names
  BY <1>2, ValueParts
<1> HIDE DEF N
<1> QED
  BY <1>2, <1>5, <1>6, <1>7, <1>8 DEF ValidFields, N

\* The rewriting accepts what the schema accepts.
LEMMA SameValid ==
    \A s \in Docs : ~LosesAnnotation(s) =>
        \A v \in Values : Valid(NormSchema(s), v) <=> Valid(s, v)
PROOF
<1> DEFINE Bad == {s \in Docs : ~LosesAnnotation(s) /\ \E v \in Values : ~(Valid(NormSchema(s), v) <=> Valid(s, v))}
<1>1. SUFFICES ASSUME Bad # {} PROVE FALSE
  OBVIOUS
<1>2. PICK s \in Bad : \A c \in Children(s) : c \in Docs /\ c \notin Bad
  BY <1>1, LeastSchema
<1> DEFINE N == NormSchema(s)
<1>3. PICK v \in Values : ~(Valid(N, v) <=> Valid(s, v))
  BY <1>2
<1>4. s \in Docs /\ N \in Docs /\ ~LosesAnnotation(s)
  BY <1>2, NormBool
<1>5. ~IsBool(s)
  BY <1>3, <1>4, SameBool
<1>6. \A c \in Children(s) : ~LosesAnnotation(c)
  BY <1>4, SchemaAssumption DEF LosesAnnotationStep
<1>7. \A c \in Children(s), w \in Values : Valid(NormSchema(c), w) <=> Valid(c, w)
  BY <1>2, <1>6
<1>8. ValidElems(N, v) <=> ValidElems(s, v)
  BY <1>4, <1>5, <1>7, SameElems
<1>9. ValidFields(N, v) <=> ValidFields(s, v)
  BY <1>4, <1>5, <1>7, SameFields
<1>10. /\ N.bool = s.bool /\ N.type = s.type /\ N.nullable = s.nullable
       /\ N.not = NormSchemaSet(s.not) /\ N.allOf = NormSchemaSet(s.allOf)
  BY <1>4, <1>5, NormFields DEF IsBool
<1>11. (\A c \in N.not : ~Valid(c, v)) <=> (\A c \in s.not : ~Valid(c, v))
  BY <1>7, <1>10 DEF NormSchemaSet, Children
<1>12. All(N.allOf, v) <=> All(s.allOf, v)
  BY <1>7, <1>10, SameSet DEF Children, InPlace
<1>13. HasType(N, v) <=> HasType(s, v)
  BY <1>10 DEF HasType
<1>14. ValidStep(N, v) <=> ValidStep(s, v)
  BY <1>8, <1>9, <1>10, <1>11, <1>12, <1>13 DEF ValidStep
<1> QED
  BY <1>3, <1>4, <1>14, SchemaAssumption

-----------------------------------------------------------------------------
(***************************************************************************)
(* The tools.                                                              *)
(***************************************************************************)
\* normSchema keeps its promise (schema_portable.go:20) for every schema: a
\* client that knows no booleans can read what it returns, which accepts what
\* the schema accepts, unless it says unevaluatedProperties of what a true
\* looked at.  Rewriting once more, as tools/list does with a tool that was
\* registered rewritten, changes nothing of this.
THEOREM RewritingIsPortable ==
    \A s \in Docs :
        LET once == PortableSchema(s)
            twice == PortableSchema(once)
        IN /\ NoBooleans(once) /\ NoBooleans(twice)
           /\ LosesAnnotation(s) \/ \A v \in Values : Valid(once, v) <=> Valid(s, v)
           /\ \A v \in Values : Valid(twice, v) <=> Valid(once, v)
PROOF
<1> SUFFICES ASSUME NEW s \in Docs
             PROVE  /\ NoBooleans(NormSchema(s)) /\ NoBooleans(NormSchema(NormSchema(s)))
                    /\ LosesAnnotation(s) \/ \A v \in Values : Valid(NormSchema(s), v) <=> Valid(s, v)
                    /\ \A v \in Values : Valid(NormSchema(NormSchema(s)), v) <=> Valid(NormSchema(s), v)
  BY DEF PortableSchema
<1>1. NormSchema(s) \in Docs /\ ~LosesAnnotation(NormSchema(s))
  BY NormBool, NormLosesNothing
<1> QED
  BY <1>1, NormHasNoBooleans, SameValid

\* The invariant: what the tool was registered with and what it is called with
\* is known from the schema and the type it began with.
Held ==
    /\ pc # "start" => registered \in Docs
    /\ kind = "lenient" =>
          /\ goType \in {Struct(t) : t \in FieldTypes}
          /\ typed = ForType(goType) /\ registered = PortableSchema(typed)
    /\ pc = "start" => kind = "foreign"
    /\ pc \in {"listed", "called"} => listed = PortableSchema(registered)
    /\ pc = "called" /\ kind = "lenient" => args \in Args /\ result = Handle(args)

LEMMA StructTypes == \A t \in FieldTypes : Struct(t) \in GoTypes /\ ForType(Struct(t)) \in Docs
BY TypeAssumption

LEMMA HeldInvariant == Spec => []Held
PROOF
<1>1. Init => Held
  BY DEF Init, Held
<1>2. Held /\ [Next]_vars => Held'
  <2> SUFFICES ASSUME Held, [Next]_vars PROVE Held'
    OBVIOUS
  <2>1. CASE AddTool
    <3>1. /\ goType' \in {Struct(t) : t \in FieldTypes} /\ typed' = ForType(goType')
          /\ registered' = PortableSchema(typed') /\ pc' = "added"
      BY <2>1 DEF AddTool
    <3>2. registered' \in Docs
      BY <3>1, StructTypes, NormBool DEF PortableSchema
    <3> QED
      BY <3>1, <3>2 DEF Held
  <2>2. CASE RegisterOpenSchema
    <3>1. OpenSchema \in Docs
      BY TypeAssumption
    <3>2. registered' \in Docs /\ pc' = "added" /\ kind' = "open"
      BY <2>2, <3>1, NormBool DEF RegisterOpenSchema, PortableSchema
    <3> QED
      BY <3>2 DEF Held
  <2>3. CASE AddForeign
    BY <2>3, TypeAssumption DEF AddForeign, Held
  <2>4. CASE ListTools
    BY <2>4 DEF ListTools, Held
  <2>5. CASE CallTool
    BY <2>5 DEF CallTool, Held, Handle
  <2>6. CASE UNCHANGED vars
    BY <2>6 DEF vars, Held, Handle
  <2> QED
    BY <2>1, <2>2, <2>3, <2>4, <2>5, <2>6 DEF Next
<1> QED
  BY <1>1, <1>2, PTL DEF Spec

\* Whoever registers a tool, a client is shown a schema it can read and that
\* accepts what the handler does (schema_portable.go:20).
THEOREM PortableAndEqualHolds == Spec => []PortableAndEqual
PROOF
<1>1. Held => PortableAndEqual
  <2> SUFFICES ASSUME Held, pc = "listed"
               PROVE  /\ NoBooleans(listed)
                      /\ \/ LosesAnnotation(Original)
                         \/ \A v \in Values : Valid(listed, v) <=> Valid(Original, v)
    BY DEF PortableAndEqual
  <2>1. registered \in Docs /\ listed = PortableSchema(registered)
    BY DEF Held
  <2>2. CASE kind = "lenient"
    <3>1. typed \in Docs /\ registered = PortableSchema(typed) /\ Original = typed
      BY <2>2, StructTypes DEF Held, Original
    <3> QED
      BY <2>1, <3>1, RewritingIsPortable
  <2>3. CASE kind # "lenient"
    <3>1. Original = registered
      BY <2>3 DEF Original
    <3> QED
      BY <2>1, <3>1, RewritingIsPortable
  <2> QED
    BY <2>2, <2>3
<1> QED
  BY <1>1, HeldInvariant, PTL

-----------------------------------------------------------------------------
(***************************************************************************)
(* Values and types: what each operator makes of each of them.             *)
(***************************************************************************)
\* The element of a slice or a map, the field of a struct, what is pointed to.
Elem(t) == t.of[1]

Basic     == {"bool", "int", "float", "string"}
Composite == {"ptr", "slice", "struct", "map"}

LEMMA ValueKinds ==
    ASSUME NEW v \in Values
    PROVE  /\ v.t \in {"null", "boolean", "number", "string", "array", "object"}
           /\ v.t = "null" => v = Null
           /\ v.t = "boolean" => v \in {Scalar("boolean", Word("true")), Scalar("boolean", Word("false"))}
           /\ v.t = "number" => v = Number(v.tok) /\ v.tok.form \in {"int", "dec", "frac", "NaN"}
           /\ v.t = "string" => v = String(v.tok)
           /\ v.t = "array" => v = Array(v.elems)
           /\ v.t = "object" => v = Object(v.fields)
           /\ v.tok.n \in Nat /\ v.tok = Token(v.tok.form, v.tok.n)
           /\ v.tok.form \in {"int", "dec", "frac"} \/ v.tok.n = 0
           /\ v.elems = [i \in DOMAIN v.elems |-> v.elems[i]]
           /\ v.fields = [k \in DOMAIN v.fields |-> v.fields[k]]
           /\ v.t # "array" => Parts(v) = {v.fields[k] : k \in DOMAIN v.fields}
           /\ v.t # "object" => Parts(v) = {v.elems[i] : i \in DOMAIN v.elems}
           /\ v.t \notin {"array", "object"} => Parts(v) = {}
PROOF
<1>1. \/ v \in {Null, Boolean(TRUE), Boolean(FALSE)}
      \/ v = Number(v.tok) /\ v.tok.form \in {"int", "dec", "frac", "NaN"}
      \/ v = String(v.tok) \/ v = Array(v.elems) \/ v = Object(v.fields)
  BY ValueAssumption
<1>2. /\ v.tok.n \in Nat /\ v.tok = Token(v.tok.form, v.tok.n)
      /\ v.tok.form \in {"int", "dec", "frac"} \/ v.tok.n = 0
      /\ v.elems = [i \in DOMAIN v.elems |-> v.elems[i]]
      /\ v.fields = [k \in DOMAIN v.fields |-> v.fields[k]]
  BY ValueAssumption
<1>3. CASE \/ v \in {Null, Boolean(TRUE), Boolean(FALSE)} \/ v = String(v.tok)
           \/ v = Number(v.tok) /\ v.tok.form \in {"int", "dec", "frac", "NaN"}
  BY <1>2, <1>3 DEF Null, Boolean, Number, String, Scalar, Parts
<1>4. CASE v = Array(v.elems)
  <2>1. v.t = "array" /\ v.fields = <<>>
    BY <1>4 DEF Array
  <2> QED
    BY <1>2, <1>4, <2>1 DEF Parts
<1>5. CASE v = Object(v.fields)
  <2>1. v.t = "object" /\ v.elems = <<>>
    BY <1>5 DEF Object
  <2> QED
    BY <1>2, <1>5, <2>1 DEF Parts
<1> QED
  BY <1>1, <1>3, <1>4, <1>5

LEMMA Constructed ==
    ASSUME NEW v \in Values
    PROVE  /\ v.t = "number" => v = Number(v.tok)
           /\ v.t = "string" => v = String(v.tok)
           /\ v.t = "array" => v = Array(v.elems)
           /\ v.t = "object" => v = Object(v.fields)
BY ValueKinds

\* Induction over types, and over values.
LEMMA LeastType ==
    ASSUME NEW Bad \in SUBSET GoTypes, Bad # {}
    PROVE  \E t \in Bad : t.g \in Composite => Elem(t) \notin Bad
PROOF
<1> DEFINE H == {Nesting(t) : t \in Bad}
<1>1. H \subseteq Nat /\ H # {}
  BY TypeAssumption
<1> HIDE DEF H
<1>2. PICK n \in H : \A m \in H : n <= m
  BY <1>1, LeastNat
<1>3. PICK t \in Bad : Nesting(t) = n
  BY <1>2 DEF H
<1>4. ASSUME t.g \in Composite, Elem(t) \in Bad PROVE FALSE
  <2>1. Nesting(Elem(t)) < n /\ Nesting(Elem(t)) \in Nat /\ n \in Nat
    BY <1>3, <1>4, TypeAssumption DEF Composite, Elem
  <2>2. n <= Nesting(Elem(t))
    BY <1>2, <1>4 DEF H
  <2> QED
    BY <2>1, <2>2
<1> QED
  BY <1>3, <1>4

LEMMA LeastValue ==
    ASSUME NEW Bad \in SUBSET Values, Bad # {}
    PROVE  \E v \in Bad : \A w \in Parts(v) : w \in Values /\ w \notin Bad
PROOF
<1> DEFINE H == {Depth(v) : v \in Bad}
<1>1. H \subseteq Nat /\ H # {}
  BY ValueAssumption
<1> HIDE DEF H
<1>2. PICK n \in H : \A m \in H : n <= m
  BY <1>1, LeastNat
<1>3. PICK v \in Bad : Depth(v) = n
  BY <1>2 DEF H
<1>4. ASSUME NEW w \in Parts(v) PROVE w \in Values /\ w \notin Bad
  <2>1. w \in Values /\ Depth(w) < n /\ Depth(w) \in Nat /\ n \in Nat
    BY <1>3, ValueAssumption
  <2>2. w \in Bad => n <= Depth(w)
    BY <1>2 DEF H
  <2> QED
    BY <2>1, <2>2
<1> QED
  BY <1>3, <1>4

LEMMA TypeKinds ==
    ASSUME NEW t \in GoTypes
    PROVE  /\ t.g \in Basic \cup {"any"} \cup Composite
           /\ t.g \in Composite => Elem(t) \in GoTypes
           /\ ForType(t) \in Docs
BY TypeAssumption DEF Basic, Composite, Elem

\* The schemas that are inferred, but for a pointer's.
LEMMA ForTypeIs ==
    ASSUME NEW t \in GoTypes, t.g # "ptr"
    PROVE  LET s == ForType(t)
               u == ForType(Elem(t))
           IN /\ s.bool = IF t.g = "any" THEN "true" ELSE "no"
              /\ s.type = JSONType[t.g]
              /\ s.not = {} /\ s.allOf = {} /\ s.tuple = <<>> /\ s.addlItems = {}
              /\ s.unevalProps = {} /\ \A k \in Names : s.deps[k] = DependsOn({})
              /\ s.items = IF t.g = "slice" THEN {u} ELSE {}
              /\ s.addlProps = IF t.g = "map" THEN {u} ELSE IF t.g = "struct" THEN {False} ELSE {}
              /\ \A k \in Names : s.props[k] = IF t.g = "struct" /\ k = "a" THEN {u} ELSE {}
              /\ s.required = IF t.g = "struct" THEN {"a"} ELSE {}
PROOF
<1> DEFINE base == [Blank EXCEPT !.type = JSONType[t.g]]
<1>1. ForType(t) = ForTypeStep(t)
  BY TypeAssumption
<1>2. /\ base.bool = "no" /\ base.type = JSONType[t.g]
      /\ base.not = {} /\ base.allOf = {} /\ base.tuple = <<>> /\ base.addlItems = {}
      /\ base.unevalProps = {} /\ base.items = {} /\ base.addlProps = {} /\ base.required = {}
      /\ base.props = [k \in Names |-> {}] /\ base.deps = [k \in Names |-> DependsOn({})]
      /\ DOMAIN base = DOMAIN Blank
  BY DEF Blank
<1>3. CASE t.g \in Basic
  <2>1. ForType(t) = base
    BY <1>1, <1>3 DEF ForTypeStep, Basic
  <2> HIDE DEF base
  <2> QED
    BY <1>2, <1>3, <2>1 DEF Basic
<1>4. CASE t.g = "any"
  <2>1. ForType(t) = True /\ JSONType[t.g] = "any"
    BY <1>1, <1>4 DEF ForTypeStep, JSONType
  <2>2. \A k \in Names : True.props[k] = {} /\ True.deps[k] = DependsOn({})
    BY DEF True, Blank
  <2>3. /\ True.bool = "true" /\ True.type = "any" /\ True.required = {}
        /\ True.not = {} /\ True.allOf = {} /\ True.tuple = <<>> /\ True.addlItems = {}
        /\ True.unevalProps = {} /\ True.items = {} /\ True.addlProps = {}
    BY DEF True, Blank
  <2> QED
    BY <1>4, <2>1, <2>2, <2>3
<1>5. CASE t.g = "slice"
  <2>1. ForType(t) = [base EXCEPT !.items = {ForType(Elem(t))}, !.nullable = TRUE]
    BY <1>1, <1>5 DEF ForTypeStep, Elem
  <2> HIDE DEF base
  <2> QED
    BY <1>2, <1>5, <2>1 DEF Blank
<1>6. CASE t.g = "map"
  <2>1. ForType(t) = [base EXCEPT !.addlProps = {ForType(Elem(t))}]
    BY <1>1, <1>6 DEF ForTypeStep, Elem
  <2> HIDE DEF base
  <2> QED
    BY <1>2, <1>6, <2>1 DEF Blank
<1>7. CASE t.g = "struct"
  <2> DEFINE P == [base.props EXCEPT !["a"] = {ForType(Elem(t))}]
  <2>1. ForType(t) = [base EXCEPT !.props = P, !.required = {"a"}, !.addlProps = {False}]
    BY <1>1, <1>7 DEF ForTypeStep, Elem
  <2> HIDE DEF base, P
  <2>2. ForType(t).props = P
    BY <1>2, <2>1 DEF Blank
  <2>3. \A k \in Names : ForType(t).props[k] = IF k = "a" THEN {ForType(Elem(t))} ELSE {}
    BY <1>2, <2>2 DEF P
  <2>4. LET s == ForType(t)
        IN /\ s.bool = base.bool /\ s.type = base.type /\ s.not = base.not /\ s.allOf = base.allOf
           /\ s.tuple = base.tuple /\ s.addlItems = base.addlItems /\ s.deps = base.deps
           /\ s.unevalProps = base.unevalProps /\ s.items = base.items
           /\ s.addlProps = {False} /\ s.required = {"a"}
    <3>1. DOMAIN base = DOMAIN Blank
      BY <1>2
    <3> HIDE <1>2
    <3> QED
      BY <2>1, <3>1 DEF Blank
  <2>5. \A k \in Names : ForType(t).deps[k] = DependsOn({})
    BY <1>2, <2>4
  <2>6. t.g # "any" /\ t.g # "slice" /\ t.g # "map"
    BY <1>7
  <2> QED
    BY <1>2, <1>7, <2>3, <2>4, <2>5, <2>6, Zenon
<1> QED
  BY <1>3, <1>4, <1>5, <1>6, <1>7, TypeKinds DEF Basic, Composite

\* A pointer's is that of what it points to, but for null.
LEMMA ForPtrIs ==
    ASSUME NEW t \in GoTypes, t.g = "ptr"
    PROVE  LET s == ForType(t)
               u == ForType(Elem(t))
           IN /\ s = u \/ s = [u EXCEPT !.nullable = TRUE]
              /\ s.bool = u.bool /\ s.type = u.type
              /\ s.not = u.not /\ s.allOf = u.allOf /\ s.tuple = u.tuple
              /\ s.addlItems = u.addlItems /\ s.unevalProps = u.unevalProps /\ s.deps = u.deps
              /\ s.items = u.items /\ s.addlProps = u.addlProps /\ s.props = u.props
              /\ s.required = u.required
PROOF
<1> DEFINE u == ForType(Elem(t))
<1>1. ForType(t) = u \/ ForType(t) = [u EXCEPT !.nullable = TRUE]
  BY TypeAssumption DEF ForTypeStep, Elem
<1>2. u \in SchemaOver(Docs)
  BY TypeKinds, Parsed DEF Composite
<1>3. DOMAIN u = DOMAIN Blank
  BY <1>2 DEF SchemaOver, Blank
<1> HIDE DEF u
<1>4. CASE ForType(t) = [u EXCEPT !.nullable = TRUE]
  BY <1>3, <1>4 DEF Blank, u
<1> QED
  BY <1>1, <1>4 DEF u

\* No inferred schema relies on what a true looked at.
LEMMA ForTypeLosesNothing == \A t \in GoTypes : ~LosesAnnotation(ForType(t)) /\ ForType(t).unevalProps = {}
PROOF
<1> DEFINE Bad == {t \in GoTypes : LosesAnnotation(ForType(t)) \/ ForType(t).unevalProps # {}}
<1>1. SUFFICES ASSUME Bad # {} PROVE FALSE
  OBVIOUS
<1>2. PICK t \in Bad : t.g \in Composite => Elem(t) \notin Bad
  BY <1>1, LeastType
<1> DEFINE s == ForType(t)
           u == ForType(Elem(t))
<1>3. t \in GoTypes /\ s \in Docs
  BY TypeKinds
<1>4. LosesAnnotation(s) = LosesAnnotationStep(s)
  BY <1>3, SchemaAssumption
<1>5. CASE t.g = "ptr"
  <2>1. ~LosesAnnotation(u) /\ u.unevalProps = {} /\ u \in Docs
    BY <1>2, <1>5, TypeKinds DEF Composite
  <2>2. \A c \in Children(u) : ~LosesAnnotation(c)
    BY <2>1, SchemaAssumption DEF LosesAnnotationStep
  <2>3. Children(s) = Children(u) /\ s.unevalProps = {}
    BY <1>3, <1>5, <2>1, ForPtrIs DEF Children, InPlace
  <2> QED
    BY <1>2, <1>4, <2>2, <2>3 DEF LosesAnnotationStep
<1>6. CASE t.g # "ptr"
  <2>1. s.unevalProps = {} /\ \A c \in Children(s) : c = False \/ (t.g \in Composite /\ c = u)
    <3>1. s.unevalProps = {} /\ s.not = {} /\ s.addlItems = {} /\ s.tuple = <<>>
      BY <1>3, <1>6, ForTypeIs
    <3>2. InPlace(s) = {}
      <4>1. s.allOf = {} /\ \A k \in Names : s.deps[k] = DependsOn({})
        BY <1>3, <1>6, ForTypeIs, Zenon
      <4>2. \A k \in Names : s.deps[k].schema = {}
        BY <4>1 DEF DependsOn
      <4> HIDE DEF s
      <4> QED
        BY <4>1, <4>2 DEF InPlace
    <3>3. \A c \in s.items : c = u /\ t.g \in Composite
      BY <1>3, <1>6, ForTypeIs DEF Composite
    <3>4. \A c \in s.addlProps : c = False \/ (c = u /\ t.g \in Composite)
      BY <1>3, <1>6, ForTypeIs DEF Composite
    <3>5. \A k \in Names : \A c \in s.props[k] : c = u /\ t.g \in Composite
      <4>1. \A k \in Names : s.props[k] = IF t.g = "struct" /\ k = "a" THEN {u} ELSE {}
        BY <1>3, <1>6, ForTypeIs
      <4> HIDE DEF s, u
      <4> QED
        BY <4>1 DEF Composite
    <3> HIDE DEF s, u
    <3> QED
      BY <3>1, <3>2, <3>3, <3>4, <3>5 DEF Children
  <2>2. False \in Children(s) => ~LosesAnnotation(False)
    <3>1. Children(False) = {} /\ False.unevalProps = {}
      BY DEF Children, InPlace, DependsOn, False, Blank
    <3>2. False \in Children(s) => False \in Docs
      BY <1>3, Parsed
    <3> QED
      BY <3>1, <3>2, SchemaAssumption DEF LosesAnnotationStep
  <2>3. t.g \in Composite => ~LosesAnnotation(u)
    BY <1>2, TypeKinds
  <2> QED
    BY <1>2, <1>4, <2>1, <2>2, <2>3 DEF LosesAnnotationStep
<1> QED
  BY <1>5, <1>6

\* null is taken for every type.
Takes(t, w) == w.t = "null" \/ Valid(ForType(t), w)

\* What a schema takes is of its type.
LEMMA TakesBasic ==
    ASSUME NEW t \in GoTypes, t.g \in Basic, NEW w \in Values, Takes(t, w)
    PROVE  \/ w.t = "null"
           \/ t.g = "bool" /\ w.t = "boolean"
           \/ t.g = "int" /\ w.t = "number" /\ w.tok.form \in {"int", "dec"}
           \/ t.g = "float" /\ w.t = "number"
           \/ t.g = "string" /\ w.t = "string"
PROOF
<1>1. CASE w.t = "null"
  BY <1>1
<1>2. CASE Valid(ForType(t), w) /\ w.t # "null"
  <2>1. ForType(t).type = JSONType[t.g] /\ ForType(t) \in Docs
    BY ForTypeIs, TypeKinds DEF Basic
  <2>2. HasType(ForType(t), w)
    BY <1>2, <2>1, SchemaAssumption DEF ValidStep
  <2>3. JSONType[t.g] \in {"any", w.t} \/ (JSONType[t.g] = "integer" /\ w.t = "number" /\ w.tok.form \in {"int", "dec"})
    BY <1>2, <2>1, <2>2 DEF HasType
  <2>4. w.t \in {"null", "boolean", "number", "string", "array", "object"}
    BY ValueKinds
  <2>5. /\ JSONType["bool"] = "boolean" /\ JSONType["int"] = "integer"
        /\ JSONType["float"] = "number" /\ JSONType["string"] = "string"
    BY DEF JSONType
  <2> QED
    BY <1>2, <2>3, <2>4, <2>5 DEF Basic
<1> QED
  BY <1>1, <1>2 DEF Takes

LEMMA TakesPtr ==
    ASSUME NEW t \in GoTypes, t.g = "ptr", NEW w \in Values
    PROVE  Takes(t, w) <=> Takes(Elem(t), w)
PROOF
<1> SUFFICES ASSUME w.t # "null" PROVE Valid(ForType(t), w) <=> Valid(ForType(Elem(t)), w)
  BY DEF Takes
<1> DEFINE s == ForType(t)
           u == ForType(Elem(t))
<1>1. s \in Docs /\ u \in Docs
  BY TypeKinds DEF Composite
<1>2. /\ s.bool = u.bool /\ s.type = u.type /\ s.not = u.not /\ s.allOf = u.allOf
      /\ s.tuple = u.tuple /\ s.addlItems = u.addlItems /\ s.unevalProps = u.unevalProps
      /\ s.deps = u.deps /\ s.items = u.items /\ s.addlProps = u.addlProps /\ s.props = u.props
      /\ s.required = u.required
  BY ForPtrIs
<1> HIDE DEF s, u
<1>3. HasType(s, w) <=> HasType(u, w)
  BY <1>2 DEF HasType
<1>4. ValidElems(s, w) <=> ValidElems(u, w)
  BY <1>2 DEF ValidElems
<1>5. EvaluatedBeside(s, w) = EvaluatedBeside(u, w)
  BY <1>2 DEF EvaluatedBeside, Additional
<1>6. ValidFields(s, w) <=> ValidFields(u, w)
  BY <1>2, <1>5 DEF ValidFields
<1>7. ValidStep(s, w) <=> ValidStep(u, w)
  BY <1>2, <1>3, <1>4, <1>6 DEF ValidStep
<1> QED
  BY <1>1, <1>7, SchemaAssumption DEF s, u

LEMMA TakesSlice ==
    ASSUME NEW t \in GoTypes, t.g = "slice", NEW w \in Values, Takes(t, w), w.t # "null"
    PROVE  w.t = "array" /\ \A i \in DOMAIN w.elems : Valid(ForType(Elem(t)), w.elems[i])
PROOF
<1>1. ForType(t).type = JSONType[t.g] /\ JSONType["slice"] = "array" /\ ForType(t) \in Docs
  BY ForTypeIs, TypeKinds DEF JSONType
<1>2. ValidStep(ForType(t), w)
  BY <1>1, SchemaAssumption DEF Takes
<1>3. w.t = "array"
  BY <1>1, <1>2 DEF ValidStep, HasType
<1>4. ForType(t).tuple = <<>> /\ ForType(t).items = {ForType(Elem(t))}
  BY ForTypeIs
<1>5. ValidElems(ForType(t), w)
  BY <1>2, <1>3 DEF ValidStep
<1> QED
  BY <1>3, <1>4, <1>5 DEF ValidElems, All

LEMMA TakesObject ==
    ASSUME NEW t \in GoTypes, t.g \in {"map", "struct"}, NEW w \in Values, Takes(t, w), w.t # "null"
    PROVE  /\ w.t = "object"
           /\ t.g = "map" => \A k \in DOMAIN w.fields : Valid(ForType(Elem(t)), w.fields[k])
           /\ t.g = "struct" => DOMAIN w.fields = {"a"} /\ Valid(ForType(Elem(t)), w.fields["a"])
PROOF
<1> DEFINE s == ForType(t)
<1>1. s.type = JSONType[t.g] /\ s \in Docs
  BY ForTypeIs, TypeKinds
<1>2. JSONType["map"] = "object" /\ JSONType["struct"] = "object"
  BY DEF JSONType
<1>3. ValidStep(s, w)
  BY <1>1, SchemaAssumption DEF Takes
<1>4. w.t = "object"
  BY <1>1, <1>2, <1>3 DEF ValidStep, HasType
<1>5. ValidFields(s, w)
  BY <1>3, <1>4 DEF ValidStep
<1>6. \A k \in DOMAIN w.fields : k \in Names /\ w.fields[k] \in Values
  BY ValueParts
<1>7. ASSUME t.g = "map", NEW k \in DOMAIN w.fields PROVE Valid(ForType(Elem(t)), w.fields[k])
  <2>1. s.props[k] = {} /\ s.addlProps = {ForType(Elem(t))}
    BY <1>6, <1>7, ForTypeIs
  <2> QED
    BY <1>5, <1>7, <2>1 DEF ValidFields, All
<1>8. ASSUME t.g = "struct" PROVE DOMAIN w.fields = {"a"} /\ Valid(ForType(Elem(t)), w.fields["a"])
  <2>1. s.required = {"a"} /\ s.addlProps = {False}
    BY <1>8, ForTypeIs
  <2>2. "a" \in DOMAIN w.fields
    BY <1>5, <2>1 DEF ValidFields
  <2>3. False \in Docs
    BY <1>1, <2>1, Parsed DEF Children
  <2>4. ASSUME NEW k \in DOMAIN w.fields, k # "a" PROVE FALSE
    <3>1. s.props[k] = {}
      BY <1>6, <1>8, <2>4, ForTypeIs
    <3> QED
      BY <1>5, <1>6, <2>1, <2>3, <2>4, <3>1, FalseInvalid DEF ValidFields, All
  <2>5. s.props["a"] = {ForType(Elem(t))}
    BY <1>6, <1>8, <2>2, ForTypeIs
  <2> QED
    BY <1>5, <2>2, <2>4, <2>5 DEF ValidFields, All
<1> QED
  BY <1>4, <1>7, <1>8

Compound == {"array", "object"}

LEMMA ObjectsAre == \A f : Object(f).t = "object"
BY DEF Object

LEMMA UnmarshalIs ==
    ASSUME NEW v \in Values
    PROVE  /\ UnmarshalAny(v) \in Values
           /\ v.t \notin {"number"} \cup Compound => UnmarshalAny(v) = v
           /\ v.t = "number" => UnmarshalAny(v) = Number(Float(v.tok))
           /\ v.t = "array" =>
                UnmarshalAny(v) = Array([i \in DOMAIN v.elems |-> UnmarshalAny(v.elems[i])])
           /\ v.t = "object" =>
                UnmarshalAny(v) = Object([k \in DOMAIN v.fields |-> UnmarshalAny(v.fields[k])])
PROOF
<1>1. UnmarshalAny(v) \in Values /\ UnmarshalAny(v) = UnmarshalAnyStep(v)
  BY ValueOpsAssumption
<1> QED
  BY <1>1 DEF UnmarshalAnyStep, Compound

Coerced(v, t) == CoerceValue(v, ForType(t))

LEMMA TheOnly == \A x : The({x}) = x
BY DEF The

LEMMA CoercedIs ==
    ASSUME NEW v \in Values, NEW t \in GoTypes
    PROVE  /\ Coerced(v, t) \in Values
           /\ v.t \notin {"string"} \cup Compound => Coerced(v, t) = v
           /\ v.t = "string" => Coerced(v, t) = CoerceScalarString(v.tok, ForType(t).type)
           /\ t.g = "slice" /\ v.t = "array" =>
                Coerced(v, t) = Array([i \in DOMAIN v.elems |-> Coerced(v.elems[i], Elem(t))])
           /\ t.g \notin {"slice", "ptr"} /\ v.t = "array" => Coerced(v, t) = v
           /\ t.g = "struct" /\ v.t = "object" =>
                Coerced(v, t) = Object([k \in DOMAIN v.fields |->
                                    IF k = "a" THEN Coerced(v.fields[k], Elem(t)) ELSE v.fields[k]])
           /\ t.g \notin {"struct", "ptr"} /\ v.t = "object" => Coerced(v, t) = v
PROOF
<1> DEFINE s == ForType(t)
<1>1. Coerced(v, t) \in Values /\ Coerced(v, t) = CoerceValueStep(v, s)
  BY ValueOpsAssumption DEF Coerced
<1>2. CASE v.t \notin Compound
  BY <1>1, <1>2 DEF CoerceValueStep, Compound
<1>3. CASE v.t = "array"
  <2>1. t.g = "slice" => s.items # {} /\ The(s.items) = ForType(Elem(t))
    BY ForTypeIs, TheOnly
  <2>2. t.g \notin {"slice", "ptr"} => s.items = {}
    BY ForTypeIs
  <2> QED
    BY <1>1, <1>3, <2>1, <2>2 DEF CoerceValueStep, Coerced, Compound
<1>4. CASE v.t = "object"
  <2>1. CoerceValueStep(v, s) = CoerceStringTypes(v, s)
    BY <1>4 DEF CoerceValueStep
  <2>2. \A k \in DOMAIN v.fields : k \in Names
    BY ValueParts
  <2>3. CASE t.g = "struct"
    <3>1. \A k \in DOMAIN v.fields : s.props[k] = IF k = "a" THEN {ForType(Elem(t))} ELSE {}
      BY <2>2, <2>3, ForTypeIs
    <3>2. CoerceStringTypes(v, s) = Object([k \in DOMAIN v.fields |->
                                IF k = "a" THEN Coerced(v.fields[k], Elem(t)) ELSE v.fields[k]])
      BY <3>1, TheOnly DEF CoerceStringTypes, Coerced
    <3> QED
      BY <1>1, <1>4, <2>1, <2>3, <3>2 DEF Compound
  <2>4. CASE t.g \notin {"struct", "ptr"}
    <3>1. \A k \in DOMAIN v.fields : s.props[k] = {}
      BY <2>2, <2>4, ForTypeIs
    <3>2. CoerceStringTypes(v, s) = Object([k \in DOMAIN v.fields |-> v.fields[k]])
      BY <3>1 DEF CoerceStringTypes
    <3>3. v = Object(v.fields) /\ v.fields = [k \in DOMAIN v.fields |-> v.fields[k]]
      BY <1>4, ValueKinds
    <3>4. Coerced(v, t) = v
      BY <1>1, <2>1, <3>2, <3>3
    <3> QED
      BY <1>1, <1>4, <2>4, <3>4 DEF Compound
  <2>5. CASE t.g = "ptr"
    BY <1>1, <1>4, <2>5 DEF Compound
  <2> QED
    BY <2>3, <2>4, <2>5
<1> QED
  BY <1>2, <1>3, <1>4 DEF Compound

LEMMA CoercedPtr ==
    ASSUME NEW v \in Values, NEW t \in GoTypes, t.g = "ptr"
    PROVE  Coerced(v, t) = Coerced(v, Elem(t))
PROOF
<1> DEFINE s == ForType(t)
           u == ForType(Elem(t))
<1>1. s.type = u.type /\ s.items = u.items /\ s.props = u.props
  BY ForPtrIs
<1>2. Elem(t) \in GoTypes
  BY TypeKinds DEF Composite
<1>3. Coerced(v, t) = CoerceValueStep(v, s) /\ Coerced(v, Elem(t)) = CoerceValueStep(v, u)
  BY <1>2, ValueOpsAssumption DEF Coerced
<1> HIDE DEF s, u
<1> QED
  BY <1>1, <1>3 DEF CoerceValueStep, CoerceStringTypes

LEMMA MeantIs ==
    ASSUME NEW v \in Values, NEW t \in GoTypes
    PROVE  /\ Meant(v, t) \in Values
           /\ t.g = "ptr" => Meant(v, t) = Meant(v, Elem(t))
           /\ t.g \in {"any", "map", "string"} => Meant(v, t) = v
           /\ t.g \in Basic /\ v.t # "string" => Meant(v, t) = v
           /\ t.g \in {"int", "float"} /\ v.t = "string" =>
                Meant(v, t) = IF v.tok.form \in {"int", "dec", "frac"} THEN Number(v.tok) ELSE v
           /\ t.g = "bool" /\ v.t = "string" =>
                Meant(v, t) = IF v.tok \in SaysTrue THEN Scalar("boolean", Word("true"))
                              ELSE IF v.tok \in SaysFalse THEN Scalar("boolean", Word("false")) ELSE v
           /\ t.g = "slice" =>
                Meant(v, t) = IF v.t = "array"
                              THEN Array([i \in DOMAIN v.elems |-> Meant(v.elems[i], Elem(t))]) ELSE v
           /\ t.g = "struct" =>
                Meant(v, t) = IF v.t = "object"
                              THEN Object([k \in DOMAIN v.fields |->
                                      IF k = "a" THEN Meant(v.fields[k], Elem(t)) ELSE v.fields[k]])
                              ELSE v
PROOF
<1>1. Meant(v, t) \in Values /\ Meant(v, t) = MeantStep(v, t)
  BY ValueOpsAssumption
<1>2. CASE t.g = "ptr"
  BY <1>1, <1>2 DEF MeantStep, Elem, Basic
<1>3. CASE t.g \in {"any", "map", "string"}
  BY <1>1, <1>3 DEF MeantStep, Basic
<1>4. CASE t.g \in {"int", "float"}
  BY <1>1, <1>4 DEF MeantStep, Basic
<1>5. CASE t.g = "bool"
  <2>1. CASE v.t = "string" /\ v.tok \in SaysTrue \cup SaysFalse
    <3>1. MeantStep(v, t) = Boolean(v.tok \in SaysTrue)
      BY <1>5, <2>1 DEF MeantStep
    <3>2. Boolean(v.tok \in SaysTrue) =
            Scalar("boolean", Word(IF v.tok \in SaysTrue THEN "true" ELSE "false"))
      BY DEF Boolean
    <3> QED
      BY <1>1, <1>5, <2>1, <3>1, <3>2 DEF Basic
  <2>2. CASE ~(v.t = "string" /\ v.tok \in SaysTrue \cup SaysFalse)
    BY <1>1, <1>5, <2>2 DEF MeantStep, Basic
  <2> QED
    BY <2>1, <2>2
<1>6. CASE t.g = "slice"
  BY <1>1, <1>6 DEF MeantStep, Elem, Basic
<1>7. CASE t.g = "struct"
  BY <1>1, <1>7 DEF MeantStep, Elem, Basic
<1> QED
  BY <1>2, <1>3, <1>4, <1>5, <1>6, <1>7, TypeKinds DEF Basic, Composite

-----------------------------------------------------------------------------
(***************************************************************************)
(* The scalars of a value.                                                 *)
(***************************************************************************)
LEMMA ScalarsIs ==
    ASSUME NEW v \in Values
    PROVE  /\ v.t \notin Compound => Scalars(v) = {v}
           /\ v.t \in Compound => Scalars(v) = UNION {Scalars(w) : w \in Parts(v)}
PROOF
<1>1. Scalars(v) = ScalarsStep(v)
  BY ValueOpsAssumption
<1>2. v.t \notin Compound => Parts(v) = {}
  BY ValueKinds DEF Compound
<1> QED
  BY <1>1, <1>2 DEF ScalarsStep, Compound

LEMMA ScalarsAreValues == \A v \in Values : \A x \in Scalars(v) : x \in Values /\ x.t \notin Compound
PROOF
<1> DEFINE Bad == {v \in Values : \E x \in Scalars(v) : ~(x \in Values /\ x.t \notin Compound)}
<1>1. SUFFICES ASSUME Bad # {} PROVE FALSE
  OBVIOUS
<1>2. PICK v \in Bad : \A w \in Parts(v) : w \in Values /\ w \notin Bad
  BY <1>1, LeastValue
<1> QED
  BY <1>2, ScalarsIs

\* A value has what is said of all its scalars when all its parts have it.
LEMMA PlainIs ==
    ASSUME NEW v \in Values
    PROVE  /\ v.t \in Compound => (Plain(v) <=> \A w \in Parts(v) : Plain(w))
           /\ v.t \notin Compound =>
                (Plain(v) <=> v.tok.form # "dec" /\ v.tok.n <= IntMax /\ RoundTo(v.tok.n) = v.tok.n)
BY ScalarsIs DEF Plain

LEMMA MarshalsIs ==
    ASSUME NEW v \in Values
    PROVE  /\ v.t \in Compound => (Marshals(v) <=> \A w \in Parts(v) : Marshals(w))
           /\ v.t \notin Compound => (Marshals(v) <=> (v.t = "number" => v.tok.form # "NaN"))
PROOF
<1>1. v.t \notin Compound => (Marshals(v) <=> v # Number(Word("NaN")))
  BY ScalarsIs DEF Marshals
<1>2. v = Number(Word("NaN")) <=> v.t = "number" /\ v.tok.form = "NaN"
  <2>1. Number(Word("NaN")).t = "number" /\ Number(Word("NaN")).tok.form = "NaN"
    BY DEF Number, Scalar, Word, Token
  <2>2. v.t = "number" /\ v.tok.form = "NaN" => v = Number(Word("NaN"))
    <3>1. v.t = "number" => v = Number(v.tok)
      BY Constructed
    <3>2. v.tok = Token(v.tok.form, v.tok.n) /\ (v.tok.form \in {"int", "dec", "frac"} \/ v.tok.n = 0)
      BY ValueKinds
    <3> QED
      BY <3>1, <3>2 DEF Word
  <2> QED
    BY <2>1, <2>2
<1> QED
  BY <1>1, <1>2, ScalarsIs DEF Marshals

LEMMA QuotedIs ==
    ASSUME NEW v \in Values
    PROVE  /\ v.t \in Compound => (Quoted(v) <=> \A w \in Parts(v) : Quoted(w))
           /\ v.t \notin Compound => (Quoted(v) <=> v.t # "number")
BY ScalarsIs DEF Quoted

LEMMA RoundToTwice == \A n \in Nat : RoundTo(n) \in Nat /\ RoundTo(RoundTo(n)) = RoundTo(n)
BY WidthAssumption DEF RoundTo

\* What is not a number, or a number a float64 holds, is decoded as it is.
LEMMA UnmarshalKeeps ==
    \A v \in Values : Quoted(v) \/ (Plain(v) /\ Marshals(v)) => UnmarshalAny(v) = v
PROOF
<1> DEFINE Bad == {v \in Values : (Quoted(v) \/ (Plain(v) /\ Marshals(v))) /\ UnmarshalAny(v) # v}
<1>1. SUFFICES ASSUME Bad # {} PROVE FALSE
  OBVIOUS
<1>2. PICK v \in Bad : \A w \in Parts(v) : w \in Values /\ w \notin Bad
  BY <1>1, LeastValue
<1>3. v \in Values /\ UnmarshalAny(v) # v
  BY <1>2
<1>4. CASE v.t \in Compound
  <2>1. \A w \in Parts(v) : Quoted(w) \/ (Plain(w) /\ Marshals(w))
    BY <1>2, <1>4, QuotedIs, PlainIs, MarshalsIs
  <2>2. \A w \in Parts(v) : UnmarshalAny(w) = w
    BY <1>2, <2>1
  <2>3. CASE v.t = "array"
    <3>1. [i \in DOMAIN v.elems |-> UnmarshalAny(v.elems[i])] = v.elems
      <4>1. \A i \in DOMAIN v.elems : UnmarshalAny(v.elems[i]) = v.elems[i]
        BY <2>2 DEF Parts
      <4>2. v.elems = [i \in DOMAIN v.elems |-> v.elems[i]]
        BY <1>3, ValueKinds
      <4> QED
        BY <4>1, <4>2
    <3> QED
      <4>1. UnmarshalAny(v) = Array([i \in DOMAIN v.elems |-> UnmarshalAny(v.elems[i])])
        BY <1>3, <2>3, UnmarshalIs
      <4> QED
        BY <1>3, <2>3, <3>1, <4>1, Constructed
  <2>4. CASE v.t = "object"
    <3>1. [k \in DOMAIN v.fields |-> UnmarshalAny(v.fields[k])] = v.fields
      <4>1. \A k \in DOMAIN v.fields : UnmarshalAny(v.fields[k]) = v.fields[k]
        BY <2>2 DEF Parts
      <4>2. v.fields = [k \in DOMAIN v.fields |-> v.fields[k]]
        BY <1>3, ValueKinds
      <4> QED
        BY <4>1, <4>2
    <3> QED
      <4>1. UnmarshalAny(v) = Object([k \in DOMAIN v.fields |-> UnmarshalAny(v.fields[k])])
        BY <1>3, <2>4, UnmarshalIs
      <4> QED
        BY <1>3, <2>4, <3>1, <4>1, Constructed
  <2> QED
    BY <1>4, <2>3, <2>4 DEF Compound
<1>5. CASE v.t = "number"
  <2>1. Plain(v) /\ Marshals(v) /\ v.t \notin Compound
    BY <1>2, <1>5, QuotedIs DEF Compound
  <2>2. v.tok.form \in {"int", "frac"} /\ RoundTo(v.tok.n) = v.tok.n
    BY <1>3, <1>5, <2>1, PlainIs, MarshalsIs, ValueKinds
  <2>3. Float(v.tok) = v.tok
    BY <1>3, <2>2, ValueKinds DEF Float
  <2> QED
    <3>1. UnmarshalAny(v) = Number(Float(v.tok))
      BY <1>3, <1>5, UnmarshalIs
    <3> QED
      BY <1>3, <1>5, <2>3, <3>1, Constructed
<1>6. CASE v.t \notin {"number"} \cup Compound
  BY <1>3, <1>6, UnmarshalIs
<1> QED
  BY <1>4, <1>5, <1>6

LEMMA MeantKeeps ==
    \A t \in GoTypes : \A v \in Values :
        (Plain(v) => Plain(Meant(v, t))) /\ (Marshals(v) => Marshals(Meant(v, t)))
PROOF
<1> DEFINE Keeps(v, t) == (Plain(v) => Plain(Meant(v, t))) /\ (Marshals(v) => Marshals(Meant(v, t)))
           Bad == {t \in GoTypes : \E v \in Values : ~Keeps(v, t)}
<1>1. SUFFICES ASSUME Bad # {} PROVE FALSE
  OBVIOUS
<1>2. PICK t \in Bad : t.g \in Composite => Elem(t) \notin Bad
  BY <1>1, LeastType
<1>3. PICK v \in Values : ~Keeps(v, t)
  BY <1>2
<1> DEFINE m == Meant(v, t)
<1>4. t \in GoTypes /\ m \in Values /\ m # v
  BY <1>2, <1>3, MeantIs
<1>5. t.g \in Composite => \A w \in Values : Keeps(w, Elem(t))
  BY <1>2, <1>4, TypeKinds
<1>6. CASE t.g = "ptr"
  BY <1>3, <1>4, <1>5, <1>6, MeantIs DEF Composite
<1>7. CASE t.g \in Basic
  <2>1. v.t = "string"
    BY <1>4, <1>7, MeantIs
  <2>2. \/ m = Number(v.tok) /\ v.tok.form \in {"int", "dec", "frac"}
        \/ m = Scalar("boolean", Word("true")) \/ m = Scalar("boolean", Word("false"))
    BY <1>4, <1>7, <2>1, MeantIs DEF Basic
  <2>3. \/ m.t = "number" /\ m.tok = v.tok /\ v.tok.form \in {"int", "dec", "frac"}
        \/ m.t = "boolean" /\ m.tok.n = 0 /\ m.tok.form # "dec"
    BY <2>2 DEF Number, Scalar, Word, Token
  <2>4. RoundTo(0) = 0 /\ 0 <= IntMax
    BY WidthAssumption DEF RoundTo
  <2> HIDE DEF m
  <2>5. m.t \notin Compound /\ v.t \notin Compound
    BY <2>1, <2>3 DEF Compound
  <2>6. Plain(v) => Plain(m)
    BY <1>4, <2>3, <2>4, <2>5, PlainIs
  <2>7. Marshals(m)
    BY <1>4, <2>3, <2>5, MarshalsIs
  <2> QED
    BY <1>3, <2>6, <2>7 DEF m
<1>8. CASE t.g = "slice"
  <2>1. v.t = "array" /\ m = Array([i \in DOMAIN v.elems |-> Meant(v.elems[i], Elem(t))])
    BY <1>4, <1>8, MeantIs
  <2>2. m.t = "array" /\ m.elems = [i \in DOMAIN v.elems |-> Meant(v.elems[i], Elem(t))]
    BY <2>1 DEF Array
  <2>3. /\ Parts(v) = {v.elems[i] : i \in DOMAIN v.elems}
        /\ Parts(m) = {m.elems[i] : i \in DOMAIN m.elems}
    BY <1>4, <2>1, <2>2, ValueKinds
  <2>4. \A i \in DOMAIN v.elems : Keeps(v.elems[i], Elem(t))
    BY <1>5, <1>8, ValueParts DEF Composite
  <2>5. \A i \in DOMAIN v.elems : m.elems[i] = Meant(v.elems[i], Elem(t))
    BY <2>2
  <2>6. DOMAIN m.elems = DOMAIN v.elems
    BY <2>2
  <2> HIDE DEF m
  <2>7. Plain(v) => Plain(m)
    BY <1>4, <2>1, <2>2, <2>3, <2>4, <2>5, <2>6, PlainIs DEF Compound
  <2>8. Marshals(v) => Marshals(m)
    BY <1>4, <2>1, <2>2, <2>3, <2>4, <2>5, <2>6, MarshalsIs DEF Compound
  <2> QED
    BY <1>3, <2>7, <2>8 DEF m
<1>9. CASE t.g = "struct"
  <2> DEFINE f == [k \in DOMAIN v.fields |->
                     IF k = "a" THEN Meant(v.fields[k], Elem(t)) ELSE v.fields[k]]
  <2>1. v.t = "object" /\ m = Object(f)
    BY <1>4, <1>9, MeantIs
  <2>2. m.t = "object" /\ m.fields = f
    BY <2>1 DEF Object
  <2>3. /\ Parts(v) = {v.fields[k] : k \in DOMAIN v.fields}
        /\ Parts(m) = {m.fields[k] : k \in DOMAIN m.fields}
    BY <1>4, <2>1, <2>2, ValueKinds
  <2>4. \A k \in DOMAIN v.fields : Keeps(v.fields[k], Elem(t))
    BY <1>5, <1>9, ValueParts DEF Composite
  <2> HIDE DEF m
  <2> QED
    BY <1>3, <1>4, <2>1, <2>2, <2>3, <2>4, PlainIs, MarshalsIs DEF Compound, m
<1>10. CASE t.g \in {"any", "map"}
  BY <1>4, <1>10, MeantIs
<1> QED
  BY <1>4, <1>6, <1>7, <1>8, <1>9, <1>10, TypeKinds DEF Composite

-----------------------------------------------------------------------------
(***************************************************************************)
(* Coercion of scalars, and what is decoded.                               *)
(***************************************************************************)
LEMMA CoercedSame ==
    ASSUME NEW v \in Values, NEW t \in GoTypes
    PROVE  /\ t.g \in {"any", "map", "string"} => Coerced(v, t) = v
           /\ t.g = "slice" /\ v.t # "array" => Coerced(v, t) = v
           /\ t.g = "struct" /\ v.t # "object" => Coerced(v, t) = v
           /\ t.g \in Basic /\ v.t # "string" => Coerced(v, t) = v
PROOF
<1> SUFFICES ASSUME \/ t.g \in {"any", "map", "string"}
                    \/ t.g = "slice" /\ v.t # "array"
                    \/ t.g = "struct" /\ v.t # "object"
                    \/ t.g \in Basic /\ v.t # "string"
             PROVE  Coerced(v, t) = v
  OBVIOUS
<1>1. CASE v.t \notin {"string"} \cup Compound
  BY <1>1, CoercedIs
<1>2. CASE v.t \in Compound
  BY <1>2, CoercedIs DEF Compound, Basic
<1>3. CASE v.t = "string"
  <2>1. t.g \in {"any", "map", "string", "slice", "struct"}
    BY <1>3
  <2>2. ForType(t).type = JSONType[t.g]
    BY <2>1, ForTypeIs
  <2>3. JSONType[t.g] \notin {"boolean", "integer", "number"}
    BY <2>1 DEF JSONType
  <2>4. CoerceScalarString(v.tok, JSONType[t.g]) = String(v.tok)
    BY <2>3 DEF CoerceScalarString
  <2>5. Coerced(v, t) = CoerceScalarString(v.tok, ForType(t).type)
    BY <1>3, CoercedIs
  <2>6. v = String(v.tok)
    BY <1>3, ValueKinds
  <2> QED
    BY <2>2, <2>4, <2>5, <2>6
<1> QED
  BY <1>1, <1>2, <1>3

LEMMA CoercedBasic ==
    ASSUME NEW v \in Values, v.t = "string", NEW t \in GoTypes
    PROVE  /\ t.g = "int" =>
                Coerced(v, t) = IF v.tok.form = "int" /\ v.tok.n <= IntMax THEN Number(v.tok) ELSE v
           /\ t.g = "float" =>
                Coerced(v, t) = IF v.tok.form \in {"int", "dec", "frac"} THEN Number(Float(v.tok))
                                ELSE IF v.tok.form = "NaN" THEN Number(v.tok) ELSE v
           /\ t.g = "bool" =>
                Coerced(v, t) = IF v.tok \in SaysTrue THEN Scalar("boolean", Word("true"))
                                ELSE IF v.tok \in SaysFalse THEN Scalar("boolean", Word("false")) ELSE v
PROOF
<1>1. ASSUME t.g # "ptr" PROVE Coerced(v, t) = CoerceScalarString(v.tok, JSONType[t.g])
  <2>1. Coerced(v, t) = CoerceScalarString(v.tok, ForType(t).type)
    BY CoercedIs
  <2>2. ForType(t).type = JSONType[t.g]
    BY <1>1, ForTypeIs
  <2> QED
    BY <2>1, <2>2
<1>2. JSONType["int"] = "integer" /\ JSONType["float"] = "number" /\ JSONType["bool"] = "boolean"
  BY DEF JSONType
<1>3. v = String(v.tok)
  BY ValueKinds
<1>4. \A x : <<x>> # <<>> /\ <<x>>[1] = x
  OBVIOUS
<1>5. CoerceScalarString(v.tok, "integer") =
        IF v.tok.form = "int" /\ v.tok.n <= IntMax THEN Number(v.tok) ELSE v
  BY <1>3, <1>4 DEF CoerceScalarString, ParseInt
<1>6. CoerceScalarString(v.tok, "number") =
        IF v.tok.form \in {"int", "dec", "frac"} THEN Number(Float(v.tok))
        ELSE IF v.tok.form = "NaN" THEN Number(v.tok) ELSE v
  BY <1>3, <1>4 DEF CoerceScalarString, ParseFloat
<1>7. CoerceScalarString(v.tok, "boolean") =
        IF v.tok \in SaysTrue THEN Scalar("boolean", Word("true"))
        ELSE IF v.tok \in SaysFalse THEN Scalar("boolean", Word("false")) ELSE v
  <2>0. v.tok = Token(v.tok.form, v.tok.n) /\ (v.tok.form \in {"int", "dec", "frac"} \/ v.tok.n = 0)
    BY ValueKinds
  <2>1. v.tok \in SaysTrue <=> (v.tok.form \in {"true", "TRUE"} \/ v.tok = Token("int", 1))
    BY <2>0 DEF SaysTrue, Word, Token
  <2>2. v.tok \in SaysFalse <=> (v.tok.form = "false" \/ v.tok = Token("int", 0))
    BY <2>0 DEF SaysFalse, Word, Token
  <2>3. Boolean(TRUE) = Scalar("boolean", Word("true")) /\ Boolean(FALSE) = Scalar("boolean", Word("false"))
    BY DEF Boolean
  <2>4. ParseBool(v.tok) = IF v.tok \in SaysTrue THEN <<Scalar("boolean", Word("true"))>>
                           ELSE IF v.tok \in SaysFalse THEN <<Scalar("boolean", Word("false"))>> ELSE <<>>
    <3>1. CASE v.tok \in SaysTrue
      <4>1. v.tok.form \in {"true", "TRUE"} \/ v.tok = Token("int", 1)
        BY <2>1, <3>1
      <4>2. ~(v.tok.form = "false" \/ v.tok = Token("int", 0))
        BY <4>1 DEF Token
      <4>3. ParseBool(v.tok) = <<Boolean(TRUE)>>
        BY <4>1, <4>2 DEF ParseBool
      <4> QED
        BY <2>3, <3>1, <4>3
    <3>2. CASE v.tok \notin SaysTrue /\ v.tok \in SaysFalse
      <4>1. ParseBool(v.tok) = <<Boolean(FALSE)>>
        BY <2>1, <2>2, <3>2 DEF ParseBool
      <4> QED
        BY <2>3, <3>2, <4>1
    <3>3. CASE v.tok \notin SaysTrue /\ v.tok \notin SaysFalse
      <4>1. ParseBool(v.tok) = <<>>
        BY <2>1, <2>2, <3>3 DEF ParseBool
      <4> QED
        BY <3>3, <4>1
    <3> QED
      BY <3>1, <3>2, <3>3
  <2>5. CoerceScalarString(v.tok, "boolean") =
          IF ParseBool(v.tok) = <<>> THEN String(v.tok) ELSE ParseBool(v.tok)[1]
    BY DEF CoerceScalarString
  <2> QED
    BY <1>3, <1>4, <2>4, <2>5
<1> QED
  BY <1>1, <1>2, <1>5, <1>6, <1>7

LEMMA DecodedIs ==
    ASSUME NEW v \in Values, NEW t \in GoTypes
    PROVE  /\ v.t = "null" => Decoded(v, t) = Null
           /\ v.t # "null" =>
                /\ t.g \in {"any", "float"} => Decoded(v, t) = UnmarshalAny(v)
                /\ t.g \in {"bool", "int", "string"} => Decoded(v, t) = v
                /\ t.g = "ptr" => Decoded(v, t) = Decoded(v, Elem(t))
                /\ t.g = "slice" =>
                     Decoded(v, t) = Array([i \in DOMAIN v.elems |-> Decoded(v.elems[i], Elem(t))])
                /\ t.g = "map" =>
                     Decoded(v, t) = Object([k \in DOMAIN v.fields |-> Decoded(v.fields[k], Elem(t))])
                /\ t.g = "struct" =>
                     Decoded(v, t) = Object([k \in DOMAIN v.fields \cap {"a"} |->
                                               Decoded(v.fields[k], Elem(t))])
PROOF
<1>1. Decoded(v, t) = DecodedStep(v, t)
  BY ValueOpsAssumption
<1>2. CASE t.g \in {"any", "float", "ptr"}
  BY <1>1, <1>2 DEF DecodedStep, Elem
<1>3. CASE t.g = "slice"
  BY <1>1, <1>3 DEF DecodedStep, Elem
<1>4. CASE t.g = "map"
  BY <1>1, <1>4 DEF DecodedStep, Elem
<1>5. CASE t.g = "struct"
  BY <1>1, <1>5 DEF DecodedStep, Elem
<1>6. CASE t.g \in {"bool", "int", "string"}
  BY <1>1, <1>6 DEF DecodedStep
<1> QED
  BY <1>1, <1>2, <1>3, <1>4, <1>5, <1>6, TypeKinds DEF Basic, Composite

LEMMA DecodedPtr ==
    ASSUME NEW v \in Values, NEW t \in GoTypes, t.g = "ptr"
    PROVE  Decoded(v, t) = Decoded(v, Elem(t))
BY DecodedIs, TypeKinds DEF Composite

LEMMA DecodableIs ==
    ASSUME NEW v \in Values, NEW t \in GoTypes
    PROVE  Decodable(v, t) <=>
             \/ v.t = "null" \/ t.g = "any"
             \/ t.g = "ptr" /\ Decodable(v, Elem(t))
             \/ t.g = "bool" /\ v.t = "boolean"
             \/ t.g = "string" /\ v.t = "string"
             \/ t.g = "int" /\ v.t = "number" /\ v.tok.form = "int" /\ v.tok.n <= IntMax
             \/ t.g = "float" /\ v.t = "number"
             \/ /\ t.g = "slice" /\ v.t = "array"
                /\ \A i \in DOMAIN v.elems : Decodable(v.elems[i], Elem(t))
             \/ /\ t.g = "map" /\ v.t = "object"
                /\ \A k \in DOMAIN v.fields : Decodable(v.fields[k], Elem(t))
             \/ /\ t.g = "struct" /\ v.t = "object"
                /\ "a" \in DOMAIN v.fields => Decodable(v.fields["a"], Elem(t))
PROOF
<1>1. Decodable(v, t) = DecodableStep(v, t)
  BY ValueOpsAssumption
<1>2. JSONType["bool"] = "boolean" /\ JSONType["string"] = "string"
  BY DEF JSONType
<1> QED
  BY <1>1, <1>2 DEF DecodableStep, Elem

-----------------------------------------------------------------------------
(***************************************************************************)
(* What the schema takes as it is reaches the tool as it is.               *)
(***************************************************************************)
LEMMA TakenAsItIs ==
    \A t \in GoTypes : \A w \in Values :
        Plain(w) /\ Marshals(w) /\ Takes(t, w) =>
            Coerced(w, t) = w /\ Decodable(w, t) /\ Decoded(w, t) = w
PROOF
<1> DEFINE AsItIs(w, t) == Plain(w) /\ Marshals(w) /\ Takes(t, w) =>
                             Coerced(w, t) = w /\ Decodable(w, t) /\ Decoded(w, t) = w
           Bad == {t \in GoTypes : \E w \in Values : ~AsItIs(w, t)}
<1>1. SUFFICES ASSUME Bad # {} PROVE FALSE
  OBVIOUS
<1>2. PICK t \in Bad : t.g \in Composite => Elem(t) \notin Bad
  BY <1>1, LeastType
<1>3. PICK w \in Values : ~AsItIs(w, t)
  BY <1>2
<1>4. t \in GoTypes /\ Plain(w) /\ Marshals(w) /\ Takes(t, w)
  BY <1>2, <1>3
<1>5. t.g \in Composite => \A x \in Values : AsItIs(x, Elem(t))
  BY <1>2, <1>4, TypeKinds
<1>6. UnmarshalAny(w) = w
  BY <1>4, UnmarshalKeeps
<1>7. CASE t.g = "ptr"
  <2>1. Takes(Elem(t), w)
    BY <1>4, <1>7, TakesPtr
  <2>2. Coerced(w, Elem(t)) = w /\ Decodable(w, Elem(t)) /\ Decoded(w, Elem(t)) = w
    BY <1>4, <1>5, <1>7, <2>1 DEF Composite
  <2>3. Coerced(w, t) = w /\ Decoded(w, t) = w
    BY <1>4, <1>7, <2>2, CoercedPtr, DecodedPtr
  <2>4. Decodable(w, t)
    BY <1>4, <1>7, <2>2, DecodableIs
  <2> QED
    BY <1>3, <2>3, <2>4
<1>8. CASE w.t = "null" /\ t.g # "ptr"
  <2>1. Coerced(w, t) = w
    BY <1>4, <1>8, CoercedIs DEF Compound
  <2>2. Decodable(w, t) /\ Decoded(w, t) = w
    BY <1>4, <1>8, DecodableIs, DecodedIs, ValueKinds
  <2> QED
    BY <1>3, <2>1, <2>2
<1>9. CASE w.t # "null" /\ t.g = "any"
  <2>1. t.g \in {"any", "map", "string"}
    BY <1>9
  <2>3. Coerced(w, t) = w
    BY <1>4, <2>1, CoercedSame
  <2>2. Decodable(w, t) /\ Decoded(w, t) = UnmarshalAny(w)
    BY <1>4, <1>9, DecodableIs, DecodedIs
  <2> QED
    BY <1>3, <1>6, <2>2, <2>3
<1>10. CASE w.t # "null" /\ t.g \in Basic
  <2>1. \/ t.g = "bool" /\ w.t = "boolean"
        \/ t.g = "int" /\ w.t = "number" /\ w.tok.form \in {"int", "dec"}
        \/ t.g = "float" /\ w.t = "number"
        \/ t.g = "string" /\ w.t = "string"
    BY <1>4, <1>10, TakesBasic
  <2>2. Coerced(w, t) = w
    BY <1>4, <1>10, <2>1, CoercedSame
  <2>3. Decoded(w, t) = w
    BY <1>4, <1>6, <1>10, DecodedIs DEF Basic
  <2>4. Decodable(w, t)
    <3>1. w.t = "number" => w.tok.form # "dec" /\ w.tok.n <= IntMax
      BY <1>4, PlainIs DEF Compound
    <3> QED
      BY <1>4, <2>1, <3>1, DecodableIs
  <2> QED
    BY <1>3, <2>2, <2>3, <2>4
<1>11. CASE w.t # "null" /\ t.g = "slice"
  <2>1. w.t = "array" /\ \A i \in DOMAIN w.elems : Valid(ForType(Elem(t)), w.elems[i])
    BY <1>4, <1>11, TakesSlice
  <2>2. ASSUME NEW i \in DOMAIN w.elems
        PROVE  /\ Coerced(w.elems[i], Elem(t)) = w.elems[i]
               /\ Decodable(w.elems[i], Elem(t)) /\ Decoded(w.elems[i], Elem(t)) = w.elems[i]
    <3>1. w.elems[i] \in Parts(w) /\ w.elems[i] \in Values
      BY ValueParts DEF Parts
    <3>2. Plain(w.elems[i]) /\ Marshals(w.elems[i])
      BY <1>4, <2>1, <3>1, PlainIs, MarshalsIs DEF Compound
    <3>3. AsItIs(w.elems[i], Elem(t))
      BY <1>5, <1>11, <3>1 DEF Composite
    <3> QED
      BY <2>1, <3>2, <3>3 DEF Takes
  <2>3. w = Array(w.elems) /\ w.elems = [i \in DOMAIN w.elems |-> w.elems[i]]
    BY <2>1, ValueKinds
  <2>4. Coerced(w, t) = Array([i \in DOMAIN w.elems |-> Coerced(w.elems[i], Elem(t))])
    BY <1>4, <1>11, <2>1, CoercedIs
  <2>5. [i \in DOMAIN w.elems |-> Coerced(w.elems[i], Elem(t))] = w.elems
    BY <2>2, <2>3
  <2>6. Decoded(w, t) = Array([i \in DOMAIN w.elems |-> Decoded(w.elems[i], Elem(t))])
    BY <1>4, <1>11, DecodedIs
  <2>7. [i \in DOMAIN w.elems |-> Decoded(w.elems[i], Elem(t))] = w.elems
    BY <2>2, <2>3
  <2>8. Decodable(w, t)
    BY <1>4, <1>11, <2>1, <2>2, DecodableIs
  <2> QED
    BY <1>3, <2>3, <2>4, <2>5, <2>6, <2>7, <2>8
<1>12. CASE w.t # "null" /\ t.g \in {"map", "struct"}
  <2>1. /\ w.t = "object"
        /\ t.g = "map" => \A k \in DOMAIN w.fields : Valid(ForType(Elem(t)), w.fields[k])
        /\ t.g = "struct" => DOMAIN w.fields = {"a"} /\ Valid(ForType(Elem(t)), w.fields["a"])
    BY <1>4, <1>12, TakesObject
  <2>2. ASSUME NEW k \in DOMAIN w.fields
        PROVE  /\ Coerced(w.fields[k], Elem(t)) = w.fields[k]
               /\ Decodable(w.fields[k], Elem(t)) /\ Decoded(w.fields[k], Elem(t)) = w.fields[k]
    <3>1. w.fields[k] \in Parts(w) /\ w.fields[k] \in Values
      BY ValueParts DEF Parts
    <3>2. Plain(w.fields[k]) /\ Marshals(w.fields[k])
      BY <1>4, <2>1, <3>1, PlainIs, MarshalsIs DEF Compound
    <3>3. AsItIs(w.fields[k], Elem(t))
      BY <1>5, <1>12, <3>1 DEF Composite
    <3>4. Takes(Elem(t), w.fields[k])
      BY <1>12, <2>1 DEF Takes
    <3> QED
      BY <3>2, <3>3, <3>4
  <2>3. w = Object(w.fields) /\ w.fields = [k \in DOMAIN w.fields |-> w.fields[k]]
    BY <2>1, ValueKinds
  <2>4. Coerced(w, t) = w
    <3>1. CASE t.g = "map"
      <4>1. t.g \in {"any", "map", "string"}
        BY <3>1
      <4> QED
        BY <1>4, <4>1, CoercedSame
    <3>2. CASE t.g = "struct"
      <4>1. Coerced(w, t) = Object([k \in DOMAIN w.fields |->
                              IF k = "a" THEN Coerced(w.fields[k], Elem(t)) ELSE w.fields[k]])
        BY <1>4, <2>1, <3>2, CoercedIs
      <4>2. [k \in DOMAIN w.fields |->
              IF k = "a" THEN Coerced(w.fields[k], Elem(t)) ELSE w.fields[k]] = w.fields
        BY <2>2, <2>3
      <4> QED
        BY <2>3, <4>1, <4>2
    <3> QED
      BY <1>12, <3>1, <3>2
  <2>5. Decoded(w, t) = w
    <3>1. Decoded(w, t) = Object([k \in DOMAIN w.fields |-> Decoded(w.fields[k], Elem(t))])
      <4>1. t.g = "struct" => DOMAIN w.fields \cap {"a"} = DOMAIN w.fields
        BY <2>1
      <4>2. CASE t.g = "map"
        BY <1>4, <1>12, <4>2, DecodedIs
      <4>3. CASE t.g = "struct"
        <5>1. Decoded(w, t) = Object([k \in DOMAIN w.fields \cap {"a"} |-> Decoded(w.fields[k], Elem(t))])
          BY <1>4, <1>12, <4>3, DecodedIs
        <5> QED
          BY <4>1, <4>3, <5>1
      <4> QED
        BY <1>12, <4>2, <4>3
    <3>2. [k \in DOMAIN w.fields |-> Decoded(w.fields[k], Elem(t))] = w.fields
      BY <2>2, <2>3
    <3> QED
      BY <2>3, <3>1, <3>2
  <2>6. Decodable(w, t)
    BY <1>4, <1>12, <2>1, <2>2, DecodableIs
  <2> QED
    BY <1>3, <2>4, <2>5, <2>6
<1> QED
  BY <1>4, <1>7, <1>8, <1>9, <1>10, <1>11, <1>12, TypeKinds DEF Composite
-----------------------------------------------------------------------------
(***************************************************************************)
(* Quotes make no difference: what is sent and what is meant are coerced   *)
(* to the same, or the schema takes neither.                               *)
(***************************************************************************)
Alike(x, y, t) == x = y \/ (~Takes(t, x) /\ ~Takes(t, y))

LEMMA SameScalar ==
    ASSUME NEW t \in GoTypes, t.g \in Basic, NEW v \in Values, Plain(v)
    PROVE  Alike(Coerced(v, t), Coerced(Meant(v, t), t), t)
PROOF
<1> DEFINE m == Meant(v, t)
<1> SUFFICES ASSUME v.t = "string", m # v PROVE Alike(Coerced(v, t), Coerced(m, t), t)
  BY MeantIs DEF Alike
<1>1. m \in Values
  BY MeantIs
<1>2. v.tok.form # "dec" /\ v.tok.n <= IntMax /\ RoundTo(v.tok.n) = v.tok.n
  BY PlainIs DEF Compound
<1>3. v.tok.n \in Nat /\ v.tok = Token(v.tok.form, v.tok.n)
  BY ValueKinds
<1>4. ASSUME m = Number(v.tok) PROVE m.t = "number" /\ m.tok = v.tok
  BY <1>4 DEF Number, Scalar
<1>5. CASE t.g = "int"
  <2>1. m = Number(v.tok) /\ v.tok.form \in {"int", "frac"}
    BY <1>2, <1>5, MeantIs
  <2>2. m.t = "number" /\ m.tok = v.tok
    BY <1>4, <2>1
  <2> HIDE DEF m
  <2>3. Coerced(m, t) = m
    BY <1>1, <2>2, CoercedSame DEF Basic
  <2>4. CASE v.tok.form = "int"
    BY <1>2, <1>5, <2>1, <2>3, <2>4, CoercedBasic DEF Alike
  <2>5. CASE v.tok.form = "frac"
    <3>1. Coerced(v, t) = v
      BY <1>5, <2>5, CoercedBasic
    <3>2. ~Takes(t, v)
      BY <1>5, TakesBasic
    <3>3. ~Takes(t, m)
      BY <1>1, <1>5, <2>2, <2>5, TakesBasic
    <3> QED
      BY <2>3, <3>1, <3>2, <3>3 DEF Alike
  <2> QED
    BY <2>1, <2>4, <2>5
<1>6. CASE t.g = "float"
  <2>1. m = Number(v.tok) /\ v.tok.form \in {"int", "frac"}
    BY <1>2, <1>6, MeantIs
  <2>2. m.t = "number"
    BY <1>4, <2>1
  <2>3. Float(v.tok) = v.tok
    BY <1>2, <1>3, <2>1 DEF Float
  <2> HIDE DEF m
  <2>4. Coerced(m, t) = m
    BY <1>1, <2>2, CoercedSame DEF Basic
  <2> QED
    BY <1>6, <2>1, <2>3, <2>4, CoercedBasic DEF Alike
<1>7. CASE t.g = "bool"
  <2>1. m \in {Scalar("boolean", Word("true")), Scalar("boolean", Word("false"))}
    BY <1>7, MeantIs
  <2>2. m.t = "boolean"
    BY <2>1 DEF Scalar
  <2>3. Coerced(v, t) = m
    BY <1>7, MeantIs, CoercedBasic
  <2> HIDE DEF m
  <2>4. Coerced(m, t) = m
    BY <1>1, <2>2, CoercedSame DEF Basic
  <2> QED
    BY <2>3, <2>4 DEF Alike
<1>8. CASE t.g = "string"
  BY <1>8, MeantIs
<1> QED
  BY <1>5, <1>6, <1>7, <1>8 DEF Basic

LEMMA SameOutcome ==
    \A t \in GoTypes : \A v \in Values :
        Plain(v) => Alike(Coerced(v, t), Coerced(Meant(v, t), t), t)
PROOF
<1> DEFINE Same(v, t) == Plain(v) => Alike(Coerced(v, t), Coerced(Meant(v, t), t), t)
           Bad == {t \in GoTypes : \E v \in Values : ~Same(v, t)}
<1>1. SUFFICES ASSUME Bad # {} PROVE FALSE
  OBVIOUS
<1>2. PICK t \in Bad : t.g \in Composite => Elem(t) \notin Bad
  BY <1>1, LeastType
<1>3. PICK v \in Values : ~Same(v, t)
  BY <1>2
<1> DEFINE m == Meant(v, t)
<1>4. t \in GoTypes /\ Plain(v) /\ m \in Values /\ m # v
  BY <1>2, <1>3, MeantIs DEF Alike
<1>5. t.g \in Composite => Elem(t) \in GoTypes /\ \A w \in Values : Same(w, Elem(t))
  BY <1>2, <1>4, TypeKinds
<1>6. ~Alike(Coerced(v, t), Coerced(m, t), t)
  BY <1>3
<1>7. Coerced(v, t) \in Values /\ Coerced(m, t) \in Values
  BY <1>4, CoercedIs
<1>8. CASE t.g = "ptr"
  <2>1. Alike(Coerced(v, Elem(t)), Coerced(Meant(v, Elem(t)), Elem(t)), Elem(t))
    BY <1>4, <1>5, <1>8 DEF Composite
  <2>2. m = Meant(v, Elem(t))
    BY <1>4, <1>8, MeantIs
  <2>3. Coerced(v, t) = Coerced(v, Elem(t)) /\ Coerced(m, t) = Coerced(m, Elem(t))
    BY <1>4, <1>8, CoercedPtr
  <2>4. \A x \in Values : Takes(t, x) <=> Takes(Elem(t), x)
    BY <1>4, <1>8, TakesPtr
  <2> QED
    BY <1>6, <1>7, <2>1, <2>2, <2>3, <2>4 DEF Alike
<1>9. CASE t.g \in Basic
  BY <1>4, <1>6, <1>9, SameScalar
<1>10. CASE t.g = "slice"
  <2> DEFINE c == [i \in DOMAIN v.elems |-> Coerced(v.elems[i], Elem(t))]
             d == [i \in DOMAIN v.elems |-> Coerced(Meant(v.elems[i], Elem(t)), Elem(t))]
  <2>1. v.t = "array" /\ m = Array([i \in DOMAIN v.elems |-> Meant(v.elems[i], Elem(t))])
    BY <1>4, <1>10, MeantIs
  <2>2. m.t = "array" /\ m.elems = [i \in DOMAIN v.elems |-> Meant(v.elems[i], Elem(t))]
    BY <2>1 DEF Array
  <2>3. Coerced(v, t) = Array(c)
    BY <1>4, <1>10, <2>1, CoercedIs
  <2>4. Coerced(m, t) = Array(d)
    <3>1. Coerced(m, t) = Array([i \in DOMAIN m.elems |-> Coerced(m.elems[i], Elem(t))])
      BY <1>4, <1>10, <2>2, CoercedIs
    <3> QED
      BY <2>2, <3>1
  <2>5. \A i \in DOMAIN v.elems : Alike(c[i], d[i], Elem(t))
    <3>1. SUFFICES ASSUME NEW i \in DOMAIN v.elems PROVE Alike(c[i], d[i], Elem(t))
      OBVIOUS
    <3>2. v.elems[i] \in Values /\ v.elems[i] \in Parts(v)
      BY ValueParts DEF Parts
    <3>3. Plain(v.elems[i])
      BY <1>4, <2>1, <3>2, PlainIs DEF Compound
    <3> QED
      BY <1>5, <1>10, <3>2, <3>3 DEF Composite
  <2> HIDE DEF c, d
  <2>6. PICK i \in DOMAIN v.elems : c[i] # d[i]
    <3>1. c # d
      BY <1>6, <2>3, <2>4 DEF Alike
    <3> QED
      BY <3>1 DEF c, d
  <2>7. ~Takes(Elem(t), c[i]) /\ ~Takes(Elem(t), d[i])
    BY <2>5, <2>6 DEF Alike
  <2>8. \A f : Array(f).t = "array" /\ Array(f).elems = f
    BY DEF Array
  <2>9. DOMAIN c = DOMAIN v.elems /\ DOMAIN d = DOMAIN v.elems
    BY DEF c, d
  <2>10. ASSUME NEW f, f \in {c, d} PROVE ~Takes(t, Array(f))
    <3>1. Array(f) \in Values
      BY <1>7, <2>3, <2>4, <2>10
    <3>2. i \in DOMAIN Array(f).elems /\ Array(f).elems[i] = f[i] /\ Array(f).t # "null"
      BY <2>6, <2>8, <2>9, <2>10
    <3>3. Takes(t, Array(f)) => Valid(ForType(Elem(t)), f[i])
      BY <1>4, <1>10, <3>1, <3>2, TakesSlice
    <3> QED
      BY <2>7, <2>10, <3>3 DEF Takes
  <2> QED
    BY <1>6, <2>3, <2>4, <2>10 DEF Alike
<1>11. CASE t.g = "struct"
  <2> DEFINE c == [k \in DOMAIN v.fields |->
                     IF k = "a" THEN Coerced(v.fields[k], Elem(t)) ELSE v.fields[k]]
             d == [k \in DOMAIN v.fields |->
                     IF k = "a" THEN Coerced(Meant(v.fields[k], Elem(t)), Elem(t)) ELSE v.fields[k]]
             e == [k \in DOMAIN v.fields |->
                     IF k = "a" THEN Meant(v.fields[k], Elem(t)) ELSE v.fields[k]]
  <2>1. v.t = "object" /\ m = Object(e)
    BY <1>4, <1>11, MeantIs
  <2>2. m.t = "object" /\ m.fields = e
    BY <2>1 DEF Object
  <2>3. Coerced(v, t) = Object(c)
    BY <1>4, <1>11, <2>1, CoercedIs
  <2>4. Coerced(m, t) = Object(d)
    <3>1. Coerced(m, t) = Object([k \in DOMAIN e |->
                            IF k = "a" THEN Coerced(e[k], Elem(t)) ELSE e[k]])
      <4>1. \A w \in Values : w.t = "object" => Coerced(w, t) = Object([k \in DOMAIN w.fields |->
                                  IF k = "a" THEN Coerced(w.fields[k], Elem(t)) ELSE w.fields[k]])
        BY <1>4, <1>11, CoercedIs
      <4> HIDE DEF e
      <4> QED
        BY <1>4, <2>2, <4>1
    <3>2. [k \in DOMAIN e |-> IF k = "a" THEN Coerced(e[k], Elem(t)) ELSE e[k]] = d
      OBVIOUS
    <3> QED
      BY <3>1, <3>2
  <2>5. "a" \in DOMAIN v.fields => Alike(c["a"], d["a"], Elem(t))
    <3>1. SUFFICES ASSUME "a" \in DOMAIN v.fields PROVE Alike(c["a"], d["a"], Elem(t))
      OBVIOUS
    <3>2. v.fields["a"] \in Values /\ v.fields["a"] \in Parts(v)
      BY <3>1, ValueParts DEF Parts
    <3>3. Plain(v.fields["a"])
      BY <1>4, <2>1, <3>2, PlainIs DEF Compound
    <3> QED
      BY <1>5, <1>11, <3>1, <3>2, <3>3 DEF Composite
  <2> HIDE DEF c, d, e
  <2>6. "a" \in DOMAIN v.fields /\ c["a"] # d["a"]
    <3>1. c # d
      BY <1>6, <2>3, <2>4 DEF Alike
    <3> QED
      BY <3>1 DEF c, d
  <2>7. ~Takes(Elem(t), c["a"]) /\ ~Takes(Elem(t), d["a"])
    BY <2>5, <2>6 DEF Alike
  <2>8. \A f : Object(f).t = "object" /\ Object(f).fields = f
    BY DEF Object
  <2>9. ASSUME NEW f, f \in {c, d} PROVE ~Takes(t, Object(f))
    <3>1. Object(f) \in Values
      BY <1>7, <2>3, <2>4, <2>9
    <3>2. Object(f).fields["a"] = f["a"] /\ Object(f).t # "null"
      BY <2>8
    <3>3. Takes(t, Object(f)) => Valid(ForType(Elem(t)), f["a"])
      BY <1>4, <1>11, <3>1, <3>2, TakesObject
    <3> QED
      BY <2>7, <2>9, <3>3 DEF Takes
  <2> QED
    BY <1>6, <2>3, <2>4, <2>9 DEF Alike
<1>12. CASE t.g \in {"any", "map"}
  BY <1>4, <1>12, MeantIs
<1> QED
  BY <1>4, <1>8, <1>9, <1>10, <1>11, <1>12, TypeKinds DEF Composite
-----------------------------------------------------------------------------
(***************************************************************************)
(* What was in quotes reaches the tool as it was meant.                    *)
(***************************************************************************)
LEMMA QuotedScalar ==
    ASSUME NEW t \in GoTypes, t.g \in Basic, NEW v \in Values, Quoted(v),
           Marshals(Coerced(v, t)), Takes(t, Coerced(v, t))
    PROVE  Decoded(Coerced(v, t), t) = Decoded(Meant(v, t), t)
PROOF
<1> DEFINE m == Meant(v, t)
           c == Coerced(v, t)
<1>1. m \in Values /\ c \in Values
  BY MeantIs, CoercedIs
<1>2. CASE v.t # "string"
  BY <1>2, MeantIs, CoercedSame
<1>3. CASE v.t = "string" /\ t.g \in {"int", "float"} /\ c = v
  BY <1>3, TakesBasic DEF Basic
<1>4. CASE v.t = "string" /\ t.g = "int" /\ c # v
  BY <1>4, MeantIs, CoercedBasic
<1>5. CASE v.t = "string" /\ t.g = "float" /\ c # v
  <2>1. CASE v.tok.form \in {"int", "dec", "frac"}
    <3>1. c = Number(Float(v.tok)) /\ m = Number(v.tok)
      BY <1>5, <2>1, MeantIs, CoercedBasic
    <3>2. \A x : Number(x).t = "number" /\ Number(x).tok = x
      BY DEF Number, Scalar
    <3>3. Float(Float(v.tok)) = Float(v.tok)
      <4>1. v.tok.n \in Nat
        BY ValueKinds
      <4>2. CASE v.tok.form = "frac"
        BY <4>2 DEF Float
      <4>3. CASE v.tok.form # "frac"
        <5>1. Float(v.tok) = Token("int", RoundTo(v.tok.n))
          BY <4>3 DEF Float
        <5>2. Float(Token("int", RoundTo(v.tok.n))) = Token("int", RoundTo(RoundTo(v.tok.n)))
          BY DEF Float, Token
        <5> QED
          BY <4>1, <5>1, <5>2, RoundToTwice
      <4> QED
        BY <4>2, <4>3
    <3> HIDE DEF c, m
    <3>4. c.t = "number" /\ c.tok = Float(v.tok) /\ m.t = "number" /\ m.tok = v.tok
      BY <3>1, <3>2
    <3>5. UnmarshalAny(c) = Number(Float(c.tok)) /\ UnmarshalAny(m) = Number(Float(m.tok))
      BY <1>1, <3>4, UnmarshalIs
    <3>6. Decoded(c, t) = UnmarshalAny(c) /\ Decoded(m, t) = UnmarshalAny(m)
      BY <1>1, <1>5, <3>4, DecodedIs
    <3>7. Decoded(c, t) = Decoded(m, t)
      BY <3>3, <3>4, <3>5, <3>6
    <3> QED
      BY <3>7 DEF c, m
  <2>2. CASE v.tok.form = "NaN"
    <3>1. c = Number(v.tok)
      BY <1>5, <2>2, CoercedBasic
    <3>2. c.t = "number" /\ c.tok.form = "NaN"
      BY <2>2, <3>1 DEF Number, Scalar
    <3> QED
      BY <1>1, <3>2, MarshalsIs DEF Compound
  <2>3. CASE v.tok.form \notin {"int", "dec", "frac", "NaN"}
    BY <1>5, <2>3, CoercedBasic
  <2> QED
    BY <2>1, <2>2, <2>3
<1>6. CASE v.t = "string" /\ t.g = "bool"
  BY <1>6, MeantIs, CoercedBasic
<1>7. CASE t.g = "string"
  BY <1>7, MeantIs, CoercedSame
<1> QED
  BY <1>2, <1>3, <1>4, <1>5, <1>6, <1>7 DEF Basic

LEMMA QuotedServed ==
    \A t \in GoTypes : \A v \in Values :
        Quoted(v) /\ Marshals(Coerced(v, t)) /\ Takes(t, Coerced(v, t)) =>
            Decoded(Coerced(v, t), t) = Decoded(Meant(v, t), t)
PROOF
<1> DEFINE Served(v, t) == Quoted(v) /\ Marshals(Coerced(v, t)) /\ Takes(t, Coerced(v, t)) =>
                             Decoded(Coerced(v, t), t) = Decoded(Meant(v, t), t)
           Bad == {t \in GoTypes : \E v \in Values : ~Served(v, t)}
<1>1. SUFFICES ASSUME Bad # {} PROVE FALSE
  OBVIOUS
<1>2. PICK t \in Bad : t.g \in Composite => Elem(t) \notin Bad
  BY <1>1, LeastType
<1>3. PICK v \in Values : ~Served(v, t)
  BY <1>2
<1> DEFINE c == Coerced(v, t)
           m == Meant(v, t)
<1>4. /\ t \in GoTypes /\ Quoted(v) /\ Marshals(c) /\ Takes(t, c)
      /\ Decoded(c, t) # Decoded(m, t)
  BY <1>2, <1>3
<1>5. t.g \in Composite => Elem(t) \in GoTypes /\ \A w \in Values : Served(w, Elem(t))
  BY <1>2, <1>4, TypeKinds
<1>6. c \in Values /\ m \in Values /\ c # m
  BY <1>4, CoercedIs, MeantIs
<1>7. CASE t.g = "ptr"
  <2>1. c = Coerced(v, Elem(t)) /\ m = Meant(v, Elem(t))
    BY <1>4, <1>7, CoercedPtr, MeantIs
  <2>2. Takes(Elem(t), c)
    BY <1>4, <1>6, <1>7, TakesPtr
  <2>3. Decoded(c, t) = Decoded(c, Elem(t)) /\ Decoded(m, t) = Decoded(m, Elem(t))
    BY <1>4, <1>6, <1>7, DecodedPtr
  <2>4. Served(v, Elem(t))
    BY <1>5, <1>7 DEF Composite
  <2> QED
    BY <1>4, <2>1, <2>2, <2>3, <2>4
<1>8. CASE t.g \in Basic
  BY <1>4, <1>8, QuotedScalar
<1>9. CASE t.g \in {"any", "map"}
  BY <1>4, <1>6, <1>9, CoercedSame, MeantIs
<1>10. CASE t.g = "slice"
  <2> DEFINE f == [i \in DOMAIN v.elems |-> Coerced(v.elems[i], Elem(t))]
             g == [i \in DOMAIN v.elems |-> Meant(v.elems[i], Elem(t))]
  <2>1. v.t = "array"
    <3>1. v.t # "array" => c = v
      BY <1>4, <1>10, CoercedSame
    <3>2. v.t # "array" => m = v
      BY <1>4, <1>10, MeantIs
    <3> QED
      BY <1>6, <3>1, <3>2
  <2>2. c = Array(f) /\ m = Array(g)
    BY <1>4, <1>10, <2>1, CoercedIs, MeantIs
  <2>3. c.t = "array" /\ c.elems = f /\ m.t = "array" /\ m.elems = g
    BY <2>2 DEF Array
  <2>4. DOMAIN f = DOMAIN v.elems /\ DOMAIN g = DOMAIN v.elems
    OBVIOUS
  <2>5. \A i \in DOMAIN v.elems : Decoded(f[i], Elem(t)) = Decoded(g[i], Elem(t))
    <3>1. SUFFICES ASSUME NEW i \in DOMAIN v.elems
                   PROVE  Decoded(f[i], Elem(t)) = Decoded(g[i], Elem(t))
      OBVIOUS
    <3>2. v.elems[i] \in Values /\ v.elems[i] \in Parts(v)
      BY ValueParts DEF Parts
    <3>3. Quoted(v.elems[i])
      BY <1>4, <2>1, <3>2, QuotedIs DEF Compound
    <3>4. f[i] = Coerced(v.elems[i], Elem(t)) /\ g[i] = Meant(v.elems[i], Elem(t))
      OBVIOUS
    <3> HIDE DEF c, f, g
    <3>5. f[i] \in Parts(c)
      BY <2>3, <2>4 DEF Parts
    <3>6. Marshals(f[i])
      BY <1>4, <1>6, <2>3, <3>5, MarshalsIs DEF Compound
    <3>7. Takes(Elem(t), f[i])
      BY <1>4, <1>6, <1>10, <2>3, <2>4, TakesSlice DEF Takes
    <3>8. Served(v.elems[i], Elem(t))
      BY <1>5, <1>10, <3>2 DEF Composite
    <3> QED
      BY <3>3, <3>4, <3>6, <3>7, <3>8
  <2> HIDE DEF c, m, f, g
  <2>6. /\ Decoded(c, t) = Array([i \in DOMAIN f |-> Decoded(f[i], Elem(t))])
        /\ Decoded(m, t) = Array([i \in DOMAIN g |-> Decoded(g[i], Elem(t))])
    <3>1. \A w \in Values : w.t = "array" =>
            Decoded(w, t) = Array([i \in DOMAIN w.elems |-> Decoded(w.elems[i], Elem(t))])
      BY <1>4, <1>10, DecodedIs
    <3> QED
      BY <1>6, <2>3, <3>1
  <2>7. [i \in DOMAIN f |-> Decoded(f[i], Elem(t))] = [i \in DOMAIN g |-> Decoded(g[i], Elem(t))]
    BY <2>4, <2>5
  <2> QED
    BY <1>4, <2>6, <2>7
<1>11. CASE t.g = "struct"
  <2> DEFINE f == [k \in DOMAIN v.fields |->
                     IF k = "a" THEN Coerced(v.fields[k], Elem(t)) ELSE v.fields[k]]
             g == [k \in DOMAIN v.fields |->
                     IF k = "a" THEN Meant(v.fields[k], Elem(t)) ELSE v.fields[k]]
  <2>1. v.t = "object"
    <3>1. v.t # "object" => c = v
      BY <1>4, <1>11, CoercedSame
    <3>2. v.t # "object" => m = v
      BY <1>4, <1>11, MeantIs
    <3> QED
      BY <1>6, <3>1, <3>2
  <2>2. c = Object(f) /\ m = Object(g)
    BY <1>4, <1>11, <2>1, CoercedIs, MeantIs
  <2>3. c.t = "object" /\ c.fields = f /\ m.t = "object" /\ m.fields = g
    BY <2>2 DEF Object
  <2>4. DOMAIN f = DOMAIN v.fields /\ DOMAIN g = DOMAIN v.fields
    OBVIOUS
  <2>5. ASSUME "a" \in DOMAIN v.fields PROVE Decoded(f["a"], Elem(t)) = Decoded(g["a"], Elem(t))
    <3>2. v.fields["a"] \in Values /\ v.fields["a"] \in Parts(v)
      BY <2>5, ValueParts DEF Parts
    <3>3. Quoted(v.fields["a"])
      BY <1>4, <2>1, <3>2, QuotedIs DEF Compound
    <3>4. f["a"] = Coerced(v.fields["a"], Elem(t)) /\ g["a"] = Meant(v.fields["a"], Elem(t))
      BY <2>5
    <3> HIDE DEF c, f, g
    <3>5. f["a"] \in Parts(c)
      BY <2>3, <2>4, <2>5 DEF Parts
    <3>6. Marshals(f["a"])
      BY <1>4, <1>6, <2>3, <3>5, MarshalsIs DEF Compound
    <3>7. Takes(Elem(t), f["a"])
      BY <1>4, <1>6, <1>11, <2>3, TakesObject DEF Takes
    <3>8. Served(v.fields["a"], Elem(t))
      BY <1>5, <1>11, <3>2 DEF Composite
    <3> QED
      BY <3>3, <3>4, <3>6, <3>7, <3>8
  <2> HIDE DEF c, m, f, g
  <2>6. /\ Decoded(c, t) = Object([k \in DOMAIN f \cap {"a"} |-> Decoded(f[k], Elem(t))])
        /\ Decoded(m, t) = Object([k \in DOMAIN g \cap {"a"} |-> Decoded(g[k], Elem(t))])
    <3>1. \A w \in Values : w.t = "object" =>
            Decoded(w, t) = Object([k \in DOMAIN w.fields \cap {"a"} |-> Decoded(w.fields[k], Elem(t))])
      BY <1>4, <1>11, DecodedIs
    <3> QED
      BY <1>6, <2>3, <3>1
  <2>7. [k \in DOMAIN f \cap {"a"} |-> Decoded(f[k], Elem(t))] =
          [k \in DOMAIN g \cap {"a"} |-> Decoded(g[k], Elem(t))]
    <3>1. \A k \in DOMAIN v.fields \cap {"a"} : Decoded(f[k], Elem(t)) = Decoded(g[k], Elem(t))
      BY <2>5
    <3> QED
      BY <2>4, <3>1
  <2> QED
    BY <1>4, <2>6, <2>7
<1> QED
  BY <1>4, <1>7, <1>8, <1>9, <1>10, <1>11, TypeKinds DEF Composite
-----------------------------------------------------------------------------
(***************************************************************************)
(* What the handler of AddTool does with an object.                        *)
(***************************************************************************)
LEMMA HandleIs ==
    ASSUME NEW t \in GoTypes, t.g = "struct", goType = t, typed = ForType(t),
           NEW a \in Values, a.t = "object"
    PROVE  LET m == Coerced(UnmarshalAny(a), t)
           IN /\ m \in Values
              /\ Handle(a) = IF Takes(t, m) /\ Marshals(m) /\ Decodable(m, t)
                             THEN RunWith(Decoded(m, t)) ELSE NotRun
PROOF
<1> DEFINE u == UnmarshalAny(a)
           m == Coerced(u, t)
<1>1. u \in Values /\ m \in Values
  BY UnmarshalIs, CoercedIs
<1>2. u.t = "object"
  <2>1. u = Object([k \in DOMAIN a.fields |-> UnmarshalAny(a.fields[k])])
    BY UnmarshalIs
  <2> QED
    BY <2>1, ObjectsAre
<1> HIDE DEF u
<1>3. m = CoerceStringTypes(u, typed)
  <2>1. m = CoerceValueStep(u, typed)
    BY <1>1, ValueOpsAssumption DEF Coerced
  <2> QED
    BY <1>2, <2>1 DEF CoerceValueStep
<1>4. m.t # "null"
  BY <1>3 DEF CoerceStringTypes, Object
<1>5. Takes(t, m) <=> Valid(typed, m)
  BY <1>4 DEF Takes
<1>6. Handle(a) = IF Valid(typed, m) /\ Marshals(m) /\ Decodable(m, goType)
                  THEN RunWith(Decoded(m, goType)) ELSE NotRun
  BY <1>3 DEF Handle, u
<1> QED
  BY <1>1, <1>5, <1>6 DEF u

\* A model that sends "5" for 5 and one that sends 5 are served alike
\* (lenient.go:17), whatever the type of In and whatever is sent.
THEOREM MeantIsServedHolds == Spec => []MeantIsServed
PROOF
<1>1. Held => MeantIsServed
  <2> DEFINE meant == Meant(args, goType)
             given == Coerced(args, goType)
  <2>1. SUFFICES ASSUME Held, pc = "called", kind = "lenient"
                 PROVE  /\ Plain(args) => result = Handle(meant)
                        /\ Plain(args) /\ Valid(listed, meant) => result = RunWith(meant)
                        /\ Quoted(args) /\ result.ok => result = RunWith(Decoded(meant, goType))
    BY DEF MeantIsServed
  <2>2. goType \in GoTypes /\ goType.g = "struct" /\ typed = ForType(goType) /\ typed \in Docs
    BY <2>1, StructTypes DEF Held, Struct, TypeOf
  <2>3. /\ args \in Values /\ args.t = "object" /\ Marshals(args) /\ result = Handle(args)
    BY <2>1, ArgsAssumption, ValueOpsAssumption DEF Held
  <2>4. meant \in Values /\ meant.t = "object"
    <3>1. /\ meant \in Values
          /\ meant = Object([k \in DOMAIN args.fields |->
                       IF k = "a" THEN Meant(args.fields[k], Elem(goType)) ELSE args.fields[k]])
      BY <2>2, <2>3, MeantIs
    <3> QED
      BY <3>1, ObjectsAre
  <2>5. Plain(args) \/ Quoted(args) => UnmarshalAny(args) = args
    BY <2>3, UnmarshalKeeps
  <2>6. Plain(args) => Plain(meant) /\ Marshals(meant) /\ UnmarshalAny(meant) = meant
    BY <2>2, <2>3, <2>4, MeantKeeps, UnmarshalKeeps
  <2>7. Valid(listed, meant) => Takes(goType, meant)
    <3>1. listed = PortableSchema(PortableSchema(typed))
      BY <2>1 DEF Held
    <3>2. Valid(listed, meant) <=> Valid(typed, meant)
      BY <2>2, <2>4, <3>1, RewritingIsPortable, ForTypeLosesNothing
    <3> QED
      BY <2>2, <3>2 DEF Takes
  <2> HIDE DEF meant
  <2>8. ASSUME Plain(args) \/ Quoted(args)
        PROVE  Handle(args) = IF Takes(goType, given) /\ Marshals(given) /\ Decodable(given, goType)
                              THEN RunWith(Decoded(given, goType)) ELSE NotRun
    BY <2>2, <2>3, <2>5, <2>8, HandleIs
  <2>9. ASSUME Plain(args) PROVE result = Handle(meant)
    <3> DEFINE coerced == Coerced(meant, goType)
    <3>1. Handle(meant) = IF Takes(goType, coerced) /\ Marshals(coerced) /\ Decodable(coerced, goType)
                          THEN RunWith(Decoded(coerced, goType)) ELSE NotRun
      BY <2>2, <2>4, <2>6, <2>9, HandleIs
    <3>2. given = coerced \/ (~Takes(goType, given) /\ ~Takes(goType, coerced))
      BY <2>2, <2>3, <2>9, SameOutcome DEF Alike, meant
    <3> HIDE DEF coerced, given
    <3> QED
      BY <2>3, <2>8, <2>9, <3>1, <3>2
  <2>10. ASSUME Plain(args), Valid(listed, meant) PROVE result = RunWith(meant)
    <3>1. Takes(goType, meant)
      BY <2>7, <2>10
    <3>2. /\ Coerced(meant, goType) = meant /\ Decodable(meant, goType)
          /\ Decoded(meant, goType) = meant
      BY <2>2, <2>4, <2>6, <2>10, <3>1, TakenAsItIs
    <3>3. Handle(meant) = RunWith(meant)
      BY <2>2, <2>4, <2>6, <2>10, <3>1, <3>2, HandleIs
    <3> QED
      BY <2>9, <2>10, <3>3
  <2>11. ASSUME Quoted(args), result.ok PROVE result = RunWith(Decoded(meant, goType))
    <3>1. ~NotRun.ok
      BY DEF NotRun
    <3> HIDE DEF given
    <3>2. /\ Takes(goType, given) /\ Marshals(given)
          /\ result = RunWith(Decoded(given, goType))
      BY <2>3, <2>8, <2>11, <3>1
    <3>3. Decoded(given, goType) = Decoded(meant, goType)
      BY <2>2, <2>3, <2>11, <3>2, QuotedServed DEF given, meant
    <3> QED
      BY <3>2, <3>3
  <2> QED
    BY <2>9, <2>10, <2>11 DEF meant
<1> QED
  BY <1>1, HeldInvariant, PTL
=============================================================================
