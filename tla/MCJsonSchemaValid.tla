------------------------- MODULE MCJsonSchemaValid -------------------------
(***************************************************************************)
(* Model values for JsonSchemaValid: schemas from spec.md section 8 and    *)
(* around it, and small instances of every kind that reach each branch of  *)
(* the keywords they use: scalars of each kind, objects whose members are  *)
(* named, pattern-matched or neither, in both orders and nested, arrays    *)
(* shorter than, as long as and longer than the tuples.                   *)
(***************************************************************************)
EXTENDS JsonSchemaValid

Obj1(k, v) == JObj(<<<<k, v>>>>)
TypeS(t) == Obj1("type", JStr(t))

(* spec.md section 8 scenarios 1, 3, 4                                     *)
Scenario1 == JObj(<<<<"type", JStr("integer")>>, <<"minimum", JNum(0)>>,
                   <<"maximum", JNum(10)>>>>)
Scenario3 == JObj(<<<<"prefixItems", JArr(<<TypeS("string"), TypeS("number")>>)>>,
                   <<"items", JFalse>>>>)
Scenario4 == JObj(<<<<"properties", Obj1("a", TypeS("string"))>>,
                   <<"patternProperties", Obj1("^x", TypeS("number"))>>,
                   <<"additionalProperties", JFalse>>>>)
(* spec.md section 8 scenario 5                                           *)
Scenario5 == JObj(<<<<"allOf", JArr(<<TypeS("object")>>)>>,
                   <<"unevaluatedProperties", JFalse>>,
                   <<"properties", Obj1("a", JObj(<<>>))>>>>)
(* spec.md section 8 scenario 6, without the const (not yet modelled)      *)
Scenario6 == JObj(<<<<"if", JObj(<<<<"required", JArr(<<JStr("k")>>)>>>>)>>,
                   <<"then", Obj1("required", JArr(<<JStr("x")>>))>>,
                   <<"else", Obj1("required", JArr(<<JStr("y")>>))>>>>)
AnyOfSchema == Obj1("anyOf", JArr(<<TypeS("string"), TypeS("number")>>))
OneOfSchema == Obj1("oneOf", JArr(<<TypeS("number"), Obj1("maximum", JNum(5))>>))
NotSchema == Obj1("not", TypeS("string"))
(* Malformed schemas: each is a compile error (spec.md section 6).        *)
BadType == TypeS("foo")
BadMinimum == Obj1("minimum", JStr("a"))
BadProperties == Obj1("properties", JArr(<<>>))
ThenWithoutIf == Obj1("then", TypeS("string"))
(* additionalProperties: true next to properties.                        *)
AdditionalTrue == JObj(<<<<"properties", Obj1("a", TypeS("string"))>>,
                        <<"additionalProperties", JTrue>>>>)
(* contains: some element is a number.                                  *)
ContainsNumber == Obj1("contains", TypeS("number"))
(* The chain of Scenario 4 written in reverse key order: the priority     *)
(* sort must rebuild it.                                                  *)
ReversedChain == JObj(<<<<"additionalProperties", TypeS("number")>>,
                        <<"patternProperties", Obj1("^x", TypeS("number"))>>,
                        <<"properties", Obj1("a", TypeS("string"))>>>>)
(* patternProperties heading the chain, then additionalProperties.       *)
PatternThenAdditional == JObj(<<<<"patternProperties", Obj1("^x", TypeS("number"))>>,
                               <<"additionalProperties", JFalse>>>>)
RequiredA == Obj1("required", JArr(<<JStr("a")>>))
(* if with an else and no then.                                          *)
IfElse == JObj(<<<<"if", TypeS("string")>>, <<"else", TypeS("number")>>>>)

(* prefixItems bumps the index of "items"; array-form items reads it.    *)
StaleIndexSchema == JObj(<<<<"prefixItems", JArr(<<JObj(<<>>)>>)>>,
                           <<"items", JArr(<<JObj(<<>>), TypeS("string")>>)>>>>)
(* A sub-schema whose first keyword has no alternate and whose second     *)
(* heads a fall-back chain.                                               *)
ClobberSchema == Obj1("allOf", JArr(<<JObj(<<<<"type", JStr("object")>>,
                          <<"properties", Obj1("a", JObj(<<>>))>>,
                          <<"additionalProperties", JFalse>>>>)>>))
(* Schemas whose validation writes node fields without the writes being  *)
(* read back: chains under a combinator and under not, prefixItems with   *)
(* items as a schema.                                                     *)
ChainUnderAllOf == Obj1("allOf", JArr(<<JObj(<<<<"properties", Obj1("a", TypeS("string"))>>,
                          <<"additionalProperties", JFalse>>>>), TypeS("object")>>))
ChainUnderNot == Obj1("not", JObj(<<<<"properties", Obj1("a", TypeS("string"))>>,
                          <<"patternProperties", Obj1("^x", TypeS("number"))>>,
                          <<"additionalProperties", JFalse>>>>))
PrefixThenItems == JObj(<<<<"prefixItems", JArr(<<TypeS("string")>>)>>,
                          <<"items", TypeS("number")>>>>)

(* The keywords that check one scalar, or count, or compare canonical     *)
(* forms, each next to a bound the instances reach from both sides.       *)
ConstObject == Obj1("const", Obj1("a", JNum(1)))
EnumMixed == Obj1("enum", JArr(<<JNum(1), JStr("a"), JNull, JArr(<<JStr("a")>>)>>))
ExclusiveBounds == JObj(<<<<"exclusiveMinimum", JNum(1)>>, <<"exclusiveMaximum", JNum(11)>>>>)
MultipleOf2 == Obj1("multipleOf", JNum(2))
StringFacets == JObj(<<<<"minLength", JNum(2)>>, <<"maxLength", JNum(2)>>,
                       <<"pattern", JStr("^a")>>>>)
ArrayFacets == JObj(<<<<"minItems", JNum(1)>>, <<"maxItems", JNum(2)>>,
                      <<"uniqueItems", JTrue>>>>)
PropertyCount == JObj(<<<<"minProperties", JNum(1)>>, <<"maxProperties", JNum(1)>>>>)
DependentX1 == Obj1("dependentRequired", Obj1("x1", JArr(<<JStr("a")>>)))
(* maxContains / minContains of -1: the (uint) conversion decides.        *)
ContainsMaxNegative == JObj(<<<<"contains", TypeS("array")>>, <<"maxContains", JNum(-1)>>>>)
ContainsMinNegative == JObj(<<<<"contains", TypeS("array")>>, <<"minContains", JNum(-1)>>,
                              <<"maxContains", JNum(5)>>>>)
BadEnum == Obj1("enum", JNum(1))
(* items in array form whose element is malformed: its handle_keyword     *)
(* result is ignored, the my_error it raised is not.                      *)
BadItemsElement == Obj1("items", JArr(<<Obj1("minimum", JStr("a"))>>))
BadDependent == Obj1("dependentRequired", Obj1("a", JStr("x")))
(* Three levels of schema, one more than the scenarios' StackLimit: one  *)
(* through a logic element compiled on a fresh cursor, one through a      *)
(* property's sub-schema.                                                 *)
DeepAllOf == Obj1("allOf", JArr(<<Obj1("not", JTrue)>>))
DeepProperties == Obj1("properties", Obj1("a", Obj1("items", TypeS("number"))))
(* propertyNames: every key at most one byte long.                        *)
PropertyNamesShort == Obj1("propertyNames", Obj1("maxLength", JNum(1)))

MCPatternMatches == [p \in {"^x", "^a"} |-> IF p = "^x" THEN {"x1"} ELSE {"a", "ab", "abc"}]

Scalars == {JStr("a"), JStr("ab"), JStr("bc"), JStr("abc"), JNum(1), JNum(2), JNum(11),
            JTrue, JNull}
MCInstances ==
  Scalars \cup
  {JObj(<<>>), Obj1("a", JStr("a")), Obj1("a", JNum(1)), Obj1("x1", JNum(1)),
   Obj1("x1", JStr("a")), Obj1("z", JNum(1)), Obj1("a", Obj1("z", JNum(1))),
   Obj1("z", Obj1("a", JNum(1))),
   JObj(<<<<"a", JStr("a")>>, <<"x1", JNum(1)>>>>),
   JObj(<<<<"x1", JNum(1)>>, <<"a", JStr("a")>>>>),
   JObj(<<<<"a", JStr("a")>>, <<"z", JNum(1)>>>>),
   JObj(<<<<"x1", JNum(1)>>, <<"z", JNum(1)>>>>),
   JArr(<<>>), JArr(<<JStr("a")>>), JArr(<<JStr("a"), JNum(1)>>),
   JArr(<<JStr("a"), JNum(1), JTrue>>), JArr(<<JNum(1), JStr("a")>>),
   JArr(<<JArr(<<JStr("a")>>)>>), JArr(<<JNum(1), JNum(1)>>),
   JArr(<<JArr(<<JStr("a")>>), JArr(<<JStr("a")>>)>>)}

Scenario5Schemas == {Scenario5}
Scenario6Schemas == {Scenario6}
StaleIndexSchemas == {StaleIndexSchema}
ClobberSchemas == {ClobberSchema}
HistorySchemas == {ChainUnderAllOf, ChainUnderNot, PrefixThenItems, Scenario3,
                   Scenario4}
AdditionalTrueSchemas == {AdditionalTrue}
ContainsSchemas == {ContainsNumber}
IfElseSchemas == {IfElse}
PatternSchemas == {PatternThenAdditional}
RequiredSchemas == {RequiredA}
ScenarioSchemas == {Scenario1, Scenario3, Scenario4, AnyOfSchema, OneOfSchema,
                    NotSchema, ReversedChain, BadType, BadMinimum, BadProperties, ThenWithoutIf,
                    ConstObject, EnumMixed, ExclusiveBounds, MultipleOf2, StringFacets,
                    ArrayFacets, PropertyCount, DependentX1, ContainsMaxNegative,
                    ContainsMinNegative, BadEnum, BadDependent, BadItemsElement,
                    DeepAllOf, DeepProperties}
PropertyNamesSchemas == {PropertyNamesShort}
=============================================================================
