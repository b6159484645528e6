--------------------------- MODULE JsonSchemaSpec ---------------------------
(***************************************************************************)
(* What spec.md says a schema means, written directly over JSON values     *)
(* and independently of the token walk: the reference the compiled        *)
(* validator is checked against.  It covers the keywords JsonSchemaCompile *)
(* models; the others are annotations here, as in the code.                *)
(***************************************************************************)
EXTENDS JsonLib, StackGuard

IsSchemaObj(s) == s.vt = "object"
Keys(o)   == {o.m[j][1] : j \in DOMAIN o.m}
Has(o, k) == IsSchemaObj(o) /\ k \in Keys(o)
Get(o, k) == o.m[CHOOSE j \in DOMAIN o.m : o.m[j][1] = k][2]
ArgOr(o, k, dflt) == IF Has(o, k) THEN Get(o, k) ELSE dflt

(* The kinds a "type" name stands for (§3: a bitset over value kinds).    *)
SpecTypeKinds(t) ==
  CASE t.vt = "string" /\ t.v = "integer" -> {"number"}
    [] t.vt = "string" /\ t.v = "boolean" -> {"true", "false"}
    [] t.vt = "string" -> {t.v} \cap ValueKinds
    [] OTHER -> {}
TypeArg(a) ==
  IF a.vt = "array" THEN UNION {SpecTypeKinds(a.e[j]) : j \in DOMAIN a.e}
  ELSE SpecTypeKinds(a)

(* The sub-schemas a schema object owns, for the recursive checks.        *)
SubSchemas(s) ==
  LET one == {Get(s, k) : k \in Keys(s) \cap {"additionalItems", "unevaluatedItems",
                 "additionalProperties", "unevaluatedProperties", "contains", "not",
                 "if", "then", "else"}}
      arr == UNION {{Get(s, k).e[j] : j \in DOMAIN Get(s, k).e} :
                      k \in {k2 \in Keys(s) \cap {"prefixItems", "allOf", "anyOf",
                                                  "oneOf", "items"} :
                               Get(s, k2).vt = "array"}}
      obj == UNION {{Get(s, k).m[j][2] : j \in DOMAIN Get(s, k).m} :
                      k \in {k2 \in Keys(s) \cap {"properties", "patternProperties"} :
                               Get(s, k2).vt = "object"}}
      itm == IF Has(s, "items") /\ Get(s, "items").vt # "array"
             THEN {Get(s, "items")} ELSE {}
      pn  == IF Has(s, "propertyNames") THEN {Get(s, "propertyNames")} ELSE {}
  IN one \cup arr \cup obj \cup itm \cup pn

(* §4.2, §7: a keyword whose argument has the wrong kind, an "if" with no *)
(* branch, or a branch without "if", is a compile error.                  *)
ArgumentKindOk(k, a) ==
  CASE k = "type" -> (a.vt = "string" /\ SpecTypeKinds(a) # {}) \/ a.vt = "array"
    [] k \in {"maximum", "minimum", "minContains", "maxContains"} -> a.vt = "number"
    [] k \in {"required", "prefixItems", "allOf", "anyOf", "oneOf"} -> a.vt = "array"
    [] k \in {"properties", "patternProperties", "contains"} -> a.vt = "object"
    [] k = "items" -> a.vt \in {"object", "array", "true", "false"}
    [] k \in {"additionalItems", "unevaluatedItems", "additionalProperties",
              "unevaluatedProperties", "not", "if", "then", "else"} ->
         a.vt \in {"object", "true", "false"}
    [] k \in {"title", "description", "$comment", "$schema", "pattern"} -> a.vt = "string"
    [] k \in {"exclusiveMaximum", "exclusiveMinimum", "multipleOf", "maxLength",
              "minLength", "maxItems", "minItems", "maxProperties",
              "minProperties"} -> a.vt = "number"
    [] k = "enum" -> a.vt = "array"
    [] k = "uniqueItems" -> a.vt \in {"true", "false"}
    [] k = "propertyNames" -> a.vt = "object"
    [] k = "dependentRequired" ->
         (* §7: a malformed dependentRequired is a compile error.          *)
         a.vt = "object" /\ \A j \in DOMAIN a.m :
            a.m[j][2].vt = "array" /\ \A e \in Range(a.m[j][2].e) : e.vt = "string"
    [] OTHER -> TRUE

RECURSIVE SpecMalformed(_)
SpecMalformed(s) ==
  IsSchemaObj(s) /\
  \/ \E k \in Keys(s) : ~ArgumentKindOk(k, Get(s, k))
  \/ Has(s, "if") /\ ~Has(s, "then") /\ ~Has(s, "else")
  \/ ~Has(s, "if") /\ (Has(s, "then") \/ Has(s, "else"))
  \/ \E sub \in SubSchemas(s) : SpecMalformed(sub)

(* §5: the depth of a schema: the schema itself, and below it the deepest *)
(* of its sub-schemas, true and false included.                           *)
RECURSIVE SchemaDepth(_)
SchemaDepth(s) ==
  IF ~IsSchemaObj(s) THEN 1
  ELSE 1 + Max({SchemaDepth(sub) : sub \in SubSchemas(s)} \cup {0})

(* §5, §7: a malformed schema, or one deeper than the recursion guard     *)
(* allows (stack-overrun), fails to compile.                              *)
SpecSchemaError(s) == SpecMalformed(s) \/ SchemaDepth(s) > StackLimit

Members(i) == {i.m[j] : j \in DOMAIN i.m}

(* §3: the value a canonical form stands for: keys unordered, arrays in   *)
(* order, numbers by value, each with its kind.                           *)
RECURSIVE SpecCanon(_)
SpecCanon(v) ==
  CASE v.vt = "object" -> <<"object", {<<v.m[j][1], SpecCanon(v.m[j][2])>> : j \in DOMAIN v.m}>>
    [] v.vt = "array" -> <<"array", [j \in DOMAIN v.e |-> SpecCanon(v.e[j])]>>
    [] v.vt = "number" -> <<"number", v.n>>
    [] OTHER -> <<v.vt, v.v>>
MemberKeys(i) == {i.m[j][1] : j \in DOMAIN i.m}

RECURSIVE SpecValid(_, _, _), Evaluated(_, _, _)

(* The member names an object schema's applicators evaluate (§4.5, §4.6): *)
(* named, matched by a pattern, caught by additionalProperties, and those *)
(* of the combinator sub-schemas that pass.                               *)
Evaluated(s, i, re) ==
  IF ~IsSchemaObj(s) \/ i.vt # "object" THEN {}
  ELSE LET props == ArgOr(s, "properties", JObj(<<>>))
           pats  == ArgOr(s, "patternProperties", JObj(<<>>))
           own   == {k \in MemberKeys(i) :
                       \/ k \in Keys(props)
                       \/ \E p \in Keys(pats) : k \in re[p]
                       \/ Has(s, "additionalProperties")
                       \/ Has(s, "unevaluatedProperties")}
           subs  == UNION {{Get(s, c).e[j] : j \in DOMAIN Get(s, c).e} :
                             c \in Keys(s) \cap {"allOf", "anyOf", "oneOf"}}
       IN own \cup UNION {Evaluated(sub, i, re) : sub \in {x \in subs : SpecValid(x, i, re)}}

(* One keyword of a schema object on instance i.                          *)
KeywordHolds(s, k, i, re) ==
  LET a == Get(s, k) IN
  CASE k = "type" -> i.vt \in TypeArg(a)
    [] k = "maximum" -> i.vt # "number" \/ i.n <= a.n
    [] k = "minimum" -> i.vt # "number" \/ i.n >= a.n
    [] k = "exclusiveMaximum" -> i.vt # "number" \/ i.n < a.n
    [] k = "exclusiveMinimum" -> i.vt # "number" \/ i.n > a.n
    [] k = "multipleOf" -> i.vt # "number" \/ i.n % a.n = 0
    [] k = "maxLength" -> i.vt # "string" \/ Len(i.v) <= a.n
    [] k = "minLength" -> i.vt # "string" \/ Len(i.v) >= a.n
    [] k = "pattern" -> i.vt # "string" \/ i.v \in re[a.v]
    [] k = "const" -> SpecCanon(i) = SpecCanon(a)
    [] k = "enum" -> \E e \in Range(a.e) : SpecCanon(i) = SpecCanon(e)
    [] k = "maxItems" -> i.vt # "array" \/ Len(i.e) <= a.n
    [] k = "minItems" -> i.vt # "array" \/ Len(i.e) >= a.n
    [] k = "uniqueItems" ->
         (* §4.4: a duplicate element fails, booleans and null included.   *)
         a.vt = "false" \/ i.vt # "array" \/
         \A j1, j2 \in DOMAIN i.e : j1 # j2 => SpecCanon(i.e[j1]) # SpecCanon(i.e[j2])
    [] k = "maxProperties" -> i.vt # "object" \/ Cardinality(MemberKeys(i)) <= a.n
    [] k = "minProperties" -> i.vt # "object" \/ Cardinality(MemberKeys(i)) >= a.n
    [] k = "propertyNames" ->
         (* §4.5: the sub-schema applies to each key as a string value.    *)
         i.vt # "object" \/ \A key \in MemberKeys(i) : SpecValid(a, JStr(key), re)
    [] k = "dependentRequired" ->
         i.vt # "object" \/ \A j \in DOMAIN a.m :
            a.m[j][1] \in MemberKeys(i) => {e.v : e \in Range(a.m[j][2].e)} \subseteq MemberKeys(i)
    [] k = "required" -> i.vt # "object" \/ {a.e[j].v : j \in DOMAIN a.e} \subseteq MemberKeys(i)
    [] k = "properties" ->
         i.vt # "object" \/ \A mv \in Members(i) :
            mv[1] \in Keys(a) => SpecValid(Get(a, mv[1]), mv[2], re)
    [] k = "patternProperties" ->
         i.vt # "object" \/ \A mv \in Members(i) : \A p \in Keys(a) :
            mv[1] \in re[p] => SpecValid(Get(a, p), mv[2], re)
    [] k = "additionalProperties" ->
         i.vt # "object" \/ \A mv \in Members(i) :
            (/\ ~(mv[1] \in Keys(ArgOr(s, "properties", JObj(<<>>))))
             /\ \A p \in Keys(ArgOr(s, "patternProperties", JObj(<<>>))) : mv[1] \notin re[p])
            => SpecValid(a, mv[2], re)
    [] k = "unevaluatedProperties" ->
         LET ev == Evaluated([s EXCEPT !.m = SelectSeq(@, LAMBDA m : m[1] # k)], i, re)
         IN i.vt # "object" \/ \A mv \in Members(i) : mv[1] \notin ev => SpecValid(a, mv[2], re)
    [] k \in {"prefixItems", "items", "additionalItems", "unevaluatedItems"} ->
         (* §4.4: position j goes to prefixItems (or array-form items),    *)
         (* then to the first of items, additionalItems, unevaluatedItems. *)
         LET tuple == IF Has(s, "prefixItems") THEN Get(s, "prefixItems").e
                      ELSE IF Has(s, "items") /\ Get(s, "items").vt = "array"
                           THEN Get(s, "items").e ELSE <<>>
             rest  == CASE Has(s, "items") /\ Get(s, "items").vt # "array" -> "items"
                        [] Has(s, "additionalItems") -> "additionalItems"
                        [] Has(s, "unevaluatedItems") -> "unevaluatedItems"
                        [] OTHER -> "none"
         IN i.vt # "array" \/ \A j \in DOMAIN i.e :
              IF j <= Len(tuple) THEN SpecValid(tuple[j], i.e[j], re)
              ELSE rest = "none" \/ SpecValid(Get(s, rest), i.e[j], re)
    [] k = "contains" ->
         LET cnt == Cardinality({j \in DOMAIN i.e : SpecValid(a, i.e[j], re)})
         IN i.vt # "array" \/
            (cnt >= ArgOr(s, "minContains", JNum(1)).n /\
             (Has(s, "maxContains") => cnt <= Get(s, "maxContains").n))
    [] k = "allOf" -> \A j \in DOMAIN a.e : SpecValid(a.e[j], i, re)
    [] k = "anyOf" -> \E j \in DOMAIN a.e : SpecValid(a.e[j], i, re)
    [] k = "oneOf" -> Cardinality({j \in DOMAIN a.e : SpecValid(a.e[j], i, re)}) = 1
    [] k = "not" -> ~SpecValid(a, i, re)
    [] k = "if" -> IF SpecValid(a, i, re) THEN ~Has(s, "then") \/ SpecValid(Get(s, "then"), i, re)
                   ELSE ~Has(s, "else") \/ SpecValid(Get(s, "else"), i, re)
    [] OTHER -> TRUE

(* §3: a Keyword List is the conjunction of its keywords; true and false  *)
(* are the schemas that accept and reject everything.                     *)
SpecValid(s, i, re) ==
  CASE s.vt = "true" -> TRUE
    [] s.vt = "false" -> FALSE
    [] s.vt = "object" -> \A k \in Keys(s) : KeywordHolds(s, k, i, re)
    [] OTHER -> TRUE

(* The outcome §6 asks for: a compile error, or the verdict.              *)
SpecOutcome(s, i, re) ==
  IF SpecSchemaError(s) THEN "error"
  ELSE IF SpecValid(s, i, re) THEN "valid" ELSE "invalid"

=============================================================================
