------------------------- MODULE JsonSchemaValidate -------------------------
(***************************************************************************)
(* The validator engine of sql/json_schema.cc: the validate and            *)
(* validate_as_alternate overrides of every keyword class compiled by      *)
(* JsonSchemaCompile, fall_back_on_alternate_schema and                    *)
(* validate_single_index.                                                  *)
(*                                                                         *)
(* A compiled schema is not read-only while it validates: the C++ methods  *)
(* write the alternate_schema and index fields of its nodes, and the       *)
(* writes stay for the next validation.  So every operator threads a      *)
(* mutable store st = [alt |-> alternate_schema by node,                   *)
(*                     idx |-> index by node,                              *)
(*                     crash |-> a NULL pointer was called through]        *)
(* and returns [f |-> the bool the method returns (TRUE = failed),        *)
(*              st |-> the store afterwards].                              *)
(* X is the read-only context: X.n the node table, X.d the instance token *)
(* stream, X.re the regular-expression oracle (pattern -> matching keys). *)
(***************************************************************************)
EXTENDS JsonSchemaCompile

R(f, st) == [f |-> f, st |-> st]

(* The store the compiler leaves: alternates as wired, every index 0.     *)
InitStore(nodes) == [alt |-> [i \in DOMAIN nodes |-> nodes[i].alt0],
                     idx |-> [i \in DOMAIN nodes |-> 0],
                     crash |-> FALSE]

(* Json_schema_logic shadows unevaluated_items / unevaluated_properties   *)
(* with fields only its set_dependents writes, and the compiler never     *)
(* calls it: validate always reads NULL from them.                        *)
LogicUnevaluated == NoNode

(* my_hash_search on a properties hash (first member with that name).     *)
PropLookup(props, k) ==
  LET is == {i \in DOMAIN props : props[i][1] = k}
  IN IF is = {} THEN [found |-> FALSE, list |-> <<>>]
     ELSE [found |-> TRUE, list |-> props[CHOOSE i \in is : \A j \in is : i <= j][2]]

(* Regex::exec on the key; a NULL key is matched as the empty string.     *)
Matches(X, pattern, k) == (IF k = "none" THEN "" ELSE k) \in X.re[pattern]

(* Mutant: oneOf counted like anyOf.                                      *)
CountFailsOneOfAsAnyOf(cls, count, total) ==
  CASE cls = "allOf" -> count # total
    [] cls \in {"anyOf", "oneOf"} -> count = 0
    [] cls = "not"   -> count # 0

(* validate_count of each combinator: TRUE means the combinator fails.    *)
CountFails(cls, count, total) ==
  CASE cls = "allOf" -> count # total
    [] cls = "anyOf" -> count = 0
    [] cls = "oneOf" -> count # 1
    [] cls = "not"   -> count # 0

(* Json_schema_logic / Json_schema_not::validate, first statement.        *)
LogicEnter(id, c, st) ==
  IF c.vt \in {"array", "object"} THEN [st EXCEPT !.alt[id] = LogicUnevaluated]
  ELSE st

Bump(st, a) == IF a = NoNode THEN st ELSE [st EXCEPT !.idx[a] = @ + 1]

(* Every key scanned below level: the HASH Json_schema_required fills.    *)
RECURSIVE KeysBelow(_, _, _)
KeysBelow(d, c, level) ==
  LET x == ScanNext(d, c) IN
  IF x.err \/ x.stack < level THEN {}
  ELSE (IF x.state = "KEY" THEN {x.key} ELSE {}) \cup KeysBelow(d, x, level)

(* Json_schema_type::validate: the bit of the value's kind is not set.    *)
TypeValidate(n, c) == c.vt \notin n.types

(* Json_schema_maximum / minimum::validate: only a number is checked.     *)
MaximumValidate(n, c) == c.vt = "number" /\ c.n > n.num
MinimumValidate(n, c) == c.vt = "number" /\ c.n < n.num

(* Json_schema_required::validate: every name must be among the keys      *)
(* scanned below the object, nested ones included.                        *)
RequiredValidate(X, n, c) ==
  c.vt = "object" /\ ~(Range(n.names) \subseteq KeysBelow(X.d, c, c.stack))

(* The cursor after a sub-value was consumed: skip it if composite.       *)
SkipValue(d, v) == IF ValueScalar(v) THEN v ELSE SkipLevel(d, v)

(* Json_schema_ex_maximum / ex_minimum::validate                           *)
ExMaximumValidate(n, c) == c.vt = "number" /\ ~(c.n < n.num)
ExMinimumValidate(n, c) == c.vt = "number" /\ ~(c.n > n.num)

(* Json_schema_multiple_of::validate: temp= val / multiple_of passes when *)
(* temp - (long long)temp is 0.  With multiple_of 0 the quotient is inf   *)
(* or NaN, and the difference is never 0 whatever the build makes of the  *)
(* undefined (long long) conversion: every number fails.                  *)
IsMultiple(v, m) == m # 0 /\ v % (IF m < 0 THEN -m ELSE m) = 0
MultipleOfValidate(n, c) == c.vt = "number" /\ ~IsMultiple(c.n, n.num)

(* Json_schema_max_len / min_len::validate: value_len in bytes.           *)
MaxLengthValidate(n, c) == c.vt = "string" /\ ~(ValueLen(c) <= n.num)
MinLengthValidate(n, c) == c.vt = "string" /\ ~(ValueLen(c) >= n.num)

(* Json_schema_pattern::validate: a string must match.                    *)
PatternValidate(X, n, c) == c.vt = "string" /\ ~Matches(X, n.pat, c.v)

(* Json_schema_const::validate: the kind must be the stored type; an      *)
(* object, array, string or number must have the stored canonical form.   *)
ConstValidate(X, n, c) ==
  \/ c.vt # n.ctype
  \/ c.vt \in {"object", "array", "string", "number"} /\ Canon(X.d, c) # n.val

(* Json_schema_enum::validate: true, false and null are looked up in the  *)
(* flags, anything else in enum_values by its canonical form.             *)
EnumValidate(X, n, c) ==
  IF c.vt \in {"true", "false", "null"} THEN c.vt \notin n.flags
  ELSE Canon(X.d, c) \notin n.enumv

(* The element count of Json_schema_max_items / min_items::validate.     *)
RECURSIVE ElementCount(_, _, _)
ElementCount(d, c, level) ==
  LET x == ScanNext(d, c) IN
  IF x.err \/ x.stack < level THEN 0
  ELSE 1 + ElementCount(d, SkipValue(d, ReadValue(d, x)), level)

MaxItemsValidate(X, n, c) == c.vt = "array" /\ ElementCount(X.d, c, c.stack) > n.num
MinItemsValidate(X, n, c) == c.vt = "array" /\ ElementCount(X.d, c, c.stack) < n.num

(* The key count of Json_schema_max_prop / min_prop::validate.  The loop  *)
(* tests je->stack_p >= curr_level on the caller's cursor, which never    *)
(* moves: the scan stops only at the end of the document, and counts the *)
(* keys of the enclosing objects that follow the object.                  *)
RECURSIVE KeyCountToEnd(_, _)
KeyCountToEnd(d, c) ==
  LET x == ScanNext(d, c) IN
  IF x.err THEN 0
  ELSE IF x.state = "KEY" THEN 1 + KeyCountToEnd(d, SkipValue(d, ReadValue(d, x)))
  ELSE KeyCountToEnd(d, x)

MaxPropertiesValidate(X, n, c) == c.vt = "object" /\ KeyCountToEnd(X.d, c) > n.num
MinPropertiesValidate(X, n, c) == c.vt = "object" /\ KeyCountToEnd(X.d, c) < n.num

(* Json_schema_unique_items::validate.  has_none is declared inside the   *)
(* loop, so the true/false/null flags start empty for every element and   *)
(* never see a duplicate; other elements go into a hash of canonical      *)
(* forms.  Returns TRUE when it fails.                                    *)
RECURSIVE UniqueLoop(_, _, _, _)
UniqueNext(d, v, level, seen, form) ==
  IF v.vt \in {"true", "false", "null"} THEN UniqueLoop(d, NormalizedEnd(d, v), level, seen)
  ELSE form \in seen \/ UniqueLoop(d, NormalizedEnd(d, v), level, seen \cup {form})
UniqueLoop(d, c, level, seen) ==
  LET x == ScanNext(d, c) IN
  IF x.err \/ x.stack < level THEN FALSE
  ELSE LET v == ReadValue(d, x) IN
       v.err \/ UniqueNext(d, v, level, seen, Canon(d, v))

UniqueItemsValidate(X, c) == c.vt = "array" /\ UniqueLoop(X.d, c, c.stack, {})

(* Json_schema_dependent_prop::validate: the keys scanned below the       *)
(* object, nested ones included, as for required.                         *)
DependentRequiredValidate(X, n, c) ==
  c.vt = "object" /\
  LET ks == KeysBelow(X.d, c, c.stack)
  IN \E dep \in Range(n.deps) : dep[1] \in ks /\ ~(Range(dep[2]) \subseteq ks)

(* Json_schema_conditional::validate calls if_cond->validate, and no code *)
(* ever assigns if_cond: a call through a NULL pointer.                   *)
ConditionalValidate(st) == R(TRUE, [st EXCEPT !.crash = TRUE])

(* The end of Json_schema_contains::validate: the bounds on the count.    *)
ContainsBounds(X, n, k) ==
  LET ok == /\ IF n.maxc # NoNode THEN k.count <= X.n[n.maxc].num ELSE k.count > 0
            /\ IF n.minc # NoNode THEN k.count >= X.n[n.minc].num ELSE k.count > 0
  IN R(~ok, k.st)

(* The end of Json_schema_logic / not::validate: validate_count.          *)
CountResult(cls, total, r) == R(CountFails(cls, r.count, total), r.st)

(* A named member validated by Json_schema_properties::validate_as_       *)
(* alternate: on success its value is skipped, and a skip error fails.    *)
MemberResult(X, c, r) == IF r.f THEN r ELSE R(SkipValue(X.d, c).err, r.st)

(* The end of validate_single_index: on success the element is skipped.   *)
SingleIndexEnd(X, c, r) ==
  LET s == SkipValue(X.d, c) IN
  IF r.f THEN [f |-> TRUE, c |-> c, st |-> r.st]
  ELSE [f |-> s.err, c |-> s, st |-> r.st]

(* Each loop below is split at its recursive call: the step operator      *)
(* (...Step, ...Next) takes the result of the call and does the rest of the   *)
(* loop body, so every result is computed once.                           *)
RECURSIVE Validate(_, _, _, _), ValidateList(_, _, _, _), ListStep(_, _, _, _),
          FallBack(_, _, _, _, _), ValidateAsAlternate(_, _, _, _, _),
          SingleIndex(_, _, _, _, _, _), SingleLoop(_, _, _, _, _),
          SingleStep(_, _, _, _, _), SingleFallBack(_, _, _, _, _),
          PropertiesLoop(_, _, _, _, _), PropertiesNext(_, _, _, _, _),
          PatternLoop(_, _, _, _, _, _), PatternMember(_, _, _, _, _, _, _),
          PatternUnmatched(_, _, _, _, _),
          PatternsApply(_, _, _, _, _, _), PatternApplied(_, _, _, _, _, _),
          UnevaluatedLoop(_, _, _, _, _), UnevaluatedNext(_, _, _, _, _),
          PropertiesValidateAsAlternate(_, _, _, _, _),
          PatternValidateAsAlternate(_, _, _, _, _), PatternMatched(_, _, _, _),
          ItemsValidateAsAlternate(_, _, _, _, _),
          ItemsValidate(_, _, _, _), ItemsLoop(_, _, _, _, _), ItemsNext(_, _, _, _),
          PrefixLoop(_, _, _, _, _, _), PrefixNext(_, _, _, _, _, _),
          PrefixRest(_, _, _, _, _, _), ContainsValidate(_, _, _, _),
          LogicValidate(_, _, _, _), LogicLoop(_, _, _, _, _, _),
          LogicNext(_, _, _, _, _, _), LogicFallBack(_, _, _, _, _, _),
          SubschemaRun(_, _, _, _, _, _), SubschemaNext(_, _, _, _, _, _),
          NotValidate(_, _, _, _), NotLoop(_, _, _, _, _, _),
          ContainsCount(_, _, _, _, _), PropertyNamesValidate(_, _, _, _)

(* The loop every caller runs over a Keyword List: validate each keyword  *)
(* on a copy of the cursor, stop at the first that fails.                 *)
ValidateList(X, l, c, st) ==
  IF l = <<>> THEN R(FALSE, st)
  ELSE ListStep(X, l, c, Validate(X, Head(l), c, st))

ListStep(X, l, c, r) == IF r.f THEN r ELSE ValidateList(X, Tail(l), c, r.st)

(* Json_schema_keyword::fall_back_on_alternate_schema                      *)
FallBack(X, id, c, key, st) ==
  LET a == st.alt[id] IN
  IF a = NoNode THEN R(FALSE, st)
  ELSE IF ~X.n[a].allowed THEN R(TRUE, st)
  ELSE ValidateAsAlternate(X, a, c, key, st)

(* The virtual Json_schema_keyword::validate: the class's override, or    *)
(* the base method (unknown keywords, annotations, format, min/max-       *)
(* Contains), which accepts.                                              *)
Validate(X, id, c, st) ==
  LET n == X.n[id] IN
  CASE n.cls = "type" -> R(TypeValidate(n, c), st)
    [] n.cls = "maximum" -> R(MaximumValidate(n, c), st)
    [] n.cls = "minimum" -> R(MinimumValidate(n, c), st)
    [] n.cls = "required" -> R(RequiredValidate(X, n, c), st)
    [] n.cls = "exclusiveMaximum" -> R(ExMaximumValidate(n, c), st)
    [] n.cls = "exclusiveMinimum" -> R(ExMinimumValidate(n, c), st)
    [] n.cls = "multipleOf" -> R(MultipleOfValidate(n, c), st)
    [] n.cls = "maxLength" -> R(MaxLengthValidate(n, c), st)
    [] n.cls = "minLength" -> R(MinLengthValidate(n, c), st)
    [] n.cls = "pattern" -> R(PatternValidate(X, n, c), st)
    [] n.cls = "const" -> R(ConstValidate(X, n, c), st)
    [] n.cls = "enum" -> R(EnumValidate(X, n, c), st)
    [] n.cls = "maxItems" -> R(MaxItemsValidate(X, n, c), st)
    [] n.cls = "minItems" -> R(MinItemsValidate(X, n, c), st)
    [] n.cls = "maxProperties" -> R(MaxPropertiesValidate(X, n, c), st)
    [] n.cls = "minProperties" -> R(MinPropertiesValidate(X, n, c), st)
    [] n.cls = "uniqueItems" -> R(UniqueItemsValidate(X, c), st)
    [] n.cls = "dependentRequired" -> R(DependentRequiredValidate(X, n, c), st)
    [] n.cls = "propertyNames" -> PropertyNamesValidate(X, id, c, st)
    [] n.cls = "properties" ->
         IF c.vt # "object" THEN R(FALSE, st) ELSE PropertiesLoop(X, id, c, c.stack, st)
    [] n.cls = "patternProperties" ->
         IF c.vt # "object" THEN R(FALSE, st)
         ELSE PatternLoop(X, id, c, c.stack, FALSE, st)
    [] n.cls \in {"additionalItems", "unevaluatedItems", "additionalProperties"} ->
         ValidateList(X, n.list, c, st)
    [] n.cls = "unevaluatedProperties" -> UnevaluatedLoop(X, id, c, c.stack, st)
    [] n.cls = "items" -> ItemsValidate(X, id, c, st)
    [] n.cls = "prefixItems" ->
         IF c.vt # "array" THEN R(FALSE, st) ELSE PrefixLoop(X, id, c, c.stack, 1, st)
    [] n.cls = "contains" -> ContainsValidate(X, id, c, st)
    [] n.cls \in {"allOf", "anyOf", "oneOf"} -> LogicValidate(X, id, c, st)
    [] n.cls = "not" -> NotValidate(X, id, c, st)
    [] n.cls \in Conditionals -> ConditionalValidate(st)
    [] n.cls \in {"base", "annotation", "format", "maxContains", "minContains"} ->
         R(FALSE, st)

(* Json_schema_items::validate: the array form lends the hidden prefix    *)
(* node the alternate of items and runs it; the object form validates     *)
(* every element; true/false accept or reject a non-empty array.          *)
ItemsValidate(X, id, c, st) ==
  LET n == X.n[id] IN
  IF c.vt # "array" THEN R(FALSE, st)
  ELSE IF n.lp # NoNode THEN Validate(X, n.lp, c, [st EXCEPT !.alt[n.lp] = st.alt[id]])
  ELSE IF n.list # <<>> THEN ItemsLoop(X, id, c, c.stack, st)
  ELSE R(~n.allowed, st)

(* Json_schema_contains::validate: count the keywords of its schema that  *)
(* pass on the array itself, then apply the bounds.                       *)
ContainsValidate(X, id, c, st) ==
  IF c.vt # "array" THEN R(FALSE, st)
  ELSE ContainsBounds(X, X.n[id], ContainsCount(X, X.n[id].list, c, 0, st))

(* Json_schema_logic::validate                                            *)
LogicValidate(X, id, c, st) ==
  CountResult(X.n[id].cls, Len(X.n[id].lists),
              LogicLoop(X, id, X.n[id].lists, c, 0, LogicEnter(id, c, st)))

(* Json_schema_not::validate                                              *)
NotValidate(X, id, c, st) ==
  CountResult("not", Len(X.n[id].list),
              NotLoop(X, id, X.n[id].list, c, 0, LogicEnter(id, c, st)))

(* The virtual validate_as_alternate, reached through FallBack with the  *)
(* member's key: the base method accepts; additional* and unevaluated*   *)
(* run their own validate.                                                *)
ValidateAsAlternate(X, id, c, key, st) ==
  LET cls == X.n[id].cls IN
  CASE cls = "properties" -> PropertiesValidateAsAlternate(X, id, c, key, st)
    [] cls = "patternProperties" -> PatternValidateAsAlternate(X, id, c, key, st)
    [] cls = "items" -> ItemsValidateAsAlternate(X, id, c, key, st)
    [] cls \in {"additionalItems", "unevaluatedItems", "additionalProperties",
                "unevaluatedProperties"} -> Validate(X, id, c, st)
    [] OTHER -> R(FALSE, st)

(* Json_schema_properties::validate_as_alternate: a named member is       *)
(* validated against its schema; any other is accepted here, the chain    *)
(* going no further.                                                      *)
PropertiesValidateAsAlternate(X, id, c, key, st) ==
  LET p == PropLookup(X.n[id].props, key) IN
  IF ~p.found THEN R(FALSE, st)
  ELSE MemberResult(X, c, ValidateList(X, p.list, c, st))

(* Json_schema_pattern_properties::validate_as_alternate: the first       *)
(* matching pattern applies; with none, the chain goes on with no key.   *)
PatternValidateAsAlternate(X, id, c, key, st) ==
  PatternMatched(X, id, c, PatternsApply(X, X.n[id].props, key, c, TRUE, st))

PatternMatched(X, id, c, pr) ==
  IF pr.f THEN R(TRUE, pr.st)
  ELSE IF ~pr.matched THEN FallBack(X, id, c, "none", pr.st)
  ELSE R(FALSE, pr.st)

(* Json_schema_items::validate_as_alternate: the array form validates the *)
(* element against the sub-schema at position index of the items array    *)
(* (List::elem, counting from 0), and index is what prefixItems counted.  *)
ItemsValidateAsAlternate(X, id, c, key, st) ==
  LET n == X.n[id] IN
  IF n.lp # NoNode
  THEN LET plen == Len(X.n[n.lp].lists)
           i    == st.idx[id]
       IN IF i > plen THEN R(TRUE, st)
          ELSE SingleIndex(X, id, c, i < plen,
                           IF i < plen THEN X.n[n.lp].lists[i + 1] ELSE <<>>, st)
  ELSE IF n.list # <<>> THEN SingleIndex(X, id, c, TRUE, n.list, st)
  ELSE R(~n.allowed, st)

(* Json_schema_items::validate_single_index; has = the list pointer is    *)
(* not NULL.  Returns the cursor it advanced as well.                     *)
SingleIndex(X, id, c, has, l, st) ==
  SingleIndexEnd(X, c, IF has THEN SingleLoop(X, id, l, c, st)
                       ELSE FallBack(X, id, c, "none", st))

SingleLoop(X, id, l, c, st) ==
  IF l = <<>> THEN R(FALSE, st)
  ELSE SingleStep(X, id, l, c, Validate(X, Head(l), c, st))

SingleStep(X, id, l, c, r) ==
  IF ~r.f THEN SingleLoop(X, id, Tail(l), c, r.st)
  ELSE IF r.st.alt[id] = NoNode THEN R(TRUE, r.st)
  ELSE SingleFallBack(X, id, l, c, FallBack(X, id, c, "none", r.st))

SingleFallBack(X, id, l, c, fb) ==
  IF fb.f THEN fb ELSE SingleLoop(X, id, Tail(l), c, fb.st)

(* Json_schema_properties::validate: a member named in the hash is        *)
(* validated against its schema, any other goes down the fall-back chain. *)
PropertiesLoop(X, id, c, level, st) ==
  LET x == ScanNext(X.d, c) IN
  IF x.err \/ x.stack < level THEN R(FALSE, st)
  ELSE IF x.state # "KEY" THEN PropertiesLoop(X, id, x, level, st)
  ELSE LET v == ReadValue(X.d, x)
           p == PropLookup(X.n[id].props, x.key)
       IN IF v.err THEN R(TRUE, st)
          ELSE PropertiesNext(X, id, v, level,
                              IF p.found THEN ValidateList(X, p.list, v, st)
                              ELSE FallBack(X, id, v, x.key, st))

PropertiesNext(X, id, v, level, r) ==
  LET s == SkipValue(X.d, v) IN
  IF r.f THEN r
  ELSE IF s.err THEN R(TRUE, r.st)
  ELSE PropertiesLoop(X, id, s, level, r.st)

(* The pattern loop shared by Json_schema_pattern_properties::validate    *)
(* (every matching pattern applies) and validate_as_alternate (it breaks  *)
(* after the first match).  Returns whether any pattern matched.          *)
PatternsApply(X, pats, key, c, firstOnly, st) ==
  IF pats = <<>> THEN [f |-> FALSE, matched |-> FALSE, st |-> st]
  ELSE IF ~Matches(X, Head(pats)[1], key)
       THEN PatternsApply(X, Tail(pats), key, c, firstOnly, st)
  ELSE PatternApplied(X, pats, key, c, firstOnly, ValidateList(X, Head(pats)[2], c, st))

PatternApplied(X, pats, key, c, firstOnly, r) ==
  IF r.f THEN [f |-> TRUE, matched |-> TRUE, st |-> r.st]
  ELSE IF firstOnly THEN [f |-> FALSE, matched |-> TRUE, st |-> r.st]
  ELSE [PatternsApply(X, Tail(pats), key, c, firstOnly, r.st) EXCEPT !.matched = TRUE]

(* Json_schema_pattern_properties::validate: match_found is set once per  *)
(* call, not per member, and the member's value is not skipped, so the    *)
(* members of a nested object are scanned as members too.                 *)
PatternLoop(X, id, c, level, matchFound, st) ==
  LET x == ScanNext(X.d, c) IN
  IF x.err \/ x.stack < level THEN R(FALSE, st)
  ELSE IF x.state # "KEY" THEN PatternLoop(X, id, x, level, matchFound, st)
  ELSE LET v == ReadValue(X.d, x) IN
       IF v.err THEN R(TRUE, st)
       ELSE PatternMember(X, id, v, level, matchFound, x.key,
                          PatternsApply(X, X.n[id].props, x.key, v, FALSE, st))

(* After the patterns of one member: a failure fails; with no match so    *)
(* far, the member goes down the fall-back chain.                         *)
PatternMember(X, id, v, level, matchFound, key, pr) ==
  IF pr.f THEN R(TRUE, pr.st)
  ELSE IF matchFound \/ pr.matched THEN PatternLoop(X, id, v, level, TRUE, pr.st)
  ELSE PatternUnmatched(X, id, v, level, ValidateAsAlternate(X, id, v, key, pr.st))

PatternUnmatched(X, id, v, level, va) ==
  IF va.f THEN va ELSE PatternLoop(X, id, v, level, FALSE, va.st)

(* Json_schema_unevaluated_properties::validate: every key below the      *)
(* object, its own and nested ones, has its value validated.              *)
UnevaluatedLoop(X, id, c, level, st) ==
  LET x == ScanNext(X.d, c) IN
  IF x.err \/ x.stack < level THEN R(FALSE, st)
  ELSE IF x.state # "KEY" THEN UnevaluatedLoop(X, id, x, level, st)
  ELSE LET v == ReadValue(X.d, x) IN
       IF v.err THEN R(TRUE, st)
       ELSE UnevaluatedNext(X, id, v, level, ValidateList(X, X.n[id].list, v, st))

UnevaluatedNext(X, id, v, level, r) ==
  IF r.f THEN r ELSE UnevaluatedLoop(X, id, v, level, r.st)

(* Json_schema_property_names::validate: the loop runs the owned list on  *)
(* each member's VALUE, not on its name, and does not skip the value, so  *)
(* the members of nested objects are visited too: the loop of             *)
(* Json_schema_unevaluated_properties::validate, after the object check.  *)
PropertyNamesValidate(X, id, c, st) ==
  IF c.vt # "object" THEN R(FALSE, st) ELSE UnevaluatedLoop(X, id, c, c.stack, st)

(* Json_schema_items::validate, object form: every element.               *)
ItemsLoop(X, id, c, level, st) ==
  LET x == ScanNext(X.d, c) IN
  IF x.err \/ x.stack < level THEN R(FALSE, st)
  ELSE LET v == ReadValue(X.d, x) IN
       IF v.err THEN R(TRUE, st)
       ELSE ItemsNext(X, id, level, SingleIndex(X, id, v, TRUE, X.n[id].list, st))

ItemsNext(X, id, level, r) ==
  IF r.f THEN R(TRUE, r.st) ELSE ItemsLoop(X, id, r.c, level, r.st)

(* Json_schema_prefix_items::validate: element i against sub-schema i;    *)
(* past the last one, the fall-back chain.  Each element bumps the index  *)
(* of the node the alternate pointer names, and nothing resets it.        *)
(* Mutant: the index++ hoisted above the branch, the two branch-local     *)
(* increments left in place: every element bumps it twice.               *)
PrefixLoopBumpHoisted(X, id, c, level, i, st) ==
  LET x     == ScanNext(X.d, c)
      lists == X.n[id].lists
      st1   == Bump(st, st.alt[id])
  IN
  IF x.err \/ x.stack < level THEN R(FALSE, st)
  ELSE LET v == ReadValue(X.d, x) IN
       IF v.err THEN R(TRUE, st1)
       ELSE IF i > Len(lists)
       THEN PrefixRest(X, id, v, level, i, FallBack(X, id, v, "none", st1))
       ELSE PrefixNext(X, id, v, level, i,
                       ValidateList(X, lists[i], v, Bump(st1, st1.alt[id])))

PrefixLoop(X, id, c, level, i, st) ==
  LET x     == ScanNext(X.d, c)
      lists == X.n[id].lists
  IN
  IF x.err \/ x.stack < level THEN R(FALSE, st)
  ELSE LET v == ReadValue(X.d, x) IN
       IF v.err THEN R(TRUE, st)
       ELSE IF i > Len(lists)
       THEN PrefixRest(X, id, v, level, i, FallBack(X, id, v, "none", st))
       ELSE PrefixNext(X, id, v, level, i,
                       ValidateList(X, lists[i], v, Bump(st, st.alt[id])))

(* An element past the sub-schemas: its bump comes after the fall-back.   *)
PrefixRest(X, id, v, level, i, fb) ==
  LET s   == SkipValue(X.d, v)
      st2 == Bump(fb.st, fb.st.alt[id])
  IN IF fb.f THEN fb
     ELSE IF s.err THEN R(TRUE, st2)
     ELSE PrefixLoop(X, id, s, level, i, st2)

PrefixNext(X, id, v, level, i, r) ==
  LET s == SkipValue(X.d, v) IN
  IF r.f THEN r
  ELSE IF s.err THEN R(TRUE, r.st)
  ELSE PrefixLoop(X, id, s, level, i + 1, r.st)

(* Json_schema_logic::validate, the loop over sub-schemas: count those    *)
(* whose keywords all pass.                                               *)
LogicLoop(X, id, lists, c, count, st) ==
  IF lists = <<>> THEN [count |-> count, st |-> st]
  ELSE LogicNext(X, id, lists, c, count, SubschemaRun(X, id, Head(lists), c, FALSE, st))

LogicNext(X, id, lists, c, count, r) ==
  IF r.validated THEN LogicLoop(X, id, Tail(lists), c, count + 1, r.st)
  ELSE IF r.st.alt[id] # NoNode
  THEN LogicFallBack(X, id, lists, c, count, FallBack(X, id, c, "none", r.st))
  ELSE LogicLoop(X, id, Tail(lists), c, count, r.st)

LogicFallBack(X, id, lists, c, count, fb) ==
  LogicLoop(X, id, Tail(lists), c, IF fb.f THEN count ELSE count + 1, fb.st)

(* Mutant: every keyword of the sub-schema is reset to NULL after its     *)
(* call, whether or not it was lent the combinator's alternate.           *)
SubschemaRunResetAll(X, id, kws, c, hasAlternate, st) ==
  IF kws = <<>> THEN [validated |-> TRUE, st |-> st]
  ELSE SubschemaNext(X, id, kws, c, TRUE,
         Validate(X, Head(kws), c,
                  IF st.alt[Head(kws)] = NoNode
                  THEN [st EXCEPT !.alt[Head(kws)] = st.alt[id]] ELSE st))

(* One sub-schema of a combinator.  A keyword without an alternate gets   *)
(* the combinator's for the call and is reset to NULL after it; the flag  *)
(* has_alternate is cleared per sub-schema, not per keyword, and a        *)
(* failing keyword breaks out before the reset.                           *)
SubschemaRun(X, id, kws, c, hasAlternate, st) ==
  IF kws = <<>> THEN [validated |-> TRUE, st |-> st]
  ELSE LET k   == Head(kws)
           inj == st.alt[k] = NoNode
       IN SubschemaNext(X, id, kws, c, hasAlternate \/ inj,
            Validate(X, k, c, IF inj THEN [st EXCEPT !.alt[k] = st.alt[id]] ELSE st))

SubschemaNext(X, id, kws, c, has, r) ==
  IF r.f THEN [validated |-> FALSE, st |-> r.st]
  ELSE SubschemaRun(X, id, Tail(kws), c, has,
                    IF has THEN [r.st EXCEPT !.alt[Head(kws)] = NoNode] ELSE r.st)

(* Json_schema_not::validate: count the keywords of its schema that pass. *)
(* A keyword that had an alternate gets the combinator's (NULL) for the   *)
(* call, and NULL after it.                                               *)
NotLoop(X, id, kws, c, count, st) ==
  IF kws = <<>> THEN [count |-> count, st |-> st]
  ELSE LET k   == Head(kws)
           has == st.alt[k] # NoNode
           r   == Validate(X, k, c, IF has THEN [st EXCEPT !.alt[k] = st.alt[id]]
                                     ELSE st)
       IN NotLoop(X, id, Tail(kws), c, IF r.f THEN count ELSE count + 1,
                  IF has THEN [r.st EXCEPT !.alt[k] = NoNode] ELSE r.st)

(* The counting loop of Json_schema_contains::validate.                  *)
ContainsCount(X, kws, c, count, st) ==
  IF kws = <<>> THEN [count |-> count, st |-> st]
  ELSE LET r == Validate(X, Head(kws), c, st) IN
       ContainsCount(X, Tail(kws), c, IF r.f THEN count ELSE count + 1, r.st)

(***************************************************************************)
(* The host's validation of one instance (Item_func_json_schema_valid,    *)
(* not part of this repository): a cursor on the instance's value, then   *)
(* the root Keyword List in order, stopping at the first failure.         *)
(***************************************************************************)
ValidateInstance(nodes, list, re, inst, st) ==
  LET X == [n |-> nodes, d |-> Tokens(inst), re |-> re]
  IN ValidateList(X, list, RootCursor(X.d), st)

Verdict(r) == IF r.st.crash THEN "crash" ELSE IF r.f THEN "invalid" ELSE "valid"

=============================================================================
