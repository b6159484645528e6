-------------------------- MODULE JsonSchemaCompile --------------------------
(***************************************************************************)
(* The schema compiler of sql/json_schema.cc: the keyword factory          *)
(* (create_object), the argument readers (handle_keyword of each keyword   *)
(* class), the object walk (create_object_and_handle_keyword) and the      *)
(* interdependence pass (add_schema_interdependence).                      *)
(*                                                                         *)
(* A compiled keyword object is a record in a node table; its id is the    *)
(* index of the key token it was compiled from, so every node of a         *)
(* document has a distinct id.  The hidden prefixItems node an array-form  *)
(* "items" creates gets the negated id of its "items" node.  A Keyword     *)
(* List is a sequence of ids.  The fields of a node:                       *)
(*   cls      the C++ class                name    keyword_name            *)
(*   key      the schema key it came from  prio    priority                *)
(*   allowed  allowed                      alt0    alternate_schema as the *)
(*            interdependence pass leaves it (the validator owns it after) *)
(*   list     its one owned Keyword List (schema_list, contains,           *)
(*            validate_like_schema, conditions_schema)                     *)
(*   lists    its Keyword Lists by position (prefix_items, schema_items)   *)
(*   props    << <<name or pattern, Keyword List>>, ... >> (properties,    *)
(*            pattern_properties)                                          *)
(*   num      the bound of a numeric keyword    names   required names     *)
(*   types    the type bitset as a set of kinds lp      validate_like_prefix*)
(*   minc, maxc, thenc, elsec  the set_dependents pointers                 *)
(*   ctype, val  const's type and const_json_value (a canonical form)      *)
(*   enumv, flags  enum_values (canonical forms) and enum_scalar           *)
(*   pat      pattern's text         deps   dependent_required pairs       *)
(***************************************************************************)
EXTENDS JsonLib, StackGuard

(* What the build's (uint) conversion of a negative double gives: the     *)
(* conversion is undefined behaviour; aarch64 saturates to 0, x86-64      *)
(* keeps the low 32 bits (4294967295 for -1, above every count).          *)
CONSTANT UintOfNegative

NoNode == 0

AnnotationKeys == {"title", "description", "$comment", "$schema", "deprecated",
                   "readOnly", "writeOnly", "example", "default"}
FormatKeys == {"date-time", "date", "time", "duration", "email", "idn-email",
               "hostname", "idn-hostname", "ipv4", "ipv6", "uri",
               "uri-reference", "iri", "iri-reference", "uuid", "json-pointer",
               "relative-json-pointer", "regex"}
(* The keywords create_object maps to a class of the same name.           *)
NamedKeywords ==
  {"type", "const", "enum", "maximum", "minimum", "exclusiveMaximum",
   "exclusiveMinimum", "multipleOf", "maxLength", "minLength", "pattern",
   "maxItems", "minItems", "contains", "maxContains", "minContains",
   "prefixItems", "items", "uniqueItems", "additionalItems",
   "unevaluatedItems", "propertyNames", "properties", "additionalProperties",
   "patternProperties", "unevaluatedProperties", "maxProperties",
   "minProperties", "required", "dependentRequired", "not", "anyOf", "oneOf",
   "allOf", "if", "then", "else"}

(* The priority each applicator constructor assigns (json_schema.h).  The *)
(* other classes leave it uninitialised; no code path reads it for them.  *)
Priority(cls) ==
  CASE cls \in {"prefixItems", "properties"} -> 1
    [] cls \in {"items", "patternProperties"} -> 2
    [] cls \in {"additionalItems", "additionalProperties"} -> 3
    [] cls \in {"unevaluatedItems", "unevaluatedProperties"} -> 4
    [] OTHER -> 0

(* allowed as the factory computes it from the argument's value_type.     *)
(* Three of the four compare value_type with the macro TRUE (= 1), which  *)
(* is the code of JSON_VALUE_OBJECT, not of JSON_VALUE_TRUE.              *)
MacroTRUE == 1
Allowed(cls, vt) ==
  CASE cls = "items" -> vt \in {"true", "object", "array"}
    [] cls \in {"additionalItems", "unevaluatedItems", "additionalProperties"}
         -> ValueTypeCode[vt] = MacroTRUE
    [] cls = "unevaluatedProperties" -> vt = "true"
    [] OTHER -> TRUE

EmptyNode ==
  [id |-> NoNode, cls |-> "base", name |-> "", key |-> "", prio |-> 0,
   allowed |-> TRUE, alt0 |-> NoNode, list |-> <<>>, lists |-> <<>>,
   props |-> <<>>, num |-> 0, names |-> <<>>, types |-> {}, lp |-> NoNode,
   minc |-> NoNode, maxc |-> NoNode, thenc |-> NoNode, elsec |-> NoNode,
   ctype |-> "none", val |-> <<>>, enumv |-> {}, flags |-> {}, pat |-> "",
   deps |-> <<>>]

(* create_object: the node for key k whose argument has kind vt.          *)
CreateObject(id, k, vt) ==
  LET cls  == CASE k \in NamedKeywords -> k
                [] k = "propertyName" -> "propertyNames"
                [] k \in AnnotationKeys -> "annotation"
                [] k \in FormatKeys -> "format"
                [] OTHER -> "base"
      name == CASE k \in NamedKeywords \cup {"propertyName"} -> k
                [] k \in AnnotationKeys -> "annotation"
                [] k \in FormatKeys -> "format"
                [] OTHER -> ""
  IN [EmptyNode EXCEPT !.id = id, !.cls = cls, !.name = name, !.key = k,
                       !.prio = Priority(cls), !.allowed = Allowed(cls, vt)]

(* json_assign_type (json_schema_helper.cc): the kinds a type name admits. *)
TypeKinds(name) ==
  CASE name = "integer" -> {"number"}
    [] name = "boolean" -> {"true", "false"}
    [] name \in {"object", "array", "string", "number", "null"} -> {name}
    [] OTHER -> {}
KnownType(c) == c.vt = "string" /\ TypeKinds(c.v) # {}

(***************************************************************************)
(* The result of a compile step: err is the bool the C++ function returns, *)
(* raised that my_error was called (format reports without failing), c    *)
(* the cursor afterwards, node the keyword being filled, list the Keyword *)
(* List built, nodes the table of every node compiled so far.             *)
(***************************************************************************)
Fail(c, n, nodes) == [err |-> TRUE, raised |-> FALSE, c |-> c, list |-> <<>>,
                      node |-> n, nodes |-> nodes]
Done(c, n, nodes) == [err |-> FALSE, raised |-> FALSE, c |-> c, list |-> <<>>,
                      node |-> n, nodes |-> nodes]
WithRaised(r, b) == [r EXCEPT !.raised = @ \/ b]
(* my_error(ER_JSON_INVALID_VALUE_FOR_KEYWORD), then return true.         *)
Reject(c, n, nodes) == WithRaised(Fail(c, n, nodes), TRUE)

ArrayApplicators  == {"items", "prefixItems", "additionalItems", "unevaluatedItems"}
ObjectApplicators == {"properties", "patternProperties", "additionalProperties",
                      "unevaluatedProperties"}
Combinators       == {"allOf", "anyOf", "oneOf", "not"}
Conditionals      == {"if", "then", "else"}

LastNamed(temp, nodes, nm) ==
  LET s == SelectSeq(temp, LAMBDA i : nodes[i].name = nm)
  IN IF s = <<>> THEN NoNode ELSE s[Len(s)]

(* Mutant: the elem() counter starts at 0, so each node of a chain gets  *)
(* itself as its alternate.                                               *)
SuccessorFromZero(s, i) == IF i <= Len(s) THEN s[i] ELSE NoNode

Successor(s, i) == IF i < Len(s) THEN s[i + 1] ELSE NoNode
HeadOrNone(s) == IF s = <<>> THEN <<>> ELSE <<s[1]>>

(***************************************************************************)
(* add_schema_interdependence: turn the keywords compiled from one schema  *)
(* object (temp, in key order) into its Keyword List and wire the          *)
(* set_dependents and alternate_schema pointers.  The else branch of the   *)
(* conditional group compares the name with "then" a second time, so       *)
(* else_cond is never set.  unevaluatedItems is taken out of the array     *)
(* group and only handed to the combinators (set_unevaluated_item writes   *)
(* the base-class field, which Json_schema_logic shadows and never reads). *)
(***************************************************************************)
Interdependence(temp, nodes) ==
  LET nm(i)     == nodes[i].name
      arrayProp == SelectSeq(temp, LAMBDA i : nm(i) \in ArrayApplicators
                                            /\ nm(i) # "unevaluatedItems")
      objectProp == SelectSeq(temp, LAMBDA i : nm(i) \in ObjectApplicators)
      inOrder   == SelectSeq(temp, LAMBDA i :
                       nm(i) \notin ArrayApplicators \cup ObjectApplicators
                                    \cup Conditionals \cup {"minContains", "maxContains"})
      ifc       == LastNamed(temp, nodes, "if")
      thenc     == LastNamed(temp, nodes, "then")
      elsec     == NoNode
      contains  == LastNamed(temp, nodes, "contains")
      byPrio(a, b) == nodes[a].prio < nodes[b].prio
      arr       == SortSeq(arrayProp, byPrio)
      arrKept   == IF arr # <<>> /\ nodes[arr[1]].prio > 2 THEN <<>> ELSE arr
      obj       == SortSeq(objectProp, byPrio)
      wired(i)  ==
        LET n  == nodes[i]
            n1 == IF \E j \in DOMAIN arrKept : arrKept[j] = i
                  THEN [n EXCEPT !.alt0 = Successor(arrKept,
                                    CHOOSE j \in DOMAIN arrKept : arrKept[j] = i)]
                  ELSE IF (\E j \in DOMAIN obj : obj[j] = i) /\ n.prio < 4
                  THEN [n EXCEPT !.alt0 = Successor(obj,
                                    CHOOSE j \in DOMAIN obj : obj[j] = i)]
                  ELSE n
            n2 == IF i = ifc THEN [n1 EXCEPT !.thenc = thenc, !.elsec = elsec]
                  ELSE n1
        IN IF i = contains
           THEN [n2 EXCEPT !.minc = LastNamed(temp, nodes, "minContains"),
                           !.maxc = LastNamed(temp, nodes, "maxContains")]
           ELSE n2
      condErr   == \/ ifc # NoNode /\ thenc = NoNode /\ elsec = NoNode
                   \/ /\ ifc = NoNode /\ (thenc # NoNode \/ elsec # NoNode)
                      /\ (thenc = NoNode \/ elsec = NoNode)
  IN IF condErr THEN Reject(NoNode, EmptyNode, nodes)
     ELSE [Done(NoNode, EmptyNode, [i \in DOMAIN nodes |->
                                     IF i \in Range(temp) THEN wired(i)
                                     ELSE nodes[i]])
           EXCEPT !.list = inOrder \o (IF ifc # NoNode THEN <<ifc>> ELSE <<>>)
                           \o HeadOrNone(arrKept) \o HeadOrNone(obj)]

(***************************************************************************)
(* The walk over a schema, one operator per C++ function.  Every operator *)
(* takes the schema document d and the cursor c and returns a step result *)
(* whose c is where the C++ function leaves the json_engine_t.            *)
(***************************************************************************)
RECURSIVE CompileObject(_, _, _, _), CompileLoop(_, _, _, _, _, _),
          HandleKeyword(_, _, _, _, _), OwnedSchema(_, _, _, _, _),
          ItemsHandle(_, _, _, _, _), ContainsHandle(_, _, _, _, _),
          PropertiesHandleLoop(_, _, _, _, _, _), SubschemaLoop(_, _, _, _, _, _)

(* create_object_and_handle_keyword: every key scanned at or below the    *)
(* level the cursor is at when it is called becomes a keyword.            *)
(* Mutant: the guard lets one frame more than the margin onto the stack. *)
CompileObjectOffByOne(d, c, nodes, thd) ==
  IF thd > StackLimit THEN Reject(c, EmptyNode, nodes)
  ELSE CompileLoop(d, c, c.stack, <<>>, nodes, thd + 1)

(* thd stands for the thread whose stack the calls share: the number of  *)
(* create_object_and_handle_keyword frames already on it.  A fresh cursor *)
(* (the logic and prefixItems elements) runs on the same stack.           *)
CompileObject(d, c, nodes, thd) ==
  IF StackOverrun(thd) THEN Reject(c, EmptyNode, nodes)
  ELSE CompileLoop(d, c, c.stack, <<>>, nodes, thd + 1)

CompileLoop(d, c, level, temp, nodes, thd) ==
  LET x == ScanNext(d, c) IN
  IF x.err \/ x.stack < level
  THEN [Interdependence(temp, nodes) EXCEPT !.c = x]
  ELSE IF x.state # "KEY" THEN CompileLoop(d, x, level, temp, nodes, thd)
  ELSE LET v == ReadValue(d, x) IN
       IF v.err THEN Fail(v, EmptyNode, nodes)
       ELSE LET kw == CreateObject(x.pos - 1, x.key, v.vt)
                h  == HandleKeyword(d, kw, v, nodes, thd)
            IN IF h.err THEN h
               ELSE WithRaised(CompileLoop(d, h.c, level, Append(temp, kw.id),
                                           (kw.id :> h.node) @@ h.nodes, thd),
                               h.raised)

(* Json_schema_annotation::handle_keyword: "example" skips its argument,  *)
(* "default" leaves it unread.                                            *)
AnnotationHandle(d, n, c, nodes) ==
  CASE n.key \in {"title", "description", "$comment", "$schema"} ->
         IF c.vt = "string" THEN Done(c, n, nodes) ELSE Reject(c, n, nodes)
    [] n.key \in {"deprecated", "readOnly", "writeOnly"} ->
         IF c.vt \in {"true", "false"} THEN Done(c, n, nodes) ELSE Reject(c, n, nodes)
    [] n.key = "example" ->
         LET s == SkipLevel(d, c) IN
         CASE s.err -> Fail(s, n, nodes)
           [] c.vt # "array" -> Reject(s, n, nodes)
           [] OTHER -> Done(s, n, nodes)
    [] n.key = "default" -> Done(c, n, nodes)

(* Json_schema_format::handle_keyword reports a non-string and succeeds.  *)
FormatHandle(d, n, c, nodes) == WithRaised(Done(c, n, nodes), c.vt # "string")

(* Json_schema_type::handle_keyword, array form: json_assign_type's       *)
(* result is ignored, so an unknown name in the array is skipped.         *)
RECURSIVE TypeLoop(_, _, _, _, _)
TypeLoop(d, c, level, n, nodes) ==
  LET x == ScanNext(d, c) IN
  IF x.err \/ x.stack < level THEN Done(x, n, nodes)
  ELSE LET v == ReadValue(d, x) IN
       IF v.err THEN Fail(v, n, nodes)
       ELSE TypeLoop(d, v, level,
                     [n EXCEPT !.types = @ \cup (IF v.vt = "string"
                                                 THEN TypeKinds(v.v) ELSE {})],
                     nodes)

TypeHandle(d, n, c, nodes) ==
  CASE c.vt = "array" -> TypeLoop(d, c, c.stack, n, nodes)
    [] KnownType(c) -> Done(c, [n EXCEPT !.types = TypeKinds(c.v)], nodes)
    [] c.vt = "string" -> Fail(c, n, nodes)
    [] OTHER -> Reject(c, n, nodes)

(* Json_schema_maximum / minimum / ex_maximum / ex_minimum::              *)
(* handle_keyword: the argument must be a number.                         *)
NumberHandle(d, n, c, nodes) ==
  IF c.vt = "number" THEN Done(c, [n EXCEPT !.num = c.n], nodes) ELSE Reject(c, n, nodes)

(* Json_schema_multiple_of / max_len / min_len / max_items / min_items /  *)
(* max_prop / min_prop::handle_keyword: a negative bound is reported with *)
(* my_error but the keyword still compiles; the models' bounds are        *)
(* integers, so (int)val is the value.                                    *)
BoundHandle(d, n, c, nodes) ==
  IF c.vt # "number" THEN Reject(c, n, nodes)
  ELSE WithRaised(Done(c, [n EXCEPT !.num = c.n], nodes), c.n < 0)

(* (uint)val of an integral double.                                       *)
ToUint(x) == IF x < 0 THEN UintOfNegative ELSE x

(* Json_schema_max_contains / min_contains::handle_keyword: no check of   *)
(* the sign, value= (uint)val.                                            *)
ContainsBoundHandle(d, n, c, nodes) ==
  IF c.vt = "number" THEN Done(c, [n EXCEPT !.num = ToUint(c.n)], nodes)
  ELSE Reject(c, n, nodes)

(* Json_schema_const::handle_keyword: the type, and the canonical form of *)
(* the argument (a composite one is skipped on the schema's cursor).       *)
ConstHandle(d, n, c, nodes) ==
  LET s == IF ValueScalar(c) THEN c ELSE SkipLevel(d, c) IN
  IF s.err THEN Fail(s, n, nodes)
  ELSE Done(s, [n EXCEPT !.ctype = c.vt, !.val = Canon(d, c)], nodes)

(* Json_schema_enum::handle_keyword: every element sets its scalar flag,  *)
(* if it has one, and its canonical form goes into enum_values in any     *)
(* case; normalising moves the cursor past a composite element.           *)
RECURSIVE EnumLoop(_, _, _, _, _)
EnumLoop(d, c, level, n, nodes) ==
  LET x == ScanNext(d, c) IN
  IF x.err \/ x.stack < level THEN Done(x, n, nodes)
  ELSE LET v == ReadValue(d, x) IN
       IF v.err THEN Fail(v, n, nodes)
       ELSE EnumLoop(d, NormalizedEnd(d, v), level,
                     [n EXCEPT !.flags = @ \cup ({v.vt} \cap {"true", "false", "null"}),
                               !.enumv = @ \cup {Canon(d, v)}],
                     nodes)

EnumHandle(d, n, c, nodes) ==
  IF c.vt = "array" THEN EnumLoop(d, c, c.stack, n, nodes) ELSE Reject(c, n, nodes)

(* Json_schema_pattern::handle_keyword keeps the pattern's text.           *)
PatternHandle(d, n, c, nodes) ==
  IF c.vt = "string" THEN Done(c, [n EXCEPT !.pat = c.v], nodes) ELSE Reject(c, n, nodes)

(* Json_schema_unique_items::handle_keyword: true or false sets is_unique, *)
(* which no validate reads, so the node keeps nothing.                     *)
UniqueItemsHandle(d, n, c, nodes) ==
  IF c.vt \in {"true", "false"} THEN Done(c, n, nodes) ELSE Reject(c, n, nodes)

(* Json_schema_dependent_prop::handle_keyword, the inner loop: the names  *)
(* of one dependents array; anything but a string is an error.            *)
RECURSIVE DependentsLoop(_, _, _, _)
DependentsLoop(d, c, level, names) ==
  LET x == ScanNext(d, c) IN
  IF x.err \/ x.stack < level THEN [err |-> FALSE, c |-> x, names |-> names]
  ELSE LET v == ReadValue(d, x) IN
       IF v.err \/ v.vt # "string" THEN [err |-> TRUE, c |-> v, names |-> names]
       ELSE DependentsLoop(d, v, level, Append(names, v.v))

(* The outer loop: each member of the argument must be an array.          *)
RECURSIVE DependentLoop(_, _, _, _, _)
DependentNext(d, key, r, level, n, nodes) ==
  IF r.err THEN Reject(r.c, n, nodes)
  ELSE DependentLoop(d, r.c, level, [n EXCEPT !.deps = Append(@, <<key, r.names>>)], nodes)
DependentLoop(d, c, level, n, nodes) ==
  LET x == ScanNext(d, c) IN
  IF x.err \/ x.stack < level THEN Done(x, n, nodes)
  ELSE IF x.state # "KEY" THEN DependentLoop(d, x, level, n, nodes)
  ELSE LET v == ReadValue(d, x) IN
       IF v.err THEN Fail(v, n, nodes)
       ELSE IF v.vt # "array" THEN Reject(v, n, nodes)
       ELSE DependentNext(d, x.key, DependentsLoop(d, v, v.stack, <<>>), level, n, nodes)

DependentRequiredHandle(d, n, c, nodes) ==
  IF c.vt = "object" THEN DependentLoop(d, c, c.stack, n, nodes) ELSE Reject(c, n, nodes)

(* Json_schema_required::handle_keyword                                   *)
RECURSIVE RequiredLoop(_, _, _, _, _)
RequiredLoop(d, c, level, n, nodes) ==
  LET x == ScanNext(d, c) IN
  IF x.err \/ x.stack < level THEN Done(x, n, nodes)
  ELSE LET v == ReadValue(d, x) IN
       IF v.err THEN Fail(v, n, nodes)
       ELSE RequiredLoop(d, v, level, [n EXCEPT !.names = Append(@, v.v)], nodes)

RequiredHandle(d, n, c, nodes) ==
  IF c.vt = "array" THEN RequiredLoop(d, c, c.stack, n, nodes) ELSE Reject(c, n, nodes)

(* Json_schema_properties::handle_keyword                                 *)
PropertiesHandle(d, n, c, nodes, thd) ==
  IF c.vt = "object" THEN PropertiesHandleLoop(d, c, c.stack, n, nodes, thd)
  ELSE Reject(c, n, nodes)

(* Json_schema_pattern_properties::handle_keyword: the same walk; each     *)
(* member's key is kept as the pattern (its regex: the PatternMatches     *)
(* oracle) and its value compiled as a schema.                            *)
PatternPropertiesHandle(d, n, c, nodes, thd) ==
  IF c.vt = "object" THEN PropertiesHandleLoop(d, c, c.stack, n, nodes, thd)
  ELSE Reject(c, n, nodes)

(* Json_schema_prefix_items / Json_schema_logic::handle_keyword           *)
SubschemaHandle(d, n, c, nodes, thd) ==
  IF c.vt = "array" THEN SubschemaLoop(d, c, c.stack, n, nodes, thd) ELSE Reject(c, n, nodes)

(* Json_schema_property_names::handle_keyword                             *)
PropertyNamesHandle(d, n, c, nodes, thd) ==
  IF c.vt = "object" THEN OwnedSchema(d, c, n, nodes, thd) ELSE Reject(c, n, nodes)

(* The handle_keyword override of the node's class, c at its argument.    *)
(* The base class (an unknown keyword) reads nothing.                     *)
HandleKeyword(d, n, c, nodes, thd) ==
  CASE n.cls = "base" -> Done(c, n, nodes)
    [] n.cls = "annotation" -> AnnotationHandle(d, n, c, nodes)
    [] n.cls = "format" -> FormatHandle(d, n, c, nodes)
    [] n.cls = "type" -> TypeHandle(d, n, c, nodes)
    [] n.cls = "const" -> ConstHandle(d, n, c, nodes)
    [] n.cls = "enum" -> EnumHandle(d, n, c, nodes)
    [] n.cls \in {"maximum", "minimum", "exclusiveMaximum", "exclusiveMinimum"} ->
         NumberHandle(d, n, c, nodes)
    [] n.cls \in {"multipleOf", "maxLength", "minLength", "maxItems", "minItems",
                  "maxProperties", "minProperties"} -> BoundHandle(d, n, c, nodes)
    [] n.cls \in {"maxContains", "minContains"} -> ContainsBoundHandle(d, n, c, nodes)
    [] n.cls = "pattern" -> PatternHandle(d, n, c, nodes)
    [] n.cls = "uniqueItems" -> UniqueItemsHandle(d, n, c, nodes)
    [] n.cls = "required" -> RequiredHandle(d, n, c, nodes)
    [] n.cls = "dependentRequired" -> DependentRequiredHandle(d, n, c, nodes)
    [] n.cls = "propertyNames" -> PropertyNamesHandle(d, n, c, nodes, thd)
    [] n.cls = "properties" -> PropertiesHandle(d, n, c, nodes, thd)
    [] n.cls = "patternProperties" -> PatternPropertiesHandle(d, n, c, nodes, thd)
    [] n.cls \in {"prefixItems", "allOf", "anyOf", "oneOf"} -> SubschemaHandle(d, n, c, nodes, thd)
    [] n.cls = "contains" -> ContainsHandle(d, n, c, nodes, thd)
    [] n.cls \in {"additionalItems", "unevaluatedItems", "additionalProperties",
                  "unevaluatedProperties", "not", "if", "then", "else"} ->
         OwnedSchema(d, c, n, nodes, thd)
    [] n.cls = "items" -> ItemsHandle(d, n, c, nodes, thd)

(* A keyword owning one sub-schema compiles it from its argument onwards, *)
(* whatever the argument's kind.                                          *)
OwnedSchema(d, c, n, nodes, thd) ==
  LET r == CompileObject(d, c, nodes, thd) IN [r EXCEPT !.node = [n EXCEPT !.list = r.list]]

(* Json_schema_contains::handle_keyword                                   *)
ContainsHandle(d, n, c, nodes, thd) ==
  IF c.vt = "object" THEN OwnedSchema(d, c, n, nodes, thd) ELSE Reject(c, n, nodes)

(* Json_schema_items::handle_keyword.  The array form compiles into a     *)
(* hidden prefixItems node, and the result of its handle_keyword is       *)
(* ignored: a failed element leaves a partial node behind.                *)
ItemsHandle(d, n, c, nodes, thd) ==
  CASE c.vt = "object" -> OwnedSchema(d, c, n, nodes, thd)
    [] c.vt = "array" ->
         LET lp == [EmptyNode EXCEPT !.id = -n.id, !.cls = "prefixItems",
                      !.name = "items", !.key = "items", !.prio = 1]
             h  == HandleKeyword(d, lp, c, nodes, thd)
         IN WithRaised(Done(h.c, [n EXCEPT !.lp = lp.id], (lp.id :> h.node) @@ h.nodes),
                       h.raised)
    [] c.vt \in {"true", "false"} -> Done(c, n, nodes)
    [] OTHER -> Reject(c, n, nodes)

(* Json_schema_properties / Json_schema_pattern_properties::handle_keyword:*)
(* each member's value is compiled as a schema from that value onwards.    *)
PropertiesHandleLoop(d, c, level, n, nodes, thd) ==
  LET x == ScanNext(d, c) IN
  IF x.err \/ x.stack < level THEN Done(x, n, nodes)
  ELSE IF x.state # "KEY" THEN PropertiesHandleLoop(d, x, level, n, nodes, thd)
  ELSE LET v == ReadValue(d, x) IN
       IF v.err THEN Fail(v, n, nodes)
       ELSE LET r == CompileObject(d, v, nodes, thd) IN
            IF r.err THEN WithRaised(Fail(r.c, n, r.nodes), r.raised)
            ELSE WithRaised(PropertiesHandleLoop(d, r.c, level,
                              [n EXCEPT !.props = Append(@, <<x.key, r.list>>)],
                              r.nodes, thd), r.raised)

(* Json_schema_prefix_items / Json_schema_logic::handle_keyword: each     *)
(* element is skipped and its text rescanned by a fresh cursor.           *)
SubschemaLoop(d, c, level, n, nodes, thd) ==
  LET x == ScanNext(d, c) IN
  IF x.err \/ x.stack < level THEN Done(x, n, nodes)
  ELSE LET v == ReadValue(d, x) IN
       IF v.err THEN Fail(v, n, nodes)
       ELSE LET s == SkipLevel(d, v) IN
            IF s.err THEN Fail(s, n, nodes)
            ELSE LET r == CompileObject(d, ScanStart(v.start, s.pos - 1), nodes, thd) IN
                 IF r.err THEN WithRaised(Fail(s, n, r.nodes), r.raised)
                 ELSE WithRaised(SubschemaLoop(d, s, level,
                                   [n EXCEPT !.lists = Append(@, r.list)],
                                   r.nodes, thd), r.raised)

(* Compiling a whole schema text: json_scan_start, then                  *)
(* create_object_and_handle_keyword on the fresh cursor.                 *)
CompileSchema(schema) ==
  LET d == Tokens(schema) IN CompileObject(d, ScanStart(1, Len(d)), <<>>, 0)

=============================================================================
