------------------------------ MODULE JsonLib ------------------------------
(***************************************************************************)
(* The streaming JSON tokeniser the schema code drives (MariaDB json_lib,  *)
(* spec.md section 4.1).  Its source is not part of this repository, so    *)
(* this module is written from the contract the spec pins and from the     *)
(* way json_schema.cc calls it:                                            *)
(*                                                                         *)
(*   json_scan_start, json_scan_next, json_read_value, json_skip_level,    *)
(*   json_value_scalar, and the copy of a json_engine_t as a snapshot.     *)
(*                                                                         *)
(* A document is a sequence of tokens; a byte range of the text is a      *)
(* range of token indices.  Punctuation (',' and ':') carries no          *)
(* information the callers look at, so it has no token.  A key token      *)
(* stands for the whole key name: json_read_keyname_chr is always run to  *)
(* the end of the name right after json_scan_next returns JST_KEY.        *)
(***************************************************************************)
EXTENDS Integers, Sequences, SequencesExt

(***************************************************************************)
(* JSON values, written structurally so that models can state documents.  *)
(* vt is json_value_types: the kind json_read_value reports.               *)
(***************************************************************************)
JObj(ms)  == [vt |-> "object", m |-> ms]   \* ms: << <<key, value>>, ... >>
JArr(es)  == [vt |-> "array", e |-> es]
(* A scalar keeps its text in v and, for a number, its value in n (the    *)
(* strntod the keywords apply to the number's text).                       *)
JStr(s)   == [vt |-> "string", v |-> s, n |-> 0]
JNum(k)   == [vt |-> "number", v |-> "number", n |-> k]
JTrue     == [vt |-> "true", v |-> "true", n |-> 0]
JFalse    == [vt |-> "false", v |-> "false", n |-> 0]
JNull     == [vt |-> "null", v |-> "null", n |-> 0]

ScalarKinds == {"string", "number", "true", "false", "null"}
ValueKinds  == {"object", "array"} \cup ScalarKinds

(* The numeric codes of enum json_value_types (include/json_lib.h).        *)
ValueTypeCode == [object |-> 1, array |-> 2, string |-> 3, number |-> 4,
                  true |-> 5, false |-> 6, null |-> 7]

(* The token stream of a JSON text.                                        *)
RECURSIVE Tokens(_)
Tokens(x) ==
  CASE x.vt = "object" ->
         <<[t |-> "{"]>>
         \o FlattenSeq([i \in DOMAIN x.m |->
                          <<[t |-> "key", k |-> x.m[i][1]]>> \o Tokens(x.m[i][2])])
         \o <<[t |-> "}"]>>
    [] x.vt = "array" ->
         <<[t |-> "["]>> \o FlattenSeq([i \in DOMAIN x.e |-> Tokens(x.e[i])])
                         \o <<[t |-> "]"]>>
    [] OTHER -> <<[t |-> "val", vt |-> x.vt, v |-> x.v, n |-> x.n]>>

(***************************************************************************)
(* A cursor is a json_engine_t: copying the record is taking a snapshot.   *)
(*   pos    index of the next unread token        (s.c_str)               *)
(*   end    last index of the scanned range        (s.str_end)            *)
(*   stack  nesting depth                          (stack_p)              *)
(*   state  JST_* state after the last call; "VALUE" and "KEY" mean a      *)
(*          value is next to be read                                      *)
(*   vt,v,n value_type and scalar of the value last read                  *)
(*   start  index of the value last read           (value)                *)
(*   key    the key name last scanned                                     *)
(*   err    the last call returned non-zero                               *)
(***************************************************************************)
ScanStart(b, e) ==                                   \* json_scan_start
  [pos |-> b, end |-> e, stack |-> 0, state |-> "VALUE", vt |-> "none",
   v |-> "none", n |-> 0, start |-> b, key |-> "none", err |-> FALSE]

ValuePending(c) == c.state \in {"VALUE", "KEY"}

ValueScalar(c) == c.vt \notin {"object", "array"}    \* json_value_scalar

(* json_read_value: read the value that is next.  An object or array      *)
(* value is entered: stack_p grows.  A scalar leaves the cursor in the    *)
(* continuation state of its container.                                   *)
ReadValue(d, c) ==
  IF ~ValuePending(c) \/ c.pos > c.end \/ d[c.pos].t \in {"}", "]", "key"}
  THEN [c EXCEPT !.err = TRUE]
  ELSE LET t == d[c.pos]
           entered(kind, st) == [c EXCEPT !.pos = @ + 1, !.stack = @ + 1,
                                   !.state = st, !.vt = kind, !.start = c.pos,
                                   !.err = FALSE]
       IN CASE t.t = "{" -> entered("object", "OBJ_START")
            [] t.t = "[" -> entered("array", "ARRAY_START")
            [] t.t = "val" -> [c EXCEPT !.pos = @ + 1, !.state = "CONT",
                                 !.vt = t.vt, !.v = t.v, !.n = t.n, !.start = c.pos,
                                 !.err = FALSE]

(* json_scan_next: the next structural event.  A value that is next is    *)
(* read through; a key is scanned (JST_KEY); a closing bracket leaves a   *)
(* level (JST_OBJ_END / JST_ARRAY_END); an array element that follows     *)
(* puts the cursor in JST_VALUE.  Past the end of the range it fails.     *)
ScanNext(d, c) ==
  IF ValuePending(c) THEN ReadValue(d, c)
  ELSE IF c.pos > c.end THEN [c EXCEPT !.err = TRUE]
  ELSE LET t == d[c.pos]
           left(st) == [c EXCEPT !.pos = @ + 1, !.stack = @ - 1, !.state = st,
                          !.err = FALSE]
       IN CASE t.t = "key" -> [c EXCEPT !.pos = @ + 1, !.state = "KEY",
                                 !.key = t.k, !.err = FALSE]
            [] t.t = "}" -> left("OBJ_END")
            [] t.t = "]" -> left("ARRAY_END")
            [] OTHER -> [c EXCEPT !.state = "VALUE", !.err = FALSE]

(* json_skip_level = json_skip_to_level(je, je->stack_p): scan until the  *)
(* level the cursor is at is left.  After a composite value was read this *)
(* skips that value; after a scalar it skips the rest of the container.   *)
RECURSIVE SkipToLevel(_, _, _)
SkipToLevel(d, c, level) ==
  IF c.stack < level THEN c
  ELSE LET n == ScanNext(d, c) IN IF n.err THEN n ELSE SkipToLevel(d, n, level)

SkipLevel(d, c) == SkipToLevel(d, c, c.stack)

(* json_get_normalized_string (json_schema_helper.cc, json_normalize):   *)
(* the canonical text of the value a cursor has just read.  Object keys   *)
(* are sorted and duplicates merge, so an object's form is the set of its *)
(* members' forms; an array keeps its order; a number is its value.  A    *)
(* string at the top is its raw bytes without quotes, the same text as a  *)
(* literal true/false/null of that spelling; inside a composite it stays  *)
(* quoted.  (The model's strings never spell a canonical number.)        *)
RECURSIVE CanonFrom(_, _), CanonMembers(_, _, _), CanonElems(_, _, _)
CanonFrom(d, p) ==
  CASE d[p].t = "{" -> CanonMembers(d, p + 1, {})
    [] d[p].t = "[" -> CanonElems(d, p + 1, <<>>)
    [] d[p].vt = "number" -> [form |-> <<"number", d[p].n>>, next |-> p + 1]
    [] d[p].vt = "string" -> [form |-> <<"string", d[p].v>>, next |-> p + 1]
    [] OTHER -> [form |-> <<"text", d[p].v>>, next |-> p + 1]
CanonMembers(d, p, acc) ==
  IF d[p].t = "}" THEN [form |-> <<"object", acc>>, next |-> p + 1]
  ELSE LET r == CanonFrom(d, p + 1)
       IN CanonMembers(d, r.next, acc \cup {<<d[p].k, r.form>>})
CanonElems(d, p, acc) ==
  IF d[p].t = "]" THEN [form |-> <<"array", acc>>, next |-> p + 1]
  ELSE LET r == CanonFrom(d, p) IN CanonElems(d, r.next, Append(acc, r.form))

Canon(d, c) ==
  IF c.vt = "string" THEN <<"text", c.v>> ELSE CanonFrom(d, c.start).form

(* json_get_normalized_string also moves the cursor it is given past a    *)
(* composite value (json_skip_level); a scalar leaves it where it is.     *)
NormalizedEnd(d, c) == IF ValueScalar(c) THEN c ELSE SkipLevel(d, c)

(* value_len of a string value: the bytes of its raw text.                *)
ValueLen(c) == Len(c.v)

(* The cursor json_scan_start + json_read_value give for a whole document. *)
RootCursor(d) == ReadValue(d, ScanStart(1, Len(d)))

=============================================================================
