--------------------------- MODULE JsonSchemaValid ---------------------------
(***************************************************************************)
(* The lifecycle of a compiled schema, as the host function               *)
(* JSON_SCHEMA_VALID(schema, instance) drives it (spec.md section 3,       *)
(* "Lifecycle"): the schema is compiled once per statement, then the same  *)
(* compiled nodes validate one instance per row.  The host item is not     *)
(* part of this repository; the code it runs is: compile =                 *)
(* create_object_and_handle_keyword on a fresh cursor over the schema,     *)
(* validate = each root keyword's validate on the instance, in order.      *)
(*                                                                         *)
(* What carries from one row to the next is the store of mutable node      *)
(* fields (alternate_schema, index) that JsonSchemaValidate threads.      *)
(***************************************************************************)
EXTENDS JsonSchemaValidate, JsonSchemaSpec

CONSTANTS
  Schemas,        \* the schema documents a statement may use
  Instances,      \* the instance documents a row may hold
  PatternMatches, \* pattern -> the keys its regular expression matches
  MaxRows,        \* rows validated per statement
  MaxIndex        \* the most elements the rows of a statement can hold

ASSUME MaxRows \in Nat /\ MaxIndex \in Nat

VARIABLES
  phase,   \* "idle", "ready" (compiled), "failed" (compile error), "crashed"
  schema,  \* the schema of the current statement
  nodes,   \* the compiled node table
  root,    \* the root Keyword List
  store,   \* the mutable node fields: alt, idx, crash
  rows,    \* rows validated in this statement
  last     \* the last row: [inst, verdict], or NoRow

vars == <<phase, schema, nodes, root, store, rows, last>>

NoSchema == JNull
NoRow == [inst |-> JNull, verdict |-> "none"]
NoStore == [alt |-> <<>>, idx |-> <<>>, crash |-> FALSE]

Init ==
  /\ phase = "idle"
  /\ schema = NoSchema
  /\ nodes = <<>>
  /\ root = <<>>
  /\ store = NoStore
  /\ rows = 0
  /\ last = NoRow

(* The statement compiles its schema: create_object_and_handle_keyword on  *)
(* a fresh cursor; a failure, or an error raised without failing, makes    *)
(* the statement fail.                                                     *)
Compile(s) ==
  /\ phase = "idle"
  /\ LET r == CompileSchema(s) IN
       /\ phase' = IF r.err \/ r.raised THEN "failed" ELSE "ready"
       /\ schema' = s
       /\ nodes' = r.nodes
       /\ root' = r.list
       /\ store' = InitStore(r.nodes)
  /\ rows' = 0
  /\ last' = NoRow

(* One row: the compiled schema validates instance i with the store the    *)
(* previous rows left.  A NULL call kills the server process.             *)
ValidateRow(i) ==
  /\ phase = "ready"
  /\ rows < MaxRows
  /\ LET r == ValidateInstance(nodes, root, PatternMatches, i, store) IN
       /\ store' = r.st
       /\ last' = [inst |-> i, verdict |-> Verdict(r)]
       /\ phase' = IF r.st.crash THEN "crashed" ELSE "ready"
  /\ rows' = rows + 1
  /\ UNCHANGED <<schema, nodes, root>>

(* The statement ends (or the crashed server restarts): the compiled       *)
(* schema is freed with the statement's memory root.                      *)
EndStatement ==
  /\ phase # "idle"
  /\ phase' = "idle"
  /\ schema' = NoSchema
  /\ nodes' = <<>>
  /\ root' = <<>>
  /\ store' = NoStore
  /\ rows' = 0
  /\ last' = NoRow

Next ==
  \/ \E s \in Schemas : Compile(s)
  \/ \E i \in Instances : ValidateRow(i)
  \/ EndStatement

Spec == Init /\ [][Next]_vars

-----------------------------------------------------------------------------
(* The verdict a freshly compiled copy of the schema gives instance i.    *)
FreshVerdict(i) ==
  Verdict(ValidateInstance(nodes, root, PatternMatches, i, InitStore(nodes)))

(* The node fields validate writes stay what the code can hold: every    *)
(* alternate_schema names a keyword of the compiled tree or is NULL, and  *)
(* the index prefixItems bumps (never reset within a statement) grows by  *)
(* at most one per array element of the statement's rows (MaxIndex).    *)
TypeOK ==
  /\ phase \in {"idle", "ready", "failed", "crashed"}
  /\ schema \in Schemas \cup {NoSchema}
  /\ last.verdict \in {"none", "valid", "invalid", "crash"}
  /\ DOMAIN store.alt = DOMAIN nodes /\ DOMAIN store.idx = DOMAIN nodes
  /\ \A n \in DOMAIN nodes : store.alt[n] \in DOMAIN nodes \cup {NoNode}
                             /\ store.idx[n] \in 0..MaxIndex
  /\ \A n \in Range(root) : n \in DOMAIN nodes

(* Spec sections 6 and 8: the statement fails to compile exactly when the *)
(* schema is malformed, and every row gets the verdict the schema's       *)
(* meaning gives it.  Checked against compile, interdependence wiring,    *)
(* the fall-back chain and every validate method the schema reaches.      *)
OutcomeMatchesSpec ==
  /\ phase \in {"ready", "failed"} =>
       ((phase = "failed") <=> SpecSchemaError(schema))
  /\ last # NoRow => last.verdict = SpecOutcome(schema, last.inst, PatternMatches)

(* Spec sections 3 and 8.2: the compiled schema is immutable after the    *)
(* interdependence pass, so a row's verdict does not depend on the rows   *)
(* validated before it: it is the verdict of a freshly compiled schema.   *)
(* At stake: the writes validate makes to alternate_schema (combinators,  *)
(* items) and to index (prefixItems), which outlive the call.             *)
HistoryIndependent ==
  last # NoRow => last.verdict = FreshVerdict(last.inst)

Gr == INSTANCE Graphs

(* The fall-back graph: an edge from each node to its alternate_schema.   *)
FallBackGraph ==
  [node |-> DOMAIN nodes,
   edge |-> {<<n, store.alt[n]>> : n \in {m \in DOMAIN nodes : store.alt[m] # NoNode}}]

(* fall_back_on_alternate_schema recurses into the alternate's            *)
(* validate_as_alternate, which falls back in turn: the recursion ends    *)
(* only if no chain of alternate_schema pointers comes back to where it   *)
(* started.  The pointers are wired by add_schema_interdependence and     *)
(* rewritten on every row by Json_schema_logic (which lends its own       *)
(* alternate to children and may break out before taking it back) and    *)
(* by Json_schema_not; after every row the graph must still be acyclic.  *)
FallBackTerminates == Gr!IsDag(FallBackGraph)

(* Validation never calls through a NULL keyword pointer: the server      *)
(* process survives every row (Json_schema_conditional::validate).        *)
NoCrash == phase # "crashed"

=============================================================================
