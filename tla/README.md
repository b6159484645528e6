# TLA+ model of the MariaDB JSON Schema validator

This directory models `sql/json_schema.cc` and `sql/json_schema.h`, the JSON Schema
(draft 2020) validator behind `JSON_SCHEMA_VALID(schema, json)`. It checks the
validator with TLC against what `spec.md` says a schema means.

## The system

The code has three parts, used in sequence by the host function, which is not
in this repository.

1. **Compile** (`create_object_and_handle_keyword`, `create_object`, each class's
   `handle_keyword`, `add_schema_interdependence`).
   - The compiler walks the schema text with a `json_engine_t` cursor.
   - `create_object` makes one keyword object per key of a schema object. Its
     class, `keyword_name`, `priority` and `allowed` flag come from the key and
     the kind of its argument.
   - `handle_keyword` reads the argument. Sub-schemas recurse into
     `create_object_and_handle_keyword`.
   - When an object's keys are exhausted, `add_schema_interdependence` turns
     them into the object's **Keyword List**:
     - plain keywords come first, in key order;
     - then `if`;
     - then the head of the array-applicator group;
     - then the head of the object-applicator group.
   - Inside each group, sorted by priority, every keyword's `alternate_schema`
     points to the next one. This is the **fall-back chain**: a member or element
     the head does not handle goes down the chain.
   - The same pass also wires `contains` to `minContains`/`maxContains` and
     `if` to `then`/`else`.
2. **Validate** (each class's `validate` and `validate_as_alternate`,
   `fall_back_on_alternate_schema`, `validate_single_index`).
   - Each keyword of a list is validated on a copy of the instance cursor. The
     first failure fails the list.
   - The applicators scan members or elements and go down the chain with
     `fall_back_on_alternate_schema`.
   - Validation **writes to the compiled schema**:
     - `prefixItems` increments `index` on its alternate;
     - `allOf`/`anyOf`/`oneOf`/`not` write `alternate_schema` of the keywords of
       their sub-schemas.
3. **Host** (`Item_func_json_schema_valid`, outside `src/`). It compiles the
   schema once per statement, validates one instance per row with the same
   compiled objects, and frees them at the end of the statement (spec.md §3).

The tokeniser `json_lib` and the regular-expression engine are also outside this
repository. `src/sql/item_period.h` is an unrelated stub.

### Inventory

| part | state | operations | interactions / hard behaviour |
|---|---|---|---|
| tokeniser (json_lib) | cursor: position, depth, state, last value | scan_start, scan_next, read_value, skip_level, value_scalar | every compile and validate step; a scalar leaves the cursor at its container's level |
| factory | none | create_object | `allowed` from the argument kind, compared with the macro `TRUE` (=1 = object) for three keywords |
| compiler | keyword objects and lists | create_object_and_handle_keyword, handle_keyword × class | a scalar argument of an owned-schema keyword absorbs the following sibling keys; `check_stack_overrun` bounds the nesting of sub-schemas; `my_error` without failing (negative bounds, `format`); `(uint)` of a negative `maxContains` |
| interdependence | alternate_schema, dependents | add_schema_interdependence | sort by priority, pop of the array group, `else` never recognised, `if` never stored |
| object applicators | none beyond the chain | validate, validate_as_alternate | chain properties → patternProperties → additionalProperties → unevaluatedProperties; `match_found` sticky across members |
| array applicators | `index` of the alternate | validate, validate_as_alternate, validate_single_index | `index` bumped per element, never reset, read as a position |
| combinators | `alternate_schema` of children | Json_schema_logic/not::validate | lends and clears children's alternates; the flag is per sub-schema; break before the reset |
| conditional | if_cond/then_cond/else_cond | validate | `if_cond` never assigned: NULL call |
| scalar and counting keywords | none (hashes are per call) | validate | canonical forms for `const`/`enum`/`uniqueItems`; the `uniqueItems` flags reset per element; `maxProperties` scans to the end of the document; `propertyNames` validates values |
| host | compiled schema per statement | compile, validate row, end statement | the mutable fields survive from row to row |

Nothing runs concurrently: a compiled schema belongs to one statement of one
connection. The hard behaviours are therefore sequential:
- the order of keys and members;
- state left by earlier rows;
- steps that break out before a reset;
- numeric edges of the index counter;
- a crash through NULL.

## Modules

- **`JsonLib`** (`spec_modelled`). A JSON value becomes a token sequence
  (`Tokens`), and a `json_engine_t` is a record cursor over it. Copying the
  record is the code's `curr_je= *je` snapshot. `ReadValue`, `ScanNext` and
  `SkipToLevel` follow the contract of spec.md §4.1, including the two facts the
  schema code relies on:
  - after a scalar the cursor stays at the container's level;
  - `json_skip_level` after a scalar skips the rest of the container.
  - `Canon` is the canonical form `json_get_normalized_string` produces (spec.md
    §3). A string at the top is its raw bytes, the same text as the literal
    `true`/`false`/`null` of that spelling. Inside a composite, a string stays
    quoted. `NormalizedEnd` is the cursor it leaves: past a composite value.
- **`StackGuard`** (`spec_modelled`: `check_stack_overrun` lives in
  `sql_parse.cc`). It declares `StackLimit`, the most frames of
  `create_object_and_handle_keyword` the thread's stack holds.
  `StackOverrun(frames)` is the check made on entry to a frame.
  - Stack use grows with each nested call, so a byte margin trips at a fixed
    nesting. spec.md §5 allows the substitution: "an explicit depth counter
    with the same bound".
- **`JsonSchemaCompile`**.
  - A compiled keyword is a record in a node table, keyed by the index of its key
    token. A Keyword List is a sequence of node ids.
  - There is one operator per C++ function: `CreateObject`, `CompileLoop`, and
    one per `handle_keyword` override (`TypeHandle`, `ItemsHandle`,
    `PropertiesHandleLoop`, `SubschemaLoop`, ...), plus `Interdependence`.
  - The recursive operators take `thd`, as the C++ functions do. Here it is
    the number of `create_object_and_handle_keyword` frames already on the
    thread's stack. `CompileObject` raises and fails when `StackOverrun(thd)`.
    - A logic or `prefixItems` element is compiled on a fresh cursor, whose
      own depth restarts at 0. It still runs on the same stack, so the depth
      is carried in `thd`, not read from the cursor.
  - `PatternPropertiesHandle` and `PropertiesHandle` share one member loop,
    because the C++ functions walk the members the same way.
  - Results carry the bool the C++ returns (`err`), whether `my_error` was
    raised (`raised`), and the cursor afterwards.
    - `Reject` is "my_error, then return true". `Fail` is a silent `return true`.
    - An error can be raised without failing: `format`, and a negative bound
      of `multipleOf`, the lengths, the item counts and the property counts.
    - The host fails the statement on either. So the result of the array-form
      `items` element, which the code ignores, still fails it when raised.
  - The constant `UintOfNegative` is what the build's `(uint)` conversion gives
    a negative double (`maxContains`/`minContains`). That conversion is undefined
    behaviour: aarch64 gives 0 and x86-64 gives 4294967295 for -1. The runs use
    0. A value above every count stands for the x86-64 outcome.
- **`JsonSchemaValidate`**.
  - There is one operator per `validate` / `validate_as_alternate` override, plus
    `FallBack` and `SingleIndex`.
  - The node fields the C++ writes during validation are a store
    `st = [alt, idx, crash]`. Every operator threads it and returns `[f, st]`.
  - `X` is the read-only context: node table, instance tokens, and the regex
    oracle `PatternMatches` (pattern → keys it matches).
  - Each C++ loop is split at its recursive call. The loop operator
    (`PropertiesLoop`, `LogicLoop`, ...) makes the call. A step operator
    (`PropertiesNext`, `LogicNext`, ...) takes the result as a parameter and runs
    the rest of the loop body. So every recursive result is named once, and
    TLC's coverage pass does not expand the same call tree at every use.
  - The counting keywords each have a small pure loop (`ElementCount`,
    `KeyCountToEnd`, `UniqueLoop`) that returns a number or a verdict.
    `KeyCountToEnd` has no level test, because the C++ loop tests the caller's
    cursor, which never moves. `PropertyNamesValidate` is the
    `unevaluatedProperties` loop after an object check, as in the code.
- **`JsonSchemaSpec`**. The reference: what spec.md says a schema means, written
  recursively over JSON values with no cursor (`SpecSchemaError`, `SpecValid`,
  `SpecOutcome`).
- **`JsonSchemaSpec`** also gives the depth of a schema (`SchemaDepth`): one
  for the schema itself, plus the depth of its deepest sub-schema, `true` and
  `false` included. `SpecSchemaError` is `SpecMalformed` or a depth above
  `StackLimit` (§5, §7 stack-overrun).
- **`JsonSchemaValid`**. The host as a state machine.
  - Variables: `phase`, `schema`, `nodes`, `root`, `store`, `rows`, `last`.
  - `Compile(s)` compiles a schema of `Schemas`.
  - `ValidateRow(i)` validates instance `i` of `Instances` with the store earlier
    rows left. A NULL call moves to `crashed`.
  - `EndStatement` frees everything (and is the restart after a crash).
  - Properties: `TypeOK`, `OutcomeMatchesSpec`,
    `HistoryIndependent`, `FallBackTerminates`, `NoCrash`.
  - `FallBackGraph` is the graph of `alternate_schema` pointers. It is built over
    the community `Graphs` module, through the named instance `Gr`.
- **`MCJsonSchemaValid`**. It holds:
  - the schemas: the spec.md §8 scenarios, one schema per scalar or counting
    keyword group, and schemas around each suspect code path;
  - about 30 instances of every kind;
  - the pattern oracle `[^x ↦ {"x1"}, ^a ↦ {"a", "ab", "abc"}]`.

## Properties

- **`TypeOK`**. The phase, schema and verdict are in range. Every alternate
  names a node of the table or is NULL. Each index counter stays at most
  `MaxIndex`, the number of elements the rows of a statement can hold:
  prefixItems bumps it once per element and nothing resets it. It is checked on
  the history run, whose `PrefixThenItems` gives prefixItems an alternate to
  bump.
- **`OutcomeMatchesSpec`**. A statement fails to compile exactly when the schema
  is malformed, and each row's verdict is the verdict of `SpecOutcome`. This
  checks together the factory, every `handle_keyword`, the wiring of the
  interdependence pass, the fall-back chain and every `validate` it reaches.
- **`HistoryIndependent`**. A row's verdict equals that of a freshly compiled
  schema (spec.md §3: the compiled schema is immutable after interdependence).
  Its counterexamples need two rows in a particular order.
- **`FallBackTerminates`**. The `alternate_schema` pointers form no cycle, after
  compilation and after every row. `fall_back_on_alternate_schema` calls the
  alternate's `validate_as_alternate`, which falls back in turn. It ends only
  if no chain of pointers comes back on itself. The pointers are wired by
  `add_schema_interdependence` and rewritten on every row:
  - combinators lend their own alternate and take it back;
  - `not` sets its children's alternates to NULL.

  This is how the model states termination. Every recursive operator is
  bounded, so a cycle would otherwise show up only as an operator that TLC
  stops, never as a counterexample.
- **`NoCrash`**. No row calls through a NULL keyword.

## Runs (`PROJECT.json` → `runs`)

| run | cfg | expect | shows |
|---|---|---|---|
| scenarios | MCScenarios | pass | §8 scenarios 1, 3, 4 (and 4 with keys reversed), the combinators, const, enum, exclusive bounds, multipleOf, string facets, item and property counts, uniqueItems, dependentRequired, negative max/minContains (aarch64), seven malformed schemas and two schemas one level deeper than the stack guard (`StackLimit` 2) agree with the spec; 2 rows |
| history | MCHistory | pass | chains under allOf and not, prefixItems + items schema: writes during validation do not change later verdicts, the alternates stay acyclic and the index counters in bounds, 3 rows |
| scenario5_absorb | MCScenario5 | violation | `unevaluatedProperties: false` absorbs the following `properties` |
| if_crash | MCIfCrash | violation | any `if` crashes (§8 scenario 6) |
| stale_index | MCStaleIndex | violation | prefixItems' `index++` is never reset: second row judged against the wrong `items` entry |
| combinator_clobber | MCClobber | violation | allOf erases a sub-schema's properties → additionalProperties chain after one passing row |
| additional_true | MCAdditionalTrue | violation | `additionalProperties: true` rejects extra members (`allowed` vs macro `TRUE`) |
| contains_self | MCContains | violation | `contains` validates the array itself, not its elements |
| if_else | MCIfElse | violation | `else` is never recognised; if + else is a compile error |
| pattern_sticky | MCPatternSticky | violation | `match_found` sticks across members: later unmatched members skip additionalProperties |
| required_nested | MCRequiredNested | violation | `required` is satisfied by a nested object's key |
| property_names | MCPropertyNames | violation | `propertyNames` checks member values, not keys: `{"maxLength": 1}` accepts `{"x1": "a"}` |

Each violation has a finding in `PROJECT.json` that says what the code does and
what spec.md says. Each property of a passing run has a mutant, a plausible bug
that TLC catches:
- oneOf counted like anyOf (`CountFails`);
- resetting every sub-schema keyword's alternate (`SubschemaRun`);
- the prefixItems `index++` hoisted above its branch, so each element bumps it
  twice (`PrefixLoop`), for `TypeOK`;
- a stack guard that admits one frame too many (`CompileObject`);
- an `elem()` counter that starts at 0, so a chain node is its own alternate
  (`Successor`), for `FallBackTerminates`.

### Bounds

- **`MaxRows`**: 2 rows for outcomes, 3 for history. A history bug needs one
  row to leave state and a second to read it; the third row lets a stale value
  be read twice.
- **`MaxIndex`**: `MaxRows` × the longest array (3).
- **Instances**: depth ≤ 2, at most 3 members or elements. Strings of 1 to 3
  bytes and the numbers 1, 2 and 11 sit on both sides of every bound the
  schemas set. The instances cover:
  - named, pattern-matched and other members, in both orders;
  - nested objects carrying names of the parent's keywords;
  - arrays shorter than, as long as and longer than each tuple.
- **Schemas**: one object level of applicators with sub-schemas one level deep.
  Every bug found needs no more.
- **`StackLimit`**. The scenarios run uses 2, the depth of its deepest
  well-formed schemas. `DeepAllOf` and `DeepProperties` are one level deeper,
  so both sides of the guard occur:
  - `DeepAllOf` goes through a logic element, compiled on a fresh cursor;
  - `DeepProperties` goes through a property's sub-schema.

  Every other run uses 4. Its schemas fit, so its results do not depend on the
  guard. The real guard trips after hundreds of levels, but the comparison is
  the same at every limit.
- **Left out of the scenarios run on purpose**, because the code disagrees with
  the spec there. Each case is a hazard in `PROJECT.json`. Each was checked
  during modelling: adding the case makes `OutcomeMatchesSpec` fail.
  - arrays with two equal booleans or nulls (`uniqueItems` resets its flags per
    element);
  - strings spelling `true`, `false` or `null` (`enum` accepts them for the
    literal);
  - `maxProperties`/`minProperties` below the root (the count runs on to the
    end of the document);
  - a `dependentRequired` trigger inside a nested object;
  - the x86-64 value of `UintOfNegative`.

There is no fairness and no liveness property, because the code gives
nothing to be fair to:
- Compilation and validation are synchronous calls on one thread.
  - The model makes each call one atomic step.
  - Each recursive operator consumes a token, so every call terminates. TLC
    evaluates the operators to the end on every schema and instance it meets.
- Nothing waits for anything else. There is no lock, queue, message or retry.
- Whether the SQL layer runs another row or ends the statement is up to the
  executor and the user. That code is not in this repository, and neither is
  bound to make progress.
- A weak-fairness assumption on `ValidateRow` or `EndStatement` would only
  restate that choice as a promise the code does not make.

## Not modelled, and why

- **Meanings spec.md does not give.** The code's behaviour is modelled, but no
  property judges it:
  - `multipleOf: 0` compiles and fails every number;
  - a negative length, count or `multipleOf` raises an error;
  - `uniqueItems: false` still checks uniqueness (`is_unique` is never read);
  - the key `propertyName` is taken as `propertyNames`.
- **`json_assign_type`** is outside the repository. `TypeKinds` follows its
  contract. An unknown name inside a type array is skipped without an error,
  as the code ignores the result.
- **`Regex_processor_pcre`**: an oracle constant. Regex compile or exec errors
  are not modelled.
- **Allocation failures and the `malloc`s of `required`.** The allocator never
  fails in the model. The code does not always turn a failure into an error.
  Both cases are hazards in `PROJECT.json`:
  - `create_object`'s NULL keyword is dereferenced (cc:2863);
  - `properties` and `patternProperties` drop a member silently (cc:1894,
    cc:2061).
- **Memory use.** The model has no heap. Two costs are left out:
  - the list nodes that `uniqueItems`, `required` and `dependentRequired` push
    onto the statement's mem_root on every row (cc:1165). They are freed only at
    the end of the statement.
  - the unchecked `malloc` of `required` and `dependentRequired` (cc:1388,
    cc:1483), and its leak when `my_hash_insert` fails.

  Both are hazards with no property.
- **The validator's stack.** Validation nests at least as deep as compilation,
  with a `json_engine_t` copy in most frames and no `check_stack_overrun`.
  spec.md §7 names a `validate/stack-overrun` that the code never raises.
  Frame sizes are bytes, which the frame count does not represent.
- **`item_period.h`**: nothing in it interacts with the schema code.

## Plan for later work

1. Nested schemas for the counting keywords, in a run of their own.
   Allocation failure as a fault constant threaded with `thd`; it needs a run
   slot for the crash it shows.
2. A refinement worth its run. A mapping onto an abstract statement whose rows
   get the spec's verdicts only restates `OutcomeMatchesSpec`, and was dropped
   for that reason. An abstract view of the node fields would need a component
   whose steps the code interleaves, and this code has none.
3. A key-order property: permuting a schema object's keys does not change any
   verdict. It would catch absorption and `match_found` in one statement.
4. Runs over array-form `items` with a malformed element (the ignored
   `handle_keyword` result) and over a lone `additionalItems` (the popped group).
