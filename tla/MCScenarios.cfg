\* The spec.md section 8 schemas the code gets right, over all instances.
CONSTANTS
  Schemas <- ScenarioSchemas
  Instances <- MCInstances
  PatternMatches <- MCPatternMatches
  MaxRows = 2
  MaxIndex = 6
SPECIFICATION Spec
INVARIANT OutcomeMatchesSpec
\* (uint) of a negative double as aarch64 builds convert it.
CONSTANT UintOfNegative = 0
\* Two frames of create_object_and_handle_keyword: the scenarios' schemas
\* are two levels deep, DeepAllOf and DeepProperties three.
CONSTANT StackLimit = 2
