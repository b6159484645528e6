\* propertyNames over objects whose keys and values differ in length.
CONSTANTS
  Schemas <- PropertyNamesSchemas
  Instances <- MCInstances
  PatternMatches <- MCPatternMatches
  MaxRows = 1
  MaxIndex = 3
SPECIFICATION Spec
INVARIANT OutcomeMatchesSpec
\* (uint) of a negative double as aarch64 builds convert it.
CONSTANT UintOfNegative = 0
\* Room for every schema of this run: the guard does not trip.
CONSTANT StackLimit = 4
