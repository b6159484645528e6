\* A fall-back chain inside an allOf sub-schema, row after row.
CONSTANTS
  Schemas <- ClobberSchemas
  Instances <- MCInstances
  PatternMatches <- MCPatternMatches
  MaxRows = 2
  MaxIndex = 6
SPECIFICATION Spec
INVARIANT HistoryIndependent
\* (uint) of a negative double as aarch64 builds convert it.
CONSTANT UintOfNegative = 0
\* Room for every schema of this run: the guard does not trip.
CONSTANT StackLimit = 4
