\* Rows of one statement over schemas whose validation writes node fields.
CONSTANTS
  Schemas <- HistorySchemas
  Instances <- MCInstances
  PatternMatches <- MCPatternMatches
  MaxRows = 3
  MaxIndex = 9
SPECIFICATION Spec
INVARIANTS
  TypeOK
  HistoryIndependent
  FallBackTerminates
\* (uint) of a negative double as aarch64 builds convert it.
CONSTANT UintOfNegative = 0
\* Room for every schema of this run: the guard does not trip.
CONSTANT StackLimit = 4
