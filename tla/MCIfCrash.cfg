\* spec.md section 8 scenario 6: validating a schema with "if".
CONSTANTS
  Schemas <- Scenario6Schemas
  Instances <- MCInstances
  PatternMatches <- MCPatternMatches
  MaxRows = 1
  MaxIndex = 6
SPECIFICATION Spec
INVARIANT NoCrash
\* (uint) of a negative double as aarch64 builds convert it.
CONSTANT UintOfNegative = 0
\* Room for every schema of this run: the guard does not trip.
CONSTANT StackLimit = 4
