\* spec.md section 8 scenario 5: a boolean sub-schema that is not the last
\* member of its object takes the members after it as its own keywords.
CONSTANTS
  Schemas <- Scenario5Schemas
  Instances <- MCInstances
  PatternMatches <- MCPatternMatches
  MaxRows = 1
  MaxIndex = 6
SPECIFICATION Spec
INVARIANT OutcomeMatchesSpec
\* (uint) of a negative double as aarch64 builds convert it.
CONSTANT UintOfNegative = 0
\* Room for every schema of this run: the guard does not trip.
CONSTANT StackLimit = 4
