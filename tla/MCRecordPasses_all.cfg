SPECIFICATION Spec
CONSTANT Conversions <- MCConversions
INVARIANTS TypeOK LinksComeBack OneOfEachStays
CHECK_DEADLOCK FALSE
