SPECIFICATION Spec
CONSTANT Table <- MCTable
INVARIANT RoundTrip
CHECK_DEADLOCK FALSE
