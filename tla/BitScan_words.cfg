SPECIFICATION Spec
CONSTANT Width = 5
INVARIANTS FirstFit NoOverflow
PROPERTIES ClaimExact Ends
CHECK_DEADLOCK FALSE
