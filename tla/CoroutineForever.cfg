SPECIFICATION Spec
CONSTANTS MaxRecoverNum = 2
CHECK_DEADLOCK FALSE
INVARIANTS AlwaysRecovers
