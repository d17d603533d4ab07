\* A single deploy; whatever is in the cluster is its own.
SPECIFICATION Spec
CONSTANTS
    Deployers = {d1}
    Undeployers = {u1}
INVARIANTS
    InterruptCleansUp
CHECK_DEADLOCK FALSE
