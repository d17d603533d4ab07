\* Two runs of deploy and one of undeploy on the same name.
SPECIFICATION Spec
CONSTANTS
    Deployers = {d1, d2}
    Undeployers = {u1}
INVARIANTS
    DeployTypeOK
    RemovedMeansGone
    DeployedMeansThere
PROPERTIES
    CaughtEnds
\* Every command runs once and ends.
CHECK_DEADLOCK FALSE
