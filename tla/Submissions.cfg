\* One team that submits twice, two controllers.
SPECIFICATION FairSpec
CONSTANTS
    None = None
    t1 = t1
    a1 = a1
    a2 = a2
    Team = {t1}
    Validator = {v1, v2}
    Archive = {a1, a2}
    Generations <- MCGenerations
    Contents <- MCContents
INVARIANTS
    TypeOK
    ApprovedWasValidated
PROPERTIES
    IsEntries
    ValidationSettles
\* Every submission has its verdict and nobody submits again.
CHECK_DEADLOCK FALSE
