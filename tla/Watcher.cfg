SPECIFICATION FairSpec
CONSTANTS
    r1 = r1
    Repos = {r1}
    Reviews = {v1}
    Targets <- MCOneRepo
    Roots = {k1, k2}
    NoRoot = NoRoot
    Trees = {t1, t2}
    NoTree = NoTree
    FirstTree = t1
    Backlog = 2
    MaxEdit = 1
    MaxMember = 2
    MaxEvent = 1
    MaxFailure = 1
INVARIANT QuietIsCurrent
PROPERTY EventuallyCurrent
CHECK_DEADLOCK FALSE
