SPECIFICATION FairSpec
CONSTANTS
    Requests = {r1, r2}
    Automatic = {r2}
    Launchers = {l1}
    First = First
    Nobody = Nobody
    Builds = {1, 2, 3}
    Build <- MCBuild
    Release <- MCRelease
    Schema <- MCSchema
    Protocol <- MCProtocol
    MaxFault = 1
INVARIANTS ReceiptIsTrue ServingIsReachable
PROPERTY CoordinatorEnds
CHECK_DEADLOCK FALSE
