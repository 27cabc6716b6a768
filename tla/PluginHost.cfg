CONSTANTS
    h1 = h1  h2 = h2  s1 = s1  n1 = n1  w1 = w1  None = None
    Host = {h1, h2}
    StaticKind = {s1}
    NativeKind = {n1}
    WorkerKind = {w1}
    Configs <- WorkerFirst
    MaxCallbacks = 1
SPECIFICATION OrderedFairSpec
INVARIANTS
    TypeOK
    RuntimeOutlives
    LeaseExclusion
    
    CallbacksTracked
    HostInv
PROPERTIES
    KindsOfOthersKept
    ActivationsAnswered
