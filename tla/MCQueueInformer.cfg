CONSTANTS
    k1 = k1
    w1 = w1
    w2 = w2
    Keys = {k1}
    Workers = {w1, w2}
    KeyKinds = {"event"}
    MaxVersion = 2
    MaxRequeues = 1
    MaxErrors = 2
SPECIFICATION FairSpec
INVARIANT TypeOK
INVARIANT NoLostUpdate
PROPERTY Delivers
PROPERTY EventuallySynced
PROPERTY EventuallyCleaned
 
CHECK_DEADLOCK FALSE
