SPECIFICATION FairSpec
CONSTANTS
    a = a
    b = b
    Unusable = Unusable
    Urls <- MCUrls
    Configs <- MCNoRefreshConfigs
    NoFetch = FALSE
    MaxSignals = 1
    RetryCap = 2
PROPERTY KeptChangeApplies
