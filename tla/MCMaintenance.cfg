SPECIFICATION FairSpec
CONSTANTS
    a = a
    b = b
    Unusable = Unusable
    Urls <- MCUrls
    Configs <- MCConfigs
    NoFetch = FALSE
    MaxSignals = 2
    RetryCap = 1
INVARIANTS RebuildSound
PROPERTIES NoListLost StopAndFollow
