CONSTANTS
    q1 = q1
    q2 = q2
    k1 = k1
    k2 = k2
    None = None
    plain = plain
    ads = ads
    malware = malware
    NoCopy = NoCopy
    Urls = {plain, ads, malware}
    Plain = {plain}
    Queries = {q1, q2}
    Keys = {k1, k2}
    MaxBits = 1
    Hash <- MCHash
    MinShardEntries = 1
    Limits = {1, 2, 3}
    MaxVersion = 1
    MaxAnswers = 2
SPECIFICATION MCSpec
SYMMETRY QuerySymmetry
INVARIANTS
    OwnVerdict
    EntriesSound
    CopiesSound
