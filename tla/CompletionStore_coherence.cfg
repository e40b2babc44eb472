CONSTANTS
    t1 = t1  t2 = t2  a = a  b = b  k1 = k1  k2 = k2  s1 = s1  s2 = s2
    Tabs = {t1, t2}
    Slots = {a}
    Steps = {s1, s2}
    Roster <- FullRoster
    ContentKeys = {k1}
    KeyOf <- OneKey
    Prefix <- SelfPrefix
    Preview = {}
    Mounted = {}
    Counted = {}
    OriginWipes = FALSE
    Reasons = {"manual", "none"}
    SlowReads = TRUE
    MaxEvents = 1
    MaxStale = 1
SPECIFICATION Spec
INVARIANTS TypeOK CacheMatchesStorage
SYMMETRY Symmetric
