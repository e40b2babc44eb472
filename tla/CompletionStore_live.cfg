CONSTANTS
    t1 = t1  t2 = t2  a = a  b = b  k1 = k1  k2 = k2  s1 = s1  s2 = s2
    Tabs = {t1}
    Slots = {a, b}
    Steps = {s1}
    Roster <- FullRoster
    ContentKeys = {k1, k2}
    KeyOf <- KeyPerSlot
    Prefix <- SelfPrefix
    Preview = {k2}
    Mounted = {a}
    Counted = {}
    OriginWipes = TRUE
    Reasons = {"manual", "none"}
    SlowReads = FALSE
    MaxEvents = 1
    MaxStale = 1
SPECIFICATION FairSpec
INVARIANT CacheMatchesStorage
PROPERTY RenderedSectionsHydrate
