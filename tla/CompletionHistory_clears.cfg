CONSTANTS
    t1 = t1  a = a  b = b  k1 = k1  k2 = k2  s1 = s1  s2 = s2  old = old
    Tabs = {t1}
    Slots = {a}
    Steps = {s1}
    Roster <- CurrentRoster
    ContentKeys = {k1}
    KeyOf <- OneKey
    Prefix <- SelfPrefix
    Preview = {}
    Mounted = {a}
    Counted = {}
    Reasons = {"manual", "none"}
    OriginWipes = FALSE
    SlowReads = FALSE
    MaxEvents = 1
    MaxStale = 1
SPECIFICATION HSpec
INVARIANT ClearsSurviveHydration
