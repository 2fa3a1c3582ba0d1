SPECIFICATION Spec
CONSTANTS
    n1 = n1
    n2 = n2
    Thread = {t1}
    Name = {n1, n2}
    Rest <- RestOf
    Prefixes <- PrefixesOf
    Calls <- CrashCalls
    NSlots = 3
    MaxInode = 5
    MaxFault = 1
    MayCrash = TRUE
INVARIANTS
    TypeOK
    NumbersFresh
    LinkedInodeDurable
    CounterLagsByOne
    DirsOwnBlocks
PROPERTIES
    EntryKept
