SPECIFICATION FairSpec
CONSTANTS
    n1 = n1
    n2 = n2
    Thread = {t1}
    Name = {n1, n2}
    Rest <- RestOf
    Prefixes <- PrefixesOf
    Calls <- TreeCalls
    NSlots = 4
    MaxInode = 6
    MaxFault = 0
    MayCrash = FALSE
INVARIANTS
    InodesInPlace
    NumbersUnique
    FindInodeCorrect
PROPERTIES
    ImplementsDirTree
    CallsReturn
