SPECIFICATION Spec
CONSTANTS
    n1 = n1
    n2 = n2
    Thread = {t1, t2}
    Name = {n1, n2}
    Rest <- RestOf
    Prefixes <- PrefixesOf
    Calls <- PairCalls
    NSlots = 4
    MaxInode = 5
    MaxFault = 0
    MayCrash = FALSE
INVARIANTS
    NumbersUnique
