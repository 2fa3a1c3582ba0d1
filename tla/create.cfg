SPECIFICATION Spec
CONSTANTS
    n1 = n1
    n2 = n2
    Thread = {t1}
    Name = {n1, n2}
    Rest <- RestOf
    Prefixes <- PrefixesOf
    Calls <- FileCalls
    NSlots = 4
    MaxInode = 6
    MaxFault = 1
    MayCrash = FALSE
INVARIANTS
    CreatedIsThere
