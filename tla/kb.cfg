SPECIFICATION FairSpec
CONSTANTS
    Call = {1, 2, 3}
    Operations <- TwoOfAnyKind
    Base = {b1, b2, b3, b4, b5}
    Name = {n1, n2}
    Document = {d1, d2, d3, d4, d5}
    User = {u1, u2}
    Principals <- OfDepartment
    Members <- TwoMembers
    NameOf <- TwoBases
    BaseOf <- TwoStored
    NewBase <- BaseIds
    NewDocument <- DocumentIds
    DefaultName = n2
    DeleteLimit = 1
    None = None
    b1 = b1
    b2 = b2
    b3 = b3
    b4 = b4
    b5 = b5
    d1 = d1
    d2 = d2
    d3 = d3
    d4 = d4
    d5 = d5
    u1 = u1
    u2 = u2
    n1 = n1
    n2 = n2
    dept = dept
INVARIANTS TypeOK ActiveNamesUnique LeftoversAreExplained AuditIsTrue
PROPERTY EveryCallEnds
CHECK_DEADLOCK FALSE
