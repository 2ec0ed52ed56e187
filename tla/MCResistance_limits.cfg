CONSTANTS
    Call = {c1, c2, c3}
    UpperLimit = 2
    Frequency = 5
    Duration = 2
    Switchable = {"ResourceRaceIsActive", "OutageIsActive"}
SYMMETRY Symmetry
SPECIFICATION Spec
INVARIANTS
    TypeOK
    PermitsAreReturned
PROPERTIES
    OutagesKeepTheirSeason
