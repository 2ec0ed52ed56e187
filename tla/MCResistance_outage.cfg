CONSTANTS
    Call = {c1, c2}
    UpperLimit = 2
    Frequency = 5
    Duration = 2
    Switchable = {}
SPECIFICATION Spec
PROPERTY
    OutageLasts
