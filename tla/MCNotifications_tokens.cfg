CONSTANTS
    Employee = {e1, e2}
    Login = {l1, l2}
    Browser = {b1, b2}
    Push = {p1}
    None = None
    Lifetime = 1
    ClockSkew = 1
    LoginTime = 1
    Horizon = 3
SYMMETRY Symmetry
SPECIFICATION Spec
INVARIANTS
    HoldersCanBeTold
    TokensInductive
PROPERTIES
    LoginsCostLittle
    RefusedWithReason
