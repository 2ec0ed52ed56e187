CONSTANTS
    None = None
    Employee = {e1,e2}
    Tab = {t1,t2}
    MaxLogins = 2
    MaxChanges = 2
    Faults = {"lost","idle","hub","ajax","driver"}
    FirstTab = t1
    FirstEmployee = e1
    ActsAlone = 5
    ActsTogether = 4
SPECIFICATION MCSpec
INVARIANTS
    WebInductive
    ListIsCurrent
    ConnectedWhereRemembered
    NoticesAreTrue
PROPERTIES
    NoticesAreHeeded
CHECK_DEADLOCK FALSE
