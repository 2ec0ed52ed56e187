CONSTANTS
    None = None
    title = title
    owner = owner
    Field <- MCField
    Value <- MCValue
    Entry <- MCEntry
    Attributes <- MCAttributes
    Default <- MCDefault
    Accepted <- MCAccepted
SPECIFICATION Spec
INVARIANTS
    ValidatorInductive
    MarksMatchErrors
    SubmitsOnlyValid
