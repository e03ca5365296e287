SPECIFICATION Spec
CONSTANTS
    Sizes <- MCSizes
    Multiples <- MCMultiples
    Fixed <- MCFixed
    Lexical <- MCLexical
    Observable <- MCObservable
    DesiredOf <- MCDesiredOf
    Documents <- MCDocuments
INVARIANT RuleAloneDoesNotMask
CHECK_DEADLOCK FALSE
