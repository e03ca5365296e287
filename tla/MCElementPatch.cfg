SPECIFICATION Spec
CONSTANTS
    Sizes <- MCSizes
    Multiples <- MCMultiples
    Fixed <- MCFixed
    Lexical <- MCLexical
    Observable <- MCObservable
    DesiredOf <- MCDesiredOf
    Documents <- MCDocuments
INVARIANTS
    TypeOK
    NoIntegrityError
PROPERTIES
    PatchIsThePipelines
CHECK_DEADLOCK FALSE
