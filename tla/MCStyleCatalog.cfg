SPECIFICATION Spec
CONSTANTS
    Entries <- MCEntries
    MaxStyles <- MCMaxStyles
    StyleIds <- MCStyleIds
    DocDefaults <- MCDocDefaults
    Sizes <- MCSizes
    Multiples <- MCMultiples
    Fixed <- MCFixed
    BuiltinClass <- MCBuiltinClass
    MaxChainDepth <- MCMaxChainDepth
INVARIANTS
    CyclesDoNotContribute
    BoldIsParity
    ClassFollowsFormatting
PROPERTIES
    ReferencesAreNotTakenOver
CHECK_DEADLOCK FALSE
