SPECIFICATION FairSpec
CONSTANTS
    Sites <- MCSites
    Targets <- MCTargets
    TargetOf <- MCTargetOf
    SlotOf <- MCSlotOf
    ClassOf <- MCClassOf
    Within <- MCWithin
    ValuesOf <- MCValuesOf
    AutoValues <- MCAutoValues
    Unrepresentable <- MCUnrepresentable
    ProfileRefs <- MCProfileRefs
    Packages <- MCPackages
    Profiles <- MCProfiles
    Limits <- MCLimits
INVARIANTS
    TypeOK
    OnlyAuthorizedChanges
    InDocumentOrder
    RejectionsHoldNow
    GateNeverBlocks
    NoImpossibleError
    ResultHonoursContract
    EveryChangeAccounted
    LimitIsExact
    QuiescentIsFormatted
PROPERTIES
    ImplementsConservativeFormatting
    Termination
