SPECIFICATION Spec
CONSTANTS
    Sites <- MCSites
    Targets <- MCTargets
    TargetOf <- MCTargetOf
    SlotOf <- MCSlotOf
    ClassOf <- MCClassOf
    Within <- MCWithin
    ValuesOf <- MCValuesOf
    AutoValues <- MCAutoValues
    Unrepresentable <- MCUnrepresentable
    ProfileRefs <- MCProfileRefs
    Packages <- MCPackages
    Profiles <- MCProfiles
    Limits <- MCLimits
INVARIANT
    LimitLeavesApplicableWork
