SPECIFICATION FfiSpec
CONSTANTS
    Targets <- MCTargets
    MaxFaults = 4
    Headers <- MCHeaders
    Traits <- MCTraits
INVARIANTS LinksOnlyVerified TableMatchesHeader
PROPERTIES BuildHeals
