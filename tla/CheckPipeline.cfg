CONSTANTS
    NoRule <- MCNoRule
    AnyMessage = "any"
    Occurs <- MCOccurs
    Worklist <- MCWorklist
    Contents <- MCContents
    Configs <- MCConfigs
    Tokens <- MCTokens
    Baselines <- MCBaselines
SPECIFICATION Spec
INVARIANTS PoolIsInvisible FailuresAreSeenUnlessRecorded NothingNewIsSilenced GateMeansFresh MarkingIsQuieter StricterFailsToo
PROPERTY PruneShowsTheSame
