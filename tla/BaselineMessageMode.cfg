CONSTANTS
    NoRule <- MCNoRule
    AnyMessage = "any"
    Occurs <- MCOccurs
    Worklist <- MCWorklist
    Contents <- MCContents
    Configs <- MCConfigs
    Tokens <- MCTokens
    Baselines <- MCBaselines
SPECIFICATION Spec
PROPERTY WrittenIsSilent
