CONSTANTS
    Workers = 2
    Sizes = 3
    Codes = {"success", "failure"}
SPECIFICATION Spec
INVARIANTS PoolIsWhole
PROPERTY ImplementsRunsOnce
