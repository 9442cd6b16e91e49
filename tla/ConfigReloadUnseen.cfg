CONSTANTS
    Files <- MCFiles
    Discovery <- MCDiscovery
    Documents <- MCDocuments
    Watched <- MCWatched
    Listed <- MCListed
    Rejected <- MCRejected
    Empty <- MCEmpty
    Strikes = 2
    MaxEdits = 2
SPECIFICATION Spec
PROPERTY EditsTakeEffect
