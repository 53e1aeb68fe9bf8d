SPECIFICATION FairSpec
CONSTANTS
    Params = {"22", "2222"}
    MaxOps = 4
    MaxFails = 2
INVARIANTS
    TypeOK
    InstalledStays
    ArgumentsTaken
    UninstallCleans
    StatusFindsIt
PROPERTIES
    AlwaysOn
