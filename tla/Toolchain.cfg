SPECIFICATION Spec
CONSTANTS
    Procs = {p1, p2}
    Templates <- MCTemplates
    NameLists <- MCNameLists
    Options <- MCOptions
    Projects <- MCProjects
    Requirements <- MCRequirements
    Dists <- MCDists
    Zips <- MCZips
    Mains <- MCMains
    MaxCommands = 2
    MaxSaves = 1
    MaxStops = 1
SYMMETRY Symmetry
INVARIANTS TypeOK OwnClass   ArchiveRight UploadIntact
PROPERTIES EditsKept
CHECK_DEADLOCK FALSE
