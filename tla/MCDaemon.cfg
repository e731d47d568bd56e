CONSTANTS
    ReloadOrder <- MCReloadOrder
    Blocking = {"github", "hyprland"}
    Remote = {"github"}
    MaxWorkers = 3
    MaxActions = 2
    MaxEdits = 1
    MaxEvents = 1
    MaxCommands = 2
    ReloadMayFail = TRUE
SPECIFICATION FairSpec
INVARIANTS ConfigurationsAgree PublishedIsCurrent NoNewsLost
PROPERTIES GenerationMeansApplied CommandsFinish ReloadApplies
