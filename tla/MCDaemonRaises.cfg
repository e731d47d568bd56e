CONSTANTS
    ReloadOrder <- MCReloadOrder
    Blocking = {"github", "hyprland"}
    Remote = {"github"}
    MaxWorkers = 3
    MaxActions = 2
    MaxEdits = 0
    MaxEvents = 0
    MaxCommands = 2
    ReloadMayFail = FALSE
SPECIFICATION FairSpec
PROPERTY AcceptedReloadsRun
