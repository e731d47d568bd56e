CONSTANTS
    Player = {1, 2}
    Media <- MCMedia
    Absent = Absent
    NoSong = ""
    Config <- MCConfig
    MaxChanges = 2
    MaxFaults = 1
SPECIFICATION FairSpec
INVARIANTS NoChangeMissed AcceptedAsShown
PROPERTY EventuallyCurrent
