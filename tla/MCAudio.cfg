CONSTANTS
    Sink = {s1, s2}
    NoSink = NoSink
    Percent = {33}
    Norm = 65536
    Config <- MCConfig
    MaxChanges = 1
    MaxActions = 1
    MaxFaults = 1
SPECIFICATION MCSpec
INVARIANT NothingMissed
PROPERTIES ToggleFlips EventuallyCurrent
