CONSTANTS
    Action = {a, b, c}
    MaxActions = 3
    Nil = Nil
    Daemon = {d1, d2, d3}
    Overlap = FALSE
SPECIFICATION PartsSpec
INVARIANTS OwnedSlotsFilled LiveSocketKept StaleRecovered
PROPERTY ImplementsFifo
SYMMETRY DaemonSymmetry
