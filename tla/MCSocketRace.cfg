CONSTANTS
    Daemon = {d1, d2}
    Overlap = TRUE
SPECIFICATION SocketSpec
INVARIANT LiveSocketKept
