CONSTANTS
    Target = {a, b}
    Config <- MCConfig
    Length <- MCLength
    MaxVersion = 2
    MaxFailures = 3
    MaxDelayMs = 10
    CsMs = 2
    SecondMs = 4
    MaxInteger = 31
    Seconds = {0, 1, 3}
    None = None
SPECIFICATION FairSpec
INVARIANTS EtagMatchesData CachedDataMarked ServerWishesKept
PROPERTIES BackoffGrows FreshIsCurrent Recovers
