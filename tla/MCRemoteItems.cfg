CONSTANTS
    Target = {a}
    Config <- MCConfig
    Length <- MCLength
    MaxVersion = 1
    MaxFailures = 1
    MaxDelayMs = 10
    CsMs = 2
    SecondMs = 4
    MaxInteger = 31
    Seconds = {1}
    None = None
SPECIFICATION FairSpec
PROPERTY KeepsAtMostMaxItems
