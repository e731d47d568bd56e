CONSTANTS
    Name = {1, 2}
    None = None
    Supply <- MCSupply
    Backlight <- MCBacklight
    Asked = {1}
    MaxChanges = 1
    MaxActions = 1
    MaxFaults = 1
SPECIFICATION FairSpec
INVARIANTS ScanFindsDevices BrightnessAsAsked
PROPERTY EventuallyShown
