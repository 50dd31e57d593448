SPECIFICATION Spec
CONSTANTS
    None = None
    Dirs = {"home", "custom"}
    DefaultDir = "home"
    Overrides <- MCOverrides
    MaxData = 1
    MaxTokens = 2
    MaxKills = 1
PROPERTIES UpdateIsBackedUp ServiceComesBack PinStays SavedIsDeployed
CHECK_DEADLOCK FALSE
