\* One installation with a knob of every kind.
SPECIFICATION ServiceSpec
CONSTANTS
    Configs <- AllConfigs
    MaxCommands = 1
INVARIANTS InstalledServesIdentically
