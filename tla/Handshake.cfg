SPECIFICATION FairSpec
CONSTANTS
    i1 = i1
    i2 = i2
    Instance = {i1, i2}
    MaxLoads = 2
    PluginStart = 1
    PluginEnd = 3
    ScriptStart = 2
    ScriptEnd = 3
    MaxPending = 3
    Address <- TestAddress
INVARIANTS
    TypeOK
PROPERTIES
    CommandsReachFirstPort
    GreeterIsServed
CHECK_DEADLOCK FALSE
