SPECIFICATION FairSpec
CONSTANTS
    Ports <- MCPorts
    ScriptPort = 7011
    RemotePorts <- MCRemotePorts
    Editor = {e1, e2, e3}
    Shadow = {empty, some}
    NoLoopers = empty
    NoBridge = NoBridge
INVARIANTS
    TypeOK
    FlagMeansBound
PROPERTIES
    EditorCatchesUp
CHECK_DEADLOCK FALSE
