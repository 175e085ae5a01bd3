SPECIFICATION SystemFairSpec
CONSTANTS
    a = a
    b = b
    c = c
    Track <- MCLoopers
    Looper <- MCLoopers
    Initial <- MCOne
    NameOf <- Distinct
    Value = {0, 1, 2}
    Listener = {l1, l2}
    Plugin = {p1}
    NoPlugin = NoPlugin
    Main = main
    Worker = {w1}
    Op = {"hello"}
    Edits = {"parameter", "insert", "delete"}
    MaxWire = 2
INVARIANTS
    SystemTypeOK
    RowsAreCurrent
PROPERTIES
    ImplementsMirror
    PluginCatchesUp
CHECK_DEADLOCK FALSE
