SPECIFICATION FairSpec
CONSTANTS
    a = a
    b = b
    c = c
    Track <- MCLoopers
    Looper <- MCLoopers
    Initial <- MCOne
    NameOf <- Distinct
    Value = {0}
    Listener = {l1, l2, l3, l4, l5}
    Plugin = {p1}
    NoPlugin = NoPlugin
    Main = main
    Worker = {w1}
    Op = {"hello", "discover"}
    Edits = {"parameter", "unload"}
PROPERTIES
    HandlersEnd
CHECK_DEADLOCK FALSE
