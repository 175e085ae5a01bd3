SPECIFICATION Spec
CONSTANTS
    a = a
    b = b
    c = c
    Track <- MCLoopers
    Looper <- MCLoopers
    Initial <- MCOne
    NameOf <- Distinct
    Value = {0, 1}
    Listener = {l1, l2, l3}
    Plugin = {p1}
    NoPlugin = NoPlugin
    Main = main
    Worker = {w1}
    Op = {"hello", "set_feedback"}
    Edits = {"insert", "delete"}
PROPERTIES
    CommandsReachTheLooperShown
CHECK_DEADLOCK FALSE
