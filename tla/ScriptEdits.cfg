SPECIFICATION Spec
CONSTANTS
    a = a
    b = b
    c = c
    Track <- MCTracks
    Looper <- MCLoopers
    Initial <- MCMixed
    NameOf <- Distinct
    Value = {0, 1}
    Listener = {l1, l2, l3}
    Plugin = {p1}
    NoPlugin = NoPlugin
    Main = main
    Worker = {w1}
    Op = {"hello", "set_feedback", "set_state", "undo", "ping", "bad_version"}
    Edits = {"insert", "delete", "unload"}
INVARIANTS
    TypeOK
    ListenersAccounted
    ListenedToOnce
    NothingLeftBehind
PROPERTIES
    OnlyLoopersWritten
CHECK_DEADLOCK FALSE
