SPECIFICATION Spec
CONSTANTS
    a = a
    b = b
    plain = plain
    looper = looper
    generic = generic
    second = second
    extra = extra
    Track = {a, b}
    Device = {plain, looper, generic, second, extra}
    Initial <- MCInitial
    Chain <- MCChain
    TrackName <- MCTrackName
    DeviceName <- MCDeviceName
    Params <- MCParams
    ClassName <- MCClassName
    Levels <- MCLevels
    Half = 5
    MaxEdits = 1
INVARIANTS
    TypeOK
    RowsAreCurrent
    HeardOnce
PROPERTIES
    CommandsDoAsAnswered
    SetShowsInRow
CHECK_DEADLOCK FALSE
