SPECIFICATION ListSpec
CONSTANTS
    TrackId = {t1}
    Exact = {"Stopped", "Playing"}
    MaxFeedback = 2
    Tolerance = 2
    DoubleClick = 2
    MaxClock = 4
    MaxClicks = 3
INVARIANTS
    TypeOK
    ListTypeOK
    ReaderTracksPushes
    RowsShowPushes
    ClicksPair
