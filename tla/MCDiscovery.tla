---------------------------- MODULE MCDiscovery ----------------------------
\* Track a has a plain device and a Looper of one name; track b has two
\* loopers, one recognised by its transport parameters; a device that comes
\* later shifts them.  Undo is a parameter some generic looper has.
EXTENDS Discovery, TLC

CONSTANTS a, b, plain, looper, generic, second, extra

MCInitial == <<a>>
MCChain == (a :> <<plain, looper>>) @@ (b :> <<generic, second>>)
MCTrackName == (a :> a) @@ (b :> b)
MCDeviceName == [d \in Device |-> IF d \in {plain, looper} THEN looper ELSE d]
MCParams ==
    (plain :> {"Feedback"}) @@ (looper :> {"Feedback"})
    @@ (generic :> {"Record", "Play", "Stop", "Undo"}) @@ (second :> {"State", "Feedback"})
    @@ (extra :> {})
MCClassName == [d \in Device |-> IF d = looper THEN "Looper" ELSE "Device"]
MCLevels ==
    [p \in {"State", "Feedback", "Reverse", "Record", "Play", "Stop", "Overdub", "Undo", "Redo"} |->
        CASE p = "Feedback" -> {0, 10} [] p \in {"Record", "Play", "Stop"} -> {0} [] OTHER -> {0, 1}]
=============================================================================
