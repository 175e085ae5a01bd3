----------------------------- MODULE Discovery -----------------------------
(***************************************************************************)
(* What the remote script recognises, reads, reports and writes:           *)
(* LooperDiscovery's scan, patterns and parameter access, and              *)
(* LooperControlSurface's commands and callbacks, for tracks with several  *)
(* devices and devices with several parameters.                            *)
(*                                                                         *)
(* RemoteScript has the threads and splits these operations into steps;    *)
(* here each runs to its end, and the data are in full.  The script hears  *)
(* of changes to the track list and to listened parameters; it does not    *)
(* hear of devices added to or removed from a track.  A plugin has said    *)
(* hello, so every push reaches it; it keeps the last push of each track   *)
(* id as a row.  Track and device ids are positions, from 1.               *)
(***************************************************************************)
EXTENDS Integers, FiniteSets, FiniteSetsExt, SequencesExt

CONSTANTS
    Track, Device,
    Initial,       \* the tracks when the script is loaded
    Chain,         \* the devices a track is created with
    TrackName, DeviceName,   \* functions: what they are called
    Params,        \* the parameters of each device, a set of names
    ClassName,     \* each device's class
    Levels,        \* the values Live lets a parameter take, by name
    Half,          \* feedback 0.5
    MaxEdits       \* bound on deletions and on devices added

ASSUME SetAssumption ==
    /\ Initial \in Seq(Track) /\ IsInjective(Initial)
    /\ Chain \in [Track -> Seq(Device)]
    /\ \A t \in Track : IsInjective(Chain[t])
    /\ \A t, u \in Track : t # u => Range(Chain[t]) \cap Range(Chain[u]) = {}
    /\ \A d \in Device : \A p \in Params[d] : 0 \in Levels[p]
    /\ 1 \in Levels["Undo"] \cap Levels["Redo"]

VARIABLES
    tracks,        \* song.tracks
    chain,         \* track.devices
    gone,          \* tracks and devices that were deleted
    value,         \* param.value, by device and parameter
    attached,      \* listeners attached to a parameter
    listening,     \* _param_listeners: <<device, parameter>> pairs
    found,         \* _discovered_loopers: track id -> device id
    rows,          \* what the plugin was told last, by track id
    reply,         \* the answer to a command, until the user acts
    unheard        \* has a device list changed since the last scan? (history)

live == <<tracks, chain, gone, value>>
vars == <<tracks, chain, gone, value, attached, listening, found, rows, reply, unheard>>

States == {"Stopped", "Recording", "Playing", "Overdubbing"}
Info == [track : Nat, device : Nat, state : States,
         feedback : Levels["Feedback"] \cup {Half}, reverse : BOOLEAN]
Errors == {"looper_not_found", "parameter_set_failed", "exception", "unknown_command"}
Answer == {"none", "done"} \cup Errors
Settables == {"Feedback", "Undo", "Redo"}

\* Fault: the state is read and not listened to.
WatchedForgets == {"Feedback", "Reverse", "Record", "Play", "Stop", "Overdub"}

Watched == {"State", "Feedback", "Reverse", "Record", "Play", "Stop", "Overdub"}

TypeOK ==
    /\ tracks \in Seq(Track) /\ IsInjective(tracks)
    /\ chain \in [Track -> Seq(Device)]
    /\ \A d \in Device : \A p \in Params[d] :
           value[d][p] \in Levels[p] /\ attached[d][p] \in Nat
    /\ listening \subseteq {x \in Device \X Watched : x[2] \in Params[x[1]]}
    /\ Range(found) \subseteq Nat
    /\ Range(rows) \subseteq Info
    /\ reply \in Answer

----------------------------------------------------------------------------
(* Recognising and reading *)

Patterns == {{"State", "Feedback"}, {"Record", "Play", "Stop"}, {"Record", "Overdub", "Play"}}

IsLooperDevice(d) ==
    (\E required \in Patterns : required \subseteq Params[d]) \/ ClassName[d] = "Looper"

Loopers(t) == {k \in DOMAIN chain[t] : IsLooperDevice(chain[t][k])}

\* ABLETON_LOOPER_STATE_MAP, from 0.
StateMap == <<"Stopped", "Recording", "Playing", "Overdubbing">>

\* The k-th device of track t at position i, with the values v: a number that
\* is no state, and a missing State, read as Stopped; feedback is 0.5 and
\* reverse off where the looper has no such parameter.
ReadLooperState(i, k, t, v) ==
    LET d == chain[t][k]
    IN [track |-> i, device |-> k,
        state |-> IF "State" \in Params[d] /\ v[d]["State"] + 1 \in DOMAIN StateMap
                  THEN StateMap[v[d]["State"] + 1] ELSE "Stopped",
        feedback |-> IF "Feedback" \in Params[d] THEN v[d]["Feedback"] ELSE Half,
        reverse |-> "Reverse" \in Params[d] /\ v[d]["Reverse"] = 1]

\* send_event, and the plugin's addLooper or updateState: rows are replaced.
Pushed(infos) == [i \in DOMAIN rows \cup DOMAIN infos |->
                     IF i \in DOMAIN infos THEN infos[i] ELSE rows[i]]

----------------------------------------------------------------------------
(* Scanning and listening, for the track list ts *)

\* scan_all_tracks: a track's last looper is the one that stays under its id.
ScanAllTracks(ts) ==
    [i \in {j \in DOMAIN ts : Loopers(ts[j]) # {}} |->
        ReadLooperState(i, Max(Loopers(ts[i])), ts[i], value)]

DeviceIds(infos) == [i \in DOMAIN infos |-> infos[i].device]

\* start_listening: every watched parameter of every looper in the set.
ToListen(ts) ==
    {x \in Device \X Watched :
        /\ \E t \in Range(ts) : x[1] \in Range(chain[t])
        /\ IsLooperDevice(x[1]) /\ x[2] \in Params[x[1]]}

\* Fault: the listeners are forgotten but stay attached.
StopListeningForgets(a) == a

\* Fault: a listener is taken off a deleted device.
StopListeningDeleted(a) ==
    [d \in Device |-> [p \in Params[d] |-> IF <<d, p>> \in listening THEN a[d][p] - 1 ELSE a[d][p]]]

\* stop_listening: what was deleted has lost its listeners already.
StopListening(a) ==
    [d \in Device |-> [p \in Params[d] |->
        IF <<d, p>> \in listening /\ a[d][p] > 0 THEN a[d][p] - 1 ELSE a[d][p]]]

\* stop_listening and _full_scan, with listeners a attached before.
Rescan(ts, a) ==
    /\ found' = DeviceIds(ScanAllTracks(ts))
    /\ rows' = Pushed(ScanAllTracks(ts))
    /\ listening' = ToListen(ts)
    /\ attached' = [d \in Device |-> [p \in Params[d] |->
                       StopListening(a)[d][p] + (IF <<d, p>> \in ToListen(ts) THEN 1 ELSE 0)]]
    /\ unheard' = FALSE

\* The script has been loaded: __init__'s scan is over.
Init ==
    /\ tracks = Initial
    /\ chain = Chain
    /\ gone = {}
    /\ value = [d \in Device |-> [p \in Params[d] |-> 0]]
    /\ listening = ToListen(Initial)
    /\ attached = [d \in Device |-> [p \in Params[d] |-> IF <<d, p>> \in listening THEN 1 ELSE 0]]
    /\ rows = ScanAllTracks(Initial)
    /\ found = DeviceIds(rows)
    /\ reply = "none"
    /\ unheard = FALSE

Without(a, ds) == [d \in Device |-> IF d \in ds THEN [p \in Params[d] |-> 0] ELSE a[d]]

----------------------------------------------------------------------------
(* Values and their listeners *)

TrackOf(d) == CHOOSE t \in Range(tracks) : d \in Range(chain[t])

\* Fault: the name alone decides which device has changed.
NamesakesAny(d, t) == {k \in DOMAIN chain[t] : DeviceName[chain[t][k]] = DeviceName[d]}

\* The loopers of track t that are called like d.
Namesakes(d, t) == {k \in Loopers(t) : DeviceName[chain[t][k]] = DeviceName[d]}

\* The tracks called like d's own, where such a looper is.
TracksNamed(d) ==
    {i \in DOMAIN tracks : /\ TrackName[tracks[i]] = TrackName[TrackOf(d)]
                           /\ Namesakes(d, tracks[i]) # {}}

\* _on_looper_param_changed: the first of them is read and pushed.
Changed(d, v) ==
    IF TracksNamed(d) = {} THEN rows
    ELSE LET i == Min(TracksNamed(d))
             k == Min(Namesakes(d, tracks[i]))
         IN Pushed([n \in {i} |-> ReadLooperState(i, k, tracks[i], v)])

Assign(d, p, v) ==
    /\ value' = [value EXCEPT ![d][p] = v]
    /\ rows' = IF attached[d][p] > 0 THEN Changed(d, value') ELSE rows

----------------------------------------------------------------------------
(* The user *)

Quiet == reply' = "none"
Placed(c) == UNION {Range(c[t]) : t \in Track}
Edits == Cardinality(gone) + Cardinality(Placed(chain) \ Placed(Chain))
InSet == UNION {Range(chain[t]) : t \in Range(tracks)}

SetParameter(d, p, v) ==
    /\ d \in InSet
    /\ Assign(d, p, v)
    /\ UNCHANGED <<tracks, chain, gone, attached, listening, found, unheard>>
    /\ Quiet

\* _on_tracks_changed; nothing reports a change within a track.
InsertTrack(t, i) ==
    /\ t \notin Range(tracks) \cup gone
    /\ tracks' = InsertAt(tracks, i, t)
    /\ Rescan(tracks', attached)
    /\ UNCHANGED <<chain, gone, value>>
    /\ Quiet

DeleteTrack(i) ==
    /\ Edits < MaxEdits
    /\ tracks' = RemoveAt(tracks, i)
    /\ gone' = gone \cup {tracks[i]}
    /\ Rescan(tracks', Without(attached, Range(chain[tracks[i]])))
    /\ UNCHANGED <<chain, value>>
    /\ Quiet

InsertDevice(t, d, k) ==
    /\ Edits < MaxEdits
    /\ t \in Range(tracks) /\ k \in 1..Len(chain[t]) + 1
    /\ d \notin gone \cup Placed(chain)
    /\ chain' = [chain EXCEPT ![t] = InsertAt(@, k, d)]
    /\ unheard' = TRUE
    /\ UNCHANGED <<tracks, gone, value, attached, listening, found, rows>>
    /\ Quiet

DeleteDevice(t, k) ==
    /\ Edits < MaxEdits
    /\ t \in Range(tracks) /\ k \in DOMAIN chain[t]
    /\ chain' = [chain EXCEPT ![t] = RemoveAt(@, k)]
    /\ gone' = gone \cup {chain[t][k]}
    /\ attached' = Without(attached, {chain[t][k]})
    /\ unheard' = TRUE
    /\ UNCHANGED <<tracks, value, listening, found, rows>>
    /\ Quiet

----------------------------------------------------------------------------
(* _handle_command *)

Answers(r) == reply' = r
NothingElse == UNCHANGED <<tracks, chain, gone, attached, listening, found, unheard>>
Refuses(r) == Answers(r) /\ NothingElse /\ UNCHANGED <<value, rows>>

Discover ==
    /\ Rescan(tracks, attached)
    /\ Answers("done")
    /\ UNCHANGED live

\* Whether the i-th track's k-th device is there, and is a looper with p.
\* Fault: the device is not looked at.
SettableUnchecked(i, k, p) ==
    i \in DOMAIN tracks /\ k \in DOMAIN chain[tracks[i]] /\ p \in Params[chain[tracks[i]][k]]

Settable(i, k, p) ==
    /\ i \in DOMAIN tracks /\ k \in DOMAIN chain[tracks[i]]
    /\ LET d == chain[tracks[i]][k] IN IsLooperDevice(d) /\ p \in Params[d]

\* _set_looper_param at the position the last scan noted.
SetLooperParam(i, p, v) ==
    LET k == found[i]
    IN IF Settable(i, k, p)
       THEN Assign(chain[tracks[i]][k], p, v) /\ Answers("done") /\ NothingElse
       ELSE Refuses("parameter_set_failed")

\* set_feedback, undo and redo name the parameter they set.
SetByCommand(i, p, v) ==
    IF i \in DOMAIN found THEN SetLooperParam(i, p, v) ELSE Refuses("looper_not_found")

\* set_state raises when it looks the reverse map up on the class; an id that
\* is not a number raises before anything is looked up.
SetState(i) == Refuses(IF i \in DOMAIN found THEN "exception" ELSE "looper_not_found")
CommandWithoutId == Refuses("exception")

Ping == Refuses("done")
UnknownCommand == Refuses("unknown_command")

Ids == 1..Cardinality(Track)

Edit ==
    \/ \E d \in Device : \E p \in Params[d] : \E v \in Levels[p] : SetParameter(d, p, v)
    \/ \E t \in Track : \E i \in 1..Len(tracks) + 1 : InsertTrack(t, i)
    \/ \E i \in DOMAIN tracks : DeleteTrack(i)
    \/ \E t \in Track, d \in Device : \E k \in 1..Cardinality(Device) : InsertDevice(t, d, k)
    \/ \E t \in Track : \E k \in DOMAIN chain[t] : DeleteDevice(t, k)

Command ==
    \/ Discover \/ CommandWithoutId \/ Ping \/ UnknownCommand
    \/ \E i \in Ids : SetState(i) \/ SetByCommand(i, "Undo", 1) \/ SetByCommand(i, "Redo", 1)
    \/ \E i \in Ids, v \in Levels["Feedback"] : SetByCommand(i, "Feedback", v)

Next == Edit \/ Command
Spec == Init /\ [][Next]_vars

----------------------------------------------------------------------------
(* Properties.  Tracks with loopers have names of their own (RemoteScript     *)
(* says what happens otherwise); devices need not.                            *)

\* "Full state push on change": as long as no device list has changed since
\* the last scan, each row of a track with loopers is a current reading of
\* the looper it names, whichever of the track's loopers moved.
RowsAreCurrent ==
    ~unheard => \A i \in DOMAIN found :
                    rows[i] = ReadLooperState(i, rows[i].device, tracks[i], value)

\* No parameter ever has two listeners of the script's, and just after a scan
\* those that change a row have one, on all loopers of a track.
HeardOnce ==
    \A d \in Device : \A p \in Params[d] :
        /\ attached[d][p] <= 1
        /\ ~unheard /\ d \in InSet /\ IsLooperDevice(d)
           /\ p \in {"State", "Feedback", "Reverse"} => attached[d][p] = 1

\* A command that is answered with success has set its parameter, on a looper
\* of the track with that id, and nothing else; one that is answered with an
\* error has changed nothing, however the set was edited since the last scan.
CommandsDoAsAnswered ==
    [][/\ reply' \in Errors => UNCHANGED <<live, rows>>
       /\ reply' = "done" =>
              \A i \in DOMAIN found, p \in Settables : \A v \in Levels[p] :
                  SetByCommand(i, p, v) =>
                      \E k \in Loopers(tracks[i]) :
                          LET d == chain[tracks[i]][k]
                          IN p \in Params[d] /\ value' = [value EXCEPT ![d][p] = v]]_vars

\* A feedback that was set shows in the row it was set from at once, with the
\* device that was set, unless devices changed unheard or the track has
\* another looper of the same name.
OwnName(t, k) ==
    \A n \in Loopers(t) \ {k} : DeviceName[chain[t][n]] # DeviceName[chain[t][k]]
SetShowsInRow ==
    [][reply' = "done" /\ ~unheard =>
          \A i \in DOMAIN found : \A v \in Levels["Feedback"] :
              OwnName(tracks[i], found[i]) /\ SetByCommand(i, "Feedback", v)
              => rows'[i].device = found[i] /\ rows'[i].feedback = v]_vars
=============================================================================
