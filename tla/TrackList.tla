----------------------------- MODULE TrackList -----------------------------
(***************************************************************************)
(* The editor's list of loopers over the tracker's map: LooperListView,    *)
(* LooperTrackComponent, ExpandableDetailSection and TransportButton.      *)
(*                                                                         *)
(* Pushes change the tracker at any moment; every 50 ms the timer brings   *)
(* the rows up to date; between the two a user clicks and drags what the   *)
(* rows still show.  A row lives as long as its id is in the tracker's map *)
(* and its window is open, and keeps three things of its own: whether it   *)
(* is expanded, where its slider stands and when it was clicked last, in   *)
(* wall-clock time.  Exact is a looper's transport state here.  Commands   *)
(* go to the BridgeClient (Handshake); positions and colours are left out. *)
(***************************************************************************)
EXTENDS LooperTracker, Sequences

CONSTANTS
    DoubleClick,   \* doubleClickMs_, in clock units
    MaxClock,      \* bound on the clock
    MaxClicks      \* bound on the clicks a row remembers (history)

ASSUME ExactAssumption == Exact \subseteq {"Stopped", "Recording", "Playing", "Overdubbing"}
ASSUME DoubleClickAssumption ==
    DoubleClick \in Nat \ {0} /\ MaxClock \in Nat /\ DoubleClick <= MaxClock

VARIABLES
    open,    \* is the editor's window open?
    rows,    \* trackComponents_: id -> row
    fresh,   \* has the timer run since the last push, drag or opening? (history)
    clock,   \* juce::Time::getCurrentTime(), from 1970
    log      \* per id: the clicks on its row since it was made or the clock
             \* was set back (history)

list == <<open, rows, fresh, clock, log>>
listvars == <<vars, list>>

Row == [state : LooperState, expanded : BOOLEAN, slider : 0..MaxFeedback,
        last : 0..MaxClock]
Click == [at : 0..MaxClock, target : {"Stopped", "Recording", "Playing", "Overdubbing"}]

ListTypeOK ==
    /\ open \in BOOLEAN
    /\ rows \in UNION {[D -> Row] : D \in SUBSET TrackId}
    /\ \A id \in DOMAIN rows : rows[id].state.trackId = id
    /\ fresh \in BOOLEAN
    /\ clock \in DoubleClick..MaxClock
    /\ log \in [TrackId -> Seq(Click)]

NoClicks == [id \in TrackId |-> << >>]
LongAgo == 0     \* juce::Time()

ListInit ==
    /\ Init
    /\ open = FALSE
    /\ rows = << >>
    /\ fresh = FALSE
    /\ clock = DoubleClick
    /\ log = NoClicks

----------------------------------------------------------------------------
(* The window *)

OpenEditor ==
    /\ ~open /\ open' = TRUE
    /\ UNCHANGED <<vars, rows, fresh, clock, log>>

CloseEditor ==
    /\ open /\ open' = FALSE
    /\ rows' = << >>
    /\ fresh' = FALSE
    /\ log' = NoClicks
    /\ UNCHANGED <<vars, clock>>

NewRow(s) == [state |-> s, expanded |-> FALSE, slider |-> s.feedback, last |-> LongAgo]

\* Fault: every row is made anew.
RefreshedAnew(r) == [id \in DOMAIN loopers |-> NewRow(loopers[id])]

\* Fault: rows of loopers that are gone stay.
RefreshedKeepsGone(r) ==
    [id \in DOMAIN loopers \cup DOMAIN r |->
        IF id \notin DOMAIN loopers THEN r[id]
        ELSE IF id \in DOMAIN r
             THEN [r[id] EXCEPT !.state = loopers[id], !.slider = loopers[id].feedback]
             ELSE NewRow(loopers[id])]

\* refreshFromTracker: rows come, go, and are set to the tracker's state.
Refreshed(r) ==
    [id \in DOMAIN loopers |->
        IF id \in DOMAIN r
        THEN [r[id] EXCEPT !.state = loopers[id], !.slider = loopers[id].feedback]
        ELSE NewRow(loopers[id])]

\* timerCallback, also when nothing has changed.
Refresh ==
    /\ open
    /\ rows' = Refreshed(rows)
    /\ fresh' = TRUE
    /\ log' = [id \in TrackId |-> IF id \in DOMAIN rows' THEN log[id] ELSE << >>]
    /\ UNCHANGED <<vars, open, clock>>

----------------------------------------------------------------------------
(* The user *)

\* getNextState
NextState == [Stopped |-> "Recording", Recording |-> "Playing",
              Playing |-> "Overdubbing", Overdubbing |-> "Playing"]

\* Fault: the end of the window is stored, not the click.
ClickedUntil(row) ==
    IF clock < row.last
    THEN [target |-> "Stopped", last |-> LongAgo]
    ELSE [target |-> NextState[row.state.exact], last |-> clock + DoubleClick]

\* mouseDown: a second click soon after the first asks for a stop, and the
\* third counts as a first one.
Clicked(row) ==
    IF clock - row.last < DoubleClick
    THEN [target |-> "Stopped", last |-> LongAgo]
    ELSE [target |-> NextState[row.state.exact], last |-> clock]

ClickTransport(id) ==
    /\ id \in DOMAIN rows /\ Len(log[id]) < MaxClicks
    /\ LET click == Clicked(rows[id])
       IN /\ rows' = [rows EXCEPT ![id].last = click.last]
          /\ log' = [log EXCEPT ![id] = Append(@, [at |-> clock, target |-> click.target])]
    /\ UNCHANGED <<vars, open, fresh, clock>>

\* A click beside the button.
ClickRow(id) ==
    /\ id \in DOMAIN rows
    /\ rows' = [rows EXCEPT ![id].expanded = ~@]
    /\ UNCHANGED <<vars, open, fresh, clock, log>>

\* The slider keeps what the user gave it until the timer runs.
DragSlider(id, v) ==
    /\ id \in DOMAIN rows /\ rows[id].expanded /\ rows[id].slider # v
    /\ rows' = [rows EXCEPT ![id].slider = v]
    /\ fresh' = FALSE
    /\ UNCHANGED <<vars, open, clock, log>>

Tick ==
    /\ clock < MaxClock /\ clock' = clock + 1
    /\ UNCHANGED <<vars, open, rows, fresh, log>>

\* The wall clock is corrected.
SetClockBack ==
    /\ clock' \in DoubleClick..clock - 1
    /\ log' = NoClicks
    /\ UNCHANGED <<vars, open, rows, fresh>>

User ==
    \/ OpenEditor \/ CloseEditor
    \/ \E id \in TrackId : ClickTransport(id) \/ ClickRow(id)
    \/ \E id \in TrackId, v \in 0..MaxFeedback : DragSlider(id, v)

ListNext ==
    \/ Next /\ fresh' = FALSE /\ UNCHANGED <<open, rows, clock, log>>
    \/ Refresh \/ User \/ Tick \/ SetClockBack

ListSpec == ListInit /\ [][ListNext]_listvars

----------------------------------------------------------------------------
(* Properties *)

\* "<100ms latency via 50ms Timer": each time the timer has run there is one
\* row for every looper pushed and not removed, and state and slider are
\* those of its last push, up to the tolerance, whatever pushes the tracker
\* swallowed and however the slider was dragged.
RowsShowPushes ==
    fresh =>
    /\ DOMAIN rows = DOMAIN pushed
    /\ \A id \in DOMAIN rows :
           /\ Same(rows[id].state, pushed[id])
           /\ Same([rows[id].state EXCEPT !.feedback = rows[id].slider], pushed[id])

\* "Double-click always goes to Stopped", and nothing else does: of the clicks
\* on a row, one asks for a stop exactly when it comes within the window of
\* one that did not, however refreshes, pushes and edits of the row come
\* between, as long as the clock runs forward.
ClicksPair ==
    \A id \in TrackId : \A k \in 1..Len(log[id]) - 1 :
        LET first == log[id][k]
            second == log[id][k + 1]
        IN second.target = "Stopped" <=>
               second.at - first.at < DoubleClick /\ first.target # "Stopped"
=============================================================================
