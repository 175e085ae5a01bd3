--------------------------- MODULE LooperTracker ---------------------------
(***************************************************************************)
(* The plugin's shadow copy of the loopers in the Live set:                *)
(* src/src/Model/LooperTracker.{h,cpp} and LooperState.{h,cpp}.            *)
(*                                                                         *)
(* The remote script pushes full looper states; the tracker stores them    *)
(* by trackId and calls its one change callback.  updateState is           *)
(* diff-based: a push that compares equal to the stored state is neither   *)
(* stored nor announced, and LooperState::operator== compares feedback     *)
(* with a tolerance, so it is not transitive.                              *)
(***************************************************************************)
EXTENDS Integers, Functions

CONSTANTS
    TrackId,      \* the looper identifiers the script may use
    Exact,        \* values of the fields compared exactly (names, state, ...)
    MaxFeedback,  \* feedback is 0..MaxFeedback, in units of the float grid
    Tolerance     \* 0.001f in the same units

ASSUME ToleranceAssumption == Tolerance \in Nat \ {0}
ASSUME FeedbackAssumption == MaxFeedback \in Nat

VARIABLES
    loopers,      \* std::map loopers_ : trackId -> LooperState
    connected,    \* bool connected_
    seen,         \* what the change callback read when it last ran
    pushed        \* the last push per looper (a history variable)

vars == <<loopers, connected, seen, pushed>>

LooperState == [trackId : TrackId, exact : Exact, feedback : 0..MaxFeedback]

\* A std::map<juce::String, LooperState>: a function on some of the ids.
LooperMap == UNION {[D -> LooperState] : D \in SUBSET TrackId}

\* LooperState::operator==, fabs(a - b) < 0.001f on feedback.
Same(a, b) ==
    /\ a.trackId = b.trackId
    /\ a.exact = b.exact
    /\ a.feedback - b.feedback < Tolerance
    /\ b.feedback - a.feedback < Tolerance

Stored(m, s) ==
    [id \in DOMAIN m \cup {s.trackId} |-> IF id = s.trackId THEN s ELSE m[id]]

\* Fault: the entry is blanked instead of erased.
DroppedBlank(m, id) == [k \in DOMAIN m |-> IF k = id THEN << >> ELSE m[k]]

Dropped(m, id) == Restrict(m, DOMAIN m \ {id})

TypeOK ==
    /\ loopers \in LooperMap
    /\ connected \in BOOLEAN
    /\ seen \in LooperMap
    /\ pushed \in LooperMap

Init ==
    /\ loopers = << >>
    /\ connected = FALSE
    /\ seen = << >>
    /\ pushed = << >>

----------------------------------------------------------------------------
\* notifyChange(): the callback runs inside the handler, on the new contents.
\* The callback modelled is the processor's, which calls getAllLoopers().
NotifyChange == seen' = loopers'

\* handleLooperDiscovered -> addLooper: store, then always notify.
AddLooper(s) ==
    /\ loopers' = Stored(loopers, s)
    /\ pushed' = Stored(pushed, s)
    /\ NotifyChange
    /\ UNCHANGED connected

\* handleLooperRemoved -> removeLooper: notify only if something was erased.
RemoveLooper(id) ==
    /\ loopers' = Dropped(loopers, id)
    /\ pushed' = Dropped(pushed, id)
    /\ IF id \in DOMAIN loopers THEN NotifyChange ELSE UNCHANGED seen
    /\ UNCHANGED connected

\* Fault: the assignment is outside the comparison, so "equal" pushes are
\* stored but never announced.
UpdateStateSilently(s) ==
    /\ pushed' = Stored(pushed, s)
    /\ loopers' = Stored(loopers, s)
    /\ IF s.trackId \in DOMAIN loopers /\ Same(loopers[s.trackId], s)
       THEN UNCHANGED seen
       ELSE NotifyChange
    /\ UNCHANGED connected

\* handleLooperStateChanged -> updateState: an unknown looper is added, a
\* known one is replaced only when it differs.
UpdateState(s) ==
    /\ pushed' = Stored(pushed, s)
    /\ IF s.trackId \in DOMAIN loopers /\ Same(loopers[s.trackId], s)
       THEN UNCHANGED <<loopers, seen>>
       ELSE loopers' = Stored(loopers, s) /\ NotifyChange
    /\ UNCHANGED connected

\* setConnected: notify on a change only.
SetConnected(b) ==
    /\ connected' = b
    /\ UNCHANGED <<loopers, pushed>>
    /\ IF b # connected THEN NotifyChange ELSE UNCHANGED seen

Next ==
    \/ \E s \in LooperState : AddLooper(s)
    \/ \E id \in TrackId : RemoveLooper(id)
    \/ \E s \in LooperState : UpdateState(s)
    \/ \E b \in BOOLEAN : SetConnected(b)

Spec == Init /\ [][Next]_vars

----------------------------------------------------------------------------
\* The reader of the shadow state (LooperTracker::onStateChange's callback)
\* only runs when notified.  However many pushes were judged "equal" and
\* swallowed, what it last read has exactly the pushed loopers and each is
\* Same as the LAST push of it: swallowed differences never add up.
ReaderTracksPushes ==
    /\ DOMAIN seen = DOMAIN pushed
    /\ \A id \in DOMAIN pushed : Same(seen[id], pushed[id])

\* The inductive form: the callback has always read the current contents.
ReaderIsCurrent == seen = loopers
=============================================================================
