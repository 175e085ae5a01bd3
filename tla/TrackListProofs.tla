-------------------------- MODULE TrackListProofs --------------------------
(***************************************************************************)
(* The plugin's shadow of the set and the editor's rows over it, for every *)
(* set of ids, tolerance, grid and window.  The tracker: type correctness, *)
(* and its reader never drifts from the last push.  The list: it leaves    *)
(* the tracker's own guarantees alone, the timer shows what was pushed,    *)
(* and clicks pair as a user expects.                                      *)
(***************************************************************************)
EXTENDS TrackList, TLAPS

----------------------------------------------------------------------------
(* The tracker *)


\* Adding an entry to a map of looper states gives such a map (addLooper and
\* updateState assign loopers_[trackId]).
LEMMA StoredType ==
    ASSUME NEW m \in LooperMap, NEW s \in LooperState
    PROVE  Stored(m, s) \in LooperMap
  <1>1. PICK D \in SUBSET TrackId : m \in [D -> LooperState]
    BY DEF LooperMap
  <1>2. s.trackId \in TrackId
    BY DEF LooperState
  <1>3. D \cup {s.trackId} \in SUBSET TrackId
    BY <1>2
  <1>4. Stored(m, s) \in [D \cup {s.trackId} -> LooperState]
    BY <1>1 DEF Stored
  <1>5. QED
    BY <1>3, <1>4 DEF LooperMap

\* Erasing an entry gives a map of looper states (removeLooper).
LEMMA DroppedType ==
    ASSUME NEW m \in LooperMap, NEW id \in TrackId
    PROVE  Dropped(m, id) \in LooperMap
  <1>1. PICK D \in SUBSET TrackId : m \in [D -> LooperState]
    BY DEF LooperMap
  <1>2. Dropped(m, id) \in [D \ {id} -> LooperState]
    BY <1>1 DEF Dropped, Restrict
  <1>3. QED
    BY <1>2 DEF LooperMap

LEMMA EmptyType == << >> \in LooperMap
  <1>1. << >> \in [{} -> LooperState]
    OBVIOUS
  <1>2. QED
    BY <1>1 DEF LooperMap

\* A looper state compares equal to itself: the tolerance is positive.
LEMMA SameReflexive ==
    ASSUME NEW s \in LooperState
    PROVE  Same(s, s)
  <1>1. s.feedback \in Int
    BY FeedbackAssumption DEF LooperState
  <1>2. s.feedback - s.feedback < Tolerance
    BY <1>1, ToleranceAssumption
  <1>3. QED
    BY <1>2 DEF Same

----------------------------------------------------------------------------
\* Every reachable state of the tracker is well typed: its map holds looper
\* states under ids of loopers, whatever is pushed.
THEOREM TrackerTypeOK == Spec => []TypeOK
  <1>1. Init => TypeOK
    BY EmptyType DEF Init, TypeOK
  <1>2. TypeOK /\ [Next]_vars => TypeOK'
    <2> SUFFICES ASSUME TypeOK, [Next]_vars
                 PROVE  TypeOK'
      OBVIOUS
    <2>1. ASSUME NEW s \in LooperState, AddLooper(s)
          PROVE  TypeOK'
      BY <2>1, StoredType DEF TypeOK, AddLooper, NotifyChange
    <2>2. ASSUME NEW id \in TrackId, RemoveLooper(id)
          PROVE  TypeOK'
      BY <2>2, DroppedType DEF TypeOK, RemoveLooper, NotifyChange
    <2>3. ASSUME NEW s \in LooperState, UpdateState(s)
          PROVE  TypeOK'
      BY <2>3, StoredType DEF TypeOK, UpdateState, NotifyChange
    <2>4. ASSUME NEW b \in BOOLEAN, SetConnected(b)
          PROVE  TypeOK'
      BY <2>4 DEF TypeOK, SetConnected, NotifyChange
    <2>5. CASE UNCHANGED vars
      BY <2>5 DEF TypeOK, vars
    <2>6. QED
      BY <2>1, <2>2, <2>3, <2>4, <2>5 DEF Next
  <1>3. QED
    BY <1>1, <1>2, PTL DEF Spec

----------------------------------------------------------------------------
\* What makes the reader's agreement inductive: it has read the current map,
\* and each entry of the map is Same as the last push under its id.
ShadowAgrees ==
    /\ DOMAIN loopers = DOMAIN pushed
    /\ \A id \in DOMAIN pushed : Same(loopers[id], pushed[id])

TrackerInv == TypeOK /\ ReaderIsCurrent /\ ShadowAgrees

\* A push is Same as what the tracker holds once stored, and other entries
\* are untouched (addLooper; updateState's differing and unknown branches).
LEMMA StoredAgrees ==
    ASSUME TypeOK, ShadowAgrees, NEW s \in LooperState,
           loopers' = Stored(loopers, s), pushed' = Stored(pushed, s)
    PROVE  ShadowAgrees'
  <1>1. DOMAIN loopers' = DOMAIN pushed'
    BY DEF ShadowAgrees, Stored
  <1>2. ASSUME NEW id \in DOMAIN pushed'
        PROVE  Same(loopers'[id], pushed'[id])
    <2>1. CASE id = s.trackId
      <3>1. loopers'[id] = s /\ pushed'[id] = s
        BY <2>1 DEF Stored
      <3>2. QED
        BY <3>1, SameReflexive
    <2>2. CASE id # s.trackId
      <3>1. id \in DOMAIN pushed /\ id \in DOMAIN loopers
        BY <1>2, <2>2 DEF Stored, ShadowAgrees
      <3>2. loopers'[id] = loopers[id] /\ pushed'[id] = pushed[id]
        BY <3>1, <2>2 DEF Stored
      <3>3. QED
        BY <3>1, <3>2 DEF ShadowAgrees
    <2>3. QED
      BY <2>1, <2>2
  <1>3. QED
    BY <1>1, <1>2 DEF ShadowAgrees

\* Erasing the same id from both keeps the others' agreement (removeLooper).
LEMMA DroppedAgrees ==
    ASSUME ShadowAgrees, NEW id \in TrackId,
           loopers' = Dropped(loopers, id), pushed' = Dropped(pushed, id)
    PROVE  ShadowAgrees'
  BY DEF ShadowAgrees, Dropped, Restrict

\* A swallowed push: it was compared with what is stored, so what is stored
\* is Same as this push too (updateState's equal branch).
LEMMA SwallowedAgrees ==
    ASSUME ShadowAgrees, NEW s \in LooperState,
           s.trackId \in DOMAIN loopers, Same(loopers[s.trackId], s),
           loopers' = loopers, pushed' = Stored(pushed, s)
    PROVE  ShadowAgrees'
  BY DEF ShadowAgrees, Stored

\* The strengthened invariant is inductive: the reader is current after every
\* handler, and each handler keeps map and pushes in agreement.
THEOREM TrackerInvariant == Spec => []TrackerInv
  <1>1. Init => TrackerInv
    <2> SUFFICES ASSUME Init PROVE TrackerInv
      OBVIOUS
    <2>1. TypeOK /\ ReaderIsCurrent
      BY EmptyType DEF Init, TypeOK, ReaderIsCurrent
    <2>2. DOMAIN loopers = {} /\ DOMAIN pushed = {}
      BY DEF Init
    <2>3. QED
      BY <2>1, <2>2 DEF TrackerInv, ShadowAgrees
  <1>2. TrackerInv /\ [Next]_vars => (ReaderIsCurrent /\ ShadowAgrees)'
    <2> SUFFICES ASSUME TrackerInv, [Next]_vars
                 PROVE  (ReaderIsCurrent /\ ShadowAgrees)'
      OBVIOUS
    <2> USE DEF TrackerInv
    <2>1. ASSUME NEW s \in LooperState, AddLooper(s)
          PROVE  (ReaderIsCurrent /\ ShadowAgrees)'
      BY <2>1, StoredAgrees DEF AddLooper, NotifyChange, ReaderIsCurrent
    <2>2. ASSUME NEW id \in TrackId, RemoveLooper(id)
          PROVE  (ReaderIsCurrent /\ ShadowAgrees)'
      <3>1. ShadowAgrees'
        BY <2>2, DroppedAgrees DEF RemoveLooper
      <3>2. CASE id \in DOMAIN loopers
        BY <2>2, <3>1, <3>2 DEF RemoveLooper, NotifyChange, ReaderIsCurrent
      <3>3. CASE id \notin DOMAIN loopers
        <4>1. PICK D \in SUBSET TrackId : loopers \in [D -> LooperState]
          BY DEF TypeOK, LooperMap
        <4>2. Dropped(loopers, id) = loopers
          BY <3>3, <4>1 DEF Dropped, Restrict
        <4>3. QED
          BY <2>2, <3>1, <3>3, <4>2 DEF RemoveLooper, ReaderIsCurrent
      <3>4. QED
        BY <3>2, <3>3
    <2>3. ASSUME NEW s \in LooperState, UpdateState(s)
          PROVE  (ReaderIsCurrent /\ ShadowAgrees)'
      <3>1. CASE s.trackId \in DOMAIN loopers /\ Same(loopers[s.trackId], s)
        BY <2>3, <3>1, SwallowedAgrees DEF UpdateState, ReaderIsCurrent
      <3>2. CASE ~(s.trackId \in DOMAIN loopers /\ Same(loopers[s.trackId], s))
        BY <2>3, <3>2, StoredAgrees
        DEF UpdateState, NotifyChange, ReaderIsCurrent
      <3>3. QED
        BY <3>1, <3>2
    <2>4. ASSUME NEW b \in BOOLEAN, SetConnected(b)
          PROVE  (ReaderIsCurrent /\ ShadowAgrees)'
      BY <2>4 DEF SetConnected, NotifyChange, ReaderIsCurrent, ShadowAgrees
    <2>5. CASE UNCHANGED vars
      BY <2>5 DEF vars, ReaderIsCurrent, ShadowAgrees
    <2>6. QED
      BY <2>1, <2>2, <2>3, <2>4, <2>5 DEF Next
  <1>3. QED
    BY <1>1, <1>2, TrackerTypeOK, PTL DEF Spec, TrackerInv

\* The tracker's change callback always holds the pushed loopers, each within
\* the tolerance of its LAST push: diff-based updates lose nothing and the
\* differences they ignore do not accumulate (D-03, LooperTracker::updateState).
THEOREM ReaderNeverDrifts == Spec => []ReaderTracksPushes
  <1>1. TrackerInv => ReaderTracksPushes
    BY DEF TrackerInv, ReaderIsCurrent, ShadowAgrees, ReaderTracksPushes
  <1>2. QED
    BY <1>1, TrackerInvariant, PTL

----------------------------------------------------------------------------
(* The list *)

\* Whatever the editor does, the tracker under it behaves as LooperTracker
\* says: the list only reads it.
THEOREM ListLeavesTracker == ListSpec => Spec
  <1>1. ListInit => Init
    BY DEF ListInit
  <1>2. [ListNext]_listvars => [Next]_vars
    BY DEF ListNext, listvars, list, Refresh, User, OpenEditor, CloseEditor, ClickTransport,
           ClickRow, DragSlider, Tick, SetClockBack
  <1>3. QED
    BY <1>1, <1>2, PTL DEF ListSpec, Spec

----------------------------------------------------------------------------
RowMap == UNION {[D -> Row] : D \in SUBSET TrackId}

\* A map of rows with one of them replaced is such a map.
LEMMA RowReplaced ==
    ASSUME NEW r \in RowMap, NEW id \in DOMAIN r, NEW row \in Row
    PROVE  /\ [r EXCEPT ![id] = row] \in RowMap
           /\ DOMAIN [r EXCEPT ![id] = row] = DOMAIN r
  <1>1. PICK D \in SUBSET TrackId : r \in [D -> Row]
    BY DEF RowMap
  <1>2. [r EXCEPT ![id] = row] \in [D -> Row]
    BY <1>1
  <1>3. QED
    BY <1>1, <1>2 DEF RowMap

\* A row of the map.
LEMMA RowOf ==
    ASSUME NEW r \in RowMap, NEW id \in DOMAIN r
    PROVE  r[id] \in Row /\ id \in TrackId
  BY DEF RowMap

\* An entry of the tracker's map.
LEMMA LooperOf ==
    ASSUME NEW m \in LooperMap, NEW id \in DOMAIN m
    PROVE  m[id] \in LooperState /\ id \in TrackId
  BY DEF LooperMap

\* What a click asks for and leaves behind (TransportButton::mouseDown): it
\* stops exactly within the window, and only a click that does not stop is
\* remembered.
LEMMA ClickedAsks ==
    ASSUME ListTypeOK, NEW row \in Row
    PROVE  /\ Clicked(row).last \in 0..MaxClock
           /\ [at |-> clock, target |-> Clicked(row).target] \in Click
           /\ Clicked(row).target = "Stopped" <=> clock - row.last < DoubleClick
           /\ Clicked(row).last = IF Clicked(row).target = "Stopped" THEN LongAgo ELSE clock
  <1>1. clock \in 0..MaxClock /\ row.last \in Int
    BY DoubleClickAssumption DEF ListTypeOK, Row
  <1>2. row.state.exact \in {"Stopped", "Recording", "Playing", "Overdubbing"}
    BY ExactAssumption DEF Row, LooperState
  <1>3. NextState[row.state.exact] \in {"Recording", "Playing", "Overdubbing"}
    BY <1>2 DEF NextState
  <1>4. CASE clock - row.last < DoubleClick
    BY <1>1, <1>4, DoubleClickAssumption DEF Clicked, LongAgo, Click
  <1>5. CASE ~(clock - row.last < DoubleClick)
    BY <1>1, <1>3, <1>5, DoubleClickAssumption DEF Clicked, LongAgo, Click
  <1>6. QED
    BY <1>4, <1>5

\* A row that a refresh leaves or makes shows its looper (setState).
LEMMA RefreshedShows ==
    ASSUME TypeOK, ListTypeOK, NEW id \in DOMAIN loopers
    PROVE  /\ Refreshed(rows)[id] \in Row
           /\ Refreshed(rows)[id].state = loopers[id]
           /\ Refreshed(rows)[id].slider = loopers[id].feedback
           /\ id \in DOMAIN rows => Refreshed(rows)[id].last = rows[id].last
  <1>1. loopers[id] \in LooperState /\ id \in TrackId
    BY LooperOf DEF TypeOK
  <1>2. loopers[id].feedback \in 0..MaxFeedback
    BY <1>1 DEF LooperState
  <1>3. CASE id \in DOMAIN rows
    <2>1. rows[id] \in Row
      BY <1>3, RowOf DEF ListTypeOK, RowMap
    <2>2. Refreshed(rows)[id] =
             [rows[id] EXCEPT !.state = loopers[id], !.slider = loopers[id].feedback]
      BY <1>3 DEF Refreshed
    <2>3. QED
      BY <1>1, <1>2, <2>1, <2>2 DEF Row
  <1>4. CASE id \notin DOMAIN rows
    <2>1. Refreshed(rows)[id] = NewRow(loopers[id])
      BY <1>4 DEF Refreshed
    <2>2. 0 \in 0..MaxClock
      BY DoubleClickAssumption
    <2>3. QED
      BY <1>1, <1>2, <1>4, <2>1, <2>2 DEF NewRow, LongAgo, Row
  <1>5. QED
    BY <1>3, <1>4

\* The tracker's map is keyed by its states' own ids (addLooper, updateState).
Keyed == \A id \in DOMAIN loopers : loopers[id].trackId = id

\* Every state of the list is well typed, with each row under its own id.
THEOREM ListTypeCorrect == ListSpec => []ListTypeOK
  <1>1. Spec => []Keyed
    <2>1. Init => Keyed
      BY DEF Init, Keyed
    <2>2. Keyed /\ [Next]_vars => Keyed'
      <3> SUFFICES ASSUME Keyed, [Next]_vars PROVE Keyed'
        OBVIOUS
      <3>1. CASE \E q \in LooperState : AddLooper(q) \/ UpdateState(q)
        BY <3>1 DEF Keyed, AddLooper, UpdateState, Stored
      <3>2. CASE \E id \in TrackId : RemoveLooper(id)
        BY <3>2 DEF Keyed, RemoveLooper, Dropped, Restrict
      <3>3. CASE (\E b \in BOOLEAN : SetConnected(b)) \/ UNCHANGED vars
        BY <3>3 DEF Keyed, SetConnected, vars
      <3>4. QED
        BY <3>1, <3>2, <3>3 DEF Next
    <2>3. QED
      BY <2>1, <2>2, PTL DEF Spec
  <1>2. ListInit => ListTypeOK
    <2> SUFFICES ASSUME ListInit PROVE ListTypeOK
      OBVIOUS
    <2>1. rows \in [{} -> Row]
      BY DEF ListInit
    <2>2. clock \in DoubleClick..MaxClock
      BY DoubleClickAssumption DEF ListInit
    <2>3. log \in [TrackId -> Seq(Click)]
      BY DEF ListInit, NoClicks
    <2>4. QED
      BY <2>1, <2>2, <2>3 DEF ListInit, ListTypeOK
  <1>3. ListTypeOK /\ TypeOK /\ Keyed /\ [ListNext]_listvars => ListTypeOK'
    <2> SUFFICES ASSUME ListTypeOK, TypeOK, Keyed, [ListNext]_listvars
                 PROVE  ListTypeOK'
      OBVIOUS
    <2>1. CASE Next /\ fresh' = FALSE /\ UNCHANGED <<open, rows, clock, log>>
      BY <2>1 DEF ListTypeOK
    <2>2. CASE Refresh
      <3>1. \A id \in DOMAIN loopers : id \in TrackId
        BY LooperOf DEF TypeOK
      <3>2. rows' \in [DOMAIN loopers -> Row]
        BY <2>2, RefreshedShows DEF Refresh, Refreshed
      <3>3. \A id \in DOMAIN rows' : rows'[id].state.trackId = id
        BY <2>2, <3>2, RefreshedShows DEF Refresh, Keyed
      <3>4. log' \in [TrackId -> Seq(Click)]
        BY <2>2 DEF Refresh, ListTypeOK
      <3>5. QED
        BY <2>2, <3>1, <3>2, <3>3, <3>4 DEF Refresh, ListTypeOK
    <2>3. CASE OpenEditor \/ Tick
      <3>1. rows' = rows /\ log' = log /\ fresh' = fresh
        BY <2>3 DEF OpenEditor, Tick
      <3>2. clock' \in DoubleClick..MaxClock
        BY <2>3, DoubleClickAssumption DEF OpenEditor, Tick, ListTypeOK
      <3>3. open' \in BOOLEAN
        BY <2>3 DEF OpenEditor, Tick, ListTypeOK
      <3>4. QED
        BY <3>1, <3>2, <3>3 DEF ListTypeOK
    <2>4. CASE CloseEditor
      <3>1. rows' \in [{} -> Row] /\ log' \in [TrackId -> Seq(Click)]
        BY <2>4 DEF CloseEditor, NoClicks
      <3>2. QED
        BY <2>4, <3>1 DEF CloseEditor, ListTypeOK
    <2>5. ASSUME NEW id \in TrackId, ClickTransport(id)
          PROVE  ListTypeOK'
      <3> DEFINE row == [rows[id] EXCEPT !.last = Clicked(rows[id]).last]
      <3>1. rows[id] \in Row /\ id \in DOMAIN rows
        BY <2>5, RowOf DEF ClickTransport, ListTypeOK, RowMap
      <3>2. row \in Row /\ row.state = rows[id].state
        BY <3>1, ClickedAsks DEF Row
      <3>3. rows' = [rows EXCEPT ![id] = row]
        BY <2>5 DEF ClickTransport
      <3>4. rows' \in RowMap /\ DOMAIN rows' = DOMAIN rows
        BY <3>1, <3>2, <3>3, RowReplaced DEF ListTypeOK, RowMap
      <3>5. \A k \in DOMAIN rows' : rows'[k].state.trackId = k
        BY <3>1, <3>2, <3>3, <3>4 DEF ListTypeOK
      <3>6. log' \in [TrackId -> Seq(Click)]
        BY <2>5, <3>1, ClickedAsks DEF ClickTransport, ListTypeOK
      <3>7. QED
        BY <2>5, <3>4, <3>5, <3>6 DEF ClickTransport, ListTypeOK, RowMap
    <2>6. ASSUME NEW id \in TrackId, ClickRow(id)
          PROVE  ListTypeOK'
      <3> DEFINE row == [rows[id] EXCEPT !.expanded = ~@]
      <3>1. rows[id] \in Row /\ id \in DOMAIN rows
        BY <2>6, RowOf DEF ClickRow, ListTypeOK, RowMap
      <3>2. row \in Row /\ row.state = rows[id].state
        BY <3>1 DEF Row
      <3>3. rows' = [rows EXCEPT ![id] = row]
        BY <2>6 DEF ClickRow
      <3>4. rows' \in RowMap /\ DOMAIN rows' = DOMAIN rows
        BY <3>1, <3>2, <3>3, RowReplaced DEF ListTypeOK, RowMap
      <3>5. \A k \in DOMAIN rows' : rows'[k].state.trackId = k
        BY <3>1, <3>2, <3>3, <3>4 DEF ListTypeOK
      <3>6. QED
        BY <2>6, <3>4, <3>5 DEF ClickRow, ListTypeOK, RowMap
    <2>7. ASSUME NEW id \in TrackId, NEW v \in 0..MaxFeedback, DragSlider(id, v)
          PROVE  ListTypeOK'
      <3> DEFINE row == [rows[id] EXCEPT !.slider = v]
      <3>1. rows[id] \in Row /\ id \in DOMAIN rows
        BY <2>7, RowOf DEF DragSlider, ListTypeOK, RowMap
      <3>2. row \in Row /\ row.state = rows[id].state
        BY <3>1 DEF Row
      <3>3. rows' = [rows EXCEPT ![id] = row]
        BY <2>7 DEF DragSlider
      <3>4. rows' \in RowMap /\ DOMAIN rows' = DOMAIN rows
        BY <3>1, <3>2, <3>3, RowReplaced DEF ListTypeOK, RowMap
      <3>5. \A k \in DOMAIN rows' : rows'[k].state.trackId = k
        BY <3>1, <3>2, <3>3, <3>4 DEF ListTypeOK
      <3>6. QED
        BY <2>7, <3>4, <3>5 DEF DragSlider, ListTypeOK, RowMap
    <2>8. CASE SetClockBack
      <3>1. clock' \in DoubleClick..MaxClock
        BY <2>8, DoubleClickAssumption DEF SetClockBack, ListTypeOK
      <3>2. log' \in [TrackId -> Seq(Click)]
        BY <2>8 DEF SetClockBack, NoClicks
      <3>3. QED
        BY <2>8, <3>1, <3>2 DEF SetClockBack, ListTypeOK
    <2>9. CASE UNCHANGED listvars
      BY <2>9 DEF listvars, list, ListTypeOK
    <2>10. QED
      BY <2>1, <2>2, <2>3, <2>4, <2>5, <2>6, <2>7, <2>8, <2>9 DEF ListNext, User
  <1>4. QED
    BY <1>1, <1>2, <1>3, TrackerTypeOK, ListLeavesTracker, PTL DEF ListSpec

----------------------------------------------------------------------------
\* Each time the timer has run, the rows are the pushed loopers, and their
\* states and sliders those of the last pushes up to the tolerance
\* (LooperListView::refreshFromTracker over LooperTracker::updateState).
THEOREM ShownIsPushed == ListSpec => []RowsShowPushes
  <1>1. ListInit => RowsShowPushes
    BY DEF ListInit, RowsShowPushes
  <1>2. RowsShowPushes /\ ListTypeOK /\ TrackerInv /\ [ListNext]_listvars => RowsShowPushes'
    <2> SUFFICES ASSUME RowsShowPushes, ListTypeOK, TrackerInv, [ListNext]_listvars
                 PROVE  RowsShowPushes'
      OBVIOUS
    <2>1. CASE Refresh
      <3>1. DOMAIN rows' = DOMAIN loopers /\ DOMAIN loopers = DOMAIN pushed
        BY <2>1 DEF Refresh, Refreshed, TrackerInv, ShadowAgrees
      <3>2. ASSUME NEW id \in DOMAIN loopers
            PROVE  /\ rows'[id].state = loopers[id]
                   /\ [rows'[id].state EXCEPT !.feedback = rows'[id].slider] = loopers[id]
        <4>1. loopers[id] \in LooperState
          BY LooperOf DEF TrackerInv, TypeOK
        <4>2. QED
          BY <2>1, <4>1, RefreshedShows DEF Refresh, TrackerInv, LooperState
      <3>3. ASSUME NEW id \in DOMAIN loopers
            PROVE  Same(loopers[id], pushed'[id])
        BY <2>1, <3>1 DEF Refresh, vars, TrackerInv, ShadowAgrees
      <3>4. pushed' = pushed
        BY <2>1 DEF Refresh, vars
      <3>5. QED
        BY <3>1, <3>2, <3>3, <3>4 DEF RowsShowPushes
    <2>2. CASE OpenEditor \/ Tick \/ SetClockBack
      BY <2>2 DEF OpenEditor, Tick, SetClockBack, vars, RowsShowPushes
    <2>3. CASE CloseEditor \/ (Next /\ fresh' = FALSE /\ UNCHANGED <<open, rows, clock, log>>)
      BY <2>3 DEF CloseEditor, RowsShowPushes
    <2>4. CASE \E id \in TrackId, v \in 0..MaxFeedback : DragSlider(id, v)
      BY <2>4 DEF DragSlider, RowsShowPushes
    <2>5. ASSUME NEW id \in TrackId, ClickTransport(id) \/ ClickRow(id)
          PROVE  RowsShowPushes'
      <3>1. /\ DOMAIN rows' = DOMAIN rows
            /\ \A k \in DOMAIN rows : rows'[k].state = rows[k].state
                                     /\ rows'[k].slider = rows[k].slider
        <4>1. \A k \in DOMAIN rows : rows[k] \in Row
          BY RowOf DEF ListTypeOK, RowMap
        <4>2. CASE ClickTransport(id)
          BY <4>1, <4>2 DEF ClickTransport, Row
        <4>3. CASE ClickRow(id)
          BY <4>1, <4>3 DEF ClickRow, Row
        <4>4. QED
          BY <2>5, <4>2, <4>3
      <3>2. fresh' = fresh /\ pushed' = pushed
        BY <2>5 DEF ClickTransport, ClickRow, vars
      <3>3. QED
        BY <3>1, <3>2 DEF RowsShowPushes
    <2>6. CASE UNCHANGED listvars
      BY <2>6 DEF listvars, list, vars, RowsShowPushes
    <2>7. QED
      BY <2>1, <2>2, <2>3, <2>4, <2>5, <2>6 DEF ListNext, User
  <1>3. QED
    BY <1>1, <1>2, ListTypeCorrect, TrackerInvariant, ListLeavesTracker, PTL DEF ListSpec

----------------------------------------------------------------------------
\* What makes the pairing of clicks inductive: a row remembers its last click
\* if that one did not stop, and nothing if it did.
Remembered ==
    \A id \in TrackId : log[id] # << >> =>
        /\ id \in DOMAIN rows
        /\ LET click == log[id][Len(log[id])]
           IN rows[id].last = IF click.target = "Stopped" THEN LongAgo ELSE click.at

\* Of two clicks on a row the second stops exactly when it comes within the
\* window of a first that did not, whatever the timer and the pushes do in
\* between (TransportButton::mouseDown, LooperListView::refreshFromTracker).
THEOREM ClicksAlwaysPair == ListSpec => []ClicksPair
  <1>1. ListInit => Remembered /\ ClicksPair
    BY DEF ListInit, NoClicks, Remembered, ClicksPair
  <1>2. Remembered /\ ClicksPair /\ ListTypeOK /\ TypeOK /\ [ListNext]_listvars
        => (Remembered /\ ClicksPair)'
    <2> SUFFICES ASSUME Remembered, ClicksPair, ListTypeOK, TypeOK, [ListNext]_listvars
                 PROVE  (Remembered /\ ClicksPair)'
      OBVIOUS
    <2>1. CASE Refresh
      <3>1. ASSUME NEW id \in TrackId
            PROVE  log'[id] = log[id] \/ log'[id] = << >>
        BY <2>1 DEF Refresh
      <3>2. ClicksPair'
        BY <3>1 DEF ClicksPair
      <3>3. ASSUME NEW id \in TrackId, log'[id] # << >>
            PROVE  id \in DOMAIN rows /\ id \in DOMAIN rows' /\ log'[id] = log[id]
        BY <2>1, <3>3 DEF Refresh, Remembered
      <3>4. ASSUME NEW id \in TrackId, log'[id] # << >>
            PROVE  rows'[id].last = rows[id].last
        <4>1. id \in DOMAIN loopers
          BY <2>1, <3>3, <3>4 DEF Refresh, Refreshed
        <4>2. QED
          BY <2>1, <3>3, <3>4, <4>1, RefreshedShows DEF Refresh
      <3>5. Remembered'
        BY <3>3, <3>4 DEF Remembered
      <3>6. QED
        BY <3>2, <3>5
    <2>2. ASSUME NEW id \in TrackId, ClickTransport(id)
          PROVE  (Remembered /\ ClicksPair)'
      <3> DEFINE click == [at |-> clock, target |-> Clicked(rows[id]).target]
      <3>1. rows[id] \in Row /\ id \in DOMAIN rows
        BY <2>2, RowOf DEF ClickTransport, ListTypeOK, RowMap
      <3>2. log' = [log EXCEPT ![id] = Append(@, click)] /\ click \in Click
        BY <2>2, <3>1, ClickedAsks DEF ClickTransport
      <3>3. log[id] \in Seq(Click)
        BY DEF ListTypeOK
      <3>4. /\ Len(log'[id]) = Len(log[id]) + 1
            /\ log'[id][Len(log[id]) + 1] = click
            /\ \A k \in 1..Len(log[id]) : log'[id][k] = log[id][k]
        BY <3>2, <3>3 DEF ListTypeOK
      <3>5. /\ DOMAIN rows' = DOMAIN rows
            /\ rows'[id].last = Clicked(rows[id]).last
            /\ \A k \in TrackId \ {id} : rows'[k] = rows[k] /\ log'[k] = log[k]
        BY <2>2, <3>1 DEF ClickTransport, ListTypeOK, Row
      <3>6. Remembered'
        BY <3>1, <3>3, <3>4, <3>5, ClickedAsks DEF Remembered
      <3>7. ASSUME NEW k \in 1..Len(log[id])
            PROVE  log'[id][k + 1].target = "Stopped" <=>
                       /\ log'[id][k + 1].at - log'[id][k].at < DoubleClick
                       /\ log'[id][k].target # "Stopped"
        <4>1. CASE k < Len(log[id])
          <5>1. k \in 1..Len(log[id]) - 1 /\ k + 1 \in 1..Len(log[id])
            BY <3>3, <4>1
          <5>2. log'[id][k] = log[id][k] /\ log'[id][k + 1] = log[id][k + 1]
            BY <3>4, <5>1
          <5>3. QED
            BY <5>1, <5>2 DEF ClicksPair
        <4>2. CASE k = Len(log[id])
          <5>1. log[id] # << >> /\ log'[id][k] = log[id][k] /\ log'[id][k + 1] = click
            BY <3>3, <3>4, <4>2
          <5>2. rows[id].last = IF log[id][k].target = "Stopped" THEN LongAgo ELSE log[id][k].at
            BY <4>2, <5>1 DEF Remembered
          <5>3. ~(clock - LongAgo < DoubleClick)
            BY DoubleClickAssumption DEF ListTypeOK, LongAgo
          <5>4. click.target = "Stopped" <=> clock - rows[id].last < DoubleClick
            BY <3>1, ClickedAsks
          <5>5. QED
            BY <5>1, <5>2, <5>3, <5>4
        <4>3. QED
          BY <3>3, <4>1, <4>2
      <3>8. ClicksPair'
        <4>1. Len(log'[id]) - 1 = Len(log[id])
          BY <3>3, <3>4
        <4>2. QED
          BY <3>5, <3>7, <4>1 DEF ClicksPair
      <3>9. QED
        BY <3>6, <3>8
    <2>3. ASSUME NEW id \in TrackId, NEW v \in 0..MaxFeedback,
                 ClickRow(id) \/ DragSlider(id, v)
          PROVE  (Remembered /\ ClicksPair)'
      <3>1. \A k \in DOMAIN rows : rows[k] \in Row
        BY RowOf DEF ListTypeOK, RowMap
      <3>2. log' = log /\ DOMAIN rows' = DOMAIN rows
            /\ \A k \in DOMAIN rows : rows'[k].last = rows[k].last
        BY <2>3, <3>1 DEF ClickRow, DragSlider, Row
      <3>3. QED
        BY <3>2 DEF Remembered, ClicksPair
    <2>4. CASE CloseEditor \/ SetClockBack
      BY <2>4 DEF CloseEditor, SetClockBack, NoClicks, Remembered, ClicksPair
    <2>5. CASE OpenEditor \/ Tick \/ (Next /\ fresh' = FALSE /\ UNCHANGED <<open, rows, clock, log>>)
      BY <2>5 DEF OpenEditor, Tick, Remembered, ClicksPair
    <2>6. CASE UNCHANGED listvars
      BY <2>6 DEF listvars, list, Remembered, ClicksPair
    <2>7. ListNext \/ UNCHANGED listvars
      OBVIOUS
    <2>8. 0 \in 0..MaxFeedback
      BY FeedbackAssumption
    <2>9. QED
      BY <2>1, <2>2, <2>3, <2>4, <2>5, <2>6, <2>7, <2>8 DEF ListNext, User
  <1>3. QED
    BY <1>1, <1>2, ListTypeCorrect, TrackerTypeOK, ListLeavesTracker, PTL DEF ListSpec
=============================================================================
