-------------------------- MODULE DiscoveryProofs --------------------------
(***************************************************************************)
(* What the remote script reads, hears and tells, for all tracks, devices, *)
(* parameters and values: its listeners are attached once, its rows are    *)
(* current, and its commands do what they answer.                          *)
(***************************************************************************)
EXTENDS Discovery, SequenceLemmas

\* Where the devices are: a track is in the list once, a device in one place.
PlacesOK ==
    /\ tracks \in Seq(Track) /\ IsInjective(tracks)
    /\ chain \in [Track -> Seq(Device)]
    /\ \A t \in Track : IsInjective(chain[t])
    /\ \A t, u \in Track : t # u => Range(chain[t]) \cap Range(chain[u]) = {}

Allowed(v) ==
    /\ v = [d \in Device |-> [p \in Params[d] |-> v[d][p]]]
    /\ \A d \in Device : \A p \in Params[d] : v[d][p] \in Levels[p]

\* What is attached is known to be: stop_listening takes every listener off.
Known(a) == \A d \in Device : \A p \in Params[d] :
                a[d][p] \in {0, 1} /\ (a[d][p] = 1 => <<d, p>> \in listening)

ListenersOK ==
    /\ listening \subseteq {x \in Device \X Watched : x[2] \in Params[x[1]]}
    /\ Known(attached)

TypeInv ==
    /\ PlacesOK /\ Allowed(value) /\ ListenersOK
    /\ Range(found) \subseteq Nat /\ Range(rows) \subseteq Info /\ reply \in Answer

\* What a scan of the tracks leaves behind, until device lists change unheard.
Scanned(ts) ==
    /\ listening = ToListen(ts)
    /\ \A x \in ToListen(ts) : attached[x[1]][x[2]] = 1
    /\ DOMAIN found = {i \in DOMAIN ts : Loopers(ts[i]) # {}}
    /\ \A i \in DOMAIN found : /\ found[i] \in Loopers(ts[i])
                               /\ i \in DOMAIN rows /\ rows[i].device \in Loopers(ts[i])

Current(ts) ==
    \A i \in DOMAIN found : rows[i] = ReadLooperState(i, rows[i].device, ts[i], value)

ScanInv == TypeInv /\ (~unheard => Scanned(tracks))
RowInv == ScanInv /\ (~unheard => Current(tracks))

----------------------------------------------------------------------------
(* Reading *)

LEMMA LooperPositions ==
    ASSUME PlacesOK, NEW t \in Track
    PROVE  /\ Len(chain[t]) \in Nat /\ DOMAIN chain[t] = 1..Len(chain[t])
           /\ Loopers(t) \in SUBSET (1..Len(chain[t]))
           /\ \A k \in DOMAIN chain[t] : chain[t][k] \in Device
  <1>1. chain[t] \in Seq(Device)
    BY DEF PlacesOK
  <1>2. Len(chain[t]) \in Nat /\ DOMAIN chain[t] = 1..Len(chain[t])
    BY <1>1, LenProperties
  <1>3. QED
    BY <1>1, <1>2, ElementOfSeq DEF Loopers

\* A reading is one the plugin can parse: _read_looper_state's defaults.
LEMMA ReadingType ==
    ASSUME PlacesOK, NEW t \in Track, NEW i \in Nat, NEW k \in Loopers(t), NEW v, Allowed(v)
    PROVE  /\ ReadLooperState(i, k, t, v) \in Info
           /\ ReadLooperState(i, k, t, v).device = k
  <1> DEFINE d == chain[t][k]
             s == IF "State" \in Params[d] /\ v[d]["State"] + 1 \in DOMAIN StateMap
                  THEN StateMap[v[d]["State"] + 1] ELSE "Stopped"
             f == IF "Feedback" \in Params[d] THEN v[d]["Feedback"] ELSE Half
  <1>1. k \in Nat /\ d \in Device
    BY LooperPositions DEF Loopers
  <1>2. s \in States
    BY DEF StateMap, States
  <1>3. f \in Levels["Feedback"] \cup {Half}
    BY <1>1 DEF Allowed
  <1>4. QED
    BY <1>1, <1>2, <1>3 DEF ReadLooperState, Info

LEMMA ScanReads ==
    ASSUME PlacesOK, Allowed(value), NEW ts \in Seq(Track)
    PROVE  LET s == ScanAllTracks(ts)
           IN /\ DOMAIN s = {i \in DOMAIN ts : Loopers(ts[i]) # {}}
              /\ \A i \in DOMAIN s : /\ s[i] \in Info
                                     /\ s[i].device \in Loopers(ts[i])
                                     /\ s[i] = ReadLooperState(i, s[i].device, ts[i], value)
  <1> DEFINE s == ScanAllTracks(ts)
  <1>1. DOMAIN s = {i \in DOMAIN ts : Loopers(ts[i]) # {}}
    BY DEF ScanAllTracks
  <1>2. ASSUME NEW i \in DOMAIN s
        PROVE  /\ s[i] \in Info
               /\ s[i].device \in Loopers(ts[i])
               /\ s[i] = ReadLooperState(i, s[i].device, ts[i], value)
    <2>1. i \in Nat /\ ts[i] \in Track /\ Loopers(ts[i]) # {}
      BY <1>1, <1>2, LenProperties, ElementOfSeq
    <2>2. Max(Loopers(ts[i])) \in Loopers(ts[i])
      BY <2>1, LooperPositions, LastPosition
    <2>3. s[i] = ReadLooperState(i, Max(Loopers(ts[i])), ts[i], value)
      BY <1>2 DEF ScanAllTracks
    <2>4. QED
      BY <2>1, <2>2, <2>3, ReadingType
  <1>3. QED
    BY <1>1, <1>2

LEMMA PushedRows ==
    ASSUME NEW infos, \A i \in DOMAIN infos : infos[i] \in Info, Range(rows) \subseteq Info
    PROVE  /\ Range(Pushed(infos)) \subseteq Info
           /\ DOMAIN Pushed(infos) = DOMAIN rows \cup DOMAIN infos
           /\ \A i \in DOMAIN infos : Pushed(infos)[i] = infos[i]
           /\ \A i \in DOMAIN rows \ DOMAIN infos : Pushed(infos)[i] = rows[i]
  BY DEF Pushed, Range

----------------------------------------------------------------------------
(* Scanning *)

LEMMA RescanLeaves ==
    ASSUME PlacesOK, Allowed(value), Range(rows) \subseteq Info,
           NEW a, Known(a), NEW ts \in Seq(Track), Rescan(ts, a), UNCHANGED <<chain, value>>
    PROVE  /\ ListenersOK' /\ Range(found') \subseteq Nat /\ Range(rows') \subseteq Info
           /\ Scanned(ts)' /\ Current(ts)'
  <1> DEFINE s == ScanAllTracks(ts)
  <1>1. /\ DOMAIN s = {i \in DOMAIN ts : Loopers(ts[i]) # {}}
        /\ \A i \in DOMAIN s : /\ s[i] \in Info
                               /\ s[i].device \in Loopers(ts[i])
                               /\ s[i] = ReadLooperState(i, s[i].device, ts[i], value)
    BY ScanReads
  <1>2. /\ found' = DeviceIds(s) /\ rows' = Pushed(s) /\ listening' = ToListen(ts)
        /\ attached' = [d \in Device |-> [p \in Params[d] |->
                           StopListening(a)[d][p] + (IF <<d, p>> \in ToListen(ts) THEN 1 ELSE 0)]]
    BY DEF Rescan
  <1> HIDE DEF s
  <1>3. ASSUME NEW d \in Device, NEW p \in Params[d] PROVE StopListening(a)[d][p] = 0
    <2>1. StopListening(a)[d] = [q \in Params[d] |->
              IF <<d, q>> \in listening /\ a[d][q] > 0 THEN a[d][q] - 1 ELSE a[d][q]]
      BY DEF StopListening
    <2>2. a[d][p] \in {0, 1} /\ (a[d][p] = 1 => <<d, p>> \in listening)
      BY DEF Known
    <2>3. QED
      BY <2>1, <2>2
  <1>4. ASSUME NEW d \in Device, NEW p \in Params[d]
        PROVE  attached'[d][p] = IF <<d, p>> \in ToListen(ts) THEN 1 ELSE 0
    <2>1. attached'[d] = [q \in Params[d] |->
              StopListening(a)[d][q] + (IF <<d, q>> \in ToListen(ts) THEN 1 ELSE 0)]
      BY <1>2
    <2>2. attached'[d][p] = StopListening(a)[d][p] + (IF <<d, p>> \in ToListen(ts) THEN 1 ELSE 0)
      BY <2>1
    <2>3. QED
      BY <1>3, <2>2
  <1>5. ToListen(ts) \subseteq {x \in Device \X Watched : x[2] \in Params[x[1]]}
    BY DEF ToListen
  <1>6. ListenersOK'
    <2>1. ASSUME NEW d \in Device, NEW p \in Params[d]
          PROVE  attached'[d][p] \in {0, 1} /\ (attached'[d][p] = 1 => <<d, p>> \in listening')
      <3>1. attached'[d][p] = IF <<d, p>> \in ToListen(ts) THEN 1 ELSE 0
        BY <1>4
      <3>2. QED
        BY <1>2, <3>1
    <2>2. QED
      BY <1>2, <1>5, <2>1 DEF ListenersOK, Known
  <1>7. \A x \in ToListen(ts) : attached'[x[1]][x[2]] = 1
    BY <1>4, <1>5
  <1>8. /\ Range(rows') \subseteq Info
        /\ DOMAIN rows' = DOMAIN rows \cup DOMAIN s
        /\ \A i \in DOMAIN s : rows'[i] = s[i]
    BY <1>1, <1>2, PushedRows
  <1>9. DOMAIN found' = DOMAIN s /\ \A i \in DOMAIN s : found'[i] = s[i].device
    BY <1>2 DEF DeviceIds
  <1>10. Range(found') \subseteq Nat
    BY <1>1, <1>9 DEF Range, Info
  <1>11. ToListen(ts)' = ToListen(ts)
    BY DEF ToListen
  <1>12. \A i \in DOMAIN ts : Loopers(ts[i])' = Loopers(ts[i])
    BY DEF Loopers
  <1>13. ASSUME NEW i, NEW k, NEW t
         PROVE  ReadLooperState(i, k, t, value)' = ReadLooperState(i, k, t, value)
    BY DEF ReadLooperState
  <1>14. Scanned(ts)'
    BY <1>1, <1>2, <1>7, <1>8, <1>9, <1>11, <1>12 DEF Scanned
  <1>15. Current(ts)'
    <2> SUFFICES ASSUME NEW i \in DOMAIN s
                 PROVE  rows'[i] = ReadLooperState(i, rows'[i].device, ts[i], value')
      BY <1>9 DEF Current, ReadLooperState
    <2>1. rows'[i] = ReadLooperState(i, rows'[i].device, ts[i], value)
      BY <1>1, <1>8
    <2>2. QED
      BY <2>1
  <1>16. QED
    BY <1>6, <1>8, <1>10, <1>14, <1>15
----------------------------------------------------------------------------
(* Values *)

LEMMA TrackOfIs ==
    ASSUME PlacesOK, NEW d \in InSet
    PROVE  /\ d \in Device
           /\ TrackOf(d) \in Track
           /\ \E i \in DOMAIN tracks : tracks[i] = TrackOf(d)
           /\ \E k \in DOMAIN chain[TrackOf(d)] : chain[TrackOf(d)][k] = d
  <1>1. \E t \in Range(tracks) : d \in Range(chain[t])
    BY DEF InSet
  <1>2. TrackOf(d) \in Range(tracks) /\ d \in Range(chain[TrackOf(d)])
    BY <1>1 DEF TrackOf
  <1>3. \A i \in DOMAIN tracks : tracks[i] \in Track
    BY ElementOfSeq, LenProperties DEF PlacesOK
  <1>4. QED
    BY <1>2, <1>3, LooperPositions DEF Range

\* A change pushes one row, a reading of a looper on a track called like the
\* changed one's, or none when no looper there is called like it.
LEMMA ChangedPushes ==
    ASSUME PlacesOK, NEW d \in InSet, NEW v, Allowed(v), Range(rows) \subseteq Info
    PROVE  \/ TracksNamed(d) = {} /\ Changed(d, v) = rows
           \/ \E i \in TracksNamed(d) : \E k \in Namesakes(d, tracks[i]) :
                 /\ i \in DOMAIN tracks /\ tracks[i] \in Track
                 /\ TrackName[tracks[i]] = TrackName[TrackOf(d)]
                 /\ k \in Loopers(tracks[i])
                 /\ Range(Changed(d, v)) \subseteq Info
                 /\ DOMAIN Changed(d, v) = DOMAIN rows \cup {i}
                 /\ Changed(d, v)[i] = ReadLooperState(i, k, tracks[i], v)
                 /\ Changed(d, v)[i].device = k
                 /\ \A j \in DOMAIN rows \ {i} : Changed(d, v)[j] = rows[j]
  <1>1. CASE TracksNamed(d) = {}
    BY <1>1 DEF Changed
  <1>2. CASE TracksNamed(d) # {}
    <2> DEFINE i == Min(TracksNamed(d))
               k == Min(Namesakes(d, tracks[i]))
               r == ReadLooperState(i, k, tracks[i], v)
               infos == [n \in {i} |-> r]
    <2>1. \A j \in DOMAIN tracks : j \in Nat /\ tracks[j] \in Track
      BY ElementOfSeq, LenProperties DEF PlacesOK
    <2>2. i \in TracksNamed(d)
      BY <1>2, <2>1, FirstPosition DEF TracksNamed
    <2>3. /\ i \in DOMAIN tracks /\ TrackName[tracks[i]] = TrackName[TrackOf(d)]
          /\ Namesakes(d, tracks[i]) # {}
      BY <2>2 DEF TracksNamed
    <2> HIDE DEF i
    <2>4. Namesakes(d, tracks[i]) \subseteq Nat
      BY <2>1, <2>3, LooperPositions DEF Namesakes
    <2>5. k \in Namesakes(d, tracks[i]) /\ k \in Loopers(tracks[i])
      BY <2>3, <2>4, FirstPosition DEF Namesakes
    <2> HIDE DEF k
    <2>6. r \in Info /\ r.device = k
      BY <2>1, <2>3, <2>5, ReadingType
    <2> HIDE DEF r
    <2>7. DOMAIN infos = {i} /\ infos[i] = r
      OBVIOUS
    <2>8. Changed(d, v) = Pushed(infos)
      BY <1>2 DEF Changed, i, k, r
    <2> HIDE DEF infos
    <2>3x. /\ Range(Pushed(infos)) \subseteq Info
          /\ DOMAIN Pushed(infos) = DOMAIN rows \cup {i}
          /\ Pushed(infos)[i] = r
          /\ \A j \in DOMAIN rows \ {i} : Pushed(infos)[j] = rows[j]
      BY <2>6, <2>7, PushedRows
    <2>10. QED
      BY <2>1, <2>2, <2>3, <2>5, <2>6, <2>8, <2>3x DEF r
  <1>3. QED
    BY <1>1, <1>2

LEMMA AssignAllowed ==
    ASSUME Allowed(value), NEW d \in Device, NEW p \in Params[d], NEW v \in Levels[p],
           value' = [value EXCEPT ![d][p] = v]
    PROVE  /\ Allowed(value')
           /\ value'[d][p] = v
           /\ \A e \in Device : \A q \in Params[e] :
                  e # d \/ q # p => value'[e][q] = value[e][q]
  <1>1. /\ DOMAIN value = Device /\ DOMAIN value[d] = Params[d]
        /\ \A e \in Device : value[e] = [q \in Params[e] |-> value[e][q]]
    BY DEF Allowed
  <1>2. /\ value' = [e \in Device |-> IF e = d THEN [value[d] EXCEPT ![p] = v] ELSE value[e]]
        /\ value'[d] = [q \in Params[d] |-> IF q = p THEN v ELSE value[d][q]]
        /\ \A e \in Device \ {d} : value'[e] = value[e]
    BY <1>1
  <1>3. \A e \in Device : value'[e] = [q \in Params[e] |-> value'[e][q]]
    BY <1>1, <1>2
  <1>4. \A e \in Device : \A q \in Params[e] :
            e # d \/ q # p => value'[e][q] = value[e][q]
    BY <1>2
  <1>5. value'[d][p] = v
    BY <1>2
  <1>6. ASSUME NEW e \in Device, NEW q \in Params[e] PROVE value'[e][q] \in Levels[q]
    BY <1>4, <1>5 DEF Allowed
  <1>7. value' = [e \in Device |-> [q \in Params[e] |-> value'[e][q]]]
    BY <1>2, <1>3
  <1>8. QED
    BY <1>4, <1>5, <1>6, <1>7 DEF Allowed
----------------------------------------------------------------------------
(* A step that assigns a parameter *)

AssignStep(d, p, v) ==
    /\ d \in InSet /\ p \in Params[d] /\ v \in Levels[p] /\ Assign(d, p, v)
    /\ UNCHANGED <<tracks, chain, attached, listening, found, unheard>>

\* Row i is pushed: a reading of a looper on track i called like d.
RowPushed(i, d) ==
    /\ i \in TracksNamed(d) /\ i \in DOMAIN tracks
    /\ rows'[i].device \in Namesakes(d, tracks[i])
    /\ rows'[i].device \in Loopers(tracks[i])
    /\ rows'[i] = ReadLooperState(i, rows'[i].device, tracks[i], value')
    /\ Range(rows') \subseteq Info
    /\ DOMAIN rows' = DOMAIN rows \cup {i}
    /\ \A j \in DOMAIN rows \ {i} : rows'[j] = rows[j]

LEMMA AssignDoes ==
    ASSUME TypeInv, NEW d, NEW p, NEW v, AssignStep(d, p, v)
    PROVE  /\ d \in Device /\ p \in Params[d] /\ v \in Levels[p]
           /\ Allowed(value') /\ value'[d][p] = v
           /\ \A e \in Device : \A q \in Params[e] :
                  e # d \/ q # p => value'[e][q] = value[e][q]
           /\ \/ rows' = rows /\ (attached[d][p] # 1 \/ TracksNamed(d) = {})
              \/ \E i \in TracksNamed(d) : RowPushed(i, d)
  <1>1. /\ d \in InSet /\ d \in Device /\ p \in Params[d] /\ v \in Levels[p]
        /\ value' = [value EXCEPT ![d][p] = v]
        /\ Allowed(value) /\ PlacesOK /\ Range(rows) \subseteq Info
    BY TrackOfIs DEF AssignStep, Assign, TypeInv
  <1>2. /\ Allowed(value') /\ value'[d][p] = v
        /\ \A e \in Device : \A q \in Params[e] :
               e # d \/ q # p => value'[e][q] = value[e][q]
    <2>1. Allowed(value')
      BY <1>1, AssignAllowed
    <2>2. value'[d][p] = v
      BY <1>1 DEF Allowed
    <2>3. ASSUME NEW e \in Device, NEW q \in Params[e], e # d \/ q # p
          PROVE  value'[e][q] = value[e][q]
      BY <1>1, <2>3, AssignAllowed
    <2>4. QED
      BY <2>1, <2>2, <2>3
  <1>3. CASE attached[d][p] > 0
    <2>1. rows' = Changed(d, value')
      BY <1>3 DEF AssignStep, Assign
    <2>2. CASE TracksNamed(d) = {}
      BY <2>1, <2>2, <1>1, <1>2 DEF Changed
    <2>3. CASE TracksNamed(d) # {}
      <3> DEFINE w == value'
      <3>1. PICK i \in TracksNamed(d) : \E k \in Namesakes(d, tracks[i]) :
                 /\ i \in DOMAIN tracks /\ tracks[i] \in Track
                 /\ TrackName[tracks[i]] = TrackName[TrackOf(d)]
                 /\ k \in Loopers(tracks[i])
                 /\ Range(Changed(d, w)) \subseteq Info
                 /\ DOMAIN Changed(d, w) = DOMAIN rows \cup {i}
                 /\ Changed(d, w)[i] = ReadLooperState(i, k, tracks[i], w)
                 /\ Changed(d, w)[i].device = k
                 /\ \A j \in DOMAIN rows \ {i} : Changed(d, w)[j] = rows[j]
        <4>1. Allowed(w)
          BY <1>2
        <4> HIDE DEF w
        <4>2. ~(TracksNamed(d) = {} /\ Changed(d, w) = rows)
          BY <2>3
        <4>3. QED
          BY <1>1, <4>1, <4>2, ChangedPushes, Zenon
      <3>2. RowPushed(i, d)
        BY <2>1, <3>1 DEF RowPushed
      <3>3. QED
        BY <1>1, <1>2, <3>2
    <2>4. QED
      BY <2>2, <2>3
  <1>4. CASE ~(attached[d][p] > 0)
    BY <1>1, <1>2, <1>4 DEF AssignStep, Assign
  <1>5. QED
    BY <1>3, <1>4

LEMMA AssignKeepsScan ==
    ASSUME ScanInv, NEW d, NEW p, NEW v, AssignStep(d, p, v), reply' \in Answer
    PROVE  ScanInv'
  <1>1. TypeInv /\ UNCHANGED <<tracks, chain, attached, listening, found, unheard>>
    BY DEF AssignStep, ScanInv
  <1>2. /\ Range(rows') \subseteq Info /\ DOMAIN rows \subseteq DOMAIN rows'
        /\ \A j \in DOMAIN rows : rows'[j] # rows[j] =>
               j \in DOMAIN tracks /\ rows'[j].device \in Loopers(tracks[j])
    <2>1. CASE rows' = rows
      BY <1>1, <2>1 DEF TypeInv
    <2>2. CASE \E i \in TracksNamed(d) : RowPushed(i, d)
      BY <2>2 DEF RowPushed
    <2>3. QED
      BY <1>1, <2>1, <2>2, AssignDoes
  <1>3. TypeInv'
    <2>1. Allowed(value')
      BY <1>1, AssignDoes
    <2>2. PlacesOK' /\ ListenersOK'
      BY <1>1 DEF TypeInv, PlacesOK, ListenersOK, Known
    <2>3. QED
      BY <1>1, <1>2, <2>1, <2>2 DEF TypeInv, Allowed
  <1>4. ASSUME ~unheard PROVE Scanned(tracks)'
    <2>1. Scanned(tracks)
      BY <1>4 DEF ScanInv
    <2>2. ToListen(tracks)' = ToListen(tracks)
      BY <1>1 DEF ToListen
    <2>3. \A i \in DOMAIN tracks : Loopers(tracks[i])' = Loopers(tracks[i])
      BY <1>1 DEF Loopers
    <2>4. \A i \in DOMAIN found : i \in DOMAIN rows' /\ rows'[i].device \in Loopers(tracks[i])
      BY <1>2, <2>1 DEF Scanned
    <2>5. QED
      BY <1>1, <2>1, <2>2, <2>3, <2>4 DEF Scanned
  <1>5. QED
    BY <1>1, <1>3, <1>4 DEF ScanInv

\* Tracks are told apart by their names, as _on_looper_param_changed does.
NamesDiffer == \A t, u \in Track : TrackName[t] = TrackName[u] => t = u

Read == {"State", "Feedback", "Reverse"}

\* Whichever looper of a track is changed, it is the track's row that is pushed.
LEMMA OwnRow ==
    ASSUME NamesDiffer, PlacesOK, NEW i \in DOMAIN tracks, NEW k \in Loopers(tracks[i]),
           NEW d, d = chain[tracks[i]][k]
    PROVE  /\ d \in InSet /\ TrackOf(d) = tracks[i] /\ TracksNamed(d) = {i}
           /\ k \in Namesakes(d, tracks[i])
  <1>1. /\ \A j \in DOMAIN tracks : tracks[j] \in Track
        /\ \A j \in DOMAIN tracks : tracks[j] = tracks[i] => j = i
    BY ElementOfSeq, LenProperties DEF PlacesOK, IsInjective
  <1>2. d \in Range(chain[tracks[i]]) /\ tracks[i] \in Range(tracks)
    BY DEF Range, Loopers
  <1>3. d \in InSet
    BY <1>2 DEF InSet
  <1>4. TrackOf(d) = tracks[i]
    <2>1. TrackOf(d) \in Track /\ d \in Range(chain[TrackOf(d)])
      BY <1>3, TrackOfIs DEF Range
    <2>2. QED
      BY <1>1, <1>2, <2>1 DEF PlacesOK
  <1>5. k \in Namesakes(d, tracks[i])
    BY DEF Namesakes
  <1>6. TracksNamed(d) = {i}
    BY <1>1, <1>4, <1>5 DEF TracksNamed, NamesDiffer
  <1>7. QED
    BY <1>3, <1>4, <1>5, <1>6

LEMMA AssignKeepsRows ==
    ASSUME NamesDiffer, RowInv, NEW d, NEW p, NEW v, AssignStep(d, p, v), reply' \in Answer
    PROVE  RowInv'
  <1>1. ScanInv'
    BY AssignKeepsScan DEF RowInv
  <1>2. TypeInv /\ UNCHANGED <<tracks, chain, attached, listening, found, unheard>>
    BY DEF AssignStep, RowInv, ScanInv
  <1>3. /\ d \in Device /\ p \in Params[d]
        /\ \A e \in Device : \A q \in Params[e] :
               e # d \/ q # p => value'[e][q] = value[e][q]
        /\ \/ rows' = rows /\ (attached[d][p] # 1 \/ TracksNamed(d) = {})
           \/ \E i \in TracksNamed(d) : RowPushed(i, d)
    BY <1>2, AssignDoes
  <1>4. ASSUME ~unheard, NEW i \in DOMAIN found
        PROVE  rows'[i] = ReadLooperState(i, rows'[i].device, tracks[i], value')
    <2> DEFINE k == rows[i].device
               t == tracks[i]
               e == chain[t][k]
    <2>1. /\ i \in DOMAIN tracks /\ t \in Track /\ i \in DOMAIN rows /\ k \in Loopers(t)
          /\ rows[i] = ReadLooperState(i, k, t, value)
          /\ Scanned(tracks)
      BY <1>2, <1>4, ElementOfSeq, LenProperties
      DEF RowInv, ScanInv, Scanned, Current, TypeInv, PlacesOK
    <2>2. e \in Device /\ k \in DOMAIN chain[t]
      BY <1>2, <2>1, LooperPositions DEF TypeInv, Loopers
    <2>3. CASE RowPushed(i, d)
      BY <2>3 DEF RowPushed
    <2>4. CASE rows'[i] = rows[i] /\ (e # d \/ p \notin Read)
      <3>1. \A q \in Read : q \in Params[e] => value'[e][q] = value[e][q]
        BY <1>3, <2>2, <2>4
      <3>2. /\ "State" \in Params[e] => value'[e]["State"] = value[e]["State"]
            /\ "Feedback" \in Params[e] => value'[e]["Feedback"] = value[e]["Feedback"]
            /\ "Reverse" \in Params[e] => value'[e]["Reverse"] = value[e]["Reverse"]
        BY <3>1 DEF Read
      <3> HIDE DEF k, t
      <3>3. ReadLooperState(i, k, t, value') = ReadLooperState(i, k, t, value)
        BY <3>2 DEF ReadLooperState
      <3>4. QED
        BY <2>1, <2>4, <3>3 DEF k, t
    <2>5. CASE e = d /\ p \in Read
      <3>1. TracksNamed(d) = {i}
        BY <1>2, <2>1, <2>5, OwnRow DEF TypeInv
      <3>2. <<d, p>> \in ToListen(tracks)
        <4>1. t \in Range(tracks) /\ d \in Range(chain[t])
          BY <2>1, <2>2, <2>5 DEF Range
        <4>2. IsLooperDevice(d) /\ p \in Watched
          BY <2>1, <2>5 DEF Loopers, Read, Watched
        <4>3. QED
          BY <1>3, <4>1, <4>2 DEF ToListen
      <3>3. attached[d][p] = 1
        BY <2>1, <3>2 DEF Scanned
      <3>4. RowPushed(i, d)
        BY <1>3, <3>1, <3>3
      <3>5. QED
        BY <2>3, <3>4
    <2>6. RowPushed(i, d) \/ rows'[i] = rows[i]
      <3>1. ASSUME NEW j \in TracksNamed(d), RowPushed(j, d), j # i PROVE rows'[i] = rows[i]
        BY <2>1, <3>1 DEF RowPushed
      <3>2. QED
        BY <1>3, <3>1
    <2>7. QED
      BY <2>3, <2>4, <2>5, <2>6
  <1>5. ASSUME ~unheard PROVE Current(tracks)'
    <2>1. \A i, k : ReadLooperState(i, k, tracks[i], value)' = ReadLooperState(i, k, tracks[i], value')
      BY <1>2 DEF ReadLooperState
    <2>2. QED
      BY <1>2, <1>4, <1>5 DEF Current, ReadLooperState
  <1>6. QED
    BY <1>1, <1>2, <1>5 DEF RowInv
----------------------------------------------------------------------------
(* The other steps *)

LEMMA RescanKeeps ==
    ASSUME TypeInv, PlacesOK', UNCHANGED <<chain, value>>, reply' \in Answer,
           NEW a, Known(a), NEW ts, ts = tracks', Rescan(ts, a)
    PROVE  RowInv'
  <1>1. /\ PlacesOK /\ Allowed(value) /\ Range(rows) \subseteq Info /\ ts \in Seq(Track)
    BY DEF TypeInv, PlacesOK
  <1>2. /\ ListenersOK' /\ Range(found') \subseteq Nat /\ Range(rows') \subseteq Info
        /\ Scanned(ts)' /\ Current(ts)'
    BY <1>1, RescanLeaves
  <1>3. TypeInv'
    BY <1>1, <1>2 DEF TypeInv, Allowed
  <1>4. Scanned(tracks)'
    BY <1>2 DEF Scanned
  <1>5. Current(tracks)'
    BY <1>2 DEF Current
  <1>6. QED
    BY <1>3, <1>4, <1>5 DEF RowInv, ScanInv

LEMMA RefusesKeeps ==
    ASSUME NEW r \in Answer, Refuses(r), UNCHANGED <<tracks, chain, gone, value>>
    PROVE  /\ ScanInv => ScanInv'
           /\ RowInv => RowInv'
  <1>1. /\ UNCHANGED <<tracks, chain, gone, value, attached, listening, found, rows, unheard>>
        /\ reply' \in Answer
    BY DEF Refuses, Answers, NothingElse
  <1>2. TypeInv => TypeInv'
    BY <1>1 DEF TypeInv, PlacesOK, Allowed, ListenersOK, Known
  <1>3. Scanned(tracks) => Scanned(tracks)'
    BY <1>1 DEF Scanned, ToListen, Loopers
  <1>4. Current(tracks) => Current(tracks)'
    BY <1>1 DEF Current, ReadLooperState
  <1>5. QED
    BY <1>1, <1>2, <1>3, <1>4 DEF RowInv, ScanInv

\* A device list was edited: nothing is promised of rows until the next scan.
LEMMA UnheardKeeps ==
    ASSUME TypeInv, PlacesOK', Known(attached)', unheard' = TRUE, reply' \in Answer,
           UNCHANGED <<tracks, value, listening, found, rows>>
    PROVE  RowInv'
  BY DEF RowInv, ScanInv, TypeInv, Allowed, ListenersOK

LEMMA WithoutKnown ==
    ASSUME ListenersOK, NEW ds
    PROVE  Known(Without(attached, ds))
  <1> SUFFICES ASSUME NEW d \in Device, NEW p \in Params[d]
               PROVE  /\ Without(attached, ds)[d][p] \in {0, 1}
                      /\ Without(attached, ds)[d][p] = 1 => <<d, p>> \in listening
    BY DEF Known
  <1>1. attached[d][p] \in {0, 1} /\ (attached[d][p] = 1 => <<d, p>> \in listening)
    BY DEF ListenersOK, Known
  <1>2. Without(attached, ds)[d] = IF d \in ds THEN [q \in Params[d] |-> 0] ELSE attached[d]
    BY DEF Without
  <1>3. QED
    BY <1>1, <1>2

LEMMA InsertTrackKeeps ==
    ASSUME TypeInv, NEW t \in Track, NEW i \in 1..Len(tracks) + 1, InsertTrack(t, i)
    PROVE  RowInv'
  <1>1. /\ tracks \in Seq(Track) /\ IsInjective(tracks) /\ t \notin Range(tracks)
        /\ tracks' = InsertAt(tracks, i, t) /\ UNCHANGED <<chain, gone, value>>
        /\ Rescan(tracks', attached) /\ reply' \in Answer
    BY DEF InsertTrack, TypeInv, PlacesOK, Quiet, Answer
  <1>2. tracks' \in Seq(Track) /\ IsInjective(tracks')
    BY <1>1, Inserted, InsertedOnce
  <1>3. PlacesOK'
    BY <1>1, <1>2 DEF TypeInv, PlacesOK
  <1>4. QED
    BY <1>1, <1>3, RescanKeeps DEF TypeInv, ListenersOK

LEMMA DeleteTrackKeeps ==
    ASSUME TypeInv, NEW i \in DOMAIN tracks, DeleteTrack(i)
    PROVE  RowInv'
  <1>1. /\ tracks \in Seq(Track) /\ IsInjective(tracks)
        /\ tracks' = RemoveAt(tracks, i) /\ UNCHANGED <<chain, value>>
        /\ Rescan(tracks', Without(attached, Range(chain[tracks[i]]))) /\ reply' \in Answer
    BY DEF DeleteTrack, TypeInv, PlacesOK, Quiet, Answer
  <1>2. i \in 1..Len(tracks)
    BY <1>1, LenProperties
  <1>3. tracks' \in Seq(Track) /\ IsInjective(tracks')
    BY <1>1, <1>2, Removed, RemovedOnce
  <1>4. PlacesOK'
    BY <1>1, <1>3 DEF TypeInv, PlacesOK
  <1>5. Known(Without(attached, Range(chain[tracks[i]])))
    BY WithoutKnown DEF TypeInv
  <1>6. QED
    BY <1>1, <1>4, <1>5, RescanKeeps

LEMMA InsertDeviceKeeps ==
    ASSUME TypeInv, NEW t \in Track, NEW d \in Device, NEW k, InsertDevice(t, d, k)
    PROVE  RowInv'
  <1>1. /\ chain \in [Track -> Seq(Device)] /\ chain[t] \in Seq(Device)
        /\ IsInjective(chain[t]) /\ k \in 1..Len(chain[t]) + 1
        /\ \A u \in Track : d \notin Range(chain[u])
        /\ chain' = [chain EXCEPT ![t] = InsertAt(chain[t], k, d)]
        /\ unheard' = TRUE /\ UNCHANGED <<tracks, value, attached, listening, found, rows>>
        /\ reply' \in Answer
    BY DEF InsertDevice, TypeInv, PlacesOK, Quiet, Answer, Placed
  <1>2. /\ InsertAt(chain[t], k, d) \in Seq(Device)
        /\ IsInjective(InsertAt(chain[t], k, d))
        /\ Range(InsertAt(chain[t], k, d)) = Range(chain[t]) \cup {d}
    BY <1>1, Inserted, InsertedOnce
  <1>3. /\ chain' \in [Track -> Seq(Device)]
        /\ \A u \in Track : IsInjective(chain'[u])
        /\ \A u \in Track : Range(chain'[u]) = IF u = t THEN Range(chain[t]) \cup {d}
                                                ELSE Range(chain[u])
    BY <1>1, <1>2 DEF TypeInv, PlacesOK
  <1>4. \A u, w \in Track : u # w => Range(chain'[u]) \cap Range(chain'[w]) = {}
    BY <1>1, <1>3 DEF TypeInv, PlacesOK
  <1>5. PlacesOK'
    BY <1>1, <1>3, <1>4 DEF TypeInv, PlacesOK
  <1>6. Known(attached)'
    BY <1>1 DEF TypeInv, ListenersOK, Known
  <1>7. QED
    BY <1>1, <1>5, <1>6, UnheardKeeps

LEMMA DeleteDeviceKeeps ==
    ASSUME TypeInv, NEW t \in Track, NEW k, DeleteDevice(t, k)
    PROVE  RowInv'
  <1>1. /\ chain \in [Track -> Seq(Device)] /\ chain[t] \in Seq(Device)
        /\ IsInjective(chain[t]) /\ k \in DOMAIN chain[t]
        /\ chain' = [chain EXCEPT ![t] = RemoveAt(chain[t], k)]
        /\ attached' = Without(attached, {chain[t][k]})
        /\ unheard' = TRUE /\ UNCHANGED <<tracks, value, listening, found, rows>>
        /\ reply' \in Answer
    BY DEF DeleteDevice, TypeInv, PlacesOK, Quiet, Answer
  <1>2. /\ RemoveAt(chain[t], k) \in Seq(Device)
        /\ IsInjective(RemoveAt(chain[t], k))
        /\ Range(RemoveAt(chain[t], k)) \subseteq Range(chain[t])
    <2>1. k \in 1..Len(chain[t])
      BY <1>1, LenProperties
    <2>2. QED
      BY <1>1, <2>1, Removed, RemovedOnce
  <1>3. /\ chain' \in [Track -> Seq(Device)]
        /\ \A u \in Track : IsInjective(chain'[u])
        /\ \A u \in Track : Range(chain'[u]) \subseteq Range(chain[u])
    BY <1>1, <1>2 DEF TypeInv, PlacesOK
  <1>4. PlacesOK'
    BY <1>1, <1>3 DEF TypeInv, PlacesOK
  <1>5. Known(attached)'
    BY <1>1, WithoutKnown DEF TypeInv, Known
  <1>6. QED
    BY <1>1, <1>4, <1>5, UnheardKeeps
\* A command that sets a parameter assigns one of the track's looper, or refuses.
LEMMA SetByCommandIs ==
    ASSUME PlacesOK, NEW i, NEW p, NEW v \in Levels[p], SetByCommand(i, p, v)
    PROVE  \/ /\ i \in DOMAIN found /\ Settable(i, found[i], p)
              /\ AssignStep(chain[tracks[i]][found[i]], p, v)
              /\ reply' = "done" /\ UNCHANGED <<tracks, chain, gone>>
           \/ \E r \in Errors : Refuses(r)
  <1>1. CASE i \in DOMAIN found /\ Settable(i, found[i], p)
    <2> DEFINE d == chain[tracks[i]][found[i]]
    <2>1. /\ Assign(d, p, v) /\ reply' = "done" /\ p \in Params[d]
          /\ UNCHANGED <<tracks, chain, gone, attached, listening, found, unheard>>
      BY <1>1 DEF SetByCommand, SetLooperParam, Answers, NothingElse, Settable
    <2>2. d \in InSet
      BY <1>1 DEF Settable, InSet, Range
    <2>3. QED
      BY <1>1, <2>1, <2>2 DEF AssignStep
  <1>2. CASE ~(i \in DOMAIN found /\ Settable(i, found[i], p))
    <2>1. Refuses("parameter_set_failed") \/ Refuses("looper_not_found")
      BY <1>2 DEF SetByCommand, SetLooperParam
    <2>2. QED
      BY <2>1 DEF Errors
  <1>3. QED
    BY <1>1, <1>2

Refusing == \E r \in Answer : Refuses(r) /\ UNCHANGED <<tracks, chain, gone, value>>

\* Every step assigns, answers without effect, or leaves behind what a scan does.
LEMMA WhatSteps ==
    ASSUME TypeInv, Next
    PROVE  \/ \E d, p, v : AssignStep(d, p, v) /\ reply' \in {"none", "done"}
           \/ Refusing
           \/ RowInv' /\ reply' \in {"none", "done"}
  <1>0. PlacesOK
    BY DEF TypeInv
  <1>1. ASSUME NEW i, NEW p, NEW v \in Levels[p], SetByCommand(i, p, v)
        PROVE  Refusing \/ \E d : AssignStep(d, p, v) /\ reply' \in {"none", "done"}
    <2>1. CASE \E r \in Errors : Refuses(r)
      BY <2>1 DEF Refusing, Refuses, NothingElse, Answer
    <2>2. QED
      BY <1>0, <1>1, <2>1, SetByCommandIs
  <1>2. CASE Edit
    <2>1. ASSUME NEW d \in Device, NEW p \in Params[d], NEW v \in Levels[p], SetParameter(d, p, v)
          PROVE  AssignStep(d, p, v) /\ reply' \in {"none", "done"}
      BY <2>1 DEF SetParameter, AssignStep, Quiet
    <2>2. ASSUME NEW t \in Track, NEW i \in 1..Len(tracks) + 1, InsertTrack(t, i)
          PROVE  RowInv' /\ reply' \in {"none", "done"}
      BY <2>2, InsertTrackKeeps DEF InsertTrack, Quiet
    <2>3. ASSUME NEW i \in DOMAIN tracks, DeleteTrack(i)
          PROVE  RowInv' /\ reply' \in {"none", "done"}
      BY <2>3, DeleteTrackKeeps DEF DeleteTrack, Quiet
    <2>4. ASSUME NEW t \in Track, NEW d \in Device, NEW k, InsertDevice(t, d, k)
          PROVE  RowInv' /\ reply' \in {"none", "done"}
      BY <2>4, InsertDeviceKeeps DEF InsertDevice, Quiet
    <2>5. ASSUME NEW t \in Track, NEW k, DeleteDevice(t, k)
          PROVE  RowInv' /\ reply' \in {"none", "done"}
      BY <2>5, DeleteDeviceKeeps DEF DeleteDevice, Quiet
    <2>6. QED
      BY <1>2, <2>1, <2>2, <2>3, <2>4, <2>5 DEF Edit
  <1>3. CASE Command
    <2>1. ASSUME Discover PROVE RowInv' /\ reply' \in {"none", "done"}
      <3>1. /\ UNCHANGED <<tracks, chain, gone, value>> /\ reply' = "done"
            /\ Rescan(tracks, attached) /\ Known(attached)
        BY <2>1 DEF Discover, Answers, live, TypeInv, ListenersOK
      <3>2. PlacesOK'
        BY <1>0, <3>1 DEF PlacesOK
      <3>3. QED
        BY <3>1, <3>2, RescanKeeps DEF Answer
    <2>2. ASSUME CommandWithoutId \/ Ping \/ UnknownCommand PROVE Refusing
      BY <2>2 DEF CommandWithoutId, Ping, UnknownCommand, Refusing, Refuses, NothingElse, Answer, Errors
    <2>3. ASSUME NEW i, SetState(i) PROVE Refusing
      BY <2>3 DEF SetState, Refusing, Refuses, NothingElse, Answer, Errors
    <2>4. 1 \in Levels["Undo"] /\ 1 \in Levels["Redo"]
      BY SetAssumption
    <2>5. QED
      BY <1>1, <1>3, <2>1, <2>2, <2>3, <2>4 DEF Command
  <1>4. QED
    BY <1>2, <1>3 DEF Next

LEMMA ScanStep ==
    ASSUME ScanInv, [Next]_vars
    PROVE  ScanInv'
  <1>0. TypeInv
    BY DEF ScanInv
  <1>1. CASE UNCHANGED vars
    <2>1. TypeInv'
      BY <1>0, <1>1 DEF vars, TypeInv, PlacesOK, Allowed, ListenersOK, Known
    <2>2. Scanned(tracks) => Scanned(tracks)'
      BY <1>1 DEF vars, Scanned, ToListen, Loopers
    <2>3. QED
      BY <1>1, <2>1, <2>2 DEF ScanInv, vars
  <1>2. CASE Next
    <2>1. ASSUME NEW d, NEW p, NEW v, AssignStep(d, p, v), reply' \in {"none", "done"} PROVE ScanInv'
      BY <2>1, AssignKeepsScan DEF Answer
    <2>2. ASSUME Refusing PROVE ScanInv'
      BY <2>2, RefusesKeeps DEF Refusing
    <2>3. QED
      BY <1>0, <1>2, <2>1, <2>2, WhatSteps DEF RowInv
  <1>3. QED
    BY <1>1, <1>2

LEMMA RowStep ==
    ASSUME NamesDiffer, RowInv, [Next]_vars
    PROVE  RowInv'
  <1>0. TypeInv /\ ScanInv
    BY DEF RowInv, ScanInv
  <1>1. CASE UNCHANGED vars
    <2>1. Current(tracks) => Current(tracks)'
      BY <1>1 DEF vars, Current, ReadLooperState
    <2>2. ScanInv'
      BY <1>0, <1>1, ScanStep
    <2>3. QED
      BY <1>1, <2>1, <2>2 DEF RowInv, vars
  <1>2. CASE Next
    <2>1. ASSUME NEW d, NEW p, NEW v, AssignStep(d, p, v), reply' \in {"none", "done"} PROVE RowInv'
      BY <2>1, AssignKeepsRows DEF Answer
    <2>2. ASSUME Refusing PROVE RowInv'
      BY <2>2, RefusesKeeps DEF Refusing
    <2>3. QED
      BY <1>0, <1>2, <2>1, <2>2, WhatSteps
  <1>3. QED
    BY <1>1, <1>2

LEMMA RowInit ==
    ASSUME Init
    PROVE  RowInv
  <1> DEFINE s == ScanAllTracks(Initial)
  <1>1. /\ tracks = Initial /\ chain = Chain /\ listening = ToListen(Initial)
        /\ value = [d \in Device |-> [p \in Params[d] |-> 0]]
        /\ attached = [d \in Device |-> [p \in Params[d] |-> IF <<d, p>> \in listening THEN 1 ELSE 0]]
        /\ rows = s /\ found = DeviceIds(s) /\ reply = "none"
    BY DEF Init
  <1>2. PlacesOK
    BY <1>1, SetAssumption DEF PlacesOK
  <1>3. Allowed(value)
    <2>1. ASSUME NEW d \in Device, NEW p \in Params[d] PROVE value[d][p] = 0
      BY <1>1
    <2>2. value = [d \in Device |-> [p \in Params[d] |-> value[d][p]]]
      BY <1>1
    <2>3. QED
      BY <2>1, <2>2, SetAssumption DEF Allowed
  <1>4. /\ DOMAIN s = {i \in DOMAIN Initial : Loopers(Initial[i]) # {}}
        /\ \A i \in DOMAIN s : /\ s[i] \in Info
                               /\ s[i].device \in Loopers(Initial[i])
                               /\ s[i] = ReadLooperState(i, s[i].device, Initial[i], value)
    BY <1>2, <1>3, ScanReads, SetAssumption
  <1> HIDE DEF s
  <1>5. DOMAIN found = DOMAIN s /\ \A i \in DOMAIN s : found[i] = s[i].device
    BY <1>1 DEF DeviceIds
  <1>6. ASSUME NEW d \in Device, NEW p \in Params[d]
        PROVE  attached[d][p] = IF <<d, p>> \in listening THEN 1 ELSE 0
    BY <1>1
  <1>7. listening \subseteq {x \in Device \X Watched : x[2] \in Params[x[1]]}
    BY <1>1 DEF ToListen
  <1>8. ListenersOK
    BY <1>6, <1>7 DEF ListenersOK, Known
  <1>9. TypeInv
    BY <1>1, <1>2, <1>3, <1>4, <1>5, <1>8 DEF TypeInv, Range, Info, Answer
  <1>10. Scanned(tracks)
    <2>1. \A x \in listening : attached[x[1]][x[2]] = 1
      BY <1>6, <1>7
    <2>2. QED
      BY <1>1, <1>4, <1>5, <2>1 DEF Scanned
  <1>11. Current(tracks)
    BY <1>1, <1>4, <1>5 DEF Current
  <1>12. QED
    BY <1>9, <1>10, <1>11 DEF RowInv, ScanInv

----------------------------------------------------------------------------
(* The theorems *)

LEMMA ScanInvAlways == Spec => []ScanInv
  <1>1. Init => ScanInv
    BY RowInit DEF RowInv
  <1>2. ScanInv /\ [Next]_vars => ScanInv'
    BY ScanStep
  <1>3. QED
    BY <1>1, <1>2, PTL DEF Spec

\* Every reachable state is well typed: whatever is edited, values stay in
\* their ranges, and what is read and pushed is a state the plugin can parse.
THEOREM DiscoveryTypeOK == Spec => []TypeOK
  <1>1. ScanInv => TypeOK
    <2> SUFFICES ASSUME ScanInv PROVE TypeOK
      OBVIOUS
    <2>1. TypeInv
      BY DEF ScanInv
    <2>2. ASSUME NEW d \in Device, NEW p \in Params[d]
          PROVE  value[d][p] \in Levels[p] /\ attached[d][p] \in Nat
      <3>1. value[d][p] \in Levels[p]
        BY <2>1 DEF TypeInv, Allowed
      <3>2. attached[d][p] \in {0, 1}
        BY <2>1 DEF TypeInv, ListenersOK, Known
      <3>3. QED
        BY <3>1, <3>2
    <2>3. QED
      BY <2>1, <2>2 DEF TypeInv, PlacesOK, ListenersOK, TypeOK
  <1>2. QED
    BY <1>1, ScanInvAlways, PTL

\* No parameter is ever listened to twice, and after a scan every parameter a
\* row depends on is listened to, on every looper of every track.
THEOREM LoopersHeardOnce == Spec => []HeardOnce
  <1>1. ScanInv => HeardOnce
    <2> SUFFICES ASSUME ScanInv, NEW d \in Device, NEW p \in Params[d]
                 PROVE  /\ attached[d][p] <= 1
                        /\ ~unheard /\ d \in InSet /\ IsLooperDevice(d)
                           /\ p \in {"State", "Feedback", "Reverse"} => attached[d][p] = 1
      BY DEF HeardOnce
    <2>1. attached[d][p] <= 1
      <3>1. attached[d][p] \in {0, 1}
        BY DEF ScanInv, TypeInv, ListenersOK, Known
      <3>2. QED
        BY <3>1
    <2>2. ASSUME ~unheard, d \in InSet, IsLooperDevice(d), p \in {"State", "Feedback", "Reverse"}
          PROVE  attached[d][p] = 1
      <3>1. <<d, p>> \in ToListen(tracks)
        BY <2>2 DEF ToListen, InSet, Watched
      <3>2. QED
        BY <2>2, <3>1 DEF ScanInv, Scanned
    <2>3. QED
      BY <2>1, <2>2
  <1>2. QED
    BY <1>1, ScanInvAlways, PTL

\* With tracks of different names, the row of a track is a reading of a looper
\* of that track which no change has made old, unless devices came or went
\* since the last scan.
THEOREM RowsStayCurrent == NamesDiffer => (Spec => []RowsAreCurrent)
  <1> SUFFICES ASSUME NamesDiffer PROVE Spec => []RowsAreCurrent
    OBVIOUS
  <1>1. Init => RowInv
    BY RowInit
  <1>2. RowInv /\ [Next]_vars => RowInv'
    BY RowStep
  <1>3. RowInv => RowsAreCurrent
    BY DEF RowInv, Current, RowsAreCurrent
  <1>4. QED
    BY <1>1, <1>2, <1>3, PTL DEF Spec

\* A command answered with an error has changed nothing; one answered with
\* success has set its parameter, on a looper of the track with that id,
\* whatever has been edited since the last scan.
THEOREM CommandsKeepTheirWord == Spec => CommandsDoAsAnswered
  <1>1. ASSUME ScanInv, Next, reply' \in Errors PROVE UNCHANGED <<live, rows>>
    <2>1. Refusing
      BY <1>1, WhatSteps DEF ScanInv, Errors
    <2>2. QED
      BY <2>1 DEF Refusing, Refuses, live
  <1>2. ASSUME ScanInv, reply' = "done",
               NEW i \in DOMAIN found, NEW p \in Settables, NEW v \in Levels[p], SetByCommand(i, p, v)
        PROVE  \E k \in Loopers(tracks[i]) :
                   LET d == chain[tracks[i]][k]
                   IN p \in Params[d] /\ value' = [value EXCEPT ![d][p] = v]
    <2>1. ~ \E r \in Errors : Refuses(r)
      BY <1>2 DEF Refuses, Answers, Errors
    <2>2. /\ Settable(i, found[i], p)
          /\ AssignStep(chain[tracks[i]][found[i]], p, v)
      BY <1>2, <2>1, SetByCommandIs DEF ScanInv, TypeInv
    <2>3. QED
      BY <2>2 DEF Settable, Loopers, AssignStep, Assign
  <1>3. ScanInv /\ [Next]_vars
        => [/\ reply' \in Errors => UNCHANGED <<live, rows>>
            /\ reply' = "done" =>
                   \A i \in DOMAIN found, p \in Settables : \A v \in Levels[p] :
                       SetByCommand(i, p, v) =>
                           \E k \in Loopers(tracks[i]) :
                               LET d == chain[tracks[i]][k]
                               IN p \in Params[d] /\ value' = [value EXCEPT ![d][p] = v]]_vars
    BY <1>1, <1>2
  <1>4. QED
    BY <1>3, ScanInvAlways, PTL DEF Spec, CommandsDoAsAnswered

\* With tracks of different names, a feedback that was set is at once in the
\* row it was set from, under the device that was set.
THEOREM FeedbackShows == NamesDiffer => (Spec => SetShowsInRow)
  <1> SUFFICES ASSUME NamesDiffer PROVE Spec => SetShowsInRow
    OBVIOUS
  <1>1. ASSUME ScanInv, reply' = "done", ~unheard, NEW i \in DOMAIN found,
               NEW v \in Levels["Feedback"], OwnName(tracks[i], found[i]),
               SetByCommand(i, "Feedback", v)
        PROVE  rows'[i].device = found[i] /\ rows'[i].feedback = v
    <2> DEFINE t == tracks[i]
               k == found[i]
               d == chain[t][k]
    <2>1. TypeInv /\ PlacesOK /\ Scanned(tracks)
      BY <1>1 DEF ScanInv, TypeInv
    <2>2. ~ \E r \in Errors : Refuses(r)
      BY <1>1 DEF Refuses, Answers, Errors
    <2>3. Settable(i, k, "Feedback") /\ AssignStep(d, "Feedback", v)
      BY <1>1, <2>1, <2>2, SetByCommandIs
    <2>4. i \in DOMAIN tracks /\ k \in Loopers(t)
      BY <2>3 DEF Settable, Loopers
    <2>5. TracksNamed(d) = {i}
      BY <2>1, <2>4, OwnRow
    <2>6. Namesakes(d, t) \subseteq {k}
      BY <1>1 DEF OwnName, Namesakes
    <2>7. attached[d]["Feedback"] = 1
      <3>1. d \in Device /\ IsLooperDevice(d) /\ "Feedback" \in Params[d]
        BY <2>1, <2>3, AssignDoes DEF Settable
      <3>2. t \in Range(tracks) /\ d \in Range(chain[t])
        BY <2>4 DEF Range, Loopers
      <3>3. <<d, "Feedback">> \in ToListen(tracks)
        BY <3>1, <3>2 DEF ToListen, Watched
      <3>4. QED
        BY <2>1, <3>3 DEF Scanned
    <2>8. RowPushed(i, d) /\ value'[d]["Feedback"] = v
      BY <2>1, <2>3, <2>5, <2>7, AssignDoes
    <2>9. rows'[i].device = k
      BY <2>6, <2>8 DEF RowPushed
    <2>10. rows'[i] = ReadLooperState(i, k, t, value')
      BY <2>8, <2>9 DEF RowPushed
    <2>11. rows'[i].feedback = v
      BY <2>3, <2>8, <2>10 DEF ReadLooperState, Settable
    <2>12. QED
      BY <2>9, <2>11
  <1>2. ScanInv /\ [Next]_vars
        => [reply' = "done" /\ ~unheard =>
               \A i \in DOMAIN found : \A v \in Levels["Feedback"] :
                   OwnName(tracks[i], found[i]) /\ SetByCommand(i, "Feedback", v)
                   => rows'[i].device = found[i] /\ rows'[i].feedback = v]_vars
    BY <1>1
  <1>3. QED
    BY <1>2, ScanInvAlways, PTL DEF Spec, SetShowsInRow
=============================================================================
