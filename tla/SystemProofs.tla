---------------------------- MODULE SystemProofs ----------------------------
(***************************************************************************)
(* Theorems about the script, the wires and the rows together, for any     *)
(* number of tracks, plugins and handler threads and any losses.           *)
(***************************************************************************)
EXTENDS System, RemoteScriptProofs

----------------------------------------------------------------------------
(* Type correctness *)

CopyOK ==
    /\ wire \in [Plugin -> Seq(Push)]
    /\ DOMAIN rows = Plugin
    /\ \A p \in Plugin : \A i \in DOMAIN rows[p] : rows[p][i] \in Push /\ rows[p][i].id = i
    /\ missed \in [Plugin -> SUBSET Id]

\* A step of the script's is one of the composed system's; hearing is not.
LEMMA ScriptSteps == SystemNext \/ UNCHANGED sysvars => [Next]_vars
  BY DEF SystemNext, Hear, sysvars

\* What a thread sends is a push.
LEMMA SendsType ==
    ASSUME TypeInv, NEW p \in Thread, NEW e \in Sends(p)
    PROVE  e \in Push
  <1>1. thread[p] \in ThreadState
    BY DEF TypeInv, ThreadsOK
  <1>2. CASE At(p, "push")
    <2>1. thread[p].item \in [unsent : SUBSET Push] /\ e \in Lowest(thread[p].item.unsent)
      BY <1>1, <1>2, StateAt DEF At, Sends
    <2>2. QED
      BY <2>1 DEF Lowest
  <1>3. CASE ~At(p, "push")
    BY <1>1, <1>3, StateAt DEF At, Sends
  <1>4. QED
    BY <1>2, <1>3

\* A push that arrives becomes the row of its id.
LEMMA HearType ==
    ASSUME CopyOK, NEW p \in Plugin, Hear(p)
    PROVE  /\ CopyOK'
           /\ Head(wire[p]) \in Push /\ Tail(wire[p]) \in Seq(Push) /\ wire[p] # << >>
  <1> DEFINE e == Head(wire[p])
  <1>1. wire[p] \in Seq(Push) /\ wire[p] # << >>
    BY DEF Hear, CopyOK
  <1>2. e \in Push /\ Tail(wire[p]) \in Seq(Push)
    BY <1>1, HeadTailProperties
  <1>3. /\ rows' = [rows EXCEPT ![p] = Stored(@, e)]
        /\ wire' = [wire EXCEPT ![p] = Tail(@)] /\ missed' = missed
    BY DEF Hear
  <1> HIDE DEF e
  <1>4. /\ Stored(rows[p], e) = [i \in DOMAIN rows[p] \cup {e.id} |-> IF i = e.id THEN e ELSE rows[p][i]]
    BY DEF Stored, Told
  <1>5. \A i \in DOMAIN Stored(rows[p], e) :
            Stored(rows[p], e)[i] \in Push /\ Stored(rows[p], e)[i].id = i
    BY <1>2, <1>4 DEF CopyOK
  <1>6. QED
    BY <1>1, <1>2, <1>3, <1>5 DEF CopyOK, e

LEMMA CarriedType ==
    ASSUME TypeInv, CopyOK, Carried
    PROVE  CopyOK'
  <1>1. CASE \E p \in Thread : Moves(p) /\ Sends(p) # {} /\ port # NoPlugin
    <2>1. PICK p \in Thread : \E e \in Sends(p) : Transmitted(e)
      BY <1>1 DEF Carried
    <2> PICK e \in Sends(p) : Transmitted(e)
      BY <2>1
    <2>2. e \in Push /\ e.id \in Id /\ port \in Plugin
      BY <1>1, SendsType DEF Push, TypeInv, ServerOK
    <2>3. wire' \in [Plugin -> Seq(Push)]
      <3>1. Append(wire[port], e) \in Seq(Push)
        BY <2>2, AppendProperties DEF CopyOK
      <3>2. QED
        BY <2>1, <2>2, <3>1 DEF Transmitted, CopyOK
    <2>4. missed' \in [Plugin -> SUBSET Id]
      <3>1. missed[port] \ {e.id} \in SUBSET Id /\ missed[port] \cup {e.id} \in SUBSET Id
        BY <2>2 DEF CopyOK
      <3>2. \/ missed' = [missed EXCEPT ![port] = missed[port] \ {e.id}]
            \/ missed' = [missed EXCEPT ![port] = missed[port] \cup {e.id}]
        BY DEF Transmitted
      <3>3. QED
        BY <2>2, <3>1, <3>2 DEF CopyOK
    <2>5. QED
      BY <2>3, <2>4 DEF Carried, CopyOK
  <1>2. CASE ~\E p \in Thread : Moves(p) /\ Sends(p) # {} /\ port # NoPlugin
    BY <1>2 DEF Carried, CopyOK
  <1>3. QED
    BY <1>1, <1>2

LEMMA CopyType == TypeInv /\ CopyOK /\ [SystemNext]_sysvars => TypeInv' /\ CopyOK'
  <1> SUFFICES ASSUME TypeInv, CopyOK, [SystemNext]_sysvars PROVE TypeInv' /\ CopyOK'
    OBVIOUS
  <1>1. TypeInv'
    BY ScriptSteps, StepType
  <1>2. CASE UNCHANGED sysvars
    BY <1>1, <1>2 DEF sysvars, plugins, CopyOK
  <1>3. CASE SystemNext
    BY <1>1, <1>3, CarriedType, HearType DEF SystemNext
  <1>4. QED
    BY <1>1, <1>2, <1>3

LEMMA CopyInit == SystemInit => CopyOK
  <1>1. DOMAIN << >> = {} /\ << >> \in Seq(Push)
    OBVIOUS
  <1>2. QED
    BY <1>1 DEF SystemInit, CopyOK

LEMMA SystemTypesHold == SystemSpec => [](TypeInv /\ CopyOK)
  <1>1. SystemInit => TypeInv /\ CopyOK
    BY InitType, CopyInit DEF SystemInit
  <1>2. QED
    BY <1>1, CopyType, PTL DEF SystemSpec

\* Whatever is lost and whenever the sockets are read, what is in them and in
\* the rows is what the script pushed, each row under its own id.
THEOREM SystemTyped == SystemSpec => []SystemTypeOK
  <1>1. CopyOK => SystemTypeOK
    <2> SUFFICES ASSUME CopyOK PROVE SystemTypeOK
      OBVIOUS
    <2>1. ASSUME NEW p \in Plugin PROVE Range(wire[p]) \subseteq Push
      BY ElementOfSeq, LenProperties DEF CopyOK, Range
    <2>2. QED
      BY <2>1 DEF CopyOK, SystemTypeOK
  <1>2. QED
    BY <1>1, SystemTypesHold, PTL

----------------------------------------------------------------------------
(* The refinement of Mirror.  It is about plugins that neither rescan nor   *)
(* set parameters: only the main thread reads and pushes then (README 7 has *)
(* what two threads can do).                                                *)

OneWriter == Op \cap {"discover", "set_feedback"} = {}

\* The workers answer and do no more.
SoloOK == \A w \in Worker : thread[w].pc \in {"idle", "reply"}

ScriptInv == TypeInv /\ AloneInv /\ SoloOK

\* The pushes the main thread has read and not yet sent.
Held ==
    IF At(Main, "push") THEN thread[Main].item.unsent
    ELSE IF At(Main, "send") THEN {thread[Main].item} ELSE {}

\* They are as good as new: no parameter moves under the main thread.
HeldCurrent == \A e \in Held : e.value = value[e.track]

LEMMA ContinueMoves ==
    ASSUME NEW p, Continue(p)
    PROVE  /\ \E s : Becomes(p, s)
           /\ UNCHANGED <<tracks, value, port>>
  BY DEF Continue, StopEntry, StopLoopEnds, StopRaises, ClearTable, Scan, PushFound, PushDone,
         Install, Record, InstallDone, ReadChanged, SendChanged, NotifyDone, live, server

\* A step is the main thread's or a worker's.
LEMMA WhoMoves ==
    ASSUME OneWriter, ScriptInv, ThreadAssumption, Next
    PROVE  \/ /\ ContinueMain \/ User
              /\ \A w \in Worker : thread'[w] = thread[w]
           \/ /\ \A w \in Worker : thread'[w].pc \in {"idle", "reply"}
              /\ thread'[Main] = thread[Main]
              /\ UNCHANGED <<tracks, value, found, shadow, unloaded>>
              /\ port' \in Plugin \cup {port}
  <1>0. thread \in [Thread -> ThreadState] /\ Main \notin Worker /\ Thread = {Main} \cup Worker
    BY ThreadAssumption DEF ScriptInv, TypeInv, ThreadsOK, Thread
  <1>1. CASE ContinueMain \/ User
    <2>1. (\E s : Becomes(Main, s)) \/ thread' = thread
      BY <1>1, ContinueMoves
      DEF ContinueMain, User, StartServer, ResetFound, HookTracks, StopServer, UserSetsParameter,
          Assign, UserInsertsTrack, UserDeletesTrack, TracksChanged, Disconnect
    <2>2. \A w \in Worker : thread'[w] = thread[w]
      BY <1>0, <2>1 DEF Becomes
    <2>3. QED
      BY <1>1, <2>2
  <1>2. ASSUME NEW w \in Worker, ContinueWorker(w) \/ Receive(w)
        PROVE  /\ \A v \in Worker : thread'[v].pc \in {"idle", "reply"}
               /\ thread'[Main] = thread[Main]
               /\ UNCHANGED <<tracks, value, found, shadow, unloaded>>
               /\ port' \in Plugin \cup {port}
    <2>1. PICK s : /\ Becomes(w, s) /\ s.pc \in {"idle", "reply"}
                   /\ UNCHANGED <<tracks, value, found, shadow, unloaded>>
                   /\ port' \in Plugin \cup {port}
      <3>1. CASE ContinueWorker(w)
        <4>1. Reply(w)
          BY <1>2, <3>1
          DEF ScriptInv, SoloOK, ContinueWorker, Continue, StopEntry, StopLoopEnds, StopRaises,
              ClearTable, Scan, PushFound, PushDone, Install, Record, InstallDone, ReadChanged,
              SendChanged, NotifyDone, Apply, At
        <4>2. QED
          BY <4>1 DEF Reply, Idle, Doing, State, live, server
      <3>2. CASE Receive(w)
        <4>1. PICK r \in Request : Hello(w, r) \/ Decline(w, r) \/ Discover(w, r) \/ SetFeedback(w, r)
          BY <3>2 DEF Receive
        <4>2. Hello(w, r) \/ Decline(w, r)
          BY <4>1, RequestType DEF Discover, SetFeedback, OneWriter
        <4>3. PICK success : Becomes(w, Answering(r, success))
          BY <4>2 DEF Hello, Decline
        <4>4. QED
          BY <4>2, <4>3, RequestType DEF Hello, Decline, Answering, State, live, server
      <3>3. QED
        BY <1>2, <3>1, <3>2
    <2>2. thread'[w] = s /\ \A q \in Thread \ {w} : thread'[q] = thread[q]
      BY <1>0, <2>1 DEF Becomes
    <2>3. QED
      BY <1>0, <2>1, <2>2 DEF ScriptInv, SoloOK
  <1>3. QED
    BY <1>1, <1>2 DEF Next

LEMMA ScriptInvStep ==
    ASSUME OneWriter, ScriptInv, [Next]_vars
    PROVE  ScriptInv'
  <1>1. TypeInv' /\ AloneInv'
    BY StepType, StepAlone DEF ScriptInv, OneWriter
  <1>2. CASE UNCHANGED vars
    BY <1>1, <1>2 DEF vars, ScriptInv, SoloOK
  <1>3. CASE Next
    BY <1>1, <1>3, WhoMoves, ThreadAssumption DEF ScriptInv, SoloOK
  <1>4. QED
    BY <1>2, <1>3

LEMMA ScriptInvInit == Init => ScriptInv
  <1>1. Idle.pc = "idle"
    BY DEF Idle, Doing, State
  <1>2. Init => SoloOK
    BY <1>1, ThreadAssumption DEF Init, SoloOK, Thread
  <1>3. QED
    BY <1>2, InitType, InitAlone DEF ScriptInv

\* An assignment changes one parameter; nothing else changes any.
LEMMA OneValueMoves ==
    ASSUME OneWriter, ScriptInv, Next
    PROVE  \/ value' = value
           \/ /\ At(Main, "idle") /\ thread'[Main].pc = "notify"
              /\ \E t \in Track, v \in Value : value' = [value EXCEPT ![t] = v]
  <1>1. CASE ContinueMain
    BY <1>1, ContinueMoves DEF ContinueMain, StartServer, ResetFound, HookTracks, StopServer, live
  <1>2. CASE User
    <2>1. ASSUME NEW t \in Track, NEW v \in Value, UserSetsParameter(t, v)
          PROVE  /\ At(Main, "idle") /\ thread'[Main].pc = "notify"
                 /\ value' = [value EXCEPT ![t] = v]
      <3> DEFINE rest == [k \in 1..Cardinality(installed[t]) |-> t]
      <3>1. Becomes(Main, Doing("notify", [op |-> "edit"], rest))
        BY <2>1 DEF UserSetsParameter, Assign
      <3> HIDE DEF rest
      <3>2. Main \in Thread /\ thread \in [Thread -> ThreadState]
        BY DEF ScriptInv, TypeInv, ThreadsOK, Thread
      <3>3. QED
        BY <2>1, <3>1, <3>2 DEF UserSetsParameter, Assign, Becomes, Doing, State
    <2>2. QED
      BY <1>2, <2>1 DEF User, UserInsertsTrack, UserDeletesTrack, Disconnect, live
  <1>3. QED
    BY <1>1, <1>2, WhoMoves, ThreadAssumption

\* Where a step of the main thread takes it, from m to n: it pushes what it
\* read in a scan,
Scans(m, n) ==
    \/ Scan(Main) /\ n.pc = "push" /\ n.item.unsent = Announcements
    \/ /\ PushFound(Main) /\ m.pc = "push" /\ n.pc = "push"
       /\ \E e \in Lowest(m.item.unsent) : SendEvent(e) /\ n.item.unsent = m.item.unsent \ {e}

\* or runs the listeners of an assignment of the user's,
Notifies(m, n) ==
    \/ /\ m.pc = "idle" /\ n.pc = "notify"
       /\ \E t \in Track, v \in Value :
              /\ UserSetsParameter(t, v)
              /\ n.rest = [k \in 1..Cardinality(installed[t]) |-> t]
    \/ /\ ReadChanged(Main) /\ m.pc = "notify" /\ m.rest # << >> /\ n.rest = Tail(m.rest)
       /\ IF Matches(Head(m.rest)) = {} THEN n.pc = "notify"
          ELSE n.pc = "send" /\ n.item = Read(Min(Matches(Head(m.rest))))
    \/ /\ SendChanged(Main) /\ m.pc = "send" /\ n.pc = "notify"
       /\ n.rest = m.rest /\ SendEvent(m.item)

\* or goes on with nothing to send,
GoesOn(m, n) ==
    \/ PushDone(Main) /\ m.pc = "push" /\ m.item.unsent = {} /\ n.pc = "install"
    \/ Install(Main) /\ m.pc = "install" /\ n.pc \in {"record", "install"}
    \/ Record(Main) /\ m.pc = "record" /\ n.pc = "install"
    \/ InstallDone(Main) /\ m.pc = "install" /\ n.pc \notin {"push", "notify", "send"}
    \/ NotifyDone(Main) /\ m.pc = "notify" /\ m.rest = << >> /\ n.pc \notin {"push", "notify", "send"}
    \/ HookTracks /\ m.pc = "hook" /\ n.pc = "idle"

\* or begins a scan, is unloaded, or is not called.
StartsOver(m, n) ==
    \/ StopServer /\ m.pc = "halt" /\ n.pc = "idle"
    \/ /\ m.pc \notin {"push", "notify", "send"} /\ n.pc \in {"stop", "clear", "scan", "halt", "init"}
       /\ UNCHANGED <<shadow, port, value>>
    \/ m.pc = "idle" /\ n = m /\ ~hooked /\ UNCHANGED <<found, value, shadow, port, unloaded>>

LEMMA MainGoes ==
    ASSUME ScriptInv, ContinueMain \/ User
    PROVE  LET m == thread[Main]
               n == thread'[Main]
           IN  Scans(m, n) \/ Notifies(m, n) \/ GoesOn(m, n) \/ StartsOver(m, n)
  <1> DEFINE m == thread[Main]
             n == thread'[Main]
  <1>0. /\ \A x : Becomes(Main, x) => n = x
        /\ m.pc = "stop" => m.item.used = Len(table)
    BY DEF ScriptInv, TypeInv, ThreadsOK, Thread, Becomes, AloneInv, AccountedOK, At
  <1>1. CASE \/ StopEntry(Main) \/ StopLoopEnds(Main) \/ StopRaises(Main) \/ ClearTable(Main)
            \/ StartServer \/ ResetFound \/ Disconnect
    <2>1. PICK pc, job, rest, item : /\ Becomes(Main, State(pc, job, rest, item))
                                     /\ pc \in {"stop", "clear", "scan", "halt", "init"}
      <3>1. CASE StopEntry(Main)
        BY <3>1 DEF StopEntry
      <3>2. CASE StopLoopEnds(Main) \/ ClearTable(Main) \/ StartServer \/ ResetFound
        BY <3>2 DEF StopLoopEnds, ClearTable, AfterStop, StartServer, ResetFound, Doing
      <3>3. CASE StopRaises(Main)
        BY <1>0, <3>3 DEF StopRaises, At
      <3>4. CASE Disconnect
        BY <3>4 DEF Disconnect, Stopping
      <3>5. QED
        BY <1>1, <3>1, <3>2, <3>3, <3>4
    <2>2. /\ n.pc \in {"stop", "clear", "scan", "halt", "init"}
          /\ m.pc \notin {"push", "notify", "send"}
      BY <1>0, <1>1, <2>1
      DEF State, StopEntry, StopLoopEnds, StopRaises, ClearTable, StartServer, ResetFound, Disconnect, At
    <2>3. UNCHANGED <<shadow, port, value>>
      BY <1>1 DEF StopEntry, StopLoopEnds, StopRaises, ClearTable, StartServer, ResetFound, Disconnect,
                  live, server
    <2>4. QED
      BY <2>2, <2>3 DEF StartsOver
  <1>2. CASE Scan(Main)
    <2>1. n = State("push", Job(Main), << >>, [unsent |-> Announcements])
      BY <1>0, <1>2 DEF Scan
    <2>2. QED
      BY <1>2, <2>1 DEF State, Scans
  <1>3. CASE PushFound(Main)
    <2>1. PICK e \in Lowest(m.item.unsent) :
              SendEvent(e) /\ n = State("push", Job(Main), << >>, [unsent |-> m.item.unsent \ {e}])
      BY <1>0, <1>3 DEF PushFound
    <2>2. n.pc = "push" /\ n.item.unsent = m.item.unsent \ {e}
      BY <2>1 DEF State
    <2>3. m.pc = "push"
      BY <1>3 DEF PushFound, At
    <2>4. QED
      BY <1>3, <2>1, <2>2, <2>3 DEF Scans
  <1>4. CASE PushDone(Main)
    BY <1>0, <1>4 DEF PushDone, At, Doing, State, GoesOn
  <1>5. CASE Install(Main)
    <2> DEFINE l == CHOOSE x \in Unused : TRUE
               rest == Tail(m.rest)
    <2>1. n = State("record", Job(Main), m.rest, l) \/ n = Doing("install", Job(Main), rest)
      BY <1>0, <1>5 DEF Install
    <2> HIDE DEF l, rest
    <2>2. n.pc \in {"record", "install"}
      BY <2>1 DEF Doing, State
    <2>3. QED
      BY <1>5, <2>2 DEF Install, At, GoesOn
  <1>6. CASE Record(Main)
    <2> DEFINE rest == Tail(m.rest)
    <2>1. n = Doing("install", Job(Main), rest)
      BY <1>0, <1>6 DEF Record
    <2> HIDE DEF rest
    <2>2. n.pc = "install"
      BY <2>1 DEF Doing, State
    <2>3. QED
      BY <1>6, <2>2 DEF Record, At, GoesOn
  <1>7. CASE InstallDone(Main)
    <2>1. m.pc = "install" /\ thread[Main] \in ThreadState
      BY <1>7 DEF InstallDone, At, ScriptInv, TypeInv, ThreadsOK, Thread
    <2>2. n = Doing("hook", Job(Main), << >>) \/ n = Idle \/ n = Answering(Job(Main), TRUE)
      BY <1>0, <1>7, <2>1, StateAt DEF InstallDone, ScanOps, Job
    <2>3. n.pc \notin {"push", "notify", "send"}
      BY <2>2 DEF Doing, Idle, Answering, State
    <2>4. QED
      BY <1>7, <2>1, <2>3 DEF GoesOn
  <1>8. CASE ReadChanged(Main)
    <2> DEFINE rest == Tail(m.rest)
               matches == Matches(Head(m.rest))
               item == Read(Min(matches))
    <2>1. /\ m.pc = "notify" /\ m.rest # << >>
          /\ n = IF matches = {} THEN Doing("notify", Job(Main), rest) ELSE State("send", Job(Main), rest, item)
      BY <1>0, <1>8 DEF ReadChanged, At
    <2>2. /\ n.rest = rest
          /\ IF matches = {} THEN n.pc = "notify" ELSE n.pc = "send" /\ n.item = item
      <3> HIDE DEF rest, item, matches
      <3>1. QED
        BY <2>1 DEF Doing, State
    <2>3. QED
      BY <1>8, <2>1, <2>2 DEF Notifies
  <1>9. CASE SendChanged(Main)
    BY <1>0, <1>9 DEF SendChanged, At, Doing, State, Notifies
  <1>10. CASE NotifyDone(Main)
    <2>1. n = Idle \/ n = Answering(Job(Main), TRUE)
      BY <1>0, <1>10 DEF NotifyDone
    <2>2. n.pc \notin {"push", "notify", "send"}
      BY <2>1 DEF Doing, Idle, Answering, State
    <2>3. QED
      BY <1>10, <2>2 DEF NotifyDone, At, GoesOn
  <1>11. CASE HookTracks \/ StopServer
    <2>1. n.pc = "idle"
      BY <1>0, <1>11 DEF HookTracks, StopServer, Idle, Doing, State
    <2>2. QED
      BY <1>11, <2>1 DEF HookTracks, StopServer, At, GoesOn, StartsOver
  <1>12. ASSUME NEW t \in Track, NEW v \in Value, UserSetsParameter(t, v)
         PROVE  Notifies(m, n)
    <2> DEFINE rest == [k \in 1..Cardinality(installed[t]) |-> t]
    <2>1. n = Doing("notify", [op |-> "edit"], rest)
      BY <1>0, <1>12 DEF UserSetsParameter, Assign
    <2>2. n.pc = "notify" /\ n.rest = rest
      <3> HIDE DEF rest
      <3>1. QED
        BY <2>1 DEF Doing, State
    <2>3. QED
      BY <1>12, <2>2 DEF UserSetsParameter, At, Notifies
  <1>13. CASE (\E t, i : UserInsertsTrack(t, i)) \/ (\E i \in DOMAIN tracks : UserDeletesTrack(i))
    <2>1. /\ m.pc = "idle" /\ TracksChanged /\ UNCHANGED <<found, value, shadow, port, unloaded>>
      BY <1>13 DEF UserInsertsTrack, UserDeletesTrack, At, server
    <2>2. CASE hooked
      <3>1. n = Stopping([op |-> "rescan"])
        BY <1>0, <2>1, <2>2 DEF TracksChanged
      <3>2. n.pc = "stop"
        BY <3>1 DEF Stopping, State
      <3>3. QED
        BY <2>1, <3>2 DEF StartsOver
    <2>3. CASE ~hooked
      BY <2>1, <2>3 DEF TracksChanged, StartsOver
    <2>4. QED
      BY <2>2, <2>3
  <1>14. QED
    BY <1>1, <1>2, <1>3, <1>4, <1>5, <1>6, <1>7, <1>8, <1>9, <1>10, <1>11, <1>12, <1>13
    DEF ContinueMain, Continue, User

LEMMA HeldStep ==
    ASSUME OneWriter, ScriptInv, HeldCurrent, Next
    PROVE  HeldCurrent'
  <1> DEFINE n == thread'[Main]
  <1>1. CASE n = thread[Main]
    <2>1. value' = value \/ Held = {}
      BY <1>1, OneValueMoves DEF At, Held
    <2>2. QED
      BY <1>1, <2>1 DEF HeldCurrent, Held, At
  <1>2. CASE n.pc \notin {"push", "send"}
    BY <1>2 DEF HeldCurrent, Held, At
  <1>3. CASE n # thread[Main] /\ n.pc \in {"push", "send"}
    <2>1. ContinueMain \/ User
      BY <1>3, WhoMoves, ThreadAssumption
    <2>2. value' = value
      BY <1>3, OneValueMoves
    <2>3. \/ n.pc = "push" /\ n.item.unsent = Announcements
          \/ n.pc = "push" /\ At(Main, "push") /\ n.item.unsent \subseteq thread[Main].item.unsent
          \/ n.pc = "send" /\ \E i : n.item = Read(i)
      <3>1. Scans(thread[Main], n) \/ Notifies(thread[Main], n)
        BY <1>3, <2>1, MainGoes DEF GoesOn, StartsOver
      <3>2. QED
        BY <1>3, <3>1 DEF Scans, Notifies, At
    <2>4. ASSUME NEW e \in Held' PROVE (\E i : e = Read(i)) \/ e \in Held
      BY <1>3, <2>3, <2>4 DEF Held, At, Announcements
    <2>5. QED
      BY <2>2, <2>4 DEF HeldCurrent, Read
  <1>4. QED
    BY <1>1, <1>2, <1>3

----------------------------------------------------------------------------
\* Along a plugin's way, from its rows m through its socket w to the
\* parameters v, what is said of a track never gets older.
Ordered(w, m, v) ==
    /\ \A i, j \in DOMAIN w : i <= j /\ w[i].track = w[j].track => w[i].value <= w[j].value
    /\ \A i \in DOMAIN w : w[i].value <= v[w[i].track]
    /\ \A k \in DOMAIN m : m[k].value <= v[m[k].track]
    /\ \A k \in DOMAIN m, i \in DOMAIN w : m[k].track = w[i].track => m[k].value <= w[i].value

OrderedOK == \A p \in Plugin : Ordered(wire[p], rows[p], value)

MirrorInv == ScriptInv /\ CopyOK /\ HeldCurrent /\ OrderedOK

LEMMA PushType == \A e \in Push : e.value \in Nat /\ e.track \in Track /\ e.id \in Id
  BY ValueAssumption DEF Push

LEMMA SocketType ==
    ASSUME NEW w \in Seq(Push)
    PROVE  /\ Len(w) \in Nat /\ DOMAIN w = 1..Len(w)
           /\ \A i \in DOMAIN w : w[i] \in Push
  BY LenProperties, ElementOfSeq

\* Parameters grow, and a push of the newest value joins the socket or not.
LEMMA OrderedLonger ==
    ASSUME NEW w \in Seq(Push), NEW m, \A k \in DOMAIN m : m[k] \in Push,
           NEW v, NEW u, \A t \in Track : v[t] \in Nat /\ u[t] \in Nat /\ v[t] <= u[t],
           Ordered(w, m, v)
    PROVE  /\ Ordered(w, m, u)
           /\ \A e \in Push : e.value = v[e.track] => Ordered(Append(w, e), m, u)
  <1>1. Ordered(w, m, u)
    <2>1. \A i \in DOMAIN w : w[i].value \in Nat /\ w[i].track \in Track
      BY SocketType, PushType
    <2>2. \A k \in DOMAIN m : m[k].value \in Nat /\ m[k].track \in Track
      BY PushType
    <2>3. QED
      BY <2>1, <2>2 DEF Ordered
  <1>2. ASSUME NEW e \in Push, e.value = v[e.track]
        PROVE  Ordered(Append(w, e), m, u)
    <2> DEFINE x == Append(w, e)
    <2>1. e.value \in Nat /\ e.track \in Track /\ e.value <= u[e.track]
      BY <1>2, PushType
    <2>2. Len(w) \in Nat /\ DOMAIN w = 1..Len(w) /\ \A i \in DOMAIN w : w[i] \in Push
      BY SocketType
    <2>3. DOMAIN x = 1..Len(w) + 1 /\ x[Len(w) + 1] = e /\ \A i \in 1..Len(w) : x[i] = w[i]
      BY <2>2, AppendProperties, LenProperties
    <2> HIDE DEF x
    <2>4. \A i \in DOMAIN x : \/ i \in DOMAIN w /\ x[i] = w[i]
                              \/ i = Len(w) + 1 /\ x[i] = e
      BY <2>2, <2>3
    <2>5. \A i \in DOMAIN x : x[i].value \in Nat /\ x[i].track \in Track /\ x[i].value <= v[x[i].track]
      BY <1>2, <2>1, <2>2, <2>4, PushType DEF Ordered
    <2>6. \A i \in DOMAIN x : x[i].value <= u[x[i].track]
      BY <2>5
    <2>7. \A k \in DOMAIN m, i \in DOMAIN x : m[k].track = x[i].track => m[k].value <= x[i].value
      BY <1>2, <2>4 DEF Ordered
    <2>8. ASSUME NEW i \in DOMAIN x, NEW j \in DOMAIN x, i <= j, x[i].track = x[j].track
          PROVE  x[i].value <= x[j].value
      <3>1. CASE x[j] = e
        BY <1>2, <2>5, <2>8, <3>1
      <3>2. CASE j \in DOMAIN w /\ x[j] = w[j]
        <4>1. i \in DOMAIN w /\ x[i] = w[i]
          BY <2>2, <2>4, <2>8, <3>2
        <4>2. QED
          BY <2>8, <3>2, <4>1 DEF Ordered
      <3>3. QED
        BY <2>4, <3>1, <3>2
    <2>9. QED
      BY <1>1, <2>6, <2>7, <2>8 DEF Ordered, x
  <1>3. QED
    BY <1>1, <1>2

\* The oldest push in the socket becomes the row of its id.
LEMMA OrderedTaken ==
    ASSUME NEW w \in Seq(Push), w # << >>, NEW m, NEW v, Ordered(w, m, v)
    PROVE  /\ Head(w).value <= v[Head(w).track]
           /\ \A k \in DOMAIN m : m[k].track = Head(w).track => m[k].value <= Head(w).value
           /\ Ordered(Tail(w), Told(m, Head(w)), v)
  <1> DEFINE e == Head(w)
             r == Told(m, e)
  <1>1. Len(w) \in Nat /\ DOMAIN w = 1..Len(w) /\ \A i \in DOMAIN w : w[i] \in Push
    BY SocketType
  <1>2. /\ e = w[1] /\ 1 \in DOMAIN w
        /\ \A i \in DOMAIN Tail(w) : i \in Nat /\ i + 1 \in DOMAIN w /\ 1 <= i + 1 /\ Tail(w)[i] = w[i + 1]
    BY <1>1, EmptySeq, HeadTailProperties, LenProperties
  <1>3. \A k \in DOMAIN r : r[k] = e \/ (k \in DOMAIN m /\ r[k] = m[k])
    BY DEF Told
  <1> HIDE DEF e, r
  <1>4. \A i, j \in DOMAIN Tail(w) :
            i <= j /\ Tail(w)[i].track = Tail(w)[j].track => Tail(w)[i].value <= Tail(w)[j].value
    <2> SUFFICES ASSUME NEW i \in DOMAIN Tail(w), NEW j \in DOMAIN Tail(w), i <= j,
                        Tail(w)[i].track = Tail(w)[j].track
                 PROVE  Tail(w)[i].value <= Tail(w)[j].value
      OBVIOUS
    <2>1. i + 1 \in DOMAIN w /\ j + 1 \in DOMAIN w /\ i + 1 <= j + 1
      BY <1>2
    <2>2. QED
      BY <1>2, <2>1 DEF Ordered
  <1>5. \A i \in DOMAIN Tail(w) : Tail(w)[i].value <= v[Tail(w)[i].track]
    BY <1>2 DEF Ordered
  <1>6. \A k \in DOMAIN r : r[k].value <= v[r[k].track]
    BY <1>2, <1>3 DEF Ordered
  <1>7. ASSUME NEW k \in DOMAIN r, NEW i \in DOMAIN Tail(w), r[k].track = Tail(w)[i].track
        PROVE  r[k].value <= Tail(w)[i].value
    <2>1. i + 1 \in DOMAIN w /\ 1 <= i + 1 /\ Tail(w)[i] = w[i + 1]
      BY <1>2
    <2>2. QED
      BY <1>2, <1>3, <1>7, <2>1 DEF Ordered
  <1>8. e.value <= v[e.track] /\ \A k \in DOMAIN m : m[k].track = e.track => m[k].value <= e.value
    BY <1>2 DEF Ordered
  <1>9. Ordered(Tail(w), r, v)
    BY <1>4, <1>5, <1>6, <1>7 DEF Ordered
  <1>10. QED
    BY <1>8, <1>9 DEF e, r

----------------------------------------------------------------------------
LEMMA SendsHeld ==
    ASSUME SoloOK, NEW p \in Thread, NEW e \in Sends(p)
    PROVE  p = Main /\ e \in Held
  BY DEF Sends, SoloOK, Held, Lowest, At, Thread

\* A step of the script's sends a push that it holds, or nothing.
LEMMA WhatIsCarried ==
    ASSUME ScriptInv, CopyOK, Carried, NEW p \in Plugin
    PROVE  \/ wire'[p] = wire[p]
           \/ \E e \in Held : e \in Push /\ wire'[p] = Append(wire[p], e)
  <1>1. CASE \E q \in Thread : Moves(q) /\ Sends(q) # {} /\ port # NoPlugin
    <2>1. PICK q \in Thread : \E e \in Sends(q) : Transmitted(e)
      BY <1>1 DEF Carried
    <2>2. PICK e \in Sends(q) : Transmitted(e)
      BY <2>1
    <2>3. e \in Held /\ e \in Push
      BY SendsHeld, SendsType DEF ScriptInv
    <2>4. wire' = [wire EXCEPT ![port] = Append(@, e)] \/ wire' = wire
      BY <2>2 DEF Transmitted
    <2>5. QED
      BY <2>3, <2>4 DEF CopyOK
  <1>2. CASE ~\E q \in Thread : Moves(q) /\ Sends(q) # {} /\ port # NoPlugin
    BY <1>2 DEF Carried
  <1>3. QED
    BY <1>1, <1>2

LEMMA CarriedInOrder ==
    ASSUME MirrorInv, Carried, TypeInv'
    PROVE  OrderedOK'
  <1>1. ASSUME NEW t \in Track PROVE value[t] \in Nat /\ value'[t] \in Nat /\ value[t] <= value'[t]
    <2>1. value[t] \in Nat /\ value'[t] \in {value[t], value[t] + 1}
      BY ValueAssumption DEF MirrorInv, ScriptInv, TypeInv, SetOK, Carried
    <2>2. QED
      BY <2>1
  <1>2. rows' = rows
    BY DEF Carried
  <1>3. ASSUME NEW p \in Plugin PROVE Ordered(wire'[p], rows[p], value')
    <2>1. /\ wire[p] \in Seq(Push) /\ \A k \in DOMAIN rows[p] : rows[p][k] \in Push
          /\ Ordered(wire[p], rows[p], value)
      BY DEF MirrorInv, CopyOK, OrderedOK
    <2>2. \/ wire'[p] = wire[p]
          \/ \E e \in Push : e.value = value[e.track] /\ wire'[p] = Append(wire[p], e)
      BY WhatIsCarried DEF MirrorInv, HeldCurrent
    <2>3. QED
      BY <1>1, <2>1, <2>2, OrderedLonger
  <1>4. QED
    BY <1>2, <1>3 DEF OrderedOK

LEMMA HeardInOrder ==
    ASSUME MirrorInv, NEW q \in Plugin, Hear(q)
    PROVE  OrderedOK' /\ M!Next
  <1> DEFINE e == Head(wire[q])
             w == wire[q]
             m == rows[q]
  <1>1. /\ w # << >> /\ w \in Seq(Push)
        /\ rows' = [rows EXCEPT ![q] = Told(@, e)]
        /\ wire' = [wire EXCEPT ![q] = Tail(@)] /\ value' = value
        /\ wire \in [Plugin -> Seq(Push)] /\ DOMAIN rows = Plugin
    BY DEF Hear, Stored, vars, MirrorInv, CopyOK
  <1>2. /\ e.value <= value[e.track]
        /\ \A k \in DOMAIN m : m[k].track = e.track => m[k].value <= e.value
        /\ Ordered(Tail(w), Told(m, e), value)
    BY <1>1, OrderedTaken DEF MirrorInv, OrderedOK
  <1>3. e \in Push
    BY HearType DEF MirrorInv
  <1> HIDE DEF e
  <1>4. OrderedOK'
    <2>1. Ordered(wire'[q], rows'[q], value')
      BY <1>1, <1>2
    <2>2. \A p \in Plugin \ {q} : wire'[p] = wire[p] /\ rows'[p] = rows[p]
      BY <1>1
    <2>3. \A p \in Plugin : Ordered(wire'[p], rows'[p], value')
      BY <1>1, <2>1, <2>2 DEF MirrorInv, OrderedOK
    <2>4. QED
      BY <2>3 DEF OrderedOK
  <1>5. M!Next
    <2>1. /\ e = [id |-> e.id, track |-> e.track, value |-> e.value]
          /\ e.id \in Id /\ e.track \in Track /\ e.value \in Nat
      BY <1>3, PushType DEF Push
    <2>2. value[e.track] \in Nat
      BY <2>1, ValueAssumption DEF MirrorInv, ScriptInv, TypeInv, SetOK
    <2>3. e.value \in 0..value[e.track]
      BY <1>2, <2>1, <2>2
    <2>4. rows' = [rows EXCEPT ![q] = [i \in DOMAIN @ \cup {e.id} |-> IF i = e.id THEN e ELSE @[i]]]
      BY <1>1 DEF Told
    <2>5. M!Show(q, e)
      BY <1>1, <1>2, <2>4 DEF M!Show
    <2>6. QED
      BY <2>1, <2>3, <2>5 DEF M!Next
  <1>6. QED
    BY <1>4, <1>5

LEMMA MirrorStep ==
    ASSUME OneWriter, MirrorInv, [SystemNext]_sysvars
    PROVE  MirrorInv' /\ [M!Next]_<<value, rows>>
  <1>1. ScriptInv' /\ CopyOK'
    BY ScriptSteps, ScriptInvStep, CopyType DEF MirrorInv, ScriptInv
  <1>2. CASE UNCHANGED sysvars
    BY <1>1, <1>2 DEF sysvars, vars, plugins, MirrorInv, HeldCurrent, Held, OrderedOK, At
  <1>3. CASE Next /\ Carried
    <2>1. HeldCurrent' /\ OrderedOK'
      BY <1>1, <1>3, HeldStep, CarriedInOrder DEF MirrorInv, ScriptInv
    <2>2. rows' = rows
      BY <1>3 DEF Carried
    <2>3. CASE value' = value
      BY <1>1, <2>1, <2>2, <2>3 DEF MirrorInv
    <2>4. ASSUME NEW t \in Track, NEW v \in Value, value' = [value EXCEPT ![t] = v]
          PROVE  [M!Next]_<<value, rows>>
      <3>1. value'[t] = v /\ value'[t] \in {value[t], value[t] + 1} /\ value \in [Track -> Value]
        BY <1>3, <2>4 DEF Carried, MirrorInv, ScriptInv, TypeInv, SetOK
      <3>2. CASE v = value[t]
        BY <2>2, <2>4, <3>1, <3>2
      <3>3. CASE v = value[t] + 1
        BY <2>2, <2>4, <3>3 DEF M!Next, M!Change
      <3>4. QED
        BY <3>1, <3>2, <3>3
    <2>5. QED
      BY <1>1, <1>3, <2>1, <2>3, <2>4, OneValueMoves DEF MirrorInv
  <1>4. ASSUME NEW p \in Plugin, Hear(p) PROVE MirrorInv' /\ [M!Next]_<<value, rows>>
    <2>1. HeldCurrent'
      BY <1>4 DEF Hear, vars, MirrorInv, HeldCurrent, Held, At
    <2>2. QED
      BY <1>1, <1>4, <2>1, HeardInOrder DEF MirrorInv
  <1>5. QED
    BY <1>2, <1>3, <1>4 DEF SystemNext

LEMMA MirrorInit == SystemInit => MirrorInv /\ M!Init
  <1> SUFFICES ASSUME SystemInit PROVE MirrorInv /\ M!Init
    OBVIOUS
  <1>1. ScriptInv /\ CopyOK
    BY ScriptInvInit, CopyInit DEF SystemInit
  <1>2. HeldCurrent
    <2>1. thread[Main].pc = "start"
      BY DEF SystemInit, Init, Thread, Doing, State
    <2>2. QED
      BY <2>1 DEF HeldCurrent, Held, At
  <1>3. OrderedOK
    <2>1. DOMAIN << >> = {}
      OBVIOUS
    <2>2. \A p \in Plugin : wire[p] = << >> /\ rows[p] = << >>
      BY DEF SystemInit
    <2>3. QED
      BY <2>1, <2>2 DEF OrderedOK, Ordered
  <1>4. M!Init
    BY ValueAssumption DEF SystemInit, Init, M!Init
  <1>5. QED
    BY <1>1, <1>2, <1>3, <1>4 DEF MirrorInv

\* The plugin's rows refine Mirror, with any number of plugins and any losses:
\* a row shows what its looper was, and a looper once shown is never shown
\* older, as long as no plugin sends discover or set_feedback.
THEOREM RowsMirrorTheSet == OneWriter => (SystemSpec => ImplementsMirror)
  <1> SUFFICES ASSUME OneWriter PROVE SystemSpec => ImplementsMirror
    OBVIOUS
  <1>1. MirrorInv /\ [SystemNext]_sysvars => MirrorInv' /\ [M!Next]_<<value, rows>>
    BY MirrorStep
  <1>2. QED
    BY MirrorInit, <1>1, PTL DEF SystemSpec, ImplementsMirror, M!Spec

----------------------------------------------------------------------------
(* What one plugin has been told.  Names must tell the loopers apart:       *)
(* _on_looper_param_changed looks its track up by name.                     *)

OnePlugin == \A p, q \in Plugin : p = q
NamesDiffer == \A t, u \in Looper : NameOf(t) = NameOf(u) => t = u

\* The main thread is on its way to push what looper i is now.
Owed(i) ==
    \/ At(Main, "push") /\ Read(i) \in thread[Main].item.unsent
    \/ At(Main, "send") /\ thread[Main].item = Read(i)
    \/ thread[Main].pc \in {"notify", "send"} /\ tracks[i] \in Range(thread[Main].rest)

Scanned == thread[Main].pc \in {"push", "install", "record", "hook", "idle", "notify", "send"}

\* From a scan on, a row that was sent is right or about to be sent again.
SentOK ==
    \A p \in Plugin : \A i \in LooperIds \cap DOMAIN shadow[p] : shadow[p][i] = Read(i) \/ Owed(i)

ToldOK ==
    /\ port = NoPlugin => \A p \in Plugin : DOMAIN shadow[p] = {}
    /\ At(Main, "push") => \A e \in thread[Main].item.unsent : e.id \in LooperIds /\ e = Read(e.id)
    /\ At(Main, "send") => thread[Main].item.id \in LooperIds /\ thread[Main].item = Read(thread[Main].item.id)
    /\ ~unloaded /\ Scanned => DOMAIN found = LooperIds /\ SentOK

\* A reading is named by its id, and a place by its track.
LEMMA ReadById ==
    ASSUME SetOK, NEW i \in LooperIds, NEW j \in LooperIds
    PROVE  /\ Read(i).id = i
           /\ tracks[i] = tracks[j] => i = j
           /\ i \in Nat /\ tracks[i] \in Looper
  BY LooperIdType DEF SetOK, IsInjective, LooperIds, Read

\* Sending what looper e.id is now makes its row right, and no other wrong.
LEMMA SentOne ==
    ASSUME TypeInv, OnePlugin, ToldOK, NEW e, e.id \in LooperIds, e = Read(e.id), SendEvent(e),
           NEW p \in Plugin, NEW i \in LooperIds \cap DOMAIN shadow'[p]
    PROVE  \/ shadow'[p][i] = Read(i)
           \/ i # e.id /\ i \in DOMAIN shadow[p] /\ shadow'[p][i] = shadow[p][i]
  <1>1. CASE port = NoPlugin
    BY <1>1 DEF SendEvent, ToldOK
  <1>2. CASE port # NoPlugin
    <2>1. port = p
      BY <1>2 DEF OnePlugin, TypeInv, ServerOK
    <2>2. shadow'[p] = Told(shadow[p], e)
      BY <1>2, <2>1 DEF SendEvent, TypeInv, ShadowOK
    <2>3. QED
      BY <2>2 DEF Told
  <1>3. QED
    BY <1>1, <1>2

\* SendEvent, and what it leaves when there is nobody to send to.
LEMMA SentToNobody ==
    ASSUME ToldOK, NEW e, SendEvent(e), port = NoPlugin
    PROVE  \A p \in Plugin : DOMAIN shadow'[p] = {}
  BY DEF SendEvent, ToldOK

\* The main thread goes where it owes nothing more than it owed.
LEMMA StillTold ==
    ASSUME ToldOK, Scanned,
           UNCHANGED <<tracks, value, found, shadow, port, unloaded>>,
           thread'[Main].pc \notin {"push", "notify", "send"},
           \A i \in LooperIds : ~Owed(i)
    PROVE  ToldOK'
  <1>1. LooperIds' = LooperIds /\ \A i : Read(i)' = Read(i)
    BY DEF LooperIds, Read
  <1>2. ~unloaded => SentOK'
    BY <1>1 DEF ToldOK, SentOK
  <1>3. QED
    BY <1>1, <1>2 DEF ToldOK, At

LEMMA ToldStep ==
    ASSUME OneWriter, OnePlugin, NamesDiffer, ScriptInv, ToldOK, Next
    PROVE  ToldOK'
  <1> DEFINE m == thread[Main]
             n == thread'[Main]
  <1>0. TypeInv /\ SetOK /\ m \in ThreadState /\ FlagsOK
    BY DEF ScriptInv, TypeInv, ThreadsOK, Thread, AloneInv
  <1>1. CASE /\ n = m /\ UNCHANGED <<tracks, value, found, shadow, unloaded>>
             /\ port' \in Plugin \cup {port}
    <2>1. LooperIds' = LooperIds /\ \A i : Read(i)' = Read(i)
      BY <1>1 DEF LooperIds, Read
    <2>2. \A i : Owed(i)' <=> Owed(i)
      BY <1>1, <2>1 DEF Owed, At
    <2>3. SentOK' <=> SentOK
      BY <1>1, <2>1, <2>2 DEF SentOK
    <2>4. port' = NoPlugin => port = NoPlugin
      BY <1>1, PluginAssumption
    <2>5. Scanned' <=> Scanned
      BY <1>1 DEF Scanned
    <2>6. QED
      BY <1>1, <2>1, <2>3, <2>4, <2>5 DEF ToldOK, At
  <1>2. CASE Scan(Main) /\ n.pc = "push" /\ n.item.unsent = Announcements
    <2>1. found' = Discovered /\ UNCHANGED <<tracks, value, shadow, port, unloaded>>
      BY <1>2 DEF Scan, live, server
    <2>2. LooperIds' = LooperIds /\ \A i : Read(i)' = Read(i)
      BY <2>1 DEF LooperIds, Read
    <2>3. DOMAIN found' = LooperIds
      BY <2>1 DEF Discovered
    <2>4. SentOK'
      BY <1>2, <2>2 DEF SentOK, Owed, At, Announcements
    <2>5. \A e \in n.item.unsent : e.id \in LooperIds /\ e = Read(e.id)
      BY <1>2 DEF Announcements, Read
    <2>6. QED
      BY <1>2, <2>1, <2>2, <2>3, <2>4, <2>5 DEF ToldOK, At
  <1>3. ASSUME PushFound(Main), m.pc = "push", n.pc = "push", NEW e \in Lowest(m.item.unsent),
               SendEvent(e), n.item.unsent = m.item.unsent \ {e}
        PROVE  ToldOK'
    <2>1. UNCHANGED <<tracks, value, found, port, unloaded>>
      BY <1>3 DEF PushFound, live, server
    <2>2. LooperIds' = LooperIds /\ \A i : Read(i)' = Read(i)
      BY <2>1 DEF LooperIds, Read
    <2>3. e \in m.item.unsent /\ e.id \in LooperIds /\ e = Read(e.id)
      BY <1>3 DEF ToldOK, Lowest, At
    <2>4. ASSUME NEW p \in Plugin, NEW i \in LooperIds \cap DOMAIN shadow'[p], SentOK
          PROVE  shadow'[p][i] = Read(i) \/ Read(i) \in n.item.unsent
      <3>1. CASE shadow'[p][i] = Read(i)
        BY <3>1
      <3>2. CASE i # e.id /\ i \in DOMAIN shadow[p] /\ shadow'[p][i] = shadow[p][i]
        <4>1. shadow[p][i] = Read(i) \/ Read(i) \in m.item.unsent
          BY <1>3, <2>4, <3>2 DEF SentOK, Owed, At
        <4>2. Read(i) # e
          BY <1>0, <2>3, <3>2, ReadById
        <4>3. QED
          BY <1>3, <3>2, <4>1, <4>2
      <3>3. QED
        BY <1>0, <1>3, <2>3, <3>1, <3>2, SentOne
    <2>5. SentOK => SentOK'
      BY <1>3, <2>2, <2>4 DEF SentOK, Owed, At
    <2>6. \A x \in n.item.unsent : x.id \in LooperIds /\ x = Read(x.id)
      BY <1>3 DEF ToldOK, At
    <2>7. port' = NoPlugin => \A p \in Plugin : DOMAIN shadow'[p] = {}
      BY <1>3, <2>1, SentToNobody
    <2>8. QED
      BY <1>3, <2>1, <2>2, <2>5, <2>6, <2>7 DEF ToldOK, Scanned, At
  <1>4. CASE /\ m.pc \in {"push", "install", "record", "hook", "notify"}
             /\ n.pc \notin {"push", "notify", "send"}
             /\ m.pc = "push" => m.item.unsent = {}
             /\ m.pc = "notify" => m.rest = << >>
             /\ UNCHANGED <<tracks, value, found, shadow, port, unloaded>>
    <2>1. Range(<< >>) = {}
      BY DEF Range
    <2>2. \A i \in LooperIds : ~Owed(i)
      BY <1>4, <2>1 DEF Owed, At
    <2>3. QED
      BY <1>4, <2>2, StillTold DEF Scanned
  <1>5. CASE /\ ReadChanged(Main) /\ m.pc = "notify" /\ m.rest # << >> /\ n.rest = Tail(m.rest)
             /\ IF Matches(Head(m.rest)) = {} THEN n.pc = "notify"
                ELSE n.pc = "send" /\ n.item = Read(Min(Matches(Head(m.rest))))
    <2> DEFINE matches == Matches(Head(m.rest))
    <2>1. UNCHANGED <<tracks, value, found, shadow, port, unloaded>>
      BY <1>5 DEF ReadChanged, live, server
    <2>2. LooperIds' = LooperIds /\ \A i : Read(i)' = Read(i)
      BY <2>1 DEF LooperIds, Read
    <2>3. matches \subseteq LooperIds /\ matches \subseteq Nat
      BY <1>0, LooperIdType DEF Matches
    <2>4. matches # {} => Min(matches) \in matches
      BY <2>3, FirstPosition
    <2>5. m.rest \in Seq(Looper) /\ Range(m.rest) = {Head(m.rest)} \cup Range(n.rest) /\ Head(m.rest) \in Looper
      BY <1>0, <1>5, StateAt, HeadAndRest, HeadTailProperties
    <2>6. ASSUME NEW i \in LooperIds, tracks[i] \in Range(m.rest)
          PROVE  Owed(i)'
      <3>1. CASE tracks[i] \in Range(n.rest)
        BY <1>5, <2>1, <3>1 DEF Owed
      <3>2. CASE tracks[i] = Head(m.rest)
        <4>1. i \in matches
          BY <3>2 DEF Matches
        <4>2. Min(matches) \in LooperIds /\ NameOf(tracks[Min(matches)]) = NameOf(tracks[i])
          BY <2>3, <2>4, <3>2, <4>1 DEF Matches
        <4>3. Min(matches) = i
          BY <1>0, <4>2, ReadById DEF NamesDiffer
        <4>4. n.pc = "send" /\ n.item = Read(i)
          BY <1>5, <4>1, <4>3
        <4>5. QED
          BY <2>2, <4>4 DEF Owed, At
      <3>3. QED
        BY <2>5, <2>6, <3>1, <3>2
    <2>7. SentOK => SentOK'
      <3>1. \A i \in LooperIds : Owed(i) => tracks[i] \in Range(m.rest)
        BY <1>5 DEF Owed, At
      <3>2. QED
        BY <2>1, <2>2, <2>6, <3>1 DEF SentOK
    <2>8. n.pc = "send" => n.item.id \in LooperIds /\ n.item = Read(n.item.id)
      BY <1>5, <2>3, <2>4 DEF Read
    <2>9. n.pc \in {"notify", "send"}
      BY <1>5
    <2>10. QED
      BY <1>5, <2>1, <2>2, <2>7, <2>8, <2>9 DEF ToldOK, Scanned, At
  <1>6. CASE /\ SendChanged(Main) /\ m.pc = "send" /\ n.pc = "notify"
             /\ n.rest = m.rest /\ SendEvent(m.item)
    <2> DEFINE e == m.item
    <2>1. UNCHANGED <<tracks, value, found, port, unloaded>>
      BY <1>6 DEF SendChanged, live, server
    <2>2. LooperIds' = LooperIds /\ \A i : Read(i)' = Read(i)
      BY <2>1 DEF LooperIds, Read
    <2>3. e.id \in LooperIds /\ e = Read(e.id)
      BY <1>6 DEF ToldOK, At
    <2>4. ASSUME NEW p \in Plugin, NEW i \in LooperIds \cap DOMAIN shadow'[p], SentOK
          PROVE  shadow'[p][i] = Read(i) \/ tracks[i] \in Range(n.rest)
      <3>1. CASE shadow'[p][i] = Read(i)
        BY <3>1
      <3>2. CASE i # e.id /\ i \in DOMAIN shadow[p] /\ shadow'[p][i] = shadow[p][i]
        <4>1. shadow[p][i] = Read(i) \/ e = Read(i) \/ tracks[i] \in Range(m.rest)
          BY <1>6, <2>4, <3>2 DEF SentOK, Owed, At
        <4>2. Read(i) # e
          BY <1>0, <2>3, <3>2, ReadById
        <4>3. QED
          BY <1>6, <3>2, <4>1, <4>2
      <3>3. QED
        BY <1>0, <1>6, <2>3, <3>1, <3>2, SentOne
    <2>5. SentOK => SentOK'
      BY <1>6, <2>1, <2>2, <2>4 DEF SentOK, Owed, At
    <2>6. port' = NoPlugin => \A p \in Plugin : DOMAIN shadow'[p] = {}
      BY <1>6, <2>1, SentToNobody
    <2>7. QED
      BY <1>6, <2>1, <2>2, <2>5, <2>6 DEF ToldOK, Scanned, At
  <1>7. ASSUME m.pc = "idle", n.pc = "notify", NEW t \in Track, NEW v \in Value, UserSetsParameter(t, v),
               n.rest = [k \in 1..Cardinality(installed[t]) |-> t]
        PROVE  ToldOK'
    <2>1. /\ UNCHANGED <<tracks, found, shadow, port, unloaded>> /\ t \in LooperTracks
          /\ value' = [value EXCEPT ![t] = v]
      BY <1>7 DEF UserSetsParameter, Assign, server, LooperTracks
    <2>2. LooperIds' = LooperIds /\ \A i : tracks[i] # t => Read(i)' = Read(i)
      BY <1>0, <2>1 DEF LooperIds, Read, SetOK
    <2>3. ASSUME ~unloaded PROVE t \in Range(n.rest)
      <3>1. PICK l \in Listener : installed[t] = {l}
        BY <1>7, <2>1, <2>3 DEF ScriptInv, AloneInv, HeardOK, Quiet, OneEach
      <3>2. Cardinality(installed[t]) = 1
        BY <3>1, FS_Singleton
      <3>3. QED
        BY <1>7, <3>2 DEF Range
    <2>4. ASSUME ~unloaded, SentOK PROVE SentOK'
      <3>1. \A i \in LooperIds : ~Owed(i)
        BY <1>7 DEF Owed, At
      <3>2. \A i \in LooperIds : tracks[i] = t => Owed(i)'
        BY <1>7, <2>1, <2>3, <2>4 DEF Owed
      <3>3. QED
        BY <2>1, <2>2, <2>4, <3>1, <3>2 DEF SentOK
    <2>5. QED
      BY <1>7, <2>1, <2>2, <2>4 DEF ToldOK, Scanned, At
  <1>8. CASE m.pc = "halt" /\ n.pc = "idle" /\ StopServer
    <2>1. unloaded
      BY <1>0, <1>8, StateAt DEF FlagsOK, Job
    <2>2. QED
      BY <1>8, <2>1 DEF StopServer, ToldOK, At
  <1>9. CASE n.pc \in {"stop", "clear", "scan", "halt", "init"} /\ UNCHANGED <<shadow, port, value>>
    BY <1>9 DEF ToldOK, Scanned, At
  <1>10. CASE m.pc = "idle" /\ n = m /\ ~hooked /\ UNCHANGED <<found, value, shadow, port, unloaded>>
    <2>1. unloaded
      BY <1>0, <1>10 DEF FlagsOK, Quiet
    <2>2. QED
      BY <1>10, <2>1 DEF ToldOK, At
  <1>11. ASSUME \/ PushDone(Main) \/ Install(Main) \/ Record(Main) \/ InstallDone(Main)
                \/ NotifyDone(Main) \/ HookTracks
         PROVE  /\ UNCHANGED <<tracks, value, found, shadow, port, unloaded>>
                /\ m.pc = "push" => m.item.unsent = {}
    BY <1>11 DEF PushDone, Install, Record, InstallDone, NotifyDone, HookTracks, live, server, At
  <1>12. CASE ContinueMain \/ User
    <2>1. CASE GoesOn(m, n)
      <3>1. UNCHANGED <<tracks, value, found, shadow, port, unloaded>> /\ (m.pc = "push" => m.item.unsent = {})
        BY <1>11, <2>1 DEF GoesOn
      <3>2. /\ m.pc \in {"push", "install", "record", "hook", "notify"}
            /\ n.pc \notin {"push", "notify", "send"}
            /\ m.pc = "notify" => m.rest = << >>
        BY <2>1 DEF GoesOn
      <3>3. QED
        BY <1>4, <3>1, <3>2
    <2>2. CASE Scans(m, n)
      BY <1>2, <1>3, <2>2 DEF Scans
    <2>3. CASE Notifies(m, n)
      BY <1>5, <1>6, <1>7, <2>3 DEF Notifies
    <2>4. CASE StartsOver(m, n)
      BY <1>8, <1>9, <1>10, <2>4 DEF StartsOver
    <2>5. QED
      BY <1>12, <2>1, <2>2, <2>3, <2>4, MainGoes
  <1>13. QED
    BY <1>1, <1>12, WhoMoves, ThreadAssumption

LEMMA ToldInit == Init => ToldOK
  <1> SUFFICES ASSUME Init PROVE ToldOK
    OBVIOUS
  <1>1. thread[Main].pc = "start"
    BY DEF Init, Thread, Doing, State
  <1>2. DOMAIN << >> = {}
    OBVIOUS
  <1>3. \A p \in Plugin : DOMAIN shadow[p] = {}
    BY <1>2 DEF Init
  <1>4. QED
    BY <1>1, <1>3 DEF ToldOK, Scanned, At

LEMMA ToldStepOrNot ==
    ASSUME OneWriter, OnePlugin, NamesDiffer, ScriptInv, ToldOK, [Next]_vars
    PROVE  ToldOK'
  <1>1. CASE UNCHANGED vars
    <2>1. UNCHANGED <<tracks, value, found, shadow, port, unloaded, thread>>
      BY <1>1 DEF vars
    <2>2. LooperIds' = LooperIds /\ \A i : Read(i)' = Read(i)
      BY <2>1 DEF LooperIds, Read
    <2>3. SentOK' <=> SentOK
      BY <2>1, <2>2 DEF SentOK, Owed, At
    <2>4. QED
      BY <2>1, <2>2, <2>3 DEF ToldOK, Scanned, At
  <1>2. QED
    BY <1>1, ToldStep

\* When the script rests, what it has told the plugin is what it would read.
LEMMA TheTold ==
    ASSUME ToldOK, Resting, ~unloaded
    PROVE  /\ DOMAIN found = LooperIds
           /\ \A p \in Plugin : \A i \in DOMAIN found \cap DOMAIN shadow[p] : shadow[p][i] = Read(i)
  <1>1. thread[Main].pc = "idle"
    BY DEF Resting, At, Thread
  <1>2. \A i : ~Owed(i)
    BY <1>1 DEF Owed, At
  <1>3. QED
    BY <1>1, <1>2 DEF ToldOK, SentOK, Scanned

\* "Full state push on change, no state reconciliation needed" holds when one
\* plugin is there, no plugin sends discover or set_feedback, and no two
\* loopers have tracks of the same name: however the set is edited, whenever
\* the script rests the plugin was last told what is so.
THEOREM OnePluginUpToDate ==
    OneWriter /\ OnePlugin /\ NamesDiffer => (Spec => []PluginIsUpToDate)
  <1> SUFFICES ASSUME OneWriter, OnePlugin, NamesDiffer PROVE Spec => []PluginIsUpToDate
    OBVIOUS
  <1>1. Init => ScriptInv /\ ToldOK
    BY ScriptInvInit, ToldInit
  <1>2. ScriptInv /\ ToldOK /\ [Next]_vars => (ScriptInv /\ ToldOK)'
    BY ScriptInvStep, ToldStepOrNot
  <1>3. ScriptInv /\ ToldOK => PluginIsUpToDate
    BY TheTold DEF PluginIsUpToDate, ScriptInv, TypeInv, ServerOK
  <1>4. QED
    BY <1>1, <1>2, <1>3, PTL DEF Spec

----------------------------------------------------------------------------
(* From what was told to what arrived.                                      *)

\* e is the last word on row i, in the socket w or in the rows m.
Latest(w, m, i, e) ==
    \/ \E k \in DOMAIN w : w[k] = e /\ \A j \in DOMAIN w : j > k => w[j].id # i
    \/ (\A j \in DOMAIN w : w[j].id # i) /\ i \in DOMAIN m /\ m[i] = e

LatestOK ==
    \A p \in Plugin : \A i \in DOMAIN shadow[p] \ missed[p] : Latest(wire[p], rows[p], i, shadow[p][i])

CopyInv == ScriptInv /\ ToldOK /\ CopyOK /\ LatestOK

LEMMA LatestJoins ==
    ASSUME NEW w \in Seq(Push), NEW m, NEW e \in Push, NEW i, NEW x
    PROVE  /\ Latest(Append(w, e), m, e.id, e)
           /\ i # e.id /\ Latest(w, m, i, x) => Latest(Append(w, e), m, i, x)
  <1> DEFINE u == Append(w, e)
  <1>1. Len(w) \in Nat /\ DOMAIN w = 1..Len(w)
    BY SocketType
  <1>2. DOMAIN u = 1..Len(w) + 1 /\ u[Len(w) + 1] = e /\ \A k \in 1..Len(w) : u[k] = w[k]
    BY <1>1, AppendProperties, LenProperties
  <1> HIDE DEF u
  <1>3. Latest(u, m, e.id, e)
    <2>1. Len(w) + 1 \in DOMAIN u /\ \A j \in DOMAIN u : ~(j > Len(w) + 1)
      BY <1>1, <1>2
    <2>2. QED
      BY <1>2, <2>1 DEF Latest
  <1>4. ASSUME i # e.id, Latest(w, m, i, x) PROVE Latest(u, m, i, x)
    <2>1. \A j \in DOMAIN u : (j \in DOMAIN w /\ u[j] = w[j]) \/ u[j].id # i
      BY <1>1, <1>2, <1>4
    <2>2. \A k \in DOMAIN w : k \in DOMAIN u /\ u[k] = w[k]
      BY <1>1, <1>2
    <2>3. QED
      BY <1>4, <2>1, <2>2 DEF Latest
  <1>5. QED
    BY <1>3, <1>4 DEF u

LEMMA LatestTaken ==
    ASSUME NEW w \in Seq(Push), w # << >>, NEW m, NEW i, NEW x, x.id = i, Latest(w, m, i, x)
    PROVE  Latest(Tail(w), Told(m, Head(w)), i, x)
  <1> DEFINE e == Head(w)
             u == Tail(w)
             r == Told(m, e)
  <1>1. Len(w) \in Nat \ {0} /\ DOMAIN w = 1..Len(w)
    BY SocketType, EmptySeq
  <1>2. /\ e = w[1] /\ DOMAIN u = 1..Len(w) - 1
        /\ \A k \in 1..Len(w) - 1 : u[k] = w[k + 1]
    BY <1>1, HeadTailProperties, LenProperties
  <1>3. DOMAIN r = DOMAIN m \cup {e.id} /\ \A k \in DOMAIN r : r[k] = IF k = e.id THEN e ELSE m[k]
    BY DEF Told
  <1>. SUFFICES Latest(u, r, i, x)
    OBVIOUS
  <1> HIDE DEF e, u, r
  <1>4. \A j \in DOMAIN u : j \in Nat /\ j + 1 \in DOMAIN w /\ u[j] = w[j + 1]
    BY <1>1, <1>2
  <1>5. CASE \E k \in DOMAIN w : w[k] = x /\ \A j \in DOMAIN w : j > k => w[j].id # i
    <2>1. PICK k \in DOMAIN w : w[k] = x /\ \A j \in DOMAIN w : j > k => w[j].id # i
      BY <1>5
    <2>2. CASE k = 1
      <3>1. \A j \in DOMAIN u : u[j].id # i
        BY <1>1, <1>2, <1>4, <2>1, <2>2
      <3>2. i \in DOMAIN r /\ r[i] = x
        BY <1>2, <1>3, <2>1, <2>2
      <3>3. QED
        BY <3>1, <3>2 DEF Latest
    <2>3. CASE k # 1
      <3>1. k - 1 \in DOMAIN u /\ u[k - 1] = x
        BY <1>1, <1>2, <2>1, <2>3
      <3>2. \A j \in DOMAIN u : j > k - 1 => u[j].id # i
        BY <1>1, <1>2, <1>4, <2>1
      <3>3. QED
        BY <3>1, <3>2 DEF Latest
    <2>4. QED
      BY <2>2, <2>3
  <1>6. CASE (\A j \in DOMAIN w : w[j].id # i) /\ i \in DOMAIN m /\ m[i] = x
    <2>1. \A j \in DOMAIN u : u[j].id # i
      BY <1>4, <1>6
    <2>2. e.id # i
      BY <1>1, <1>2, <1>6
    <2>3. i \in DOMAIN r /\ r[i] = x
      BY <1>3, <1>6, <2>2
    <2>4. QED
      BY <2>1, <2>3 DEF Latest
  <1>7. QED
    BY <1>5, <1>6 DEF Latest

\* What is transmitted is what was sent.
LEMMA SentIsCarried ==
    ASSUME OneWriter, ScriptInv, ToldOK, Next, Carried
    PROVE  \/ UNCHANGED <<shadow, wire, missed>>
           \/ /\ port # NoPlugin
              /\ \E e \in Push : SendEvent(e) /\ Transmitted(e)
  <1> DEFINE m == thread[Main]
             n == thread'[Main]
             Sending == \E p \in Thread : Moves(p) /\ Sends(p) # {} /\ port # NoPlugin
  <1>0. Main \in Thread /\ TypeInv /\ SoloOK
    BY DEF ScriptInv, Thread
  <1>1. ASSUME Sending
        PROVE  /\ port # NoPlugin /\ Moves(Main) /\ Sends(Main) # {}
               /\ \E e \in Sends(Main) : e \in Push /\ Transmitted(e)
    <2>1. PICK p \in Thread : Moves(p) /\ \E e \in Sends(p) : Transmitted(e)
      BY <1>1 DEF Carried
    <2>2. p = Main
      BY <1>0, <2>1, SendsHeld
    <2>3. QED
      BY <1>0, <1>1, <2>1, <2>2, SendsType
  <1>2. ASSUME ~Sending PROVE UNCHANGED <<wire, missed>>
    BY <1>2 DEF Carried
  <1>3. ASSUME m.pc = "push", n.pc = "push", NEW e \in Lowest(m.item.unsent), SendEvent(e),
               n.item.unsent = m.item.unsent \ {e}
        PROVE  \/ UNCHANGED <<shadow, wire, missed>>
               \/ port # NoPlugin /\ \E x \in Push : SendEvent(x) /\ Transmitted(x)
    <2>1. Sends(Main) = Lowest(m.item.unsent) /\ e \in m.item.unsent
      BY <1>3 DEF Sends, At, Lowest
    <2>2. Moves(Main)
      BY <1>3, <2>1 DEF Moves
    <2>3. CASE port = NoPlugin
      BY <1>2, <1>3, <2>3 DEF SendEvent
    <2>4. CASE port # NoPlugin
      <3>1. PICK x \in Lowest(m.item.unsent) : x \in Push /\ Transmitted(x)
        BY <1>0, <1>1, <1>3, <2>1, <2>2, <2>4
      <3>2. x \in m.item.unsent /\ x.id <= e.id /\ e.id <= x.id
        BY <1>3, <2>1, <3>1 DEF Lowest
      <3>3. x.id \in LooperIds /\ e.id \in LooperIds /\ x = Read(x.id) /\ e = Read(e.id)
        BY <1>3, <2>1, <3>2 DEF ToldOK, At
      <3>4. x.id = e.id
        BY <1>0, <3>2, <3>3, LooperIdType DEF TypeInv
      <3>5. QED
        BY <1>3, <2>4, <3>1, <3>3, <3>4
    <2>5. QED
      BY <2>3, <2>4
  <1>4. ASSUME m.pc = "send", n.pc = "notify", SendEvent(m.item)
        PROVE  \/ UNCHANGED <<shadow, wire, missed>>
               \/ port # NoPlugin /\ \E x \in Push : SendEvent(x) /\ Transmitted(x)
    <2>1. Sends(Main) = {m.item} /\ Moves(Main)
      BY <1>4 DEF Sends, At, Moves
    <2>2. CASE port = NoPlugin
      BY <1>2, <1>4, <2>2 DEF SendEvent
    <2>3. CASE port # NoPlugin
      BY <1>0, <1>1, <1>4, <2>1, <2>3
    <2>4. QED
      BY <2>2, <2>3
  <1>5. ASSUME Sends(Main) = {} \/ n = m, shadow' = shadow
        PROVE  UNCHANGED <<shadow, wire, missed>>
    <2>1. ~Sending
      BY <1>1, <1>5 DEF Moves
    <2>2. QED
      BY <1>2, <1>5, <2>1
  <1>6. CASE n = m /\ shadow' = shadow
    BY <1>5, <1>6
  <1>7. CASE ContinueMain \/ User
    <2>1. CASE Scans(m, n)
      <3>1. CASE Scan(Main)
        BY <1>5, <3>1 DEF Scan, Sends, At
      <3>2. CASE ~Scan(Main)
        BY <1>3, <2>1, <3>2 DEF Scans
      <3>3. QED
        BY <3>1, <3>2
    <2>2. CASE Notifies(m, n)
      <3>1. CASE m.pc = "send"
        BY <1>4, <2>2, <3>1 DEF Notifies
      <3>2. CASE m.pc # "send"
        BY <1>5, <2>2, <3>2 DEF Notifies, Sends, At, UserSetsParameter, ReadChanged
      <3>3. QED
        BY <3>1, <3>2
    <2>3. CASE GoesOn(m, n)
      <3>1. Sends(Main) = {}
        BY <2>3 DEF GoesOn, Sends, At, Lowest
      <3>2. shadow' = shadow
        BY <2>3 DEF GoesOn, PushDone, Install, Record, InstallDone, NotifyDone, HookTracks
      <3>3. QED
        BY <1>5, <3>1, <3>2
    <2>4. CASE StartsOver(m, n)
      BY <1>5, <2>4 DEF StartsOver, Sends, At, StopServer
    <2>5. QED
      BY <1>7, <2>1, <2>2, <2>3, <2>4, MainGoes
  <1>8. QED
    BY <1>6, <1>7, WhoMoves, ThreadAssumption

LEMMA LatestStep ==
    ASSUME OneWriter, OnePlugin, NamesDiffer, CopyInv, [SystemNext]_sysvars
    PROVE  CopyInv'
  <1>0. [Next]_vars
    BY ScriptSteps
  <1>1. ScriptInv' /\ ToldOK' /\ CopyOK'
    BY <1>0, ScriptInvStep, ToldStepOrNot, CopyType DEF CopyInv, ScriptInv
  <1>2. CASE UNCHANGED <<shadow, wire, missed, rows>>
    BY <1>1, <1>2 DEF CopyInv, LatestOK
  <1>3. ASSUME NEW e \in Push, SendEvent(e), Transmitted(e), port # NoPlugin, rows' = rows
        PROVE  LatestOK'
    <2>0. port \in Plugin
      BY <1>3 DEF CopyInv, ScriptInv, TypeInv, ServerOK
    <2>1. /\ DOMAIN shadow = Plugin /\ wire \in [Plugin -> Seq(Push)] /\ missed \in [Plugin -> SUBSET Id]
          /\ shadow' = [shadow EXCEPT ![port] = Told(@, e)]
      BY <1>3 DEF CopyInv, ScriptInv, TypeInv, ShadowOK, CopyOK, SendEvent
    <2>2. SUFFICES ASSUME NEW p \in Plugin, NEW i \in DOMAIN shadow'[p] \ missed'[p]
                   PROVE  Latest(wire'[p], rows[p], i, shadow'[p][i])
      BY <1>3 DEF LatestOK
    <2>3. CASE p # port
      <3>1. shadow'[p] = shadow[p] /\ wire'[p] = wire[p] /\ missed'[p] = missed[p]
        BY <1>3, <2>0, <2>1, <2>3 DEF Transmitted
      <3>2. QED
        BY <2>2, <3>1 DEF CopyInv, LatestOK
    <2>4. CASE p = port
      <3>1. /\ DOMAIN shadow'[p] = DOMAIN shadow[p] \cup {e.id}
            /\ shadow'[p][i] = IF i = e.id THEN e ELSE shadow[p][i]
        BY <2>0, <2>1, <2>2, <2>4 DEF Told
      <3>2. CASE wire' = [wire EXCEPT ![port] = Append(@, e)] /\ missed' = [missed EXCEPT ![port] = @ \ {e.id}]
        <4>1. wire'[p] = Append(wire[p], e) /\ (i # e.id => i \notin missed[p])
          BY <2>0, <2>1, <2>2, <2>4, <3>2
        <4>2. i # e.id => Latest(wire[p], rows[p], i, shadow[p][i])
          BY <2>2, <3>1, <4>1 DEF CopyInv, LatestOK
        <4>3. wire[p] \in Seq(Push)
          BY <2>1
        <4>4. QED
          BY <3>1, <4>1, <4>2, <4>3, LatestJoins
      <3>3. CASE missed' = [missed EXCEPT ![port] = @ \cup {e.id}] /\ wire' = wire
        <4>1. i # e.id /\ i \notin missed[p]
          BY <2>0, <2>1, <2>2, <2>4, <3>3
        <4>2. QED
          BY <3>1, <3>3, <4>1 DEF CopyInv, LatestOK
      <3>4. QED
        BY <1>3, <3>2, <3>3 DEF Transmitted
    <2>5. QED
      BY <2>3, <2>4
  <1>4. CASE Next /\ Carried
    <2>1. rows' = rows
      BY <1>4 DEF Carried
    <2>2. QED
      BY <1>1, <1>2, <1>3, <1>4, <2>1, SentIsCarried DEF CopyInv
  <1>5. ASSUME NEW q \in Plugin, Hear(q) PROVE LatestOK'
    <2>1. /\ wire[q] \in Seq(Push) /\ wire[q] # << >>
          /\ wire' = [wire EXCEPT ![q] = Tail(@)] /\ rows' = [rows EXCEPT ![q] = Told(@, Head(wire[q]))]
          /\ shadow' = shadow /\ missed' = missed
          /\ wire \in [Plugin -> Seq(Push)] /\ DOMAIN rows = Plugin
      BY <1>5 DEF Hear, Stored, vars, CopyInv, CopyOK
    <2>2. ASSUME NEW p \in Plugin, NEW i \in DOMAIN shadow[p] \ missed[p]
          PROVE  Latest(wire'[p], rows'[p], i, shadow[p][i])
      <3>1. Latest(wire[p], rows[p], i, shadow[p][i]) /\ shadow[p][i].id = i
        BY DEF CopyInv, LatestOK, ScriptInv, TypeInv, ShadowOK
      <3>2. CASE p = q
        <4>1. wire'[p] = Tail(wire[q]) /\ rows'[p] = Told(rows[q], Head(wire[q]))
          BY <2>1, <3>2
        <4>2. QED
          BY <2>1, <3>1, <3>2, <4>1, LatestTaken
      <3>3. CASE p # q
        BY <2>1, <3>1, <3>3
      <3>4. QED
        BY <3>2, <3>3
    <2>3. QED
      BY <2>1, <2>2 DEF LatestOK
  <1>6. CASE UNCHANGED sysvars
    BY <1>2, <1>6 DEF sysvars, vars, plugins
  <1>7. QED
    BY <1>1, <1>4, <1>5, <1>6 DEF SystemNext, CopyInv

LEMMA CopyInvInit == SystemInit => CopyInv
  <1>1. DOMAIN << >> = {}
    OBVIOUS
  <1>2. SystemInit => LatestOK
    BY <1>1 DEF SystemInit, Init, LatestOK
  <1>3. QED
    BY <1>2, ScriptInvInit, ToldInit, CopyInit DEF SystemInit, CopyInv

\* With one plugin that sends neither discover nor set_feedback, and names
\* that differ: when the script rests and the socket is read, every row whose
\* last push was not lost shows its looper as it is, whatever was lost before.
THEOREM RowsAreCurrentForOne ==
    OneWriter /\ OnePlugin /\ NamesDiffer => (SystemSpec => []RowsAreCurrent)
  <1> SUFFICES ASSUME OneWriter, OnePlugin, NamesDiffer PROVE SystemSpec => []RowsAreCurrent
    OBVIOUS
  <1>1. CopyInv /\ [SystemNext]_sysvars => CopyInv'
    BY LatestStep
  <1>2. ASSUME CopyInv PROVE RowsAreCurrent
    <2> SUFFICES ASSUME Resting, ~unloaded, port # NoPlugin, wire[port] = << >>,
                        NEW i \in (DOMAIN found \cap DOMAIN shadow[port]) \ missed[port]
                 PROVE  i \in DOMAIN rows[port] /\ rows[port][i] = Read(i)
      BY DEF RowsAreCurrent
    <2>1. port \in Plugin
      BY <1>2 DEF CopyInv, ScriptInv, TypeInv, ServerOK
    <2>2. shadow[port][i] = Read(i)
      BY <1>2, <2>1, TheTold DEF CopyInv
    <2>3. Latest(<< >>, rows[port], i, Read(i))
      BY <1>2, <2>1, <2>2 DEF CopyInv, LatestOK
    <2>4. DOMAIN << >> = {}
      OBVIOUS
    <2>5. QED
      BY <2>3, <2>4 DEF Latest
  <1>3. QED
    BY CopyInvInit, <1>1, <1>2, PTL DEF SystemSpec
=============================================================================
