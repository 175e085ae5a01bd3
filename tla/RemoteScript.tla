---------------------------- MODULE RemoteScript ----------------------------
(***************************************************************************)
(* The MIDI Remote Script inside Ableton Live: LooperControlSurface with   *)
(* its LooperDiscovery and BridgeServer, and the threads that run them.    *)
(*                                                                         *)
(* Live's main thread runs __init__, disconnect and the Live API           *)
(* listeners.  The OSC server (ThreadingOSCUDPServer) handles every        *)
(* datagram in a thread of its own, and the handlers share the discovery   *)
(* tables with the main thread without a lock.  A step of the model is     *)
(* what one thread does between two accesses to shared state that another  *)
(* thread can separate: one dictionary entry of stop_listening, one        *)
(* listener of start_listening, the read and the send of a push.           *)
(*                                                                         *)
(* The Live API is external; it is modelled as tests/mock_live_api.py      *)
(* plays it (listeners run inside the assignment that triggers them, on    *)
(* the assigning thread).  A track has one device here; on a track in      *)
(* Looper it is looper-like, elsewhere it may still have a parameter       *)
(* called Feedback.  One parameter per device stands for the listened      *)
(* ones.  Track ids are positions in the track list (from 1, not 0).       *)
(***************************************************************************)
EXTENDS Integers, FiniteSets, SequencesExt

CONSTANTS
    Track,        \* tracks the set may ever contain
    Looper,       \* those whose device is looper-like
    Initial,      \* the track list when the script is loaded
    NameOf(_),    \* a track's name
    Value,        \* values of the parameter
    Listener,     \* listener objects (bounds the leaks a run can show)
    Plugin,       \* plugin instances, named by the port they listen on
    NoPlugin,     \* _plugin_port is None
    Main, Worker, \* threads
    Op,           \* kinds of request the plugins send
    Edits         \* kinds of change the user makes to the set

ASSUME TrackAssumption == IsFiniteSet(Track)
ASSUME LooperAssumption == Looper \subseteq Track
ASSUME InitialAssumption == Initial \in Seq(Track) /\ IsInjective(Initial)
ASSUME ThreadAssumption == Main \notin Worker
ASSUME PluginAssumption == NoPlugin \notin Plugin

VARIABLES
    tracks,     \* song.tracks
    deleted,    \* tracks the user has deleted
    value,      \* the parameter of each track's device
    installed,  \* listeners attached to it
    hooked,     \* is _on_tracks_changed attached to the song?
    table,      \* _param_listeners: a dict, in insertion order
    found,      \* _discovered_loopers: track id -> track
    port,       \* _plugin_port
    serving,    \* is the server taking datagrams?
    unloaded,   \* has Live called disconnect?
    thread,     \* what each thread is doing
    shadow      \* what each plugin has been told: track id -> push

live == <<tracks, deleted, value>>
listening == <<installed, table>>
server == <<hooked, port, serving, unloaded>>
vars == <<tracks, deleted, value, installed, hooked, table, found, port,
          serving, unloaded, thread, shadow>>

Thread == {Main} \cup Worker
Id == 1..Cardinality(Track)
Push == [id : Id, track : Track, value : Value]
Entry == [track : Looper, listeners : SUBSET Listener]

\* MessageProtocol's commands as the handler tells them apart.
Request ==
    {[op |-> o] : o \in Op \cap {"discover", "ping", "bad_version"}}
    \cup {[op |-> "hello", plugin |-> p] : p \in IF "hello" \in Op THEN Plugin ELSE {}}
    \cup {[op |-> o, id |-> i] : o \in Op \cap {"set_state", "undo"}, i \in Id}
    \cup {[op |-> "set_feedback", id |-> i, value |-> v] :
              i \in IF "set_feedback" \in Op THEN Id ELSE {}, v \in Value}

Jobs == {[op |-> o] : o \in {"none", "boot", "edit", "rescan", "unload"}} \cup Request
NoJob == [op |-> "none"]
Outcome(success) == [success |-> success]

\* Where a thread is, with which job, what it has left to do and what it has
\* in hand.
State(pc, job, rest, item) == [pc |-> pc, job |-> job, rest |-> rest, item |-> item]
Doing(pc, job, rest) == State(pc, job, rest, Outcome(FALSE))
Idle == Doing("idle", NoJob, << >>)
Answering(job, success) == State("reply", job, << >>, Outcome(success))

States(pcs, ops, rests, items) ==
    [pc : pcs, job : {j \in Jobs : j.op \in ops}, rest : rests, item : items]
ScanOps == {"boot", "rescan", "discover"}
Outcomes == [success : BOOLEAN]
ThreadState ==
    States({"idle"}, {"none"}, {<< >>}, Outcomes)
    \cup States({"start", "init", "hook"}, {"boot"}, {<< >>}, Outcomes)
    \cup States({"stop"}, {"rescan", "unload", "discover"}, {<< >>}, [next : Nat \ {0}, used : Nat])
    \cup States({"clear"}, {"rescan", "unload", "discover"}, {<< >>}, Outcomes)
    \cup States({"scan"}, ScanOps, {<< >>}, Outcomes)
    \cup States({"push"}, ScanOps, {<< >>}, [unsent : SUBSET Push])
    \cup States({"install"}, ScanOps, Seq(Track), Outcomes)
    \cup States({"record"}, ScanOps, Seq(Track) \ {<< >>}, Listener)
    \cup States({"halt"}, {"unload"}, {<< >>}, Outcomes)
    \cup States({"notify"}, {"edit", "set_feedback"}, Seq(Looper), Outcomes)
    \cup States({"send"}, {"edit", "set_feedback"}, Seq(Looper), Push)
    \cup States({"apply"}, {"set_feedback"}, {<< >>}, Outcomes)
    \cup States({"reply"}, Op, {<< >>}, Outcomes)

TypeOK ==
    /\ tracks \in Seq(Track) /\ IsInjective(tracks)
    /\ deleted \subseteq Track
    /\ value \in [Track -> Value]
    /\ installed \in [Track -> SUBSET Listener]
    /\ table \in Seq(Entry)
    /\ DOMAIN found \subseteq Id /\ Range(found) \subseteq Looper
    /\ port \in Plugin \cup {NoPlugin}
    /\ {hooked, serving, unloaded} \subseteq BOOLEAN
    /\ thread \in [Thread -> ThreadState]
    /\ DOMAIN shadow = Plugin
    /\ \A p \in Plugin : \A i \in DOMAIN shadow[p] : shadow[p][i] \in Push /\ shadow[p][i].id = i

\* Live has called __init__; the discovery object and the server exist.
Init ==
    /\ tracks = Initial
    /\ deleted = {}
    /\ value \in {[t \in Track |-> v] : v \in Value}
    /\ installed = [t \in Track |-> {}]
    /\ hooked = FALSE
    /\ table = << >>
    /\ found = << >>
    /\ port = NoPlugin
    /\ serving = FALSE
    /\ unloaded = FALSE
    /\ thread = [p \in Thread |->
                    IF p = Main THEN Doing("start", [op |-> "boot"], << >>) ELSE Idle]
    /\ shadow = [p \in Plugin |-> << >>]

----------------------------------------------------------------------------
(* Threads *)

At(p, pc) == thread[p].pc = pc
Job(p) == thread[p].job
Becomes(p, state) == thread' = [thread EXCEPT ![p] = state]
Resting == \A p \in Thread : At(p, "idle")

(* The Live set *)

LooperIds == {i \in DOMAIN tracks : tracks[i] \in Looper}
Read(i) == [id |-> i, track |-> tracks[i], value |-> value[tracks[i]]]

(* BridgeServer.send_event: dropped until a hello has named a plugin port.  *)
(* The plugin stores a push under its id (LooperTracker).                   *)
Told(m, e) == [i \in DOMAIN m \cup {e.id} |-> IF i = e.id THEN e ELSE m[i]]
SendEvent(e) ==
    shadow' = IF port = NoPlugin THEN shadow
              ELSE [shadow EXCEPT ![port] = Told(@, e)]

----------------------------------------------------------------------------
(* LooperDiscovery.stop_listening: a Python dict iterator, which raises     *)
(* when the number of keys is no longer the one it started with.            *)

Stopping(job) == State("stop", job, << >>, [next |-> 1, used |-> Len(table)])

AfterStop(job) == IF job.op = "unload" THEN "halt" ELSE "scan"

\* Fault: the listeners are forgotten but stay attached.
StopEntryForgets(p) ==
    LET it == thread[p].item
    IN /\ At(p, "stop")
       /\ it.used = Len(table) /\ it.next <= Len(table)
       /\ Becomes(p, State("stop", Job(p), << >>, [it EXCEPT !.next = @ + 1]))
       /\ UNCHANGED <<live, installed, table, found, server, shadow>>

\* One entry: remove its listeners from the parameter, if still attached.
StopEntry(p) ==
    LET it == thread[p].item
        entry == table[it.next]
    IN /\ At(p, "stop")
       /\ it.used = Len(table) /\ it.next <= Len(table)
       /\ installed' = [installed EXCEPT ![entry.track] = @ \ entry.listeners]
       /\ Becomes(p, State("stop", Job(p), << >>, [it EXCEPT !.next = @ + 1]))
       /\ UNCHANGED <<live, table, found, server, shadow>>

StopLoopEnds(p) ==
    LET it == thread[p].item
    IN /\ At(p, "stop")
       /\ it.used = Len(table) /\ it.next > Len(table)
       /\ Becomes(p, Doing("clear", Job(p), << >>))
       /\ UNCHANGED <<live, listening, found, server, shadow>>

\* RuntimeError: dictionary changed size during iteration.  Live logs it for
\* a main-thread handler; _on_osc_message swallows it and nobody is answered.
StopRaises(p) ==
    /\ At(p, "stop") /\ thread[p].item.used # Len(table)
    /\ Becomes(p, Idle)
    /\ UNCHANGED <<live, listening, found, server, shadow>>

ClearTable(p) ==
    /\ At(p, "clear")
    /\ table' = << >>
    /\ Becomes(p, Doing(AfterStop(Job(p)), Job(p), << >>))
    /\ UNCHANGED <<live, installed, found, server, shadow>>

----------------------------------------------------------------------------
(* LooperControlSurface._full_scan *)

\* Fault: every track's device is taken for a looper.
DiscoveredAnywhere == tracks

\* scan_all_tracks.
Discovered == [i \in LooperIds |-> tracks[i]]

\* Fault: only ids the last scan did not have are announced.
AnnouncementsOfNew == {Read(i) : i \in LooperIds \ DOMAIN found}

\* The states scan_all_tracks read, to be sent.
Announcements == {Read(i) : i \in LooperIds}

\* The dictionary's order is that of the ids.
Lowest(pushes) == {e \in pushes : \A f \in pushes : e.id <= f.id}

\* The new dictionary replaces the old one.
Scan(p) ==
    /\ At(p, "scan")
    /\ found' = Discovered
    /\ Becomes(p, State("push", Job(p), << >>, [unsent |-> Announcements]))
    /\ UNCHANGED <<live, listening, server, shadow>>

\* looper_discovered for each; then start_listening walks the track list.
PushFound(p) ==
    /\ At(p, "push")
    /\ \E e \in Lowest(thread[p].item.unsent) :
           /\ SendEvent(e)
           /\ Becomes(p, State("push", Job(p), << >>, [unsent |-> thread[p].item.unsent \ {e}]))
    /\ UNCHANGED <<live, listening, found, server>>

PushDone(p) ==
    /\ At(p, "push") /\ thread[p].item.unsent = {}
    /\ Becomes(p, Doing("install", Job(p), tracks))
    /\ UNCHANGED <<live, listening, found, server, shadow>>

Unused == Listener \ (UNION {installed[t] : t \in Track}
                      \cup UNION {table[i].listeners : i \in DOMAIN table}
                      \cup {thread[p].item : p \in {q \in Thread : At(q, "record")}})

\* add_value_listener, if the device is a looper; the parameter of a deleted
\* track refuses, and the except clause moves on.
Install(p) ==
    LET t == Head(thread[p].rest)
        l == CHOOSE x \in Unused : TRUE
    IN /\ At(p, "install") /\ thread[p].rest # << >>
       /\ IF t \in Range(tracks) \cap Looper
          THEN /\ Unused # {}
               /\ installed' = [installed EXCEPT ![t] = @ \cup {l}]
               /\ Becomes(p, State("record", Job(p), thread[p].rest, l))
          ELSE /\ Becomes(p, Doing("install", Job(p), Tail(thread[p].rest)))
               /\ UNCHANGED installed
       /\ UNCHANGED <<live, table, found, server, shadow>>

\* _param_listeners.setdefault(id(device), []).append(...)
Recorded(t, l) ==
    IF \E i \in DOMAIN table : table[i].track = t
    THEN [i \in DOMAIN table |->
             IF table[i].track = t THEN [table[i] EXCEPT !.listeners = @ \cup {l}]
             ELSE table[i]]
    ELSE Append(table, [track |-> t, listeners |-> {l}])

Record(p) ==
    /\ At(p, "record")
    /\ table' = Recorded(Head(thread[p].rest), thread[p].item)
    /\ Becomes(p, Doing("install", Job(p), Tail(thread[p].rest)))
    /\ UNCHANGED <<live, installed, found, server, shadow>>

\* The scan is over: __init__ goes on, a rescan returns, discover answers.
InstallDone(p) ==
    /\ At(p, "install") /\ thread[p].rest = << >>
    /\ Becomes(p, CASE Job(p).op = "boot" -> Doing("hook", Job(p), << >>)
                    [] Job(p).op = "rescan" -> Idle
                    [] Job(p).op = "discover" -> Answering(Job(p), TRUE))
    /\ UNCHANGED <<live, listening, found, server, shadow>>

----------------------------------------------------------------------------
(* LooperControlSurface._on_looper_param_changed, once per listener *)

\* The first track of that name whose device is a looper of that name.
Matches(t) == {i \in LooperIds : NameOf(tracks[i]) = NameOf(t)}

ReadChanged(p) ==
    LET found_at == Matches(Head(thread[p].rest))
    IN /\ At(p, "notify") /\ thread[p].rest # << >>
       /\ Becomes(p, IF found_at = {} THEN Doing("notify", Job(p), Tail(thread[p].rest))
                     ELSE State("send", Job(p), Tail(thread[p].rest), Read(Min(found_at))))
       /\ UNCHANGED <<live, listening, found, server, shadow>>

\* Fault: an event waits for the handshake instead of being dropped.
SendChangedWaits(p) ==
    /\ At(p, "send") /\ port # NoPlugin
    /\ SendEvent(thread[p].item)
    /\ Becomes(p, Doing("notify", Job(p), thread[p].rest))
    /\ UNCHANGED <<live, listening, found, server>>

SendChanged(p) ==
    /\ At(p, "send")
    /\ SendEvent(thread[p].item)
    /\ Becomes(p, Doing("notify", Job(p), thread[p].rest))
    /\ UNCHANGED <<live, listening, found, server>>

\* All listeners have run: the assignment that triggered them returns.
NotifyDone(p) ==
    /\ At(p, "notify") /\ thread[p].rest = << >>
    /\ Becomes(p, IF Job(p).op = "edit" THEN Idle
                  ELSE Answering(Job(p), TRUE))
    /\ UNCHANGED <<live, listening, found, server, shadow>>

\* param.value = v on thread p: the value, then its listeners one by one.
Assign(p, t, v, job) ==
    /\ value' = [value EXCEPT ![t] = v]
    /\ Becomes(p, Doing("notify", job, [k \in 1..Cardinality(installed[t]) |-> t]))

----------------------------------------------------------------------------
(* Live's main thread *)

\* __init__: the server runs before the tables are set up.
StartServer ==
    /\ At(Main, "start")
    /\ serving' = TRUE
    /\ Becomes(Main, Doing("init", Job(Main), << >>))
    /\ UNCHANGED <<live, listening, found, hooked, port, unloaded, shadow>>

ResetFound ==
    /\ At(Main, "init")
    /\ found' = << >>
    /\ Becomes(Main, Doing("scan", Job(Main), << >>))
    /\ UNCHANGED <<live, listening, server, shadow>>

HookTracks ==
    /\ At(Main, "hook")
    /\ hooked' = TRUE
    /\ Becomes(Main, Idle)
    /\ UNCHANGED <<live, listening, found, port, serving, unloaded, shadow>>

UserSetsParameter(t, v) ==
    /\ "parameter" \in Edits
    /\ At(Main, "idle")
    /\ t \in Range(tracks) \cap Looper
    /\ Assign(Main, t, v, [op |-> "edit"])
    /\ UNCHANGED <<tracks, deleted, listening, found, server, shadow>>

\* Fault: the rescan starts without stop_listening.
TracksChangedKeepsListeners ==
    IF hooked THEN Becomes(Main, Doing("scan", [op |-> "rescan"], << >>))
    ELSE UNCHANGED thread

\* _on_tracks_changed: stop_listening, then _full_scan.
TracksChanged ==
    IF hooked THEN Becomes(Main, Stopping([op |-> "rescan"]))
    ELSE UNCHANGED thread

UserInsertsTrack(t, i) ==
    /\ "insert" \in Edits
    /\ At(Main, "idle")
    /\ t \notin Range(tracks) \cup deleted
    /\ tracks' = InsertAt(tracks, i, t)
    /\ TracksChanged
    /\ UNCHANGED <<deleted, value, listening, found, server, shadow>>

\* The deleted device's parameters go, and the listeners on them.
UserDeletesTrack(i) ==
    /\ "delete" \in Edits
    /\ At(Main, "idle")
    /\ tracks' = RemoveAt(tracks, i)
    /\ deleted' = deleted \cup {tracks[i]}
    /\ installed' = [installed EXCEPT ![tracks[i]] = {}]
    /\ TracksChanged
    /\ UNCHANGED <<value, table, found, server, shadow>>

\* disconnect: stop_listening first, then the server, then the song.
Disconnect ==
    /\ "unload" \in Edits
    /\ At(Main, "idle") /\ ~unloaded
    /\ unloaded' = TRUE
    /\ Becomes(Main, Stopping([op |-> "unload"]))
    /\ UNCHANGED <<live, listening, found, hooked, port, serving, shadow>>

\* Fault: the tracks listener is left behind.
StopServerKeepsHook ==
    /\ At(Main, "halt")
    /\ serving' = FALSE
    /\ Becomes(Main, Idle)
    /\ UNCHANGED <<live, listening, found, hooked, port, unloaded, shadow>>

\* server.shutdown ends the receive loop, not the handler threads; then
\* remove_tracks_listener.
StopServer ==
    /\ At(Main, "halt")
    /\ serving' = FALSE
    /\ hooked' = FALSE
    /\ Becomes(Main, Idle)
    /\ UNCHANGED <<live, listening, found, port, unloaded, shadow>>

----------------------------------------------------------------------------
(* A datagram's thread: BridgeServer._on_osc_message, _handle_command *)

Accepts(w) == serving /\ At(w, "idle")

\* hello names the port everything is sent to from now on; the result of
\* on_command("hello") is not used, so nothing is discovered or pushed.
Hello(w, r) ==
    /\ Accepts(w) /\ r.op = "hello"
    /\ port' = r.plugin
    /\ Becomes(w, Answering(r, TRUE))
    /\ UNCHANGED <<live, listening, found, hooked, serving, unloaded, shadow>>

\* Answered without touching the set: a ping; a wrong version; set_state,
\* which fails whether or not the looper is known (the reverse map is a global
\* of LooperDiscovery's module, not an attribute of the class); undo and
\* redo, whose parameter no looper device of the Live API has.
Decline(w, r) ==
    /\ Accepts(w) /\ r.op \in {"ping", "bad_version", "set_state", "undo"}
    /\ Becomes(w, Answering(r, r.op = "ping"))
    /\ UNCHANGED <<live, listening, found, server, shadow>>

Discover(w, r) ==
    /\ Accepts(w) /\ r.op = "discover"
    /\ Becomes(w, Stopping(r))
    /\ UNCHANGED <<live, listening, found, server, shadow>>

\* set_feedback, first half: look the id up in _discovered_loopers.  A plugin
\* keeps rows from before a reload or an edit, so any id may arrive.
SetFeedback(w, r) ==
    /\ Accepts(w) /\ r.op = "set_feedback"
    /\ Becomes(w, IF r.id \in DOMAIN found THEN Doing("apply", r, << >>)
                  ELSE Answering(r, FALSE))
    /\ UNCHANGED <<live, listening, found, server, shadow>>

\* Fault: _set_looper_param trusts the index.
ApplyUnchecked(w) ==
    LET r == Job(w)
    IN /\ At(w, "apply")
       /\ IF r.id \in DOMAIN tracks
          THEN Assign(w, tracks[r.id], r.value, r)
          ELSE Becomes(w, Answering(r, FALSE)) /\ UNCHANGED value
       /\ UNCHANGED <<tracks, deleted, listening, found, server, shadow>>

\* Second half, _set_looper_param: index the CURRENT track list, check that
\* the device there is a looper, assign.
Apply(w) ==
    LET r == Job(w)
    IN /\ At(w, "apply")
       /\ IF r.id \in LooperIds
          THEN Assign(w, tracks[r.id], r.value, r)
          ELSE Becomes(w, Answering(r, FALSE)) /\ UNCHANGED value
       /\ UNCHANGED <<tracks, deleted, listening, found, server, shadow>>

\* send_response: to the plugin that said hello last, or to nobody.
Reply(w) ==
    /\ At(w, "reply")
    /\ Becomes(w, Idle)
    /\ UNCHANGED <<live, listening, found, server, shadow>>

----------------------------------------------------------------------------
Continue(p) ==
    \/ StopEntry(p) \/ StopLoopEnds(p) \/ StopRaises(p) \/ ClearTable(p)
    \/ Scan(p) \/ PushFound(p) \/ PushDone(p)
    \/ Install(p) \/ Record(p) \/ InstallDone(p)
    \/ ReadChanged(p) \/ SendChanged(p) \/ NotifyDone(p)

ContinueMain == Continue(Main) \/ StartServer \/ ResetFound \/ HookTracks \/ StopServer
ContinueWorker(w) == Continue(w) \/ Apply(w) \/ Reply(w)

User ==
    \/ \E t \in Track, v \in Value : UserSetsParameter(t, v)
    \/ \E t \in Track : \E i \in 1..Len(tracks) + 1 : UserInsertsTrack(t, i)
    \/ \E i \in DOMAIN tracks : UserDeletesTrack(i)
    \/ Disconnect

Receive(w) ==
    \E r \in Request : Hello(w, r) \/ Decline(w, r) \/ Discover(w, r) \/ SetFeedback(w, r)

Next ==
    \/ ContinueMain
    \/ \E w \in Worker : ContinueWorker(w)
    \/ User
    \/ \E w \in Worker : Receive(w)

Spec == Init /\ [][Next]_vars

\* A runnable thread is eventually scheduled; nothing makes users act or
\* datagrams arrive.
FairSpec ==
    /\ Spec
    /\ WF_vars(ContinueMain)
    /\ \A w \in Worker : WF_vars(ContinueWorker(w))

----------------------------------------------------------------------------
(* Properties *)

\* Every listener attached to a parameter is in _param_listeners, or about to
\* be put there by the thread that attached it: stop_listening can find it.
ListenersAccounted ==
    \A t \in Track : \A l \in installed[t] :
        \/ \E i \in DOMAIN table : table[i].track = t /\ l \in table[i].listeners
        \/ \E p \in Thread : At(p, "record") /\ thread[p].item = l

\* While the script is loaded and no handler is running, every looper in the
\* set is listened to by exactly one listener: none deaf, none heard twice.
ListenedToOnce ==
    Resting /\ ~unloaded =>
        \A i \in LooperIds : Cardinality(installed[tracks[i]]) = 1

\* "Clean up when Live closes or script is unloaded": once disconnect and the
\* last handler are over, nothing of the script is left in Live.
NothingLeftBehind ==
    Resting /\ unloaded =>
        /\ \A t \in Track : installed[t] = {}
        /\ ~hooked /\ ~serving

\* "Full state push on change, no state reconciliation needed": when no
\* handler is running, what the plugin was last told of a looper is so.  It
\* holds of one writer only (README 7).
PluginIsUpToDate ==
    Resting /\ ~unloaded /\ port # NoPlugin =>
        \A i \in DOMAIN found \cap DOMAIN shadow[port] : shadow[port][i] = Read(i)

\* "Full state push on change, no state reconciliation needed": the last push
\* under way never replaces what is so by what is so no longer.
Telling(p) == At(p, "push") \/ At(p, "send") \/ (At(p, "notify") /\ thread[p].rest # << >>)
LastPushIsNewest ==
    [][\A p \in Plugin : \A i \in DOMAIN found \cap DOMAIN shadow[p] :
           shadow[p][i] = Read(i) /\ UNCHANGED live /\ (\A q \in Thread : ~Telling(q))'
           => shadow'[p][i] = shadow[p][i]]_vars

\* However stale the id a command carries, the script never writes a
\* parameter of a device that is not a looper.
OnlyLoopersWritten == [][\A t \in Track \ Looper : value'[t] = value[t]]_vars

\* Every handler, on either kind of thread, comes to its end: no push,
\* listener or table walk keeps Live's main thread.
HandlersEnd == \A p \in Thread : []<>At(p, "idle")

\* D-06: "triggers looper discovery": a plugin whose hello was answered comes
\* to know the loopers the script has found.  It does not hold (README 7).
HelloTriggersDiscovery ==
    \A p \in Plugin : [](port = p => <>(port # p \/ unloaded \/ DOMAIN found \subseteq DOMAIN shadow[p]))

\* "Stable identifier": a command changes the looper that the plugin shows
\* under the id it was sent for.
CommandsReachTheLooperShown ==
    [][\A w \in Worker, p \in Plugin : Apply(w) /\ Job(w).id \in DOMAIN shadow[p] =>
          \A t \in Track : value'[t] # value[t] => t = shadow[p][Job(w).id].track]_vars
=============================================================================
