-------------------------- MODULE PluginLifecycle --------------------------
(***************************************************************************)
(* One instance of the VST3 plugin under its host: LiveLooperProcessor     *)
(* owns a LooperTracker (for life) and a BridgeClient (from prepareToPlay  *)
(* to releaseResources); LiveLooperEditor windows come and go.  All three  *)
(* meet in the tracker's connection flag and its single callback slot.     *)
(*                                                                         *)
(* Every handler runs to completion on the message thread.  Other          *)
(* processes (further instances, the remote script, anything else) take    *)
(* and release the UDP ports of the plugin's range between handlers.       *)
(***************************************************************************)
EXTENDS Integers, FiniteSets, FiniteSetsExt

CONSTANTS
    Ports,       \* PLUGIN_PORT_START..PLUGIN_PORT_END
    ScriptPort,  \* SCRIPT_PORT_START, where hello is sent
    RemotePorts, \* ports a received message may carry
    Editor,      \* editor objects; each is opened and closed once
    Shadow,      \* contents the tracker's looper map can have
    NoLoopers,   \* ... of which: the empty map
    NoBridge     \* the null std::unique_ptr

ASSUME PortsAssumption == Ports \subseteq Nat \ {0} /\ Ports # {} /\ IsFiniteSet(Ports)
ASSUME RemotePortsAssumption == RemotePorts \subseteq Nat \ {0} /\ ScriptPort \in RemotePorts
ASSUME ShadowAssumption == NoLoopers \in Shadow
ASSUME SlotAssumption == Editor \cap {"none", "logger"} = {}

VARIABLES
    processor,  \* "alive" or "destroyed"
    bridge,     \* bridgeClient_: NoBridge, or its connection fields
    busy,       \* plugin-range ports held by other processes
    connected,  \* LooperTracker::connected_
    shadow,     \* LooperTracker::loopers_
    slot,       \* LooperTracker::onChange_
    editor,     \* "none", or the open editor
    closed,     \* the editors already destroyed
    shown,      \* what the open editor displays
    pending,    \* its stateChangePending_
    dangling    \* has a callback run on a destroyed editor?

host == <<processor, editor, closed>>
vars == <<processor, bridge, busy, connected, shadow, slot, editor, closed,
          shown, pending, dangling>>

Bridge == [connected : BOOLEAN, localPort : Ports \cup {0},
           remotePort : RemotePorts \cup {0}]
ASSUME NoBridgeAssumption == NoBridge \notin Bridge

Unbound == [connected |-> FALSE, localPort |-> 0, remotePort |-> 0]
Display == [connected : BOOLEAN, shadow : Shadow]
Blank == [connected |-> FALSE, shadow |-> NoLoopers]
Current == [connected |-> connected, shadow |-> shadow]

TypeOK ==
    /\ processor \in {"alive", "destroyed"}
    /\ bridge \in Bridge \cup {NoBridge}
    /\ busy \subseteq Ports
    /\ connected \in BOOLEAN
    /\ shadow \in Shadow
    /\ slot \in {"none", "logger"} \cup Editor
    /\ editor \in {"none"} \cup Editor
    /\ closed \subseteq Editor
    /\ shown \in Display
    /\ pending \in BOOLEAN
    /\ dangling \in BOOLEAN

Init ==
    /\ processor = "alive"
    /\ bridge = NoBridge
    /\ busy \in SUBSET Ports
    /\ connected = FALSE
    /\ shadow = NoLoopers
    /\ slot = "none"
    /\ editor = "none"
    /\ closed = {}
    /\ shown = Blank
    /\ pending = FALSE
    /\ dangling = FALSE

----------------------------------------------------------------------------
\* LooperTracker::notifyChange when `changed`, or no call at all.  An editor's
\* callback sets its own stateChangePending_: a write through a dead pointer
\* once that editor is closed.
Notify(changed) ==
    /\ pending' = (pending \/ (changed /\ slot = editor /\ slot \in Editor))
    /\ dangling' = (dangling \/ (changed /\ slot \in closed))

\* Fault: the port is noted after the loop has moved on to the next one.
BoundPastPort(free) == [connected |-> TRUE, localPort |-> Min(free) + 1, remotePort |-> ScriptPort]

\* The bound client after connect(): the first port that binds; sendHello has
\* pointed remotePort_ at the start of the script's range.
Bound(free) == [connected |-> TRUE, localPort |-> Min(free), remotePort |-> ScriptPort]

\* Fault: the new client connects before the old one is torn down, which then
\* clears the tracker's flag.
PrepareToPlayLateTeardown ==
    LET free == Ports \ (busy \cup IF bridge = NoBridge THEN {} ELSE {bridge.localPort})
    IN /\ processor = "alive"
       /\ bridge' = IF free = {} THEN Unbound ELSE Bound(free)
       /\ connected' = (bridge = NoBridge /\ (connected \/ free # {}))
       /\ Notify(connected' # connected)
       /\ slot' = "logger"
       /\ UNCHANGED <<host, busy, shadow, shown>>

\* prepareToPlay: make_unique's result replaces the old client, whose
\* destructor disconnects (freeing its port, clearing the tracker's flag)
\* before the new one connects; the logger is registered last, so the
\* notifications on the way go to the previous callback.
PrepareToPlay ==
    LET free == Ports \ busy
        cleared == connected /\ bridge = NoBridge  \* the flag after teardown
    IN /\ processor = "alive"
       /\ bridge' = IF free = {} THEN Unbound ELSE Bound(free)
       /\ connected' = (cleared \/ free # {})
       /\ Notify(connected # cleared \/ connected' # cleared)
       /\ slot' = "logger"
       /\ UNCHANGED <<host, busy, shadow, shown>>

\* releaseResources: disconnect, then destroy the client.
ReleaseResources ==
    /\ processor = "alive" /\ bridge # NoBridge
    /\ bridge' = NoBridge
    /\ connected' = FALSE
    /\ Notify(connected)
    /\ UNCHANGED <<host, busy, shadow, slot, shown>>

\* ~LiveLooperProcessor: bridgeClient_ is destroyed before looperTracker_.
\* The host has closed the editor.
DestroyProcessor ==
    /\ processor = "alive" /\ editor = "none"
    /\ processor' = "destroyed"
    /\ bridge' = NoBridge
    /\ connected' = (connected /\ bridge = NoBridge)
    /\ Notify(connected' # connected)
    /\ UNCHANGED <<busy, shadow, slot, editor, closed, shown>>

----------------------------------------------------------------------------
\* createEditor: the constructor takes the callback slot, starts the timer.
OpenEditor(e) ==
    /\ processor = "alive" /\ editor = "none" /\ e \notin closed
    /\ editor' = e
    /\ slot' = e
    /\ shown' = Blank
    /\ pending' = FALSE
    /\ UNCHANGED <<processor, bridge, busy, connected, shadow, closed, dangling>>

\* ~LiveLooperEditor only stops its timer; the slot keeps its callback.
CloseEditor ==
    /\ editor # "none"
    /\ editor' = "none"
    /\ closed' = closed \cup {editor}
    /\ shown' = Blank
    /\ pending' = FALSE
    /\ UNCHANGED <<processor, bridge, busy, connected, shadow, slot, dangling>>

\* Fault: the refresh is skipped unless the callback asked for it.
EditorTimerIfPending ==
    /\ editor # "none" /\ pending
    /\ shown' = Current
    /\ pending' = FALSE
    /\ UNCHANGED <<host, bridge, busy, connected, shadow, slot, dangling>>

\* timerCallback, every 50 ms: header and rows are refreshed unconditionally.
EditorTimer ==
    /\ editor # "none"
    /\ shown' = Current
    /\ pending' = FALSE
    /\ UNCHANGED <<host, bridge, busy, connected, shadow, slot, dangling>>

----------------------------------------------------------------------------
\* oscMessageReceived with an event: the tracker's map becomes s.  Discovery
\* notifies always, a state change only if something differs.
ReceiveEvent(s) ==
    /\ bridge # NoBridge /\ bridge.connected
    /\ shadow' = s
    /\ \E announced \in BOOLEAN :
          /\ s # shadow => announced
          /\ Notify(announced)
    /\ UNCHANGED <<host, bridge, busy, connected, slot, shown>>

\* oscMessageReceived with a result that carries a port, the script's own; or
\* with another instance's hello, which is read as a result with ITS port when
\* this client holds the port that hellos are sent to.
ReceiveResult(p) ==
    /\ bridge # NoBridge /\ bridge.connected
    /\ bridge' = [bridge EXCEPT !.remotePort = p]
    /\ UNCHANGED <<host, busy, connected, shadow, slot, shown, pending, dangling>>

\* Other processes bind and release ports of the range.
OthersBind(p) ==
    /\ p \notin busy
    /\ bridge # NoBridge => bridge.localPort # p
    /\ busy' = busy \cup {p}
    /\ UNCHANGED <<host, bridge, connected, shadow, slot, shown, pending, dangling>>

OthersRelease(p) ==
    /\ p \in busy
    /\ busy' = busy \ {p}
    /\ UNCHANGED <<host, bridge, connected, shadow, slot, shown, pending, dangling>>

Next ==
    \/ PrepareToPlay
    \/ ReleaseResources
    \/ DestroyProcessor
    \/ \E e \in Editor : OpenEditor(e)
    \/ CloseEditor
    \/ EditorTimer
    \/ \E s \in Shadow : ReceiveEvent(s)
    \/ \E p \in RemotePorts : ReceiveResult(p)
    \/ \E p \in Ports : OthersBind(p)
    \/ \E p \in Ports : OthersRelease(p)

\* JUCE fires a started timer again and again while the message loop runs.
Spec == Init /\ [][Next]_vars
FairSpec == Spec /\ WF_vars(EditorTimer)

----------------------------------------------------------------------------
\* The tracker's flag (which the header shows, and which outlives every
\* client) is true exactly while a client is bound to a port, and that port
\* is a plugin port nobody else holds: across repeated prepareToPlay,
\* teardown in between, and failed binds.
FlagMeansBound ==
    /\ connected <=> (bridge # NoBridge /\ bridge.connected)
    /\ connected => bridge.localPort \in Ports \ busy /\ bridge.remotePort # 0

\* An open editor keeps catching up with the tracker, although other parties
\* overwrite its callback: it polls, it does not wait to be told
\* (PluginEditor::timerCallback).
EditorCatchesUp == []<>(editor = "none" \/ shown = Current)

\* "The processor must be able to function correctly without the editor
\* existing": no tracker notification runs the callback of a closed editor.
NoCallbackIntoClosedEditor == ~dangling

\* "Auto-reconnect with exponential backoff" (D-07): a client that could not
\* bind does so once a port of its range stays free.  It does not hold (README 7).
ReconnectsWhenPortFree ==
    <>[](bridge # NoBridge /\ busy # Ports) => <>[]connected
=============================================================================
