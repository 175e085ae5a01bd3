# Live Looper Controller: specification and verification

TLA+ models of the Live Looper Controller: a VST3 plugin (C++/JUCE) that shows
and controls the loopers of an Ableton Live set, and the MIDI Remote Script
(Python) inside Live that finds them, listens to them and carries commands out.
The two talk JSON over OSC over UDP on the local host. Paths below are relative
to the repository.

Contents: 1 inventory, 2 plan, 3 modules, 4 runs, 5 fairness, 6 proofs,
7 what the code does against its documents, 8 what is not modelled.

## 1. Inventory

### How the parts interact

    user ─ TransportButton, rows ─ LiveLooperEditor ── 50 ms timer reads ──┐
                    │ commands                                           │
    host ── LiveLooperProcessor ─ owns ─ BridgeClient ── writes ── LooperTracker
                                            │   ▲ events, results
                                     UDP    ▼   │
                       python_osc: ThreadingOSCUDPServer, Dispatcher, OscPacket
                                            │
                                       BridgeServer  (a thread per datagram)
                                            │ on_command   ▲ send_event
                                     LooperControlSurface ──┘
                                            │
                                     LooperDiscovery ── listeners, parameters ── Live
                                                             (Live's main thread)

| Component | State | Operations | What is hard | What makes it correct | Modules |
|---|---|---|---|---|---|
| `LooperTracker`, `LooperState` (src/Model) | map trackId → state, connection flag, one change callback | add, remove, update (diff-based), setConnected | `operator==` has a tolerance and is not transitive; the callback slot is shared | the reader of the map never drifts from what was pushed | LooperTracker |
| rows: `TransportButton`, `LooperTrackComponent`, `LooperListView`, `ExpandableDetailSection` (src/UI) | rows by trackId with click time, expanded flag, slider | refresh, clicks, expand, drag | clicks timed by the wall clock; refresh between clicks and during a drag | rows = tracker after each tick; clicks pair | TrackList |
| `LiveLooperProcessor` (src/Plugin) | tracker for life, client between prepareToPlay and releaseResources | prepareToPlay, releaseResources, destruction, createEditor | the host may prepare again without releasing; the old client's destructor runs inside the assignment | connection flag = a client is bound | PluginLifecycle |
| `LiveLooperEditor` (src/Plugin) | what is shown, `stateChangePending_` | open, close, timer | opened and closed while the tracker lives on; loses the callback slot to others | an open editor catches up; a closed one is never called | PluginLifecycle, TrackList |
| `BridgeClient` (src/Bridge) | socket, local and remote port, reconnect timer | connect, disconnect, hello, commands, events, results | port ranges that overlap the script's; hello is one datagram; any datagram is read | bound to a port of its own; commands go to the script's first port | PluginLifecycle, Handshake, System |
| `BridgeServer` | plugin port, server, socket | start, stop, receive, hello, send event, send response | thread per datagram; shutdown joins none of them; socket never closed | who greets is served; every handler ends | Handshake, RemoteScript |
| `LooperControlSurface` (remote-script) | last scan's loopers, server, discovery | `__init__`, scan, tracks changed, parameter changed, command, disconnect | Live's thread and handler threads share tables without a lock; ids are indices into a list the user edits | every looper listened to once; pushes true; commands hit the right device; nothing left after unloading | RemoteScript, Discovery |
| `LooperDiscovery` | `_param_listeners`, `_loopers` | scan, start/stop listening, set parameter | as above; several devices per track, several parameters per device, devices that come and go unheard | table accounts for every attached listener; a command does what its answer says | RemoteScript, Discovery |
| script + network + rows | – | – | pushes are lost, ids are renumbered under them | rows are copies that only ever move forward and come right | System, Mirror |
| `python_osc` (vendored) | address table, handler threads | build, parse, match, dispatch in time | cut datagrams, nested bundles, time tags, patterns | what arrives is handled whole, as built, when due, or not at all | OscCodec, OscDispatcher |
| `MessageProtocol`, `StatusHeaderBar`, `LiveAPIWrapper`, build scripts, CI | none or no run-time behaviour | | | | – |

`PROJECT.json` lists the same components with their source files, and under
`hazards` each place where the code is hard to test.

### Behaviours that are hard

* **Concurrency**: `ThreadingOSCUDPServer` gives each datagram a thread; its
  handler changes `_param_listeners`, `_discovered_loopers` and Live parameters
  while Live's main thread runs its own listeners over the same tables.
* **Ordering**: server started before the tables exist; events before the first
  hello dropped; listeners removed before the server is stopped.
* **Staleness**: track ids are indices; a scan's result is looked up and then
  used on the current list; a state is read, then sent.
* **Lifecycle**: prepareToPlay repeated, editors that come and go, scripts that Live
  reloads, ports that other processes or the program's other half take.
* **Loss**: UDP, never acknowledged; no retry is ever started; datagrams longer than
  the server reads.
* **Time**: wall-clock double clicks, time tags of bundles.

## 2. Plan

| # | Module | Subject | State |
|---|---|---|---|
| 1 | `LooperTracker` | shadow map and diff-based update | checked, proved |
| 2 | `TrackList` | rows and transport button over `LooperTracker` | checked, proved |
| 3 | `PluginLifecycle` | processor, client, tracker flag, editor | checked; safety proved |
| 4 | `RemoteScript` | the script with its threads | checked; safety proved |
| 5 | `Discovery` | the script's data: devices, parameters, patterns, every command | checked, proved |
| 6 | `Handshake` | instances and script generations over overlapping port ranges | checked; safety proved |
| 7 | `Mirror` | abstract: a copy that lags, never lies and never goes back | refinement proved |
| 8 | `System` | script, lossy socket and rows; implements `Mirror` | checked; safety and refinement proved |
| 9 | `OscCodec`, `OscDispatcher` | the vendored library's path from datagram to handler | checked; dispatching proved, the codec for messages of one string |

Left: the codec for messages of several arguments (a fold over their type tags, so an
induction) and for numbers, blobs and bundles, for which `ReadAsHeard` stays a hypothesis
that a run checks; the body of the reconnect timer, backoff min(500·2ⁿ, 30000), should it
get a caller.

## 3. Modules

**`LooperTracker`** – `loopers`, `connected` are the members of the class; `seen`
is what the registered callback read when it last ran; `pushed` is a history
variable, the last push per looper. A push is a record of its id, one value for
all the fields that are compared exactly, and `feedback` on an integer grid with
`Tolerance` in grid units in place of `0.001f`. The callback modelled is the
processor's, which reads `getAllLoopers()`.

**`TrackList`** extends `LooperTracker` with the editor's window, its rows, the clock
and the user; here the exact fields are the transport state. A row keeps a copy of the
looper's state, whether it is expanded, its slider and the time of its last click. All
of it runs on the message thread, so each handler is one action: `Refresh` is the whole
`timerCallback`, with rows made, kept and erased. `log` and `fresh` are histories:
the clicks on a row, and whether the timer has run since anything changed. The log
starts again when the clock is set back, because what then happens is what section 7
says. The rows of two loopers share nothing, and the theorems of section 6 hold for any
set of loopers, so the run has one.

**`PluginLifecycle`** – one plugin instance under its host. Every handler runs to
completion on JUCE's message thread (`OSCReceiver::MessageLoopCallback`, timers,
host calls), so each is one action, including what its callees do: prepareToPlay
contains the destructor of the old client, `connect`, the notifications to
whoever holds the slot on the way, and the logger's registration.
`dangling` records that a callback ran on a destroyed editor; that is undefined
behaviour in the program and the model stops describing it there. `busy` are
ports of the range held by other processes; JUCE is external, and what is assumed
of it is that a receiver binds exactly the ports nobody else holds.

**`RemoteScript`** – the script's threads: `Main` is Live's, each `Worker` can
take one datagram at a time. The program counter names the statement a thread
stands before; `rest` is the iterator of the loop it is in. Steps are cut where
another thread can come between two accesses to shared state *and* the order
matters: each entry of `stop_listening`'s iteration, the end of the loop and
`clear()`, the scan, each push, each `add_value_listener` and the insertion in
the table that follows it, the read and the send of a push, the lookup and the
assignment of a command. Coarser than the code, on purpose: a scan is one step
(its interleavings with an edit are covered by the steps around it, a half-read
list is not); within one entry of `stop_listening` the removals are one step; the
listeners of one assignment are counted when it happens. `start_listening`
walks the loopers of the track list as it is when the walk starts. `shadow` is
what the script has sent to each port; delivery is immediate here, because the
script's own races are the subject (the network is `System`'s).
Live is external and behaves as `tests/mock_live_api.py` does: listeners run
inside the assignment, on the assigning thread. A track has one device and a
device one parameter; a device that is no looper may still have a parameter of
that name, which is what `OnlyLoopersWritten` protects. Ids count from 1.
`set_state` is declined, as in the code it always is (section 7), and so are
`undo` and `redo`, whose parameters no looper in Live or in the tests has.

**`Discovery`** is the other half of the script: its data in full, its operations in
one step each. Tracks have chains of devices, devices have named parameters;
`IsLooperDevice` is the pattern match with its fallback to the class name,
`ReadLooperState` the record a scan or a change reports, `ScanAllTracks` keeps the
last looper of a track under the track's id, `Changed` finds the first device of the
changed one's name on the first track of its track's name that has one. Every command of
`_handle_command` is an action with its answer in `reply`. Devices come and go without
the script hearing of it (`unheard`). The plugin's rows are what the pushes make of them;
a plugin has said hello.

**`Handshake`** – instances of the plugin, generations of the script (Live unloads and
loads it again) and the two port ranges. A datagram lies in the socket its port was
bound to when it was sent, or is lost on the way; a hello is sent once, on `connect`, to
`ScriptStart` only. A stopped script's socket stays bound until Python's garbage
collector frees it. Answers go to the port noted last. One port has one holder
(`SO_REUSEADDR` set by neither side, as `socketserver.UDPServer` and JUCE leave it). JUCE
is external: what is assumed is that `sendToIPAddress` without a previous `connect`
sends, at least sometimes; a send that fails is a lost datagram. The OSC address is a
constant: the address the plugin uses, or the one the repository's tests use.

**`Mirror`** is the promise of the whole in a page: a row shows what the looper it names
once was, and nothing older than what was shown before. **`System`** is `RemoteScript`
with a socket per plugin that drops what is sent to it or keeps it in order, and the rows
the plugin makes of it. What the script's thread sends is taken from the step it takes
(`Sends`, `Transmitted`), so no action of `RemoteScript` is repeated. `value` goes up by
one or stays, so a value says which reading it is; `Mirror` is instantiated with the same
`value` and `rows`. `missed` remembers the ids whose last push was lost. Handler threads
only say hello here: what they do to the listeners and to the order of pushes is
`RemoteScript`'s subject, where both are shown to fail (`push_race`).

**`OscCodec`** – pure operators for the library's encodings: strings, integers in two's
complement, blobs, time tags; messages with their type tags, arrays included; bundles,
nested; `OscPacket`'s flattening and sorting. A byte is a number below `Base`, so every
length and padding rule is kept while the alphabet is small. A parse gives a value and
the next position, or `Bad` for the `ParseError`. A bundle's elements are found by the
sizes written in it: `Elements` walks it with Python's indices and slices (`Slice`), so
a negative size moves the index back, as in the code, and an index that comes again is a parse
without end (`Endless`). The module says more than this program's own messages need,
because the server hands whatever any client sends to the same parser. A blob's size is
taken to be no less than 0. `sorted` is stable; `InOrder` puts at
place k the message with k - 1 before it, by time and then by the order written.
**`OscDispatcher`** – `map`, `unmap`, `set_default_handler`, `handlers_for_address` with
the regular expression made of the pattern and with the reverse match of a mapped
star, then a thread per datagram that parses, sleeps until a message is due, and calls the
handlers one by one. A parse that ends is one step; for one that does not, `Parse` is never
enabled and the thread stays where it is. The server cuts datagrams at `MaxPacket`. A packet
of the model is its bytes and what its client meant by them (`says`): the messages, with
their times and the position where each begins. `Heard` is what a cut leaves of that: the
messages that begin before it, the one cut right behind its address without its
arguments. A packet parses to that or not at all (`ReadAsHeard`); which of the two depends
on where it is cut, since a bundle is parsed to its cut end without a complaint when that
lies between two elements or behind the size of one. No packet holds two messages
to one address, or a call would not show which of the two it was for. Left out: the types
f, d, r, m and t (further fixed-width fields, not sent by this program) – of these f has a
rule of its own: `get_float` pads a float that is cut off with zeros, so a datagram that
ends inside a float is read as another number, where every other type is refused; arrays
within arrays; `#bundle` is one character; handlers return nothing, as `_on_osc_message`
does.

`MC...` modules give the constants their values. Definitions whose comment starts
with *Fault* are plausible wrong versions of the definition after them; no
behaviour uses them, they serve to show that a property can fail.

## 4. Runs

| Run | Bounds (states) | What it shows |
|---|---|---|
| `track_list` | 1 looper, stopped or playing, grid 0..2 with tolerance 2 (neighbours compare equal, ends do not), double click of 2, clock to 4, 3 clicks (186 k) | `ReaderTracksPushes`: swallowed pushes could add up, and never do; `RowsShowPushes` after every tick, whatever was dragged; `ClicksPair` across refreshes, windows and pushes |
| `plugin_lifecycle` | 2 ports, 3 ports a message may carry, 3 editors, 2 contents (12 104) | `FlagMeansBound` through repeated prepareToPlay and failed binds, fallback to the second port and failure of both; `EditorCatchesUp` |
| `script_edits` | tracks looper, looper, plain; starts with one looper and the plain one; 2 values; 1 handler thread; hello, set_feedback, set_state, undo, ping, wrong version (1.15 M) | `ListenersAccounted`, `ListenedToOnce`, `NothingLeftBehind`, `OnlyLoopersWritten` with insertions, deletions and unloading |
| `script_threads` | one looper, 1 handler thread, hello and discover, value changes, unloading; 5 listener objects (3 774) | `HandlersEnd`, with the exception path of `stop_listening` |
| `discovery` | 2 tracks, 5 devices: two of one name, loopers by class, by transport parameters and by state; one deletion or added device (19 840) | `RowsAreCurrent`, `HeardOnce`, and what an answer promises: `CommandsDoAsAnswered`, `SetShowsInRow` |
| `handshake` | 2 instances, 2 loads, plugin ports 1..3, script ports 2..3, 3 datagrams or handlers under way (130 k) | `CommandsReachFirstPort`: an instance's commands come into the socket at the script's first port and no other, whoever holds it, or are lost, unless the instance holds that port itself; `GreeterIsServed` when the address matches |
| `system` | 2 loopers of which one is inserted, 3 values, 2 pushes in the socket, 1 plugin (339 k) | `ImplementsMirror`, `RowsAreCurrent`, `PluginCatchesUp` |
| `osc` | 11 packets, cut at 72 bytes (a string that fills a word, one that is cut, integers of both widths, arrays, blobs, classes, alternatives, two nested bundles that arrive whole, three bundles cut inside a message, behind a size and behind an address), 2 handlers mapped, clock to 3, 1 thread (82 k) | `NothingMisread`, `CalledInTurn`, `NotBeforeDue`, `AllOrNothing`, `PacketsEnd` |
| `plugin_dangling`, `push_race`, `stale_id`, `hello_unanswered` | small | each finds its property violated: section 7 |

Why the bounds suffice. An id shifts or changes hands with one insertion or
deletion, and a plain device can take a looper's place with three tracks. Tracks
are inserted and deleted once each (a deleted track does not come back), which
bounds the edits; two consecutive edits, with a rescan between, do occur. One
handler thread against Live's thread gives every two-thread interleaving of an
assignment with an edit; a second one adds only handlers that run side by side
without touching the tables (a run with two of them over one value and the three
tracks has 976 k states and no violation of these invariants either). Two ports give
a first choice, a fallback and a failure; in `handshake` three plugin ports over two of
the script's make an instance on the first script port, one beside it, and a script that
falls back or finds nothing. `Listener` bounds how many listener
objects exist at once: when a leak has used them up, attaching waits; five are
enough for `script_threads`, whose leaks are bounded by the start-up
scan, so none waits there. Packets of different threads share only the address table,
which no longer changes once the server runs, so one thread suffices in `osc`. There
72 bytes end one bundle in the middle of its second message, which spoils the first, another
where its second message begins, which leaves the first alone, and a third behind an address.
In `discovery` one device is enough to shift the position a command was aimed at, one deletion to make it point past the end, and both kinds of loopers on one
track to tell scans from changes.

`CHECK_DEADLOCK FALSE` stands in the runs whose system may stop: a destroyed
processor, an unloaded script, a last tick of the clock, a set nobody edits any more.

## 5. Fairness

* `PluginLifecycle`: weak fairness of `EditorTimer`. JUCE fires a started timer
  again and again while the message loop runs. Neither the host, nor other
  processes, nor the network are fair.
* `RemoteScript`: weak fairness of each thread's continuation. A runnable thread
  is scheduled by the operating system; a handler waits for nothing but the
  interpreter. Users need not act and datagrams need not arrive.
* `Handshake`: weak fairness of an instance's reading (the message loop), of each
  handler's answer (a thread), and of taking *each* hello out of the serving socket: the
  set `queue` has forgotten the order of a socket, which hands its datagrams out first
  come first served, so that none waits for ever. Hosts and Live are not fair, and a
  hello that was lost was never in a socket.
* `System`: the script's threads as in `RemoteScript`, and `Hear`, the plugin's
  message loop. Loss is not fair: `PluginCatchesUp` speaks of the rows whose last push
  arrived.
* `OscDispatcher`: a thread that can go on does, and the clock ticks up to its bound,
  which no time tag exceeds. A parse without end is none of the thread's steps: such packets
  are outside `PacketsEnd`.
* `LooperTracker`, `TrackList` and `Discovery` have no liveness property.

## 6. Proofs

Checked by TLAPS for every value of the constants that satisfies the named
assumptions.

* `TrackListProofs`, the tracker. `TrackerTypeOK`; `ReaderNeverDrifts`: `Spec =>
  []ReaderTracksPushes`. The property speaks of `seen` and `pushed`, which no action
  compares; it is not inductive, because what a swallowed push preserves depends
  on `loopers`. The invariant is `TrackerInv`: typing, `ReaderIsCurrent` (`seen =
  loopers`: every change of the map is followed by the callback) and `ShadowAgrees`
  (each stored state is `Same` as the last push, with the same domain). The lemmas
  treat one map operation each: storing (`StoredAgrees`, by reflexivity of `Same`),
  erasing (`DroppedAgrees`) and keeping the old state (`SwallowedAgrees`, whose
  hypothesis is that the new push is `Same` as the *stored* state, not as the previous
  push: this is why non-transitivity does no harm). Assumption: `Tolerance` is
  positive, without which a state would differ from itself.
* `TrackListProofs`, the rows. `ListLeavesTracker`: `ListSpec => Spec`, every behaviour of
  the list is one of the tracker, so `TrackerInvariant` is carried over instead of proved
  again. `ListTypeCorrect` needs `Keyed` (the tracker stores a state under its own id) to
  type the rows. `ShownIsPushed`: a refresh copies the tracker's map, and the rows
  agree with the pushes because the map does; `fresh` makes it inductive.
  `ClicksAlwaysPair`: the property compares neighbours of a log, the code a click with
  one stored time; the invariant `Remembered` ties the two: the stored time is that
  of the last click of the log, or long ago when that click asked for a stop or there is
  none. Assumption: the clock starts at least a double click after the epoch.
* `PluginLifecycleProofs`. `PluginTypeOK`; `ConnectedMeansBound`: `Spec =>
  []FlagMeansBound`, with `TypeOK` as the strengthening: the flag of the tracker
  and the fields of the client change in different objects, one of which
  outlives the other. Assumptions: the port range is a finite non-empty set of
  positive numbers (the least free port exists, `FirstPort`), the script's first
  port is one of its ports.
* `RemoteScriptProofs`. `ScriptTypeOK`: `ThreadState` says what a thread has in hand at
  each program counter, so typing already excludes a step that takes its job or its
  looper for something else. `NothingElseWritten`: `Spec => OnlyLoopersWritten`, an action
  property, with discover and every edit allowed. What it rests on is that `Apply` checks
  the device it is about to write in the track list of that moment, not the one the id
  came from.
  `NoListenerLost`, `EachLooperHeardOnce`, `UnloadLeavesNothing`: the invariants about
  listeners, for any tracks and any number of handler threads, by one inductive invariant
  `AloneInv`. `MainAlone`: only Live's thread ever stands at a step that touches
  listeners. `AccountedOK`: a listener attached is in the part of the table that
  `stop_listening` has still to visit, or is about to be recorded; while the loop runs the
  table keeps the length it had when the loop began. `HeardOK`: which tracks have exactly one listener,
  by where the thread is in its walk. `FlagsOK`: whether Live still knows the script.
  Their hypothesis is `"discover" \notin Op`. The plugin declares `sendDiscover`
  (BridgeClient.h:23) and never calls it, so this is the program as it is shipped; with
  discover, which the server accepts from anyone, two of the three fail (section 7);
  that every handler ends even then is what `script_threads` checks. Assumptions: the set of tracks is finite, the initial
  list holds a track once, Live's thread is none of the handlers.
* `SystemProofs`, on top of those. `SystemTyped`. `RowsMirrorTheSet`: `SystemSpec =>
  ImplementsMirror`, the refinement, for any tracks, plugins and values: every step of
  script, sockets and rows is a step of `Mirror` or leaves `value` and the rows alone.
  A row may take a value only if its looper had it and the row shows nothing newer; what
  makes this inductive is `OrderedOK` (in the row and then along the socket, the values of a looper
  never decrease, and the last is not above the present one) with `HeldCurrent` (what Live's
  thread has read and not yet sent is still so).
  `OnePluginUpToDate` and `RowsAreCurrentForOne`: `ToldOK` says of every looper that was
  sent that the last send is right or that the thread is on its way to send it again
  (`Owed`), `LatestOK` that the last send that was not lost is the last of its id in the
  socket, or the row when there is none.
  Hypotheses: `OneWriter`, no discover and no set_feedback, as in `system`; with a second
  writer `push_race` refutes what `HeldCurrent` says. For the last two `OnePlugin` (a hello
  from another makes the script forget the first) and `NamesDiffer` (`Duplicated` refutes
  it otherwise, section 7). Assumption: values are numbers, which say which reading each is.
* `DiscoveryProofs`. `DiscoveryTypeOK`, `LoopersHeardOnce`, `RowsStayCurrent`, and the
  action properties `CommandsKeepTheirWord` and `FeedbackShows`, for any tracks, chains of
  devices, parameters and levels. `TypeInv` holds what a listener count can be (`Known`:
  0 or 1, and 1 only of what the table lists). `ScanInv`: until devices come or go unheard, what a scan of the
  tracks as they are would find is what is found, listened to and shown; `RowInv`: each
  row is what its looper is now. A parameter that changes pushes the first device of
  its name on the first track of its track's name; that this is a looper of the row's own
  track needs names that differ between tracks (`NamesDiffer`, a hypothesis of
  `RowsStayCurrent` and `FeedbackShows`, true of the run's set), not between the devices of
  one track. Assumptions (`SetAssumption`): a device is in one place, the initial list
  holds a track once, 0 is a level of every parameter, undo and redo take the level 1.
* `OscDispatcherProofs`. `DispatcherTypeOK`: `map` after `unmap` keeps an address once, in
  the first place it got. `MessagesHandledInTurn`, `NothingHandledEarly`: `Spec =>
  []CalledInTurn`, `[]NotBeforeDue`. The clock is read when the packet is parsed, when a
  thread wakes up and when a handler is called; the invariant `TurnInv` says that each
  message still to come carries the later of its own time and the parse's, that these never
  decrease along the list, and that none of the calls made had a later one. `Sorted`
  gives it when a packet is parsed: `InOrder` is a permutation, in order of time (`Ranks`: no
  two messages have the same number before them). `HandledWholeOrNot`: `Spec =>
  []AllOrNothing`. The property counts calls, the code walks lists: `AccountInv` says
  that a thread has called each handler for each message as often as it is to be, less the
  calls in `todo`, and not at all for messages further on; `OccursFlattened` counts what
  `HandlersFor` joins, `TimesFound` ties it to `Times`, which speaks of the table only.
  Hypotheses: every packet that parses is read as what was heard of it (`ReadAsHeard`, the
  first conjunct of `NothingMisread`, which `osc` checks), and for the last one a packet that
  the server read to its end parses. They are what the codec owes the dispatcher.
  `HeardOnce`: what is heard of a packet is the first so many of its messages, each to an
  address of its own.
* `OscDispatcherProofs`, the codec. `StringsNotMisread`: `Spec => []NothingMisread`, and
  `StringsHandled`, the three theorems before without their hypotheses, where every packet
  is one that the plugin or the script builds (`OneString`: an address, one string of
  any length and any bytes but zero, no bundle; BridgeClient.cpp:113, BridgeServer.py:85).
  `StringRead`: what `WriteString` wrote at a position is what `GetString` returns there if the
  datagram holds its padding too, and `Bad` if it does not, wherever it is cut: the first zero
  byte is the first of the padding (`Text` has none), and rounding up is monotonic.
  `PartRead` applies it to address, type tags and argument of the datagram as received,
  `OneStringParsed` to the message, wherever it is cut: the cut right behind the address
  leaves a message without arguments, which is what is heard of it (`OneStringReadAsHeard`),
  any other none at all.
  Assumptions: time tags are numbers, no packet holds two messages to one address, the
  server reads at least a byte, the characters of the format are different non-zero bytes.
* `SequenceLemmas`: least and greatest positions, and inserting and removing in a list
  that holds no element twice; used by most of the other proof modules.
* `HandshakeProofs`. `HandshakeTypeOK`; `CommandsStayOnCourse`: `Spec =>
  CommandsReachFirstPort`, for any number of instances and loads, any ranges and either
  address. The property is about the sockets that commands come into; they are sent to `remote`,
  which is set from what is read in sockets. The invariant follows a port number's whole way:
  a hello is only ever in a socket at the script's first port (`HelloInv`), so only a script
  there handles one (`GreetedInv`), so an answer can name that port or none (`AnswerInv`), so
  `remote` is that port but for a client that holds it itself (`OnlySquatterDiverted`); a script
  that was never loaded holds no port (`UnbornInv`). Assumption: ranges are ranges of positive
  numbers.

Only model-checked: `NothingMisread` for other packets than this program's. What the
codec computes for any list of arguments, any number and any nesting (`Args` and the fold
of `ReadParam` over the type tags, `Digits` and `GetNumber`, the recursive function
`Elements`) is induction over data, which the installed provers do not reach; so is
`PatternMatches`, but the theorems above hold whatever `Matches` returns. Further all
liveness (`EditorCatchesUp`, `HandlersEnd`, `GreeterIsServed`, `PluginCatchesUp`,
`PacketsEnd`), fairness and ENABLED. With discover allowed in `RemoteScript`, or a second
writer in `System`, only `NothingElseWritten` and typing are proved, because part of the
rest does not hold there. No module declares a RECURSIVE operator.

## 7. What the code does against its documents

Found by runs, with the lines quoted in `PROJECT.json` under `findings`:

1. `plugin_dangling` – a closed editor's callback stays registered; prepareToPlay, whose
   connect sets the connection flag, runs it.
2. `push_race` – the user sets a value and Live's thread reads it; a command sets a newer
   one, reads and sends it; then Live's thread sends the older reading, the last the
   plugin hears.
3. `stale_id` – an index is not a stable identifier.
4. `hello_unanswered` – the plugin sends everything to `/loopercontrol`
   (BridgeClient.cpp:113), the server maps `/loopercontrol/*` (BridgeServer.py:36), which does
   not match that address; the tests use `/loopercontrol/command`. The script hears
   nothing of the plugin. The other runs take the address of the tests.

Properties that are stated in the modules and do not hold, without a routine run (add
them to a configuration as said to see the counterexample):

* `PluginIsUpToDate` (in `ScriptPushRace.cfg`): while `__init__` scans, the server is up
  already, and a value that a command sets after the scan has read the looper and before
  the listeners are attached (LooperControlSurface.py:93-101) is pushed to nobody. With one writer
  it is proved (`OnePluginUpToDate`).
* `CommandsReachNoOtherPlugin` (`Handshake.cfg`): a second instance may hold the script's first
  port, which is a port of the plugin's range too (ProtocolDefs.h:12), and then has the first
  one's commands (BridgeClient.cpp:69 and 116, "Send to localhost on the remote script port").
* `DefaultTakesTheRest` (`OscDispatcher.cfg`): an address whose handlers were all unmapped, or
  that was unmapped without ever having one, still counts as a match and keeps the default
  handler from being called (dispatcher.py:299), which is documented to be "invoked every time
  no other handler is mapped to an address" (dispatcher.py:381). The script never unmaps.
* `ReconnectsWhenPortFree` (`PluginLifecycle`, under `FairSpec`): nothing ever starts the
  reconnect timer (README.md:205, "Auto-reconnect with backoff").
* `ListenersAccounted` and `NothingLeftBehind` when `"discover"` is added to `Op`
  (`ScriptEdits.cfg`): a discover on another thread can clear the listener table
  between another scan's `add_value_listener` and its entry (LooperDiscovery.py:147), and one
  that outlives `disconnect` attaches its listeners afterwards, and nobody removes them.
* `HelloTriggersDiscovery` (`RemoteScript`): hello triggers no discovery, and the
  start-up scan's events were dropped (BridgeServer.py:81).
* `AnswersReachTheAsker` (`Handshake`): an answer goes to the port of the latest
  hello, whoever asked (BridgeServer.py:157; README.md:200, "Request/response correlation
  without ordering assumptions").
* `RowsAreCurrent` of `System` with `NameOf <- Duplicated`: tracks are looked up by
  name, so the second of two tracks with one name is never pushed when it changes.

Seen while modelling:

* A discover whose `stop_listening` raises (the table changed size) is never
  answered.
* **set_state**: `ABLETON_LOOPER_STATE_REVERSE_MAP` is looked up on the class
  (LooperControlSurface.py:164) and is a global of the module: every set_state of a known
  looper raises `AttributeError` and is answered with success false. The models
  decline it; a property would only restate that branch.
* **Ports**: an instance that holds 7011 receives the hellos meant for the script,
  reads them as results and takes the sender's port for the script's
  (BridgeClient.cpp:143 and 280). Only its own commands leave the first port
  (`CommandsReachFirstPort`), but the script has then moved to a later port, which no
  hello is ever sent to, although README.md:203 says "Handle port conflicts gracefully".
* **Reload**: a reloaded script finds the old one's socket still bound, moves on, and
  knows no plugin; instances that are connected say no second hello
  (README.md:205, "Survive Live restarts and script reloads").
* prepareToPlay takes the callback slot from an open editor; the editor polls, so
  `EditorCatchesUp` holds regardless.
* `looper_removed` is never sent, so rows of deleted loopers stay.
* **Rows**: a row is found by its id, so when ids shift between two ticks it inherits
  the expansion and the half-done double click of the looper that had the id before; a
  clock set back makes the next click a stop, because a negative interval is below 400 ms;
  the name label lies over the row and takes the clicks that should expand it (JUCE
  delivers a click to the child).
* **Bundles**: one that the server cuts between two elements is parsed to its cut end and
  handled as if it were whole, without a trace of the rest; three in `osc` are cut. An element size
  that is negative takes the parser back (osc_bundle.py:52-56), and it may then walk in a
  circle for ever, at the cost of its thread. The model says of every datagram whether
  it does (`Endless`), and `PacketsEnd` is about the others; no packet of `osc` is of that kind,
  because `OscBundleBuilder` writes none. No part of this program sends bundles.
* `get_discovered_loopers` is documented as keyed by track_id and is keyed by name.
* The cycle count is reset by every push and never incremented.
* The viewport is laid over the header it should leave free (LooperListView.cpp:118)
  and the detail section over the compact row it should follow
  (LooperTrackComponent.cpp:136).

## 8. What is not modelled

* Painting and layout, and with them `StatusHeaderBar`; audio (a pass-through); JUCE's
  state serialisation: no state that anything else reads.
* `MessageProtocol`: stateless building and parsing of JSON by JUCE and Python's
  library. Messages are records here.
* In `python_osc`: `osc_tcp_server.py`, `tcp_client.py`, `udp_client.py`, `slip.py`, the
  asyncio server and dispatch: used by nothing in the script (`BridgeServer` sends on a
  socket of its own). The remaining OSC types as said in section 3.
* `LiveAPIWrapper` (unused); `incrementCycleCount`, `handleStateChange`, `sendDiscover` and
  the reconnect timer's body (no callers).
* Build and installation scripts, CI and the tests, but for `tests/mock_live_api.py`,
  which says how Live behaves.
* Composition of everything at once: `System` joins script, network and rows; the
  handshake, the lifecycle of the plugin and the OSC layer are checked each on their
  own, against the same interface (datagrams that arrive or do not).
