--------------------------- MODULE OscDispatcher ---------------------------
(***************************************************************************)
(* The receiving half of python_osc as BridgeServer uses it: a             *)
(* ThreadingOSCUDPServer that gives every datagram a thread, and the       *)
(* Dispatcher that parses it and finds the handlers of its messages.       *)
(*                                                                         *)
(* The address table is filled before the server is started               *)
(* (BridgeServer.__init__, start), then datagrams arrive from any client.  *)
(* A step of a thread is what it does between two points where another     *)
(* thread or the clock may pass: parsing, taking the next message, waking  *)
(* up when it is due, calling one handler.  Handlers return None, as       *)
(* _on_osc_message does, so nothing is sent back.                          *)
(***************************************************************************)
EXTENDS OscCodec

CONSTANTS
    Handler,     \* callbacks
    NoHandler,   \* no default handler
    Address,     \* addresses that handlers may be mapped to
    Packet,      \* what clients send: [dgram : Datagram, says : Seq([at, due, msg])]
    MaxPacket,   \* socketserver.UDPServer.max_packet_size
    Thread,
    MaxMapped,   \* bound on the handlers mapped
    MaxTime      \* bound on the clock

ASSUME HandlerAssumption == NoHandler \notin Handler
ASSUME SizeAssumption == MaxPacket \in Nat \ {0}
ASSUME TimeAssumption == MaxTime \in Nat \ {0}
\* says: the messages a client wrote, with the position of their first byte.
\* No two are to one address: a call shows its message only.
ASSUME PacketAssumption ==
    \A p \in Packet :
        /\ p.dgram \in Datagram /\ p.says \in Seq(Range(p.says))
        /\ \A k \in DOMAIN p.says : /\ DOMAIN p.says[k] = {"at", "due", "msg"}
                                    /\ p.says[k].at \in 1..Len(p.dgram) /\ p.says[k].due \in Int
        /\ \A j, k \in DOMAIN p.says : j < k => p.says[j].at < p.says[k].at
        /\ IsInjective([k \in DOMAIN p.says |-> p.says[k].msg.address])

VARIABLES
    map,         \* _map: a dict in insertion order, address -> handlers
    default,     \* _default_handler
    serving,     \* has serve_forever been started?
    clock,       \* time.time()
    thread,      \* what each thread is doing
    packet,      \* the packet it is handling or handled last
    parsed,      \* when it parsed it (history)
    calls        \* the handlers it called for it, and when (history)

vars == <<map, default, serving, clock, thread, packet, parsed, calls>>
table == <<map, default, serving>>
history == <<packet, parsed, calls>>

NoPacket == [dgram |-> << >>, says |-> << >>]
Idle == [pc |-> "idle", msgs |-> << >>, todo |-> << >>]
Mapped(m) == FlattenSeq([k \in DOMAIN m |-> m[k].handlers])

TypeOK ==
    /\ \A k \in DOMAIN map : map[k].address \in Address /\ map[k].handlers \in Seq(Handler)
    /\ IsInjective([k \in DOMAIN map |-> map[k].address])
    /\ default \in Handler \cup {NoHandler}
    /\ serving \in BOOLEAN
    /\ clock \in 1..MaxTime
    /\ \A t \in Thread : /\ thread[t].pc \in {"idle", "parse", "next", "sleep", "call"}
                         /\ thread[t].todo \in Seq(Handler)

Init ==
    /\ map = << >>
    /\ default = NoHandler
    /\ serving = FALSE
    /\ clock = 1
    /\ thread = [t \in Thread |-> Idle]
    /\ packet = [t \in Thread |-> NoPacket]
    /\ parsed = [t \in Thread |-> 0]
    /\ calls = [t \in Thread |-> << >>]

----------------------------------------------------------------------------
(* handlers_for_address *)

Slash == Code["/"]
CloseOf(p, i, c) == LET ends == {k \in i..Len(p) : p[k] = Code[c]}
                    IN IF ends = {} THEN Len(p) + 1 ELSE Min(ends)
After(p, i, c) == IF CloseOf(p, i, c) > Len(p) THEN Len(p) + 1 ELSE CloseOf(p, i, c) + 1
Inside(p, i, c) == SubSeq(p, i + 1, CloseOf(p, i, c) - 1)

\* [abc] and [!abc]; a class is not empty here.
InClass(class, c) ==
    IF Head(class) = Code["!"] THEN c \notin Range(Tail(class)) ELSE c \in Range(class)

\* The parts of {ab,cd} between commas.
Alternatives(text) ==
    LET cuts == {0, Len(text) + 1} \cup {k \in DOMAIN text : text[k] = Code[","]}
    IN {SubSeq(text, k + 1, Min({j \in cuts : j > k}) - 1) : k \in cuts \ {Len(text) + 1}}

\* The regular expression made of the pattern p, against the text s.
PatternMatches(p, s) ==
    LET m[i \in 1..Len(p) + 1, j \in 1..Len(s) + 1] ==
            LET more == j <= Len(s)
            IN IF i > Len(p) THEN ~more
               ELSE CASE p[i] = Code["*"] -> m[i + 1, j] \/ (more /\ s[j] # Slash /\ m[i, j + 1])
                      [] p[i] = Code["?"] -> more /\ s[j] # Slash /\ m[i + 1, j + 1]
                      [] p[i] = Code["["] -> /\ more /\ InClass(Inside(p, i, "]"), s[j])
                                             /\ m[After(p, i, "]"), j + 1]
                      [] p[i] = Code["{"] ->
                             \E a \in Alternatives(Inside(p, i, "}")) :
                                 /\ IsPrefix(a, From(s, j))
                                 /\ m[After(p, i, "}"), j + Len(a)]
                      [] OTHER -> more /\ s[j] = p[i] /\ m[i + 1, j + 1]
    IN m[1, 1]

\* A mapped address with stars, against the text of the received one: here a
\* star stands for any text, slashes included.
StarMatches(a, text) ==
    LET m[i \in 1..Len(a) + 1, j \in 1..Len(text) + 1] ==
            LET more == j <= Len(text)
            IN IF i > Len(a) THEN ~more
               ELSE IF a[i] = Code["*"] THEN m[i + 1, j] \/ (more /\ m[i, j + 1])
               ELSE more /\ text[j] = a[i] /\ m[i + 1, j + 1]
    IN m[1, 1]

Matches(a, received) ==
    \/ PatternMatches(received, a)
    \/ Code["*"] \in Range(a) /\ StarMatches(a, received)

\* An address whose handlers were all unmapped still counts as matched.
HandlersFor(received) ==
    LET matched == {k \in DOMAIN map : Matches(map[k].address, received)}
    IN IF matched # {}
       THEN FlattenSeq([k \in DOMAIN map |-> IF k \in matched THEN map[k].handlers ELSE << >>])
       ELSE IF default # NoHandler THEN <<default>> ELSE << >>

----------------------------------------------------------------------------
(* Setting up *)

\* _map is a defaultdict: the first use of an address makes its entry.
Position(a) == IF \E k \in DOMAIN map : map[k].address = a
               THEN CHOOSE k \in DOMAIN map : map[k].address = a ELSE Len(map) + 1
Entry(a) == IF Position(a) \in DOMAIN map THEN map[Position(a)].handlers ELSE << >>

\* Fault: an address mapped twice gets a second entry.
WithNewEntry(a, handlers) == Append(map, [address |-> a, handlers |-> handlers])

WithEntry(a, handlers) ==
    [k \in 1..Len(map) \cup {Position(a)} |->
        IF k = Position(a) THEN [address |-> a, handlers |-> handlers] ELSE map[k]]

Map(a, h) ==
    /\ ~serving /\ Len(Mapped(map)) < MaxMapped
    /\ map' = WithEntry(a, Append(Entry(a), h))
    /\ UNCHANGED <<default, serving, clock, thread, history>>

\* ValueError when h is not there; the empty entry stays all the same.
Unmap(a, h) ==
    /\ ~serving
    /\ map' = WithEntry(a, RemoveFirst(Entry(a), h))
    /\ UNCHANGED <<default, serving, clock, thread, history>>

SetDefaultHandler(h) ==
    /\ ~serving
    /\ default' = h
    /\ UNCHANGED <<map, serving, clock, thread, history>>

Serve ==
    /\ ~serving /\ serving' = TRUE
    /\ UNCHANGED <<map, default, clock, thread, history>>

----------------------------------------------------------------------------
(* The server *)

Becomes(t, state) == thread' = [thread EXCEPT ![t] = state]

\* recvfrom keeps the first MaxPacket bytes.
Received(p) == SubSeq(p.dgram, 1, IF Len(p.dgram) < MaxPacket THEN Len(p.dgram) ELSE MaxPacket)

\* What can be read in it.
Content == [p \in Packet |-> ReadPacket(Received(p))]

\* A datagram that passes verify_request gets a thread.
Receive(t, p) ==
    /\ serving /\ thread[t].pc = "idle"
    /\ IsBundle(Received(p)) \/ IsMessage(Received(p))
    /\ packet' = [packet EXCEPT ![t] = p]
    /\ parsed' = [parsed EXCEPT ![t] = 0]
    /\ calls' = [calls EXCEPT ![t] = << >>]
    /\ Becomes(t, [Idle EXCEPT !.pc = "parse"])
    /\ UNCHANGED <<table, clock>>

\* call_handlers_for_packet: all of the packet, or ParseError and none of it;
\* where the parse has no end, the thread stays.
Parse(t) ==
    LET content == Content[packet[t]]
    IN /\ thread[t].pc = "parse" /\ content # Endless
       /\ parsed' = [parsed EXCEPT ![t] = clock]
       /\ Becomes(t, IF content.ok
                     THEN [Idle EXCEPT !.pc = "next", !.msgs = Messages(content, clock)]
                     ELSE Idle)
       /\ UNCHANGED <<table, clock, packet, calls>>

\* Sleep until the message is due, were it nobody's.
Take(t) ==
    /\ thread[t].pc = "next"
    /\ Becomes(t, IF thread[t].msgs = << >> THEN Idle ELSE [thread[t] EXCEPT !.pc = "sleep"])
    /\ UNCHANGED <<table, clock, history>>

\* Fault: the message is handled at once (strict_timing is off).
WakeAtOnce(t) ==
    /\ thread[t].pc = "sleep"
    /\ Becomes(t, [thread[t] EXCEPT !.pc = "call",
                                    !.todo = HandlersFor(Head(thread[t].msgs).msg.address)])
    /\ UNCHANGED <<table, clock, history>>

\* Fault: the thread waits until somebody handles the message.
WakeForSomebody(t) ==
    /\ thread[t].pc = "sleep" /\ clock >= Head(thread[t].msgs).due
    /\ HandlersFor(Head(thread[t].msgs).msg.address) # << >>
    /\ Becomes(t, [thread[t] EXCEPT !.pc = "call",
                                    !.todo = HandlersFor(Head(thread[t].msgs).msg.address)])
    /\ UNCHANGED <<table, clock, history>>

\* The generator looks the handlers up only now.
Wake(t) ==
    /\ thread[t].pc = "sleep" /\ clock >= Head(thread[t].msgs).due
    /\ Becomes(t, [thread[t] EXCEPT !.pc = "call",
                                    !.todo = HandlersFor(Head(thread[t].msgs).msg.address)])
    /\ UNCHANGED <<table, clock, history>>

\* Handler.invoke: the address as received and the arguments.
Call(t) ==
    /\ thread[t].pc = "call" /\ thread[t].todo # << >>
    /\ calls' = [calls EXCEPT ![t] =
                    Append(@, [handler |-> Head(thread[t].todo),
                               msg |-> Head(thread[t].msgs).msg, at |-> clock])]
    /\ Becomes(t, [thread[t] EXCEPT !.todo = Tail(@)])
    /\ UNCHANGED <<table, clock, packet, parsed>>

CallsDone(t) ==
    /\ thread[t].pc = "call" /\ thread[t].todo = << >>
    /\ Becomes(t, [thread[t] EXCEPT !.pc = "next", !.msgs = Tail(@)])
    /\ UNCHANGED <<table, clock, history>>

Tick ==
    /\ serving /\ clock < MaxTime
    /\ clock' = clock + 1
    /\ UNCHANGED <<table, thread, history>>

Handle(t) == Parse(t) \/ Take(t) \/ Wake(t) \/ Call(t) \/ CallsDone(t)

Next ==
    \/ \E a \in Address, h \in Handler : Map(a, h) \/ Unmap(a, h)
    \/ \E h \in Handler : SetDefaultHandler(h)
    \/ Serve
    \/ \E t \in Thread, p \in Packet : Receive(t, p)
    \/ \E t \in Thread : Handle(t)
    \/ Tick

\* A thread that can go on does, and time passes.
Spec == Init /\ [][Next]_vars /\ WF_vars(Tick) /\ \A t \in Thread : WF_vars(Handle(t))

----------------------------------------------------------------------------
(* Properties *)

Whole(p) == Len(p.dgram) <= MaxPacket
Over(t) == thread[t].pc = "idle" /\ packet[t] # NoPacket
Later(x, y) == IF x < y THEN y ELSE x

\* What of a packet the server was sent: the messages of which a byte arrived.
\* A message may end after its address, so the one cut there is without its
\* arguments and yet a message.
Heard(p) ==
    LET cutAt(w) == w.at + Len(WriteString(w.msg.address)) - 1
    IN [k \in {j \in DOMAIN p.says : p.says[j].at <= MaxPacket} |->
           [due |-> p.says[k].due,
            msg |-> IF cutAt(p.says[k]) = MaxPacket
                    THEN [address |-> p.says[k].msg.address, args |-> << >>]
                    ELSE p.says[k].msg]]

TimeOf(p, m) == Heard(p)[CHOOSE j \in DOMAIN Heard(p) : Heard(p)[j].msg = m].due
Due(t, k) == TimeOf(packet[t], calls[t][k].msg)

\* A packet that parses is read as what was heard of it.
ReadAsHeard(p) == Content[p].ok => Content[p].msgs = Heard(p)

\* max_packet_size cuts a long state push in the middle of its JSON, and long
\* bundles anywhere.  Whatever is cut, and wherever, what is read and reaches
\* handlers is a message as its client built it, at its time: never a
\* shortened string, nor an argument read from padding.  What a cut can do is
\* leave out the messages after it, and the arguments of the one that it
\* leaves with its address alone (Heard).
NothingMisread ==
    \A t \in Thread :
        /\ parsed[t] # 0 => ReadAsHeard(packet[t])
        /\ \A k \in DOMAIN calls[t] :
               \E j \in DOMAIN Heard(packet[t]) : Heard(packet[t])[j].msg = calls[t][k].msg

\* However a client nests and orders a packet's messages, their handlers run
\* in the order of their time tags, those already past in the order written.
CalledInTurn ==
    \A t \in Thread : \A k, l \in DOMAIN calls[t] :
        k < l => Later(Due(t, k), parsed[t]) <= Later(Due(t, l), parsed[t])

\* No message is handled before its time.
NotBeforeDue ==
    \A t \in Thread : \A k \in DOMAIN calls[t] : calls[t][k].at >= Due(t, k)

\* The times handler h is called for an address: once for each mapping that
\* matches it, or once as the default where no address in the table does.  An
\* address in the table may have no handlers left; that it counts all the same
\* is the code's rule, not its document's (DefaultTakesTheRest).
Times(h, received) ==
    LET matching == {k \in DOMAIN map : Matches(map[k].address, received)}
    IN IF matching = {} THEN (IF default = h THEN 1 ELSE 0)
       ELSE Cardinality({x \in UNION {{k} \X DOMAIN map[k].handlers : k \in matching} :
                            map[x[1]].handlers[x[2]] = h})

\* A packet is handled whole or not at all: when its thread is over, either
\* every message heard of it has been to every handler it is for, as often as
\* mapped, or none has been to any; and none only where a part was lost.  One
\* element of a bundle that is cut in its middle takes the others with it.
AllOrNothing ==
    \A t \in Thread : Over(t) =>
        \E all \in IF Whole(packet[t]) THEN {TRUE} ELSE BOOLEAN :
            \A h \in Handler, j \in DOMAIN Heard(packet[t]) :
                LET m == Heard(packet[t])[j].msg
                IN Cardinality({k \in DOMAIN calls[t] :
                                   calls[t][k].handler = h /\ calls[t][k].msg = m})
                   = IF all THEN Times(h, m.address) ELSE 0

\* "The default handler is invoked every time no other handler is mapped to an
\* address."  It does not hold (README 7).
DefaultTakesTheRest ==
    \A t \in Thread : Over(t) /\ Whole(packet[t]) /\ default # NoHandler =>
        \A j \in DOMAIN Heard(packet[t]) :
            LET m == Heard(packet[t])[j].msg
            IN \/ \E e \in Range(map) : e.handlers # << >> /\ Matches(e.address, m.address)
               \/ \E c \in Range(calls[t]) : c.handler = default /\ c.msg = m

\* Every packet whose parse ends comes to its end, however far ahead its
\* messages are timed.  Not every parse does (Elements).
PacketsEnd ==
    \A t \in Thread :
        thread[t].pc # "idle" /\ Content[packet[t]] # Endless ~> thread[t].pc = "idle"
=============================================================================
