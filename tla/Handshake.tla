----------------------------- MODULE Handshake -----------------------------
(***************************************************************************)
(* How plugin instances and the remote script find each other: the two     *)
(* overlapping port ranges, the hello that is sent once and to the first   *)
(* script port only, the answer that is sent to whoever said hello last,   *)
(* and scripts that Live unloads and loads again.                          *)
(*                                                                         *)
(* A datagram is put into the socket bound to its port when it is sent, or *)
(* is lost; a socket's datagrams are handled in any order (the server has a *)
(* thread for each) and go with it.  A port has one holder.  The script's  *)
(* handler threads touch one shared thing, _plugin_port: a hello sets it,  *)
(* and every answer reads it later.  What commands do is in RemoteScript.  *)
(***************************************************************************)
EXTENDS Integers, FiniteSets, Sequences

CONSTANTS
    Instance,                  \* plugin instances, each with a BridgeClient
    MaxLoads,                  \* bound on how often Live loads the script
    PluginStart, PluginEnd,    \* protocol::PLUGIN_PORT_START, _END
    ScriptStart, ScriptEnd,    \* DEFAULT_PORT and the last one tried
    MaxPending,                \* bound on what is under way when a plugin sends
    Address                    \* the parts of the plugin's OSC address

ASSUME RangeAssumption ==
    /\ {PluginStart, PluginEnd, ScriptStart, ScriptEnd} \subseteq Nat \ {0}
    /\ PluginStart <= PluginEnd /\ ScriptStart <= ScriptEnd
ASSUME LoadAssumption == MaxLoads \in Nat
ASSUME InstanceAssumption == Instance \cap Nat = {}

VARIABLES
    local,       \* localPort_ of each instance, 0 when not connected
    remote,      \* remotePort_
    script,      \* the scripts Live has loaded, in order
    queue,       \* datagrams in sockets
    answering    \* requests whose handlers have not answered yet

vars == <<local, remote, script, queue, answering>>

PluginPorts == PluginStart..PluginEnd
ScriptPorts == ScriptStart..ScriptEnd
Port == PluginPorts \cup ScriptPorts
Load == 1..MaxLoads
Nobody == 0

\* port is what a hello's arguments and its answer's data say; a command's
\* and other answers' say nothing of a port.
Datagram ==
    [to : Instance \cup Load, kind : {"hello", "command", "result"},
     asker : Instance, port : Port \cup {Nobody}]
Hello(g) == {d \in Datagram : d.to = g /\ d.kind = "hello" /\ d.port # Nobody}
Request == [by : Load, asker : Instance, hello : BOOLEAN]
Script == [mode : {"unborn", "serving", "stopped", "closed"},
           port : ScriptPorts \cup {Nobody}, plugin : PluginPorts \cup {Nobody}]

TypeOK ==
    /\ local \in [Instance -> PluginPorts \cup {Nobody}]
    /\ remote \in [Instance -> Port \cup {Nobody}]
    /\ script \in [Load -> Script]
    /\ queue \subseteq Datagram
    /\ answering \subseteq Request

Init ==
    /\ local = [i \in Instance |-> Nobody]
    /\ remote = [i \in Instance |-> Nobody]
    /\ script = [g \in Load |-> [mode |-> "unborn", port |-> Nobody, plugin |-> Nobody]]
    /\ queue = {}
    /\ answering = {}

----------------------------------------------------------------------------
(* Sockets.  shutdown() does not close the server's: its port stays taken.  *)

Holders(p) ==
    {i \in Instance : local[i] = p}
    \cup {g \in Load : script[g].mode \in {"serving", "stopped"} /\ script[g].port = p}

\* Fault: one port too many is tried.
FreePastEnd(ports) == {p \in ports \cup {q + 1 : q \in ports} : Holders(p) = {}}

Free(ports) == {p \in ports : Holders(p) = {}}

\* The first that can be bound, if any.
First(ports) == {p \in Free(ports) : \A q \in Free(ports) : p <= q}

\* What the sockets may hold once a datagram was sent to p: it may be lost.
Sent(p, kind, asker, port) ==
    {queue} \cup {queue \cup {[to |-> h, kind |-> kind, asker |-> asker, port |-> port]} :
                      h \in Holders(p)}

NotBusy == Cardinality(queue) + Cardinality(answering) < MaxPending

\* The server maps "/loopercontrol/*"; the star stands for any rest.
AddressMatches(a) == Len(a) > 1 /\ a[1] = "loopercontrol"

----------------------------------------------------------------------------
(* BridgeClient *)

\* Fault: any port of the script's range is greeted.
GreetedAny == ScriptPorts

Greeted == {ScriptStart}

\* connect: bind the first free port, then say hello, once, to the script's
\* first port; an instance that has just taken that port greets itself.
Connect(i) ==
    /\ local[i] = Nobody /\ NotBusy
    /\ \E own \in First(PluginPorts) :
        /\ local' = [local EXCEPT ![i] = own]
        /\ \/ UNCHANGED queue
           \/ \E p \in Greeted : \E h \in IF own = p THEN {i} ELSE Holders(p) :
                  queue' = queue \cup {[to |-> h, kind |-> "hello", asker |-> i, port |-> own]}
    /\ remote' = [remote EXCEPT ![i] = ScriptStart]
    /\ UNCHANGED <<script, answering>>

Disconnect(i) ==
    /\ local[i] # Nobody
    /\ local' = [local EXCEPT ![i] = Nobody]
    /\ remote' = [remote EXCEPT ![i] = Nobody]
    /\ queue' = {d \in queue : d.to # i}
    /\ UNCHANGED <<script, answering>>

SendCommand(i) ==
    /\ local[i] # Nobody /\ NotBusy
    /\ queue' \in Sent(remote[i], "command", i, Nobody)
    /\ UNCHANGED <<local, remote, script, answering>>

\* oscMessageReceived: an answer, or another instance's request, which is
\* read as an answer too; whatever names a port moves remotePort_.
Read(i) ==
    \E d \in queue :
        /\ d.to = i
        /\ remote' = [remote EXCEPT ![i] = IF d.port = Nobody THEN @ ELSE d.port]
        /\ queue' = queue \ {d}
        /\ UNCHANGED <<local, script, answering>>

----------------------------------------------------------------------------
(* The script *)

\* BridgeServer.start: the first port that can be bound, or no server.
LoadScript(g) ==
    /\ script[g].mode = "unborn"
    /\ \A h \in Load : IF h < g THEN script[h].mode \in {"stopped", "closed"}
                       ELSE script[h].mode = "unborn"
    /\ \/ /\ Free(ScriptPorts) = {}
          /\ script' = [script EXCEPT ![g].mode = "closed"]
       \/ \E p \in First(ScriptPorts) :
              script' = [script EXCEPT ![g].mode = "serving", ![g].port = p]
    /\ UNCHANGED <<local, remote, queue, answering>>

\* disconnect and stop: handlers go on, the socket stays bound.
UnloadScript(g) ==
    /\ script[g].mode = "serving"
    /\ script' = [script EXCEPT ![g].mode = "stopped"]
    /\ UNCHANGED <<local, remote, queue, answering>>

\* Python frees the old objects, at any time or never.
Collect(g) ==
    /\ script[g].mode = "stopped" /\ \A r \in answering : r.by # g
    /\ script' = [script EXCEPT ![g].mode = "closed"]
    /\ queue' = {d \in queue : d.to # g}
    /\ UNCHANGED <<local, remote, answering>>

\* Fault: the first hello's port is kept.
NotedFirst(g, d) ==
    IF d.kind = "hello" /\ script[g].plugin = Nobody
    THEN [script EXCEPT ![g].plugin = d.port] ELSE script

\* A hello's port replaces the one noted before.
Noted(g, d) ==
    IF d.kind = "hello" THEN [script EXCEPT ![g].plugin = d.port] ELSE script

\* A handler thread, up to its answer.  The script's own answers carry an
\* address that matches; to another script they are an unknown command.
Take(g, d) ==
    /\ script[g].mode = "serving"
    /\ d \in queue /\ d.to = g
    /\ queue' = queue \ {d}
    /\ IF d.kind = "result" \/ AddressMatches(Address)
       THEN /\ answering' = answering \cup
                   {[by |-> g, asker |-> d.asker, hello |-> d.kind = "hello"]}
            /\ script' = Noted(g, d)
       ELSE UNCHANGED <<answering, script>>
    /\ UNCHANGED <<local, remote>>

\* send_response: to the port noted last, whoever asked.
Answer(g) ==
    \E r \in answering :
        /\ r.by = g
        /\ answering' = answering \ {r}
        /\ queue' \in IF script[g].plugin = Nobody THEN {queue}
                      ELSE Sent(script[g].plugin, "result", r.asker,
                                IF r.hello THEN script[g].port ELSE Nobody)
        /\ UNCHANGED <<local, remote, script>>

----------------------------------------------------------------------------
PluginNext(i) == Connect(i) \/ Disconnect(i) \/ SendCommand(i) \/ Read(i)
ScriptNext(g) ==
    \/ LoadScript(g) \/ UnloadScript(g) \/ Collect(g)
    \/ \E d \in queue : Take(g, d)
    \/ Answer(g)

Next == (\E i \in Instance : PluginNext(i)) \/ (\E g \in Load : ScriptNext(g))
Spec == Init /\ [][Next]_vars

\* A socket gives its datagrams in the order they came, so none waits for
\* ever; handler threads and the message loop have their turn; nothing makes
\* hosts and Live load or unload anything.
FairSpec ==
    /\ Spec
    /\ \A i \in Instance : WF_vars(Read(i))
    /\ \A g \in Load : \A d \in Hello(g) : WF_vars(Take(g, d))
    /\ \A g \in Load : WF_vars(Answer(g))

----------------------------------------------------------------------------
(* Properties *)

\* The socket h is bound to the script's first port.
AtFirstPort(h) == IF h \in Instance THEN local[h] = ScriptStart ELSE script[h].port = ScriptStart

\* Whatever the reloads, the reuse of ports and the answers that go astray, a
\* client's commands come into no socket but the one bound to the script's
\* first port, unless the client holds that port itself: what it then takes
\* for the script is anybody who greets it.  The socket at the first port need
\* not be a serving script's: it may be a stopped script's or another plugin's,
\* and if nobody holds the port the commands are lost.
CommandsReachFirstPort ==
    [][\A d \in queue' \ queue :
           d.kind = "command" => AtFirstPort(d.to) \/ local[d.asker] = ScriptStart]_vars

\* "Send to localhost on the remote script port": no command goes into the
\* socket of another plugin.  It does not hold (README 7).
CommandsReachNoOtherPlugin ==
    [][\A d \in queue' \ queue : d.kind = "command" => d.to \notin Instance \ {d.asker}]_vars

HelloWaiting(i, g) ==
    /\ script[g].mode = "serving"
    /\ \E d \in queue : d.to = g /\ d.kind = "hello" /\ d.asker = i /\ d.port = local[i]

\* "Remote Script responds": once an instance's hello is in the server's
\* socket, the script comes to send to that instance, unless one of them goes.
GreeterIsServed ==
    \A i \in Instance, g \in Load :
        HelloWaiting(i, g) ~> (\/ local[i] = Nobody \/ script[g].mode # "serving"
                               \/ script[g].plugin = local[i])

\* "Request/response correlation": an answer goes to the instance that asked,
\* as long as that one is connected.  It does not hold (README 7).
AnswersReachTheAsker ==
    \A d \in queue : d.kind = "result" /\ d.to \in Instance /\ local[d.asker] # Nobody
                     => d.to = d.asker
=============================================================================
