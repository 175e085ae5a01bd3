-------------------------- MODULE HandshakeProofs --------------------------
(***************************************************************************)
(* The handshake for any number of plugin instances and script reloads and *)
(* any port ranges, overlapping or not: a command comes into no socket but *)
(* the one at the script's first port, unless its sender holds that port.  *)
(***************************************************************************)
EXTENDS Handshake, TLAPS

\* Where hellos are, whom scripts know, and what answers can say: a hello can
\* only be in the socket of the script's first port, so only a script there
\* is ever greeted, so an answer can name no other port.
HelloInv == \A d \in queue : d.kind = "hello" => AtFirstPort(d.to) /\ d.port \in PluginPorts
AnswerInv == \A d \in queue : d.kind # "hello" => d.port \in {Nobody, ScriptStart}
GreetedInv == \A r \in answering : r.hello => script[r.by].port = ScriptStart

\* remotePort_ is only ever moved off the script's first port in the instance
\* that holds that port itself.
OnlySquatterDiverted ==
    \A i \in Instance : local[i] \notin {Nobody, ScriptStart} => remote[i] = ScriptStart

UnbornInv == \A g \in Load : script[g].mode = "unborn" => script[g].port = Nobody

IInv == TypeOK /\ UnbornInv /\ HelloInv /\ AnswerInv /\ GreetedInv /\ OnlySquatterDiverted

\* Ports and loads are numbers other than 0; an instance is neither.
LEMMA Ranges ==
    /\ PluginPorts \subseteq Nat \ {0} /\ ScriptPorts \subseteq Nat \ {0}
    /\ ScriptStart \in ScriptPorts /\ Nobody \notin Port
    /\ Instance \cap Load = {}
  <1>1. PluginPorts \subseteq Nat \ {0} /\ ScriptPorts \subseteq Nat \ {0}
    BY RangeAssumption DEF PluginPorts, ScriptPorts
  <1>2. ScriptStart \in ScriptPorts
    BY RangeAssumption DEF ScriptPorts
  <1>3. Load \subseteq Nat
    BY DEF Load
  <1>4. QED
    BY <1>1, <1>2, <1>3, InstanceAssumption DEF Port, Nobody

\* A port's holders are sockets; an instance or a script among them is bound
\* to that port.
LEMMA HoldersAreSockets ==
    ASSUME NEW p, NEW h \in Holders(p)
    PROVE  /\ h \in Instance \cup Load
           /\ p = ScriptStart => AtFirstPort(h)
  BY Ranges DEF Holders, AtFirstPort

\* Sending to anybody leaves what was queued, and at most one datagram more.
LEMMA WhatIsSent ==
    ASSUME NEW p, NEW kind, NEW asker, NEW port, NEW q \in Sent(p, kind, asker, port)
    PROVE  \A d \in q : \/ d \in queue
                        \/ \E h \in Instance \cup Load :
                              d = [to |-> h, kind |-> kind, asker |-> asker, port |-> port]
  BY HoldersAreSockets DEF Sent

LEMMA InitInv == Init => IInv
  <1>1. Init => TypeOK
    BY DEF Init, TypeOK, Script
  <1>2. QED
    BY <1>1 DEF Init, IInv, UnbornInv, HelloInv, AnswerInv, GreetedInv, OnlySquatterDiverted

\* Connecting sends one hello, into the socket of the first port.
LEMMA ConnectInv == ASSUME IInv, NEW i \in Instance, Connect(i) PROVE IInv'
  <1> USE DEF IInv
  <1>1. PICK own \in First(PluginPorts) :
            /\ local' = [local EXCEPT ![i] = own]
            /\ \/ UNCHANGED queue
               \/ \E p \in Greeted : \E h \in IF own = p THEN {i} ELSE Holders(p) :
                      queue' = queue \cup
                          {[to |-> h, kind |-> "hello", asker |-> i, port |-> own]}
    BY DEF Connect
  <1>2. own \in PluginPorts /\ own # Nobody /\ local[i] = Nobody /\ ScriptStart # Nobody
    BY Ranges DEF First, Free, Connect, Nobody
  <1>3. remote' = [remote EXCEPT ![i] = ScriptStart] /\ UNCHANGED <<script, answering>>
    BY DEF Connect
  <1>4. \A d \in queue' : d \in queue
            \/ /\ d \in Datagram /\ d.kind = "hello" /\ d.port = own
               /\ AtFirstPort(d.to)'
    <2> SUFFICES ASSUME NEW d \in queue', d \notin queue
                 PROVE  d \in Datagram /\ d.kind = "hello" /\ d.port = own /\ AtFirstPort(d.to)'
      OBVIOUS
    <2>1. PICK h \in IF own = ScriptStart THEN {i} ELSE Holders(ScriptStart) :
              d = [to |-> h, kind |-> "hello", asker |-> i, port |-> own]
      BY <1>1 DEF Greeted
    <2>2. h \in Instance \cup Load /\ (h # i => AtFirstPort(h))
      BY HoldersAreSockets, Ranges DEF Port
    <2>3. h = i => own = ScriptStart
      BY <1>2, Ranges DEF Holders, Nobody, TypeOK
    <2>4. AtFirstPort(h)'
      BY <2>2, <2>3, <1>1, <1>3 DEF AtFirstPort, TypeOK
    <2>5. QED
      BY <2>1, <2>2, <2>4, <1>2 DEF Datagram, Port
  <1>5. TypeOK'
    BY <1>1, <1>2, <1>3, <1>4, Ranges DEF TypeOK, Port
  <1>6. HelloInv'
    <2>1. \A d \in queue : d.kind = "hello" => d.to # i
      BY <1>2 DEF HelloInv, AtFirstPort
    <2>2. QED
      BY <2>1, <1>1, <1>2, <1>3, <1>4 DEF HelloInv, AtFirstPort, TypeOK
  <1>7. AnswerInv' /\ GreetedInv' /\ UnbornInv'
    BY <1>3, <1>4 DEF AnswerInv, GreetedInv, UnbornInv
  <1>8. OnlySquatterDiverted'
    BY <1>1, <1>3 DEF OnlySquatterDiverted, TypeOK
  <1>9. QED
    BY <1>5, <1>6, <1>7, <1>8

LEMMA DisconnectInv == ASSUME IInv, NEW i \in Instance, Disconnect(i) PROVE IInv'
  <1> USE DEF IInv
  <1>1. TypeOK'
    BY DEF TypeOK, Disconnect
  <1>2. HelloInv'
    BY DEF HelloInv, AtFirstPort, Disconnect, TypeOK
  <1>3. AnswerInv' /\ GreetedInv' /\ UnbornInv' /\ OnlySquatterDiverted'
    BY DEF AnswerInv, GreetedInv, UnbornInv, OnlySquatterDiverted, Disconnect, TypeOK
  <1>4. QED
    BY <1>1, <1>2, <1>3

LEMMA SendCommandInv == ASSUME IInv, NEW i \in Instance, SendCommand(i) PROVE IInv'
  <1> USE DEF IInv
  <1>1. queue' \in Sent(remote[i], "command", i, Nobody) /\ UNCHANGED <<local, remote, script, answering>>
    BY DEF SendCommand
  <1>2. \A d \in queue' : \/ d \in queue
                          \/ d \in Datagram /\ d.kind = "command" /\ d.port = Nobody
    <2>1. \A h \in Instance \cup Load :
              [to |-> h, kind |-> "command", asker |-> i, port |-> Nobody] \in Datagram
      BY DEF Datagram
    <2>2. QED
      BY <1>1, <2>1, WhatIsSent
  <1>3. TypeOK' /\ HelloInv' /\ AnswerInv'
    BY <1>1, <1>2 DEF TypeOK, HelloInv, AnswerInv, AtFirstPort
  <1>4. GreetedInv' /\ UnbornInv' /\ OnlySquatterDiverted'
    BY <1>1 DEF GreetedInv, UnbornInv, OnlySquatterDiverted
  <1>5. QED
    BY <1>3, <1>4

\* What an instance reads: an answer, which can only name the first port, or
\* a hello, which only the instance at the first port can get.
LEMMA ReadInv == ASSUME IInv, NEW i \in Instance, Read(i) PROVE IInv'
  <1> USE DEF IInv
  <1>1. PICK d \in queue :
            /\ d.to = i
            /\ remote' = [remote EXCEPT ![i] = IF d.port = Nobody THEN @ ELSE d.port]
            /\ queue' = queue \ {d}
            /\ UNCHANGED <<local, script, answering>>
    BY DEF Read
  <1>2. d \in Datagram
    BY DEF TypeOK
  <1>3. local[i] = ScriptStart \/ d.port \in {Nobody, ScriptStart}
    BY <1>1 DEF HelloInv, AnswerInv, AtFirstPort
  <1>4. TypeOK' /\ HelloInv' /\ AnswerInv' /\ GreetedInv' /\ UnbornInv'
    BY <1>1, <1>2 DEF TypeOK, HelloInv, AnswerInv, GreetedInv, UnbornInv, AtFirstPort, Datagram
  <1>5. OnlySquatterDiverted'
    BY <1>1, <1>3 DEF OnlySquatterDiverted, TypeOK
  <1>6. QED
    BY <1>4, <1>5

\* A script that had no port before has no datagrams and no handlers to
\* which the new one would matter.
LEMMA LoadScriptInv == ASSUME IInv, NEW g \in Load, LoadScript(g) PROVE IInv'
  <1> USE DEF IInv
  <1>1. script[g].port = Nobody /\ Nobody # ScriptStart
    BY Ranges DEF UnbornInv, LoadScript, Port
  <1>2. PICK p \in ScriptPorts \cup {Nobody}, m \in {"serving", "closed"} :
            script' = [script EXCEPT ![g] = [@ EXCEPT !.mode = m, !.port = p]]
    <2>1. CASE Free(ScriptPorts) = {}
      <3>1. script' = [script EXCEPT ![g].mode = "closed"]
        BY <2>1 DEF LoadScript, First
      <3>2. script' = [script EXCEPT ![g] = [@ EXCEPT !.mode = "closed", !.port = Nobody]]
        BY <3>1, <1>1 DEF TypeOK, Script
      <3>3. QED
        BY <3>2
    <2>2. CASE Free(ScriptPorts) # {}
      <3>1. PICK p \in First(ScriptPorts) :
                script' = [script EXCEPT ![g].mode = "serving", ![g].port = p]
        BY <2>2 DEF LoadScript
      <3>2. p \in ScriptPorts
        BY DEF First, Free
      <3>3. script' = [script EXCEPT ![g] = [@ EXCEPT !.mode = "serving", !.port = p]]
        BY <3>1
      <3>4. QED
        BY <3>2, <3>3
    <2>3. QED
      BY <2>1, <2>2
  <1>3. UNCHANGED <<local, remote, queue, answering>>
    BY DEF LoadScript
  <1>4. \A h \in Load : /\ script'[h] \in Script
                        /\ h # g => script'[h] = script[h]
                        /\ script'[g].mode # "unborn"
    BY <1>2 DEF TypeOK, Script
  <1>5. \A h \in Load : script[h].port = ScriptStart => script'[h].port = ScriptStart
    BY <1>1, <1>4
  <1>6. TypeOK' /\ UnbornInv'
    <2>1. script' \in [Load -> Script]
      BY <1>2, <1>4 DEF TypeOK
    <2>2. TypeOK'
      BY <1>3, <2>1 DEF TypeOK
    <2>3. QED
      BY <1>4, <2>2 DEF UnbornInv, TypeOK
  <1>7. HelloInv' /\ AnswerInv' /\ GreetedInv' /\ OnlySquatterDiverted'
    BY <1>3, <1>5 DEF HelloInv, AnswerInv, GreetedInv, OnlySquatterDiverted, AtFirstPort,
       TypeOK, Datagram, Request
  <1>8. QED
    BY <1>6, <1>7
LEMMA UnloadScriptInv == ASSUME IInv, NEW g \in Load, UnloadScript(g) PROVE IInv'
  <1> USE DEF IInv
  <1>1. \A h \in Load : /\ script'[h] \in Script
                        /\ script'[h].port = script[h].port
                        /\ script'[h].mode = "unborn" => script[h].mode = "unborn"
    BY DEF TypeOK, UnloadScript, Script
  <1>2. TypeOK'
    <2>1. script' \in [Load -> Script]
      BY <1>1 DEF TypeOK, UnloadScript
    <2>2. QED
      BY <2>1 DEF TypeOK, UnloadScript
  <1>3. QED
    BY <1>1, <1>2, Ranges DEF UnloadScript, UnbornInv, HelloInv, AnswerInv, GreetedInv, AtFirstPort,
       OnlySquatterDiverted, TypeOK, Datagram, Request
LEMMA CollectInv == ASSUME IInv, NEW g \in Load, Collect(g) PROVE IInv'
  <1> USE DEF IInv
  <1>1. \A h \in Load : /\ script'[h] \in Script
                        /\ script'[h].port = script[h].port
                        /\ script'[h].mode = "unborn" => script[h].mode = "unborn"
    BY DEF TypeOK, Collect, Script
  <1>2. TypeOK'
    <2>1. script' \in [Load -> Script]
      BY <1>1 DEF TypeOK, Collect
    <2>2. QED
      BY <2>1 DEF TypeOK, Collect
  <1>3. QED
    BY <1>1, <1>2, Ranges DEF Collect, UnbornInv, HelloInv, AnswerInv, GreetedInv, AtFirstPort,
       OnlySquatterDiverted, TypeOK, Datagram, Request

\* A hello that is taken comes from the first port's socket.
LEMMA TakeInv == ASSUME IInv, NEW g \in Load, NEW d \in queue, Take(g, d) PROVE IInv'
  <1> USE DEF IInv
  <1>1. d \in Datagram /\ d.to = g /\ queue' = queue \ {d} /\ UNCHANGED <<local, remote>>
    BY DEF TypeOK, Take
  <1>2. d.kind = "hello" => script[g].port = ScriptStart /\ d.port \in PluginPorts
    BY <1>1, Ranges DEF HelloInv, AtFirstPort
  <1>3. script' \in {script, Noted(g, d)}
    BY DEF Take
  <1>4. \A h \in Load : /\ script'[h] \in Script
                        /\ script'[h].port = script[h].port /\ script'[h].mode = script[h].mode
    BY <1>2, <1>3 DEF Noted, TypeOK, Script
  <1>5. script' \in [Load -> Script]
    BY <1>3, <1>4 DEF Noted, TypeOK
  <1>6. \A r \in answering' : r \in answering
            \/ r = [by |-> g, asker |-> d.asker, hello |-> d.kind = "hello"]
    BY DEF Take
  <1>7. TypeOK'
    <2>1. (d.kind = "hello") \in BOOLEAN /\ d.asker \in Instance
      BY <1>1 DEF Datagram
    <2>2. [by |-> g, asker |-> d.asker, hello |-> d.kind = "hello"] \in Request
      BY <2>1 DEF Request
    <2>3. QED
      BY <1>1, <1>5, <1>6, <2>2 DEF TypeOK
  <1>8. HelloInv' /\ AnswerInv' /\ UnbornInv' /\ OnlySquatterDiverted'
    BY <1>1, <1>4, Ranges DEF HelloInv, UnbornInv, AnswerInv, AtFirstPort, OnlySquatterDiverted, TypeOK, Datagram
  <1>9. GreetedInv'
    <2> SUFFICES ASSUME NEW r \in answering', r.hello PROVE script'[r.by].port = ScriptStart
      BY DEF GreetedInv
    <2>1. CASE r \in answering
      BY <2>1, <1>4 DEF GreetedInv, TypeOK, Request
    <2>2. CASE r = [by |-> g, asker |-> d.asker, hello |-> d.kind = "hello"]
      <3>1. r.by = g /\ d.kind = "hello"
        BY <2>2
      <3>2. QED
        BY <3>1, <1>2, <1>4
    <2>3. QED
      BY <1>6, <2>1, <2>2
  <1>10. QED
    BY <1>7, <1>8, <1>9

\* An answer to a hello names the first port, others none.
LEMMA AnswerStepInv == ASSUME IInv, NEW g \in Load, Answer(g) PROVE IInv'
  <1> USE DEF IInv
  <1>1. PICK r \in answering :
            /\ r.by = g
            /\ answering' = answering \ {r}
            /\ queue' \in IF script[g].plugin = Nobody THEN {queue}
                          ELSE Sent(script[g].plugin, "result", r.asker,
                                    IF r.hello THEN script[g].port ELSE Nobody)
            /\ UNCHANGED <<local, remote, script>>
    BY DEF Answer
  <1> DEFINE port == IF r.hello THEN script[g].port ELSE Nobody
  <1>2. port \in {Nobody, ScriptStart} /\ r.asker \in Instance
    BY <1>1 DEF GreetedInv, TypeOK, Request
  <1>3. script[g].plugin \in PluginPorts \cup {Nobody}
    BY DEF TypeOK, Script
  <1>4. \A d \in queue' :
            \/ d \in queue
            \/ d \in Datagram /\ d.kind = "result" /\ d.port \in {Nobody, ScriptStart}
    <2>1. CASE script[g].plugin = Nobody
      BY <1>1, <2>1
    <2>2. CASE script[g].plugin # Nobody
      <3>1. queue' \in Sent(script[g].plugin, "result", r.asker, port)
        BY <1>1, <2>2
      <3>2. \A h \in Instance \cup Load :
                [to |-> h, kind |-> "result", asker |-> r.asker, port |-> port] \in Datagram
        BY <1>2, Ranges DEF Datagram, Port
      <3>3. QED
        BY <3>1, <3>2, <1>2, WhatIsSent
    <2>3. QED
      BY <2>1, <2>2
  <1>5. TypeOK' /\ HelloInv' /\ AnswerInv'
    BY <1>1, <1>4 DEF TypeOK, HelloInv, AnswerInv, AtFirstPort
  <1>6. GreetedInv' /\ UnbornInv' /\ OnlySquatterDiverted'
    BY <1>1 DEF GreetedInv, UnbornInv, OnlySquatterDiverted
  <1>7. QED
    BY <1>5, <1>6

LEMMA StepInv == IInv /\ [Next]_vars => IInv'
  <1> SUFFICES ASSUME IInv, [Next]_vars PROVE IInv'
    OBVIOUS
  <1>1. CASE UNCHANGED vars
    BY <1>1 DEF vars, IInv, TypeOK, UnbornInv, HelloInv, AnswerInv, GreetedInv, AtFirstPort, OnlySquatterDiverted
  <1>2. ASSUME NEW i \in Instance, PluginNext(i) PROVE IInv'
    BY <1>2, ConnectInv, DisconnectInv, SendCommandInv, ReadInv DEF PluginNext
  <1>3. ASSUME NEW g \in Load, ScriptNext(g) PROVE IInv'
    BY <1>3, LoadScriptInv, UnloadScriptInv, CollectInv, TakeInv, AnswerStepInv DEF ScriptNext
  <1>4. QED
    BY <1>1, <1>2, <1>3 DEF Next

\* Of the steps only SendCommand puts a command into a socket, that of the port
\* the client sends to.
LEMMA CommandsArrive ==
    ASSUME IInv, Next, NEW d \in queue', d \notin queue, d.kind = "command"
    PROVE  AtFirstPort(d.to) \/ local[d.asker] = ScriptStart
  <1>1. ASSUME NEW i \in Instance, SendCommand(i)
        PROVE  AtFirstPort(d.to) \/ local[d.asker] = ScriptStart
    <2>1. PICK h \in Holders(remote[i]) :
              d = [to |-> h, kind |-> "command", asker |-> i, port |-> Nobody]
      BY <1>1 DEF SendCommand, Sent
    <2>2. CASE local[i] = ScriptStart
      BY <2>1, <2>2
    <2>3. CASE local[i] # ScriptStart
      <3>1. remote[i] = ScriptStart
        BY <1>1, <2>3 DEF IInv, OnlySquatterDiverted, SendCommand
      <3>2. AtFirstPort(h)
        BY <2>1, <3>1, HoldersAreSockets
      <3>3. QED
        BY <2>1, <3>2
    <2>4. QED
      BY <2>2, <2>3
  <1>2. ASSUME NEW i \in Instance, Connect(i) PROVE FALSE
    BY <1>2 DEF Connect
  <1>3. ASSUME NEW g \in Load, Answer(g) PROVE FALSE
    BY <1>3 DEF Answer, Sent
  <1>4. ASSUME NEW i \in Instance, Disconnect(i) \/ Read(i) PROVE FALSE
    BY <1>4 DEF Disconnect, Read
  <1>5. ASSUME NEW g \in Load,
               LoadScript(g) \/ UnloadScript(g) \/ Collect(g) \/ \E e \in queue : Take(g, e)
        PROVE  FALSE
    BY <1>5 DEF LoadScript, UnloadScript, Collect, Take
  <1>6. QED
    BY <1>1, <1>2, <1>3, <1>4, <1>5 DEF Next, PluginNext, ScriptNext

\* Whatever plugin instances, reloads, port ranges and losses: the commands of
\* a client that is not on the script's first port itself come into the socket
\* at that port or nowhere.
THEOREM CommandsStayOnCourse == Spec => CommandsReachFirstPort
  <1>1. IInv /\ [Next]_vars =>
            [\A d \in queue' \ queue :
                 d.kind = "command" => AtFirstPort(d.to) \/ local[d.asker] = ScriptStart]_vars
    BY CommandsArrive
  <1>2. QED
    BY <1>1, InitInv, StepInv, PTL DEF Spec, CommandsReachFirstPort

\* The handshake's state is well typed for every instance of the constants.
THEOREM HandshakeTypeOK == Spec => []TypeOK
  <1>1. IInv => TypeOK
    BY DEF IInv
  <1>2. QED
    BY <1>1, InitInv, StepInv, PTL DEF Spec
=============================================================================
