----------------------- MODULE PluginLifecycleProofs -----------------------
(***************************************************************************)
(* The connection flag the plugin shows is truthful, for every set of      *)
(* ports, editors and tracker contents.                                    *)
(***************************************************************************)
EXTENDS PluginLifecycle, WellFoundedInduction, TLAPS

\* bindToPortRange's choice: a set of ports that is not empty has a first
\* one, and it belongs to the set.
LEMMA FirstPort ==
    ASSUME NEW S \in SUBSET Nat, S # {}
    PROVE  Min(S) \in S
  <1>1. PICK x \in S : \A y \in S : ~(<<y, x>> \in OpToRel(<, Nat))
    BY NatLessThanWellFounded, WFMin
  <1>2. \A y \in S : <<y, x>> \in OpToRel(<, Nat) <=> y < x
    BY DEF OpToRel
  <1>3. \A y \in S : x <= y
    <2> SUFFICES ASSUME NEW y \in S PROVE x <= y
      OBVIOUS
    <2>1. ~(y < x)
      BY <1>1, <1>2
    <2>2. x \in Nat /\ y \in Nat
      OBVIOUS
    <2>3. QED
      BY <2>1, <2>2
  <1>4. QED
    BY <1>3 DEF Min
\* A successful bind gives a client in the Bridge type, on a free port.
LEMMA BoundClient ==
    ASSUME NEW free \in SUBSET Ports, free # {}
    PROVE  /\ Bound(free) \in Bridge
           /\ Bound(free).connected
           /\ Bound(free).localPort \in free
           /\ Bound(free).remotePort # 0
  <1>1. Min(free) \in free
    BY FirstPort, PortsAssumption
  <1>2. ScriptPort \in RemotePorts /\ ScriptPort # 0
    BY RemotePortsAssumption
  <1>3. QED
    BY <1>1, <1>2 DEF Bound, Bridge

\* notifyChange keeps the two flags it may set Boolean.
LEMMA NotifyType ==
    ASSUME NEW changed \in BOOLEAN, pending \in BOOLEAN, dangling \in BOOLEAN,
           Notify(changed)
    PROVE  pending' \in BOOLEAN /\ dangling' \in BOOLEAN
  BY DEF Notify

----------------------------------------------------------------------------
\* Every reachable state of the plugin is well typed; in particular the
\* client is either absent or has its three connection fields.
THEOREM PluginTypeOK == Spec => []TypeOK
  <1>1. Init => TypeOK
    <2> SUFFICES ASSUME Init PROVE TypeOK
      OBVIOUS
    <2>1. shown \in Display
      BY ShadowAssumption DEF Init, Blank, Display
    <2>2. QED
      BY <2>1, ShadowAssumption DEF Init, TypeOK
  <1>2. TypeOK /\ [Next]_vars => TypeOK'
    <2> SUFFICES ASSUME TypeOK, [Next]_vars
                 PROVE  TypeOK'
      OBVIOUS
    <2> USE DEF TypeOK
    <2>1. CASE PrepareToPlay
      <3> DEFINE free == Ports \ busy
      <3>1. bridge' \in Bridge
        <4>1. CASE free = {}
          BY <2>1, <4>1 DEF PrepareToPlay, Unbound, Bridge
        <4>2. CASE free # {}
          BY <2>1, <4>2, BoundClient DEF PrepareToPlay
        <4>3. QED
          BY <4>1, <4>2
      <3>2. connected' \in BOOLEAN /\ pending' \in BOOLEAN /\ dangling' \in BOOLEAN
        BY <2>1, NotifyType DEF PrepareToPlay
      <3>3. QED
        BY <2>1, <3>1, <3>2 DEF PrepareToPlay, host
    <2>2. CASE ReleaseResources
      BY <2>2, NotifyType DEF ReleaseResources, host
    <2>3. CASE DestroyProcessor
      BY <2>3, NotifyType DEF DestroyProcessor
    <2>4. ASSUME NEW e \in Editor, OpenEditor(e)
          PROVE  TypeOK'
      BY <2>4, ShadowAssumption DEF OpenEditor, Blank, Display
    <2>5. CASE CloseEditor
      BY <2>5, ShadowAssumption DEF CloseEditor, Blank, Display
    <2>6. CASE EditorTimer
      BY <2>6 DEF EditorTimer, host, Current, Display
    <2>7. ASSUME NEW s \in Shadow, ReceiveEvent(s)
          PROVE  TypeOK'
      BY <2>7, NotifyType DEF ReceiveEvent, host
    <2>8. ASSUME NEW p \in RemotePorts, ReceiveResult(p)
          PROVE  TypeOK'
      BY <2>8 DEF ReceiveResult, host, Bridge
    <2>9. ASSUME NEW p \in Ports, OthersBind(p) \/ OthersRelease(p)
          PROVE  TypeOK'
      BY <2>9 DEF OthersBind, OthersRelease, host
    <2>10. CASE UNCHANGED vars
      BY <2>10 DEF vars
    <2>11. QED
      BY <2>1, <2>2, <2>3, <2>4, <2>5, <2>6, <2>7, <2>8, <2>9, <2>10 DEF Next
  <1>3. QED
    BY <1>1, <1>2, PTL DEF Spec

----------------------------------------------------------------------------
\* The header's "Connected" is truthful about the socket: the tracker's flag
\* holds exactly while a client holds a free plugin port, through repeated
\* prepareToPlay, releaseResources, failed binds and destruction.
THEOREM ConnectedMeansBound == Spec => []FlagMeansBound
  <1>1. Init => FlagMeansBound
    BY DEF Init, FlagMeansBound
  <1>2. TypeOK /\ FlagMeansBound /\ [Next]_vars => FlagMeansBound'
    <2> SUFFICES ASSUME TypeOK, FlagMeansBound, [Next]_vars
                 PROVE  FlagMeansBound'
      OBVIOUS
    <2>1. CASE PrepareToPlay
      <3> DEFINE free == Ports \ busy
      <3>1. CASE free = {}
        BY <2>1, <3>1 DEF PrepareToPlay, FlagMeansBound, Unbound
      <3>2. CASE free # {}
        <4>1. bridge' = Bound(free) /\ connected' = TRUE /\ busy' = busy
          BY <2>1, <3>2 DEF PrepareToPlay
        <4>2. bridge'.connected /\ bridge'.localPort \in free
              /\ bridge'.remotePort # 0 /\ bridge' \in Bridge
          BY <3>2, <4>1, BoundClient
        <4>3. bridge' # NoBridge
          BY <4>2, NoBridgeAssumption
        <4>4. QED
          BY <4>1, <4>2, <4>3 DEF FlagMeansBound
      <3>3. QED
        BY <3>1, <3>2
    <2>2. CASE ReleaseResources
      BY <2>2 DEF ReleaseResources, FlagMeansBound
    <2>3. CASE DestroyProcessor
      BY <2>3 DEF DestroyProcessor, FlagMeansBound
    <2>4. CASE (\E e \in Editor : OpenEditor(e)) \/ CloseEditor \/ EditorTimer
      BY <2>4 DEF OpenEditor, CloseEditor, EditorTimer, FlagMeansBound
    <2>5. ASSUME NEW s \in Shadow, ReceiveEvent(s)
          PROVE  FlagMeansBound'
      BY <2>5 DEF ReceiveEvent, FlagMeansBound
    <2>6. ASSUME NEW p \in RemotePorts, ReceiveResult(p)
          PROVE  FlagMeansBound'
      <3>1. bridge \in Bridge /\ bridge.connected /\ connected
        BY <2>6 DEF ReceiveResult, TypeOK, FlagMeansBound
      <3>2. /\ bridge' \in Bridge
            /\ bridge'.connected
            /\ bridge'.localPort = bridge.localPort
            /\ bridge'.remotePort = p
        BY <2>6, <3>1 DEF ReceiveResult, Bridge
      <3>3. p # 0
        BY RemotePortsAssumption
      <3>4. QED
        BY <2>6, <3>1, <3>2, <3>3, NoBridgeAssumption
        DEF ReceiveResult, FlagMeansBound
    <2>7. ASSUME NEW p \in Ports, OthersBind(p) \/ OthersRelease(p)
          PROVE  FlagMeansBound'
      BY <2>7 DEF OthersBind, OthersRelease, FlagMeansBound
    <2>8. CASE UNCHANGED vars
      BY <2>8 DEF vars, FlagMeansBound
    <2>9. QED
      BY <2>1, <2>2, <2>3, <2>4, <2>5, <2>6, <2>7, <2>8 DEF Next
  <1>3. QED
    BY <1>1, <1>2, PluginTypeOK, PTL DEF Spec
=============================================================================
