------------------------------- MODULE System -------------------------------
(***************************************************************************)
(* The remote script, the way its pushes take, and the plugin's rows:      *)
(* RemoteScript composed with a UDP socket per plugin that may lose what   *)
(* is sent to it and keeps the order of the rest, and with BridgeClient's  *)
(* events and LooperTracker's map (whose comparisons are in LooperTracker, *)
(* here a push replaces its row).  Nothing is acknowledged or repeated.    *)
(*                                                                         *)
(* RemoteScript's shadow is what was sent; rows is what arrived.  A value  *)
(* is assigned again or raised by one, so values tell readings apart.      *)
(***************************************************************************)
EXTENDS RemoteScript

CONSTANT MaxWire    \* bound on the pushes under way when a user acts

ASSUME WireAssumption == MaxWire \in Nat
ASSUME ValueAssumption == Value \subseteq Nat

VARIABLES
    wire,      \* per plugin: the pushes in its socket, oldest first
    rows,      \* per plugin: id -> push
    missed     \* per plugin: the ids whose last push was lost (history)

plugins == <<wire, rows, missed>>
sysvars == <<vars, plugins>>

SystemTypeOK ==
    /\ \A p \in Plugin : Range(wire[p]) \subseteq Push
    /\ \A p \in Plugin : \A i \in DOMAIN rows[p] : rows[p][i] \in Push /\ rows[p][i].id = i
    /\ missed \in [Plugin -> SUBSET Id]

SystemInit ==
    /\ Init
    /\ wire = [p \in Plugin |-> << >>]
    /\ rows = [p \in Plugin |-> << >>]
    /\ missed = [p \in Plugin |-> {}]

\* What a thread's next step sends, if it sends: PushFound's or SendChanged's.
Sends(p) ==
    IF At(p, "push") THEN Lowest(thread[p].item.unsent)
    ELSE IF At(p, "send") THEN {thread[p].item} ELSE {}

Moves(p) == thread'[p] # thread[p]

\* sendto: the socket takes the datagram, or it is gone.
Transmitted(e) ==
    \/ /\ wire' = [wire EXCEPT ![port] = Append(@, e)]
       /\ missed' = [missed EXCEPT ![port] = @ \ {e.id}]
    \/ /\ missed' = [missed EXCEPT ![port] = @ \cup {e.id}]
       /\ UNCHANGED wire

\* What a step of the script's does on the way to the plugins.
Carried ==
    /\ \A t \in Track : value'[t] \in {value[t], value[t] + 1}
    /\ IF \E p \in Thread : Moves(p) /\ Sends(p) # {} /\ port # NoPlugin
       THEN \E p \in Thread : Moves(p) /\ \E e \in Sends(p) : Transmitted(e)
       ELSE UNCHANGED <<wire, missed>>
    /\ UNCHANGED rows

\* Fault: a push of a looper that has no row yet is dropped.
StoredIfKnown(m, e) == IF m = << >> \/ e.id \in DOMAIN m THEN Told(m, e) ELSE m

\* Fault: rows are numbered as they come.
StoredNext(m, e) ==
    LET n == Cardinality(DOMAIN m) + 1
    IN [i \in DOMAIN m \cup {n} |-> IF i = n THEN e ELSE m[i]]

\* addLooper and updateState: known or not, the push is the row.
Stored(m, e) == Told(m, e)

\* Fault: the newest push is handled first.
HearNewest(p) ==
    /\ wire[p] # << >>
    /\ rows' = [rows EXCEPT ![p] = Stored(@, Last(wire[p]))]
    /\ wire' = [wire EXCEPT ![p] = Front(@)]
    /\ UNCHANGED <<vars, missed>>

\* oscMessageReceived, on the message thread.
Hear(p) ==
    /\ wire[p] # << >>
    /\ rows' = [rows EXCEPT ![p] = Stored(@, Head(wire[p]))]
    /\ wire' = [wire EXCEPT ![p] = Tail(@)]
    /\ UNCHANGED <<vars, missed>>

NotFull == \A p \in Plugin : Len(wire[p]) < MaxWire

SystemNext ==
    \/ Next /\ Carried /\ (At(Main, "idle") => NotFull)
    \/ \E p \in Plugin : Hear(p)

SystemSpec == SystemInit /\ [][SystemNext]_sysvars

\* The script's threads run (RemoteScript), the plugin's message loop too.
SystemFairSpec ==
    /\ SystemSpec
    /\ WF_sysvars(ContinueMain /\ Carried)
    /\ \A w \in Worker : WF_sysvars(ContinueWorker(w) /\ Carried)
    /\ \A p \in Plugin : WF_sysvars(Hear(p))

----------------------------------------------------------------------------
(* Properties *)

\* The copy promises what Mirror says: through losses, edits and renumbering,
\* no row shows what its looper never was, and none goes back in time.
M == INSTANCE Mirror WITH Track <- Track, Plugin <- Plugin, Id <- Id,
                          value <- value, rows <- rows
ImplementsMirror == M!Spec

\* "Full state push on change": when the script rests and the plugin has read
\* its socket, a row the script has pushed shows the looper as it is, unless
\* the last push of that row was lost; a later push makes it right again.
RowsAreCurrent ==
    Resting /\ ~unloaded /\ port # NoPlugin /\ wire[port] = << >> =>
        \A i \in (DOMAIN found \cap DOMAIN shadow[port]) \ missed[port] :
            i \in DOMAIN rows[port] /\ rows[port][i] = Read(i)

\* Every set of edits comes to an end here; then the greeted plugin catches up
\* with every row whose last push was not lost.
Agrees ==
    port # NoPlugin =>
        \A i \in (DOMAIN found \cap DOMAIN shadow[port]) \ missed[port] :
            i \in DOMAIN rows[port] /\ i \in LooperIds /\ rows[port][i] = Read(i)
PluginCatchesUp == <>[]Agrees
=============================================================================
