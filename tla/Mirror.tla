------------------------------- MODULE Mirror -------------------------------
(***************************************************************************)
(* What the plugin's copy of the Live set promises, whatever lies between: *)
(* a row shows what the looper it names once was, never anything else, and *)
(* once the plugin has shown a looper it shows nothing older of it.  Every *)
(* assignment is given a new value here, so that values tell readings      *)
(* apart; a copy may lag behind by any number of them.                     *)
(***************************************************************************)
EXTENDS Integers

CONSTANTS Track, Plugin, Id

VARIABLES
    value,    \* the parameter of each track's looper
    rows      \* each plugin's rows: id -> [id, track, value]

Init ==
    /\ value \in [Track -> Nat]
    /\ rows = [p \in Plugin |-> << >>]

Change(t) ==
    /\ value' = [value EXCEPT ![t] = @ + 1]
    /\ UNCHANGED rows

\* Row e.id comes to show e.
Show(p, e) ==
    /\ e.value <= value[e.track]
    /\ \A i \in DOMAIN rows[p] : rows[p][i].track = e.track => rows[p][i].value <= e.value
    /\ rows' = [rows EXCEPT ![p] = [i \in DOMAIN @ \cup {e.id} |->
                                       IF i = e.id THEN e ELSE @[i]]]
    /\ UNCHANGED value

Next ==
    \/ \E t \in Track : Change(t)
    \/ \E p \in Plugin, i \in Id, t \in Track : \E v \in 0..value[t] :
           Show(p, [id |-> i, track |-> t, value |-> v])

Spec == Init /\ [][Next]_<<value, rows>>
=============================================================================
