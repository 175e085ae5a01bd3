------------------------------ MODULE MCSystem ------------------------------
\* As MCRemoteScript, for the composed system.
EXTENDS System

CONSTANTS a, b, c

MCLoopers == {a, b}
MCOne == <<a>>

\* With the name a duplicated track keeps, RowsAreCurrent fails (README,
\* "Names").
Distinct(t) == t
Duplicated(t) == IF t = b THEN a ELSE t
=============================================================================
