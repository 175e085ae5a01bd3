--------------------------- MODULE MCRemoteScript ---------------------------
\* Two tracks with a looper and, where a device of another kind matters, one
\* without, so that an insertion or deletion shifts a looper's index and can
\* put the plain device in its place.
EXTENDS RemoteScript

CONSTANTS a, b, c

MCLoopers == {a, b}
MCTracks == {a, b, c}
MCOne == <<a>>
MCMixed == <<a, c>>

Distinct(t) == t
=============================================================================
