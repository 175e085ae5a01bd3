---------------------------- MODULE MCTrackList ----------------------------
\* Feedback on a three-point grid of which neighbours compare equal: 0 and 1
\* are Same, 1 and 2 are, 0 and 2 are not, so swallowed pushes could drift.
\* A double click is two clicks less than two units apart.
EXTENDS TrackList
=============================================================================
