------------------------ MODULE MCSnapshotPublisher ------------------------
(***************************************************************************)
(* Two jobs that collide on one sync id, with two payloads, each of them   *)
(* proposed or approved and well dated or not, under a loader that refuses *)
(* the values of one payload.                                              *)
(***************************************************************************)
EXTENDS SnapshotPublisher

CONSTANTS j1, j2, s1, x1, x2, good, bad

MCJob      == {j1, j2}
MCSyncId   == {s1}
MCSnapshot == {x1, x2}
MCValid    == {x1}
MCFields   == {good, bad}
MCGood     == {good}
=============================================================================
