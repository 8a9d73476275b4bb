---------------------------- MODULE MCTraceQuery ----------------------------
(***************************************************************************)
(* Three records in a growing graph: relations in both directions, two of  *)
(* them one after the other, and two that are only proposed.  Ids are      *)
(* numbers here, because the order of keys matters.                        *)
(***************************************************************************)
EXTENDS TraceQuery

CONSTANTS c1, c2, IMPLEMENTS, approved, proposed

Link(to, edge) == [type |-> IMPLEMENTS, to |-> to, edge |-> edge]
Rec(id, node, relations) == [id |-> id, node |-> node, relations |-> relations]

MCId       == 1..3
MCRelType  == {IMPLEMENTS}
MCNode     == {approved, proposed}
MCEdge     == {approved, proposed}
MCApproved == {approved}
MCClient   == {c1, c2}
MCReader   == {c2}
MCRank     == [k \in Key |-> 4 * k.from + k.to]

MCBatch ==
  { { Rec(1, approved, {}), Rec(2, approved, {Link(1, approved)}) },
    { Rec(1, approved, {}), Rec(2, proposed, {Link(1, approved)}) },
    { Rec(3, approved, {Link(1, approved), Link(2, proposed)}) },
    { Rec(1, approved, {Link(3, proposed)}), Rec(3, approved, {}) } }

Ask(start, target, direction, isProposed) ==
  [start |-> start, target |-> target, direction |-> direction, types |-> MCRelType,
   depth |-> 2, proposed |-> isProposed]

MCRequest ==
  { Ask(1, Absent, "inbound", FALSE), Ask(1, 3, "both", TRUE) }
=============================================================================
