---------------------------- MODULE MCNeo4jStore ----------------------------
(***************************************************************************)
(* Two ids, one relation type, and the batches that the runs put together: *)
(* records that agree and records that a later import or an AI inference   *)
(* contradicts.                                                            *)
(***************************************************************************)
EXTENDS Neo4jStore

CONSTANTS a, b, RELATES_TO, t1, t2, doc1, doc2

Link(to, edge) == [type |-> RELATES_TO, to |-> to, edge |-> edge]
Rec(id, node, relations) == [id |-> id, node |-> node, relations |-> relations]

N(title, status, method, extra, prov) ==
  [title |-> title, status |-> status, method |-> method, extra |-> extra, prov |-> prov]
E(status, method, conf, src, pconf) ==
  [status |-> status, method |-> method, conf |-> conf,
   prov |-> [src |-> src, conf |-> pconf]]

Approved == N(t1, "approved", "manual", "open", doc1)
Revised  == N(t2, "approved", "manual", "open", doc1)
Recopied == N(t1, "approved", "manual", "open", doc2)
Bare     == N(t1, "approved", "manual", Missing, doc1)
Inferred == N(t2, "proposed", "ai_inferred", Missing, doc2)

ApprovedEdge == E("approved", "manual", 1, doc1, 1)
InferredEdge == E("proposed", "ai_inferred", 1, doc2, 1)
SyncedEdge   == E("approved", "manual", 1, doc2, 1)
DoubtedEdge  == E("approved", "manual", 0, doc1, 1)

MCId      == {a, b}
MCRelType == {RELATES_TO}
MCNode    == {Approved, Revised, Recopied, Bare, Inferred}
MCEdge    == {ApprovedEdge, SyncedEdge, InferredEdge, DoubtedEdge}

\* Records that disagree, for writers that overlap.
Disagreeing ==
  { {Rec(a, Approved, {})}, {Rec(a, Inferred, {})},
    {Rec(a, Approved, {Link(b, ApprovedEdge)}), Rec(b, Approved, {})},
    {Rec(b, Revised, {Link(a, InferredEdge)})} }

\* One confidence per relation, b without the optional field, a in two documents.
Plain ==
  { {Rec(a, Approved, {})}, {Rec(a, Revised, {})},
    {Rec(a, Approved, {Link(b, ApprovedEdge)})}, {Rec(a, Recopied, {Link(b, ApprovedEdge)})},
    {Rec(a, Approved, {Link(b, InferredEdge)}), Rec(b, Bare, {})},
    {Rec(a, Approved, {Link(b, SyncedEdge)}), Rec(b, Bare, {})},
    {Rec(b, Bare, {Link(a, ApprovedEdge), Link(b, ApprovedEdge)})},
    {Rec(b, Inferred, {}), Rec(b, Bare, {})} }

\* A relation that is less certain than the document it was read from.
Doubted == { {Rec(a, Approved, {Link(a, DoubtedEdge)})} }

\* A relation and the target it waits for.
Crossing == { {Rec(a, Approved, {Link(b, ApprovedEdge)})}, {Rec(b, Approved, {})} }

\* A human's relation and an AI's.
Contested ==
  { {Rec(a, Approved, {Link(a, ApprovedEdge)})}, {Rec(a, Approved, {Link(a, InferredEdge)})} }
=============================================================================
