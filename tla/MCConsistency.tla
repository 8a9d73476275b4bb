---------------------------- MODULE MCConsistency ----------------------------
(***************************************************************************)
(* A requirement, a design and a piece of code, approved with complete     *)
(* provenance or without, or only proposed, in batches that arrive in any  *)
(* order; checks of the whole graph against two bases and of two scopes.   *)
(***************************************************************************)
EXTENDS Consistency

CONSTANTS req, dsn, code, fact, bare, proposed, rev

Link(to, edge) == [type |-> IMPLEMENTS, to |-> to, edge |-> edge]
Rec(id, kind, quality, relations) ==
  [id |-> id, node |-> [kind |-> kind, quality |-> quality], relations |-> relations]

MCRevision == {Absent, rev}

MCId      == {req, dsn, code}
MCRelType == {IMPLEMENTS}
Quality   == {fact, bare, proposed}
MCNode    == [kind : {"Requirement", "Design", "Code"}, quality : Quality]
MCEdge    == Quality
MCKind    == [n \in MCNode |-> n.kind]

MCFactNode     == { n \in MCNode : n.quality = fact }
MCApprovedNode == { n \in MCNode : n.quality # proposed }
MCFactEdge     == {fact}
MCApprovedEdge == {fact, bare}

MCBatch ==
  { {Rec(req, "Requirement", fact, {})}, {Rec(req, "Requirement", proposed, {})},
    {Rec(dsn, "Design", fact, {Link(req, fact)})},
    {Rec(dsn, "Design", fact, {Link(req, bare)})}, {Rec(dsn, "Design", fact, {Link(req, proposed)})},
    {Rec(dsn, "Design", proposed, {Link(req, proposed)})},
    {Rec(code, "Code", fact, {Link(dsn, fact)})},
    {Rec(code, "Code", bare, {Link(req, bare), Link(dsn, bare)})},
    {Rec(code, "Code", proposed, {Link(dsn, fact)})},
    {Rec(dsn, "Design", fact, {}), Rec(code, "Code", fact, {Link(req, fact)})} }

Ask(scope, isProposed, base) == [scope |-> scope, proposed |-> isProposed, base |-> base]

MCRequest ==
  { Ask({}, TRUE, Absent), Ask({}, TRUE, rev), Ask({req}, FALSE, Absent),
    Ask({dsn, code}, TRUE, Absent) }
=============================================================================
