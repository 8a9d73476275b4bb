--------------------------- MODULE MCInMemoryGraph ---------------------------
(***************************************************************************)
(* Three ids and every batch of one or two of five records: a comes in     *)
(* versions that disagree in its node or in its relation, and every target *)
(* of a relation can be missing when it is needed.                         *)
(***************************************************************************)
EXTENDS InMemoryGraph, FiniteSets, Integers

CONSTANTS a, b, c, RELATES_TO, n1, n2, e1, e2

Link(to, edge) == [type |-> RELATES_TO, to |-> to, edge |-> edge]
Rec(id, node, relations) == [id |-> id, node |-> node, relations |-> relations]

MCId      == {a, b, c}
MCRelType == {RELATES_TO}
MCNode    == {n1, n2}
MCEdge    == {e1, e2}
MCBatch   ==
  LET MCRecord == { Rec(a, n1, {Link(b, e1)}), Rec(a, n1, {Link(b, e2)}),
                    Rec(a, n2, {}),
                    Rec(b, n1, {Link(a, e1), Link(c, e1)}),
                    Rec(c, n1, {Link(c, e1)}) }
  IN  { B \in SUBSET MCRecord : Cardinality(B) \in 1..2 }
=============================================================================
