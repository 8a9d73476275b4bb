---------------------------- MODULE EvidenceGraph ----------------------------
(***************************************************************************)
(* What a graph store of domain_graph promises to the callers of ingest(): *)
(* a batch of records is taken as a whole or not at all, nothing that was  *)
(* once taken is ever changed, a relation never points outside the graph,  *)
(* and a batch that was taken may be given again at any later time.        *)
(*                                                                         *)
(* The operators on batches model normalize_inputs(); InMemoryGraph and    *)
(* Neo4jStore, the two stores of the code, are shown to implement Spec.    *)
(***************************************************************************)
CONSTANTS
  Id,       \* record ids
  RelType,  \* the relation vocabulary (ALLOWED_RELATIONS)
  Node,     \* what normalize_inputs makes of a record, apart from its id
  Edge,     \* what it makes of a relation, apart from its key
  Batch,    \* the batches of records that callers submit
  Absent    \* marks an id or a key that is not registered

Key == [from : Id, type : RelType, to : Id]

ASSUME AbsentAssumption == Absent \notin Node /\ Absent \notin Edge

(***************************************************************************)
(* A batch is the set of the records given to one ingest() call: repeating *)
(* an equal record in the list has no effect, and neither has the order of *)
(* the list, except on which of several errors is reported.                *)
(***************************************************************************)
Record ==
  [id : Id, node : Node,
   relations : SUBSET [type : RelType, to : Id, edge : Edge]]

ASSUME BatchAssumption == Batch \subseteq SUBSET Record

\* The keyed relations that the records of B assert.
Assertions(B) ==
  UNION { { [key  |-> [from |-> r.id, type |-> x.type, to |-> x.to],
             edge |-> x.edge] : x \in r.relations } : r \in B }

\* normalize_inputs raises "conflicting record" or "conflicting relation".
SelfConflicting(B) ==
  \/ \E r, s \in B : r.id = s.id /\ r.node # s.node
  \/ \E x, y \in Assertions(B) : x.key = y.key /\ x.edge # y.edge

\* Otherwise it returns one node per id and one edge per key.
IdsOf(B)     == { r.id : r \in B }
KeysOf(B)    == { x.key : x \in Assertions(B) }
NodeOf_Raw(B, i) == CHOOSE r \in B : r.id = i
NodeOf(B, i) == (CHOOSE r \in B : r.id = i).node
EdgeOf(B, k) == (CHOOSE x \in Assertions(B) : x.key = k).edge

-----------------------------------------------------------------------------
VARIABLES
  nodes,     \* id  -> its node, or Absent
  edges,     \* key -> its edge, or Absent
  reply,     \* how the last completed ingest() ended
  accepted   \* history: the batches that were taken

vars == <<nodes, edges, reply, accepted>>

Replies == {"none", "ok", "conflicting_record", "unknown_target"}

Init ==
  /\ nodes = [i \in Id |-> Absent]
  /\ edges = [k \in Key |-> Absent]
  /\ reply = "none"
  /\ accepted = {}

\* Some node, or some edge, of B is registered with another value.
NodeClash(B) == \E i \in IdsOf(B)  : nodes[i] \notin {Absent, NodeOf(B, i)}
EdgeClash(B) == \E k \in KeysOf(B) : edges[k] \notin {Absent, EdgeOf(B, k)}

\* Some relation of B points to an id that neither the graph nor B registers.
Dangling(B) ==
  \E k \in KeysOf(B) : k.to \notin IdsOf(B) /\ nodes[k.to] = Absent

Accept(B) ==
  /\ ~ SelfConflicting(B) /\ ~ NodeClash(B) /\ ~ EdgeClash(B) /\ ~ Dangling(B)
  /\ nodes' = [i \in Id  |-> IF i \in IdsOf(B)  THEN NodeOf(B, i) ELSE nodes[i]]
  /\ edges' = [k \in Key |-> IF k \in KeysOf(B) THEN EdgeOf(B, k) ELSE edges[k]]
  /\ reply' = "ok"
  /\ accepted' = accepted \cup {B}

\* A batch with several faults may be refused for any of them, except that
\* relations are only looked at when the records themselves are sound.
Reject(B) ==
  /\ \/ /\ SelfConflicting(B) \/ NodeClash(B)
        /\ reply' = "conflicting_record"
     \/ /\ ~ SelfConflicting(B) /\ ~ NodeClash(B) /\ EdgeClash(B)
        /\ reply' = "conflicting_record"
     \/ /\ ~ SelfConflicting(B) /\ ~ NodeClash(B) /\ Dangling(B)
        /\ reply' = "unknown_target"
  /\ UNCHANGED <<nodes, edges, accepted>>

Next == \E B \in Batch : Accept(B) \/ Reject(B)

Spec == Init /\ [][Next]_vars

-----------------------------------------------------------------------------
TypeOK ==
  /\ nodes \in [Id  -> Node \cup {Absent}]
  /\ edges \in [Key -> Edge \cup {Absent}]
  /\ reply \in Replies
  /\ accepted \in SUBSET Batch

(***************************************************************************)
(* Both ends of every registered relation are registered records: the      *)
(* unknown-target check of ingest() and its order (all nodes first).       *)
(***************************************************************************)
EndpointsRegistered ==
  \A k \in Key : edges[k] # Absent => nodes[k.from] # Absent /\ nodes[k.to] # Absent

(***************************************************************************)
(* Everything an accepted batch said is still in the graph, so that giving *)
(* the batch again is accepted and changes nothing (README, policy 4: the  *)
(* same input can be processed again without duplicates or damage).        *)
(***************************************************************************)
AcceptedBatchesHold ==
  \A B \in accepted :
    /\ \A i \in IdsOf(B)  : nodes[i] = NodeOf(B, i)
    /\ \A k \in KeysOf(B) : edges[k] = EdgeOf(B, k)

(***************************************************************************)
(* A registered node or relation is never changed and never removed: an    *)
(* ingest() that disagrees with the graph is refused instead.              *)
(***************************************************************************)
NothingOverwritten ==
  [][ /\ \A i \in Id  : nodes[i] # Absent => nodes'[i] = nodes[i]
      /\ \A k \in Key : edges[k] # Absent => edges'[k] = edges[k] ]_<<nodes, edges>>
=============================================================================
