------------------------- MODULE EvidenceGraphProofs -------------------------
(***************************************************************************)
(* Theorems of the promise that both graph stores make, for every set of   *)
(* ids, nodes, edges and batches.                                          *)
(***************************************************************************)
EXTENDS EvidenceGraph, TLAPS

\* What normalize_inputs yields for an id of the batch is a node.
LEMMA NodeOfIsNode ==
  ASSUME NEW B \in Batch, NEW i \in IdsOf(B)
  PROVE  NodeOf(B, i) \in Node /\ NodeOf(B, i) # Absent /\ i \in Id
<1>1. PICK r \in B : r.id = i
  BY DEF IdsOf
<1>2. (CHOOSE s \in B : s.id = i) \in B /\ (CHOOSE s \in B : s.id = i).id = i
  BY <1>1
<1>3. \A s \in B : s.id \in Id /\ s.node \in Node
  BY BatchAssumption DEF Record
<1> QED
  BY <1>2, <1>3, AbsentAssumption DEF NodeOf

\* A relation of the batch has a key that starts at a record of the batch.
LEMMA AssertionsOfBatch ==
  ASSUME NEW B \in Batch
  PROVE  \A x \in Assertions(B) :
           x.key \in Key /\ x.edge \in Edge /\ x.key.from \in IdsOf(B)
<1> SUFFICES ASSUME NEW x \in Assertions(B)
             PROVE  x.key \in Key /\ x.edge \in Edge /\ x.key.from \in IdsOf(B)
  OBVIOUS
<1>1. PICK r \in B : \E y \in r.relations :
        x = [key  |-> [from |-> r.id, type |-> y.type, to |-> y.to],
             edge |-> y.edge]
  BY DEF Assertions
<1>2. r \in Record
  BY BatchAssumption
<1>3. PICK y \in r.relations :
        x = [key  |-> [from |-> r.id, type |-> y.type, to |-> y.to],
             edge |-> y.edge]
  BY <1>1
<1>4. r.id \in Id /\ y.type \in RelType /\ y.to \in Id /\ y.edge \in Edge
  BY <1>2 DEF Record
<1> QED
  BY <1>3, <1>4 DEF Key, IdsOf

\* What normalize_inputs yields for a key of the batch is an edge.
LEMMA EdgeOfIsEdge ==
  ASSUME NEW B \in Batch, NEW k \in KeysOf(B)
  PROVE  /\ EdgeOf(B, k) \in Edge /\ EdgeOf(B, k) # Absent
         /\ k \in Key /\ k.from \in IdsOf(B)
<1>1. PICK x \in Assertions(B) : x.key = k
  BY DEF KeysOf
<1>2. /\ (CHOOSE y \in Assertions(B) : y.key = k) \in Assertions(B)
      /\ (CHOOSE y \in Assertions(B) : y.key = k).key = k
  BY <1>1
<1> QED
  BY <1>2, AssertionsOfBatch, AbsentAssumption DEF EdgeOf

\* A batch that is taken puts nodes and edges into the graph.
LEMMA AcceptTyped ==
  ASSUME NEW B \in Batch, Accept(B),
         nodes \in [Id -> Node \cup {Absent}], edges \in [Key -> Edge \cup {Absent}]
  PROVE  nodes' \in [Id -> Node \cup {Absent}] /\ edges' \in [Key -> Edge \cup {Absent}]
<1>1. nodes' \in [Id -> Node \cup {Absent}]
  BY NodeOfIsNode DEF Accept
<1>2. edges' \in [Key -> Edge \cup {Absent}]
  BY EdgeOfIsEdge DEF Accept
<1> QED
  BY <1>1, <1>2

\* The variables of the graph have their types in every reachable state.
THEOREM TypeCorrect == Spec => []TypeOK
<1>1. Init => TypeOK
  BY DEF Init, TypeOK, Replies
<1>2. TypeOK /\ [Next]_vars => TypeOK'
  <2> SUFFICES ASSUME TypeOK, [Next]_vars PROVE TypeOK'
    OBVIOUS
  <2>1. ASSUME NEW B \in Batch, Accept(B) PROVE TypeOK'
    <3>1. accepted' \in SUBSET Batch /\ reply' \in Replies
      BY <2>1 DEF Accept, TypeOK, Replies
    <3> QED
      BY <2>1, <3>1, AcceptTyped DEF TypeOK
  <2>2. ASSUME NEW B \in Batch, Reject(B) PROVE TypeOK'
    BY <2>2 DEF Reject, TypeOK, Replies
  <2>3. CASE UNCHANGED vars
    BY <2>3 DEF vars, TypeOK
  <2> QED
    BY <2>1, <2>2, <2>3 DEF Next
<1> QED
  BY <1>1, <1>2, PTL DEF Spec

\* No step of the store takes away or changes what is registered.
LEMMA StepKeeps ==
  ASSUME [Next]_vars
  PROVE  /\ \A i \in Id  : nodes[i] # Absent => nodes'[i] = nodes[i]
         /\ \A k \in Key : edges[k] # Absent => edges'[k] = edges[k]
<1>1. ASSUME NEW B \in Batch, Accept(B)
      PROVE  /\ \A i \in Id  : nodes[i] # Absent => nodes'[i] = nodes[i]
             /\ \A k \in Key : edges[k] # Absent => edges'[k] = edges[k]
  BY <1>1 DEF Accept, NodeClash, EdgeClash
<1>2. ASSUME NEW B \in Batch, Reject(B)
      PROVE  nodes' = nodes /\ edges' = edges
  BY <1>2 DEF Reject
<1>3. CASE UNCHANGED vars
  BY <1>3 DEF vars
<1> QED
  BY <1>1, <1>2, <1>3 DEF Next

(***************************************************************************)
(* A registered node or relation is never changed and never removed.       *)
(***************************************************************************)
THEOREM RegisteredForever == Spec => NothingOverwritten
<1>1. [Next]_vars =>
        [ /\ \A i \in Id  : nodes[i] # Absent => nodes'[i] = nodes[i]
          /\ \A k \in Key : edges[k] # Absent => edges'[k] = edges[k] ]_<<nodes, edges>>
  BY StepKeeps
<1> QED
  BY <1>1, PTL DEF Spec, NothingOverwritten

\* A relation is registered with or after its ends.
LEMMA EndpointsStep ==
  ASSUME EndpointsRegistered, [Next]_vars
  PROVE  EndpointsRegistered'
<1> SUFFICES ASSUME NEW k \in Key, edges'[k] # Absent
             PROVE  nodes'[k.from] # Absent /\ nodes'[k.to] # Absent
  BY DEF EndpointsRegistered
<1>0. k.from \in Id /\ k.to \in Id
  BY DEF Key
<1>1. CASE edges[k] # Absent
  BY <1>0, <1>1, StepKeeps DEF EndpointsRegistered
<1>2. CASE edges[k] = Absent
  <2>1. PICK B \in Batch : Accept(B)
    BY <1>2 DEF Next, Reject, vars
  <2>2. k \in KeysOf(B)
    BY <1>2, <2>1 DEF Accept
  <2>3. nodes'[k.from] # Absent
    BY <1>0, <2>1, <2>2, EdgeOfIsEdge, NodeOfIsNode DEF Accept
  <2>4. nodes'[k.to] # Absent
    BY <1>0, <2>1, <2>2, NodeOfIsNode DEF Accept, Dangling
  <2> QED
    BY <2>3, <2>4
<1> QED
  BY <1>1, <1>2

(***************************************************************************)
(* No relation points outside the graph: it is registered after its ends,  *)
(* and those stay.                                                         *)
(***************************************************************************)
THEOREM NoDanglingRelation == Spec => []EndpointsRegistered
<1>1. Init => EndpointsRegistered
  BY DEF Init, EndpointsRegistered
<1> QED
  BY <1>1, EndpointsStep, PTL DEF Spec

(***************************************************************************)
(* Everything an accepted batch said still holds, so it can be given again *)
(* and changes nothing (README, policy 4).                                 *)
(***************************************************************************)
THEOREM AcceptedForever == Spec => []AcceptedBatchesHold
<1>1. Init => AcceptedBatchesHold
  BY DEF Init, AcceptedBatchesHold
<1>2. TypeOK /\ AcceptedBatchesHold /\ [Next]_vars => AcceptedBatchesHold'
  <2> SUFFICES ASSUME TypeOK, AcceptedBatchesHold, [Next]_vars,
                      NEW B \in accepted'
               PROVE  /\ \A i \in IdsOf(B)  : nodes'[i] = NodeOf(B, i)
                      /\ \A k \in KeysOf(B) : edges'[k] = EdgeOf(B, k)
    BY DEF AcceptedBatchesHold
  <2>1. CASE B \in accepted
    <3>1. B \in Batch
      BY <2>1 DEF TypeOK
    <3>2. \A i \in IdsOf(B) : i \in Id /\ nodes[i] = NodeOf(B, i) /\ nodes[i] # Absent
      BY <2>1, <3>1, NodeOfIsNode DEF AcceptedBatchesHold
    <3>3. \A k \in KeysOf(B) : k \in Key /\ edges[k] = EdgeOf(B, k) /\ edges[k] # Absent
      BY <2>1, <3>1, EdgeOfIsEdge DEF AcceptedBatchesHold
    <3> QED
      BY <3>2, <3>3, StepKeeps
  <2>2. CASE B \notin accepted
    <3>1. PICK C \in Batch : Accept(C)
      BY <2>2 DEF Next, Reject, vars
    <3>2. B = C
      BY <2>2, <3>1 DEF Accept
    <3>3. B \in Batch
      BY <3>2
    <3>4. \A i \in IdsOf(B) : nodes'[i] = NodeOf(B, i)
      BY <3>1, <3>2, <3>3, NodeOfIsNode DEF Accept
    <3>5. \A k \in KeysOf(B) : edges'[k] = EdgeOf(B, k)
      BY <3>1, <3>2, <3>3, EdgeOfIsEdge DEF Accept
    <3> QED
      BY <3>4, <3>5
  <2> QED
    BY <2>1, <2>2
<1> QED
  BY <1>1, <1>2, TypeCorrect, PTL DEF Spec
=============================================================================
