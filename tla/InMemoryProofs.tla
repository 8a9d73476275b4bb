--------------------------- MODULE InMemoryProofs ---------------------------
(***************************************************************************)
(* What the in-memory store and the query service above it keep, for every *)
(* set of ids, nodes, edges, batches, clients and requests, and every      *)
(* number of requests in flight: InMemoryGraph implements EvidenceGraph    *)
(* and inherits what is proved of it; TraceQuery, which asks that graph,   *)
(* loses no relation between the pages of a query, delivers none twice and *)
(* none its client may not see, and the three backends agree on whether a  *)
(* path is there, as far as seven hops reach.                              *)
(***************************************************************************)
EXTENDS InMemoryGraph, TraceQuery, EvidenceGraphProofs, FiniteSetTheorems

IInv == InMemoryTypeOK /\ Progress

LEMMA InitIInv == InMemoryInit => IInv
<1> SUFFICES ASSUME InMemoryInit PROVE IInv
  OBVIOUS
<1>1. IdsOf({}) = {} /\ KeysOf({}) = {}
  BY DEF IdsOf, KeysOf, Assertions
<1>2. InMemoryTypeOK
  BY DEF InMemoryInit, Init, InMemoryTypeOK, TypeOK, Replies
<1>3. Progress
  BY <1>1 DEF InMemoryInit, Init, Progress
<1> QED
  BY <1>2, <1>3 DEF IInv

LEMMA BatchTyped ==
  ASSUME IInv, pc # "idle"
  PROVE  /\ batch \in Batch
         /\ \A i \in IdsOf(batch)  : NodeOf(batch, i) \in Node /\ NodeOf(batch, i) # Absent /\ i \in Id
         /\ \A k \in KeysOf(batch) : EdgeOf(batch, k) \in Edge /\ EdgeOf(batch, k) # Absent /\ k \in Key
BY NodeOfIsNode, EdgeOfIsEdge DEF IInv, Progress

LEMMA StepIInv == IInv /\ [InMemoryNext]_allVars => IInv'
<1> SUFFICES ASSUME IInv, [InMemoryNext]_allVars PROVE IInv'
  OBVIOUS
<1> USE DEF IInv
<1>0. IdsOf({}) = {} /\ KeysOf({}) = {}
  BY DEF IdsOf, KeysOf, Assertions
<1>1. ASSUME NEW B \in Batch, IngestUnsound(B) PROVE IInv'
  <2>1. InMemoryTypeOK'
    BY <1>1 DEF IngestUnsound, InMemoryTypeOK, TypeOK, Replies, locals
  <2>2. Progress'
    BY <1>1 DEF IngestUnsound, Progress, locals
  <2> QED
    BY <2>1, <2>2
<1>2. ASSUME NEW B \in Batch, IngestBegin(B) PROVE IInv'
  <2>1. InMemoryTypeOK'
    BY <1>2, NodeOfIsNode, EdgeOfIsEdge DEF IngestBegin, InMemoryTypeOK, TypeOK, vars
  <2>2. nodes = [i \in Id |-> nodes[i]] /\ edges = [k \in Key |-> edges[k]]
    BY DEF InMemoryTypeOK, TypeOK
  <2>3. Progress'
    BY <1>2, <2>2 DEF IngestBegin, Progress, vars
  <2> QED
    BY <2>1, <2>3
<1>3. ASSUME NEW error \in Replies, Rollback(error) PROVE IInv'
  <2>1. InMemoryTypeOK'
    BY <1>3 DEF Rollback, InMemoryTypeOK, TypeOK
  <2>2. old_nodes = [i \in Id |-> old_nodes[i]] /\ old_edges = [k \in Key |-> old_edges[k]]
    BY DEF InMemoryTypeOK
  <2>3. Progress'
    BY <1>0, <1>3, <2>2 DEF Rollback, Progress
  <2> QED
    BY <2>1, <2>3
<1>4. ASSUME NEW i \in Id, PutNode(i) PROVE IInv'
  <2>1. InMemoryTypeOK'
    BY <1>4, BatchTyped DEF PutNode, InMemoryTypeOK, TypeOK, Progress
  <2>2. /\ nodes[i] = old_nodes[i] /\ i \in IdsOf(batch)
        /\ nodes' = [nodes EXCEPT ![i] = NodeOf(batch, i)]
    BY <1>4 DEF PutNode, Progress
  <2>3. nodes' = [j \in Id |-> IF j \in IdsOf(batch') \ todo_nodes'
                               THEN NodeOf(batch', j) ELSE old_nodes'[j]]
    BY <1>4, <2>2 DEF PutNode, Progress
  <2>4. \A j \in IdsOf(batch') \ todo_nodes' :
           old_nodes'[j] \in {Absent, NodeOf(batch', j)}
    BY <1>4, <2>2 DEF PutNode, Progress
  <2>5. \A k \in KeysOf(batch') \ todo_edges' :
           /\ old_edges'[k] \in {Absent, EdgeOf(batch', k)}
           /\ nodes'[k.to] # Absent
    BY <1>4 DEF PutNode, Progress
  <2>6. edges' = [k \in Key |-> IF k \in KeysOf(batch') \ todo_edges'
                                THEN EdgeOf(batch', k) ELSE old_edges'[k]]
    BY <1>4 DEF PutNode, Progress
  <2>7. Progress'
    BY <1>4, <2>3, <2>4, <2>5, <2>6 DEF PutNode, Progress
  <2> QED
    BY <2>1, <2>7
<1>5. ASSUME NEW i \in Id, RefuseNode(i) PROVE IInv'
  BY <1>3, <1>5 DEF RefuseNode, Replies
<1>6. ASSUME NodesDone PROVE IInv'
  <2>1. InMemoryTypeOK'
    BY <1>6 DEF NodesDone, InMemoryTypeOK, TypeOK, vars
  <2>2. Progress'
    BY <1>6 DEF NodesDone, Progress, vars
  <2> QED
    BY <2>1, <2>2
<1>7. ASSUME NEW k \in Key, PutEdge(k) PROVE IInv'
  <2>1. InMemoryTypeOK'
    BY <1>7, BatchTyped DEF PutEdge, InMemoryTypeOK, TypeOK, Progress
  <2>2. /\ edges[k] = old_edges[k] /\ k \in KeysOf(batch)
        /\ edges' = [edges EXCEPT ![k] = EdgeOf(batch, k)]
    BY <1>7 DEF PutEdge, Progress
  <2>3. edges' = [j \in Key |-> IF j \in KeysOf(batch') \ todo_edges'
                                THEN EdgeOf(batch', j) ELSE old_edges'[j]]
    BY <1>7, <2>2 DEF PutEdge, Progress
  <2>4. \A j \in KeysOf(batch') \ todo_edges' :
           /\ old_edges'[j] \in {Absent, EdgeOf(batch', j)}
           /\ nodes'[j.to] # Absent
    BY <1>7, <2>2 DEF PutEdge, Progress
  <2>5. Progress'
    BY <1>7, <2>3, <2>4 DEF PutEdge, Progress
  <2> QED
    BY <2>1, <2>5
<1>8. ASSUME NEW k \in Key, RefuseEdge(k) PROVE IInv'
  BY <1>3, <1>8 DEF RefuseEdge, Replies
<1>9. ASSUME IngestReturn PROVE IInv'
  <2>1. InMemoryTypeOK'
    BY <1>9, BatchTyped DEF IngestReturn, InMemoryTypeOK, TypeOK, Replies
  <2>2. nodes = [i \in Id |-> nodes[i]] /\ edges = [k \in Key |-> edges[k]]
    BY DEF InMemoryTypeOK, TypeOK
  <2>3. Progress'
    BY <1>0, <1>9, <2>2 DEF IngestReturn, Progress
  <2> QED
    BY <2>1, <2>3
<1>10. CASE UNCHANGED allVars
  BY <1>10 DEF allVars, vars, locals, InMemoryTypeOK, TypeOK, Progress
<1> QED
  BY <1>1, <1>2, <1>4, <1>5, <1>6, <1>7, <1>8, <1>9, <1>10 DEF InMemoryNext

(***************************************************************************)
(* In every reachable state the variables have their types, and a running  *)
(* call has written exactly what its loops have passed.                    *)
(***************************************************************************)
THEOREM InMemoryInvariant == InMemorySpec => [](InMemoryTypeOK /\ Progress)
<1>1. InMemorySpec => []IInv
  BY InitIInv, StepIInv, PTL DEF InMemorySpec
<1> QED
  BY <1>1, PTL DEF IInv

(***************************************************************************)
(* The variables of ingest() have their types; a running call has a batch  *)
(* of the input, and what its loops have still to write is part of it.     *)
(***************************************************************************)
THEOREM InMemoryTypeCorrect == InMemorySpec => []InMemoryTypeOK
BY InMemoryInvariant, PTL

\* The store seen through the copies uses the same operators on batches.
LEMMA SameOperators ==
  ASSUME NEW B
  PROVE  /\ Store!SelfConflicting(B) <=> SelfConflicting(B)
         /\ Store!IdsOf(B) = IdsOf(B)
         /\ Store!KeysOf(B) = KeysOf(B)
         /\ \A i : Store!NodeOf(B, i) = NodeOf(B, i)
         /\ \A k : Store!EdgeOf(B, k) = EdgeOf(B, k)
<1>1. Store!Assertions(B) = Assertions(B)
  BY DEF Store!Assertions, Assertions
<1>2. Store!IdsOf(B) = IdsOf(B) /\ Store!KeysOf(B) = KeysOf(B)
  BY <1>1 DEF Store!IdsOf, IdsOf, Store!KeysOf, KeysOf
<1>3. /\ \A i : Store!NodeOf(B, i) = NodeOf(B, i)
      /\ \A k : Store!EdgeOf(B, k) = EdgeOf(B, k)
  BY <1>1 DEF Store!NodeOf, NodeOf, Store!EdgeOf, EdgeOf
<1>4. Store!SelfConflicting(B) <=> SelfConflicting(B)
  BY <1>1 DEF Store!SelfConflicting, SelfConflicting
<1> QED
  BY <1>2, <1>3, <1>4

(***************************************************************************)
(* Every step of ingest() is a step of the promised store or leaves it     *)
(* alone: only the return takes the batch, and a failure leaves the store  *)
(* as the call found it.                                                   *)
(***************************************************************************)
LEMMA StepImplements == IInv /\ [InMemoryNext]_allVars => [Store!Next]_(Store!vars)
<1> SUFFICES ASSUME IInv, [InMemoryNext]_allVars PROVE [Store!Next]_(Store!vars)
  OBVIOUS
<1> USE DEF IInv
<1>1. ASSUME NEW B \in Batch, IngestUnsound(B) PROVE Store!Next
  BY <1>1, SameOperators DEF IngestUnsound, locals, Store!Next, Store!Reject
<1>2. ASSUME NEW B \in Batch, IngestBegin(B) PROVE UNCHANGED Store!vars
  BY <1>2 DEF IngestBegin, vars, Progress, Store!vars
<1>3. ASSUME NEW i \in Id, PutNode(i) PROVE UNCHANGED Store!vars
  BY <1>3 DEF PutNode, Store!vars
<1>4. ASSUME NEW i \in Id, RefuseNode(i) PROVE Store!Next
  <2>1. batch \in Batch /\ i \in IdsOf(batch) /\ old_nodes[i] \notin {Absent, NodeOf(batch, i)}
    BY <1>4 DEF RefuseNode, Progress
  <2>2. Store!NodeClash(batch)
    BY <2>1, SameOperators DEF Store!NodeClash
  <2>3. Store!Reject(batch)
    BY <1>4, <2>2 DEF RefuseNode, Rollback, Store!Reject
  <2> QED
    BY <2>1, <2>3 DEF Store!Next
<1>5. ASSUME NodesDone PROVE UNCHANGED Store!vars
  BY <1>5 DEF NodesDone, vars, Store!vars
<1>6. ASSUME NEW k \in Key, PutEdge(k) PROVE UNCHANGED Store!vars
  BY <1>6 DEF PutEdge, Store!vars
<1>7. ASSUME pc = "edges"
      PROVE  batch \in Batch /\ ~ Store!SelfConflicting(batch) /\ ~ Store!NodeClash(batch)
  BY <1>7, SameOperators DEF Progress, Store!NodeClash
<1>8. ASSUME NEW k \in Key, RefuseEdge(k) PROVE Store!Next
  <2>1. k \in KeysOf(batch) /\ edges[k] = old_edges[k] /\ pc = "edges"
    BY <1>8 DEF RefuseEdge, Progress
  <2>2. CASE nodes[k.to] = Absent /\ Rollback("unknown_target")
    <3>0. k.to \in Id
      BY DEF Key
    <3>1. k.to \notin IdsOf(batch) /\ old_nodes[k.to] = Absent
      BY <2>1, <2>2, <3>0, BatchTyped DEF Progress
    <3>2. Store!Dangling(batch)
      BY <2>1, <3>1, SameOperators DEF Store!Dangling
    <3>3. Store!Reject(batch)
      BY <1>7, <2>1, <2>2, <3>2 DEF Rollback, Store!Reject
    <3> QED
      BY <1>7, <2>1, <3>3 DEF Store!Next
  <2>3. CASE edges[k] \notin {Absent, EdgeOf(batch, k)} /\ Rollback("conflicting_record")
    <3>1. Store!EdgeClash(batch)
      BY <2>1, <2>3, SameOperators DEF Store!EdgeClash
    <3>2. Store!Reject(batch)
      BY <1>7, <2>1, <2>3, <3>1 DEF Rollback, Store!Reject
    <3> QED
      BY <1>7, <2>1, <3>2 DEF Store!Next
  <2> QED
    BY <1>8, <2>2, <2>3 DEF RefuseEdge
<1>9. ASSUME IngestReturn PROVE Store!Next
  <2>1. pc = "edges" /\ todo_edges = {} /\ todo_nodes = {}
    BY <1>9 DEF IngestReturn, Progress
  <2>2. ~ Store!EdgeClash(batch)
    BY <2>1, SameOperators DEF Progress, Store!EdgeClash
  <2>3. ~ Store!Dangling(batch)
    <3> SUFFICES ASSUME NEW k \in KeysOf(batch), k.to \notin IdsOf(batch)
                 PROVE  old_nodes[k.to] # Absent
      BY SameOperators DEF Store!Dangling
    <3>1. k.to \in Id
      BY <2>1, BatchTyped DEF Key
    <3>2. nodes[k.to] # Absent /\ nodes[k.to] = old_nodes[k.to]
      BY <2>1, <3>1 DEF Progress
    <3> QED
      BY <3>2
  <2>4. /\ old_nodes' = [i \in Id |-> IF i \in Store!IdsOf(batch)
                                      THEN Store!NodeOf(batch, i) ELSE old_nodes[i]]
        /\ old_edges' = [k \in Key |-> IF k \in Store!KeysOf(batch)
                                       THEN Store!EdgeOf(batch, k) ELSE old_edges[k]]
    BY <1>9, <2>1, SameOperators DEF IngestReturn, Progress
  <2>5. Store!Key = Key
    BY DEF Store!Key, Key
  <2>6. Store!Accept(batch)
    BY <1>7, <1>9, <2>1, <2>2, <2>3, <2>4, <2>5 DEF IngestReturn, Store!Accept
  <2> QED
    BY <1>7, <2>1, <2>6 DEF Store!Next
<1>10. CASE UNCHANGED allVars
  BY <1>10 DEF allVars, vars, locals, Store!vars
<1> QED
  BY <1>1, <1>2, <1>3, <1>4, <1>5, <1>6, <1>8, <1>9, <1>10 DEF InMemoryNext

(***************************************************************************)
(* InMemoryGraph implements EvidenceGraph.                                 *)
(***************************************************************************)
THEOREM Refinement == InMemorySpec => ImplementsEvidenceGraph
<1>1. InMemoryInit => Store!Init
  BY DEF InMemoryInit, Init, Store!Init, Key, Store!Key
<1>2. InMemorySpec => []IInv
  BY InMemoryInvariant, PTL DEF IInv
<1> QED
  BY <1>1, <1>2, StepImplements, PTL DEF InMemorySpec, ImplementsEvidenceGraph, Store!Spec

\* The theorems of EvidenceGraph, about the store seen through the copies.
Promise == INSTANCE EvidenceGraphProofs WITH nodes <- old_nodes, edges <- old_edges

LEMMA StoreSpec == InMemorySpec => Promise!Spec
<1>1. Store!Init => Promise!Init
  BY DEF Store!Init, Promise!Init, Store!Key, Promise!Key
<1>2. [Store!Next]_(Store!vars) => [Promise!Next]_(Promise!vars)
  BY DEF Store!Next, Promise!Next, Store!vars, Promise!vars, Store!Accept, Promise!Accept,
         Store!Reject, Promise!Reject, Store!SelfConflicting, Promise!SelfConflicting,
         Store!NodeClash, Promise!NodeClash, Store!EdgeClash, Promise!EdgeClash,
         Store!Dangling, Promise!Dangling, Store!IdsOf, Promise!IdsOf, Store!KeysOf, Promise!KeysOf,
         Store!NodeOf, Promise!NodeOf, Store!EdgeOf, Promise!EdgeOf,
         Store!Assertions, Promise!Assertions, Store!Key, Promise!Key
<1> QED
  BY <1>1, <1>2, Refinement, PTL DEF ImplementsEvidenceGraph, Store!Spec, Promise!Spec

(***************************************************************************)
(* What a returned call stored is what the graph still holds.              *)
(***************************************************************************)
THEOREM BatchesHold == InMemorySpec => []TakenBatchesHold
<1>1. Promise!Spec => []Promise!AcceptedBatchesHold
  BY Promise!AcceptedForever, BatchAssumption, AbsentAssumption DEF Promise!Record, Record, Promise!Key, Key
<1>2. Promise!AcceptedBatchesHold => TakenBatchesHold
  BY DEF Promise!AcceptedBatchesHold, TakenBatchesHold, Store!AcceptedBatchesHold,
         Store!IdsOf, Promise!IdsOf, Store!KeysOf, Promise!KeysOf, Store!NodeOf, Promise!NodeOf,
         Store!EdgeOf, Promise!EdgeOf, Store!Assertions, Promise!Assertions
<1> QED
  BY <1>1, <1>2, StoreSpec, PTL

(***************************************************************************)
(* Even in the middle of a call no relation is in the dictionary without   *)
(* its ends: the relations found at the start have theirs in the graph     *)
(* found at the start, and the loops write all nodes before any relation.  *)
(***************************************************************************)
THEOREM AlwaysAnchored == InMemorySpec => []NeverDangling
<1>1. Promise!Spec => []Promise!EndpointsRegistered
  BY Promise!NoDanglingRelation, BatchAssumption, AbsentAssumption DEF Promise!Record, Record, Promise!Key, Key
<1>2. IInv /\ Promise!EndpointsRegistered => NeverDangling
  <2> SUFFICES ASSUME IInv, Promise!EndpointsRegistered, NEW k \in Key, edges[k] # Absent
               PROVE  nodes[k.from] # Absent /\ nodes[k.to] # Absent
    BY DEF NeverDangling, EndpointsRegistered
  <2>1. k.from \in Id /\ k.to \in Id
    BY DEF Key
  <2>2. CASE k \in KeysOf(batch) \ todo_edges
    <3>0. KeysOf({}) = {}
      BY DEF KeysOf, Assertions
    <3>1. pc = "edges" /\ todo_nodes = {}
      BY <2>2, <3>0 DEF IInv, InMemoryTypeOK, Progress
    <3>2. k.from \in IdsOf(batch)
      BY <2>2, <3>1, EdgeOfIsEdge DEF IInv, Progress
    <3> QED
      BY <2>1, <2>2, <3>1, <3>2, BatchTyped DEF IInv, Progress
  <2>3. CASE k \notin KeysOf(batch) \ todo_edges
    <3>1. old_edges[k] # Absent
      BY <2>3 DEF IInv, Progress
    <3>2. old_nodes[k.from] # Absent /\ old_nodes[k.to] # Absent
      BY <3>1 DEF Promise!EndpointsRegistered, Promise!Key, Key
    <3>3. ASSUME NEW i \in Id, old_nodes[i] # Absent PROVE nodes[i] # Absent
      <4>1. CASE pc = "idle"
        BY <3>3, <4>1 DEF IInv, Progress
      <4>2. CASE pc # "idle"
        BY <3>3, <4>2, BatchTyped DEF IInv, Progress
      <4> QED
        BY <4>1, <4>2
    <3> QED
      BY <2>1, <3>2, <3>3
  <2> QED
    BY <2>2, <2>3
<1>3. InMemorySpec => []IInv
  BY InMemoryInvariant, PTL DEF IInv
<1> QED
  BY <1>1, <1>2, <1>3, StoreSpec, PTL

-----------------------------------------------------------------------------
\* A set of natural numbers that is not empty has a least element.
LEMMA LeastNumber ==
  ASSUME NEW S \in SUBSET Nat, S # {}
  PROVE  \E n \in S : \A m \in S : n <= m
<1> DEFINE F == { 0..n : n \in S }
           R == StrictSubsetOrdering(Nat)
<1>1. F \subseteq FiniteSubsetsOf(Nat) /\ F # {}
  <2>1. \A n \in S : 0..n \in SUBSET Nat /\ IsFiniteSet(0..n)
    BY FS_Interval
  <2> QED
    BY <2>1 DEF FiniteSubsetsOf
<1>2. IsWellFoundedOn(R, FiniteSubsetsOf(Nat))
  BY FS_StrictSubsetOrderingWellFounded
<1>3. PICK A \in F : \A B \in F : <<B, A>> \notin R
  <2> HIDE DEF F, R
  <2> QED
    BY <1>1, <1>2, WFMin
<1>4. PICK n \in S : A = 0..n
  OBVIOUS
<1>5. ASSUME NEW m \in S PROVE n <= m
  <2>1. 0..m \in F /\ <<0..m, A>> \notin R
    BY <1>3
  <2>2. ~ (0..m \subseteq 0..n /\ 0..m # 0..n)
    BY <1>4, <2>1 DEF StrictSubsetOrdering
  <2>3. ASSUME m < n PROVE FALSE
    <3>1. n \in 0..n /\ n \notin 0..m /\ 0..m \subseteq 0..n
      BY <2>3
    <3> QED
      BY <2>2, <3>1
  <2> QED
    BY <2>3
<1> QED
  BY <1>5

\* Of finitely many keys one is the first, and one the last.
LEMMA FirstKey ==
  ASSUME NEW S \in SUBSET Key, S # {}
  PROVE  \E k \in S : \A l \in S : Rank[k] <= Rank[l]
<1> DEFINE N == { Rank[k] : k \in S }
<1>1. N \in SUBSET Nat /\ N # {}
  BY QueryAssumption
<1>2. PICK n \in N : \A m \in N : n <= m
  <2> HIDE DEF N
  <2> QED
    BY <1>1, LeastNumber
<1> QED
  BY <1>2

LEMMA LastKey ==
  ASSUME NEW S \in SUBSET Key, S # {}
  PROVE  \E k \in S : \A l \in S : Rank[l] <= Rank[k]
<1> DEFINE Up(k) == { l \in S : Rank[l] > Rank[k] }
           N == { Cardinality(Up(k)) : k \in S }
<1>1. \A k \in S : Rank[k] \in Nat
  BY QueryAssumption
<1>2. IsFiniteSet(S) /\ \A k \in S : IsFiniteSet(Up(k)) /\ Cardinality(Up(k)) \in Nat
  BY GraphAssumption, FS_Subset, FS_CardinalityType
<1>3. N \in SUBSET Nat /\ N # {}
  BY <1>2
<1>4. PICK n \in N : \A m \in N : n <= m
  <2> HIDE DEF N
  <2> QED
    BY <1>3, LeastNumber
<1>5. PICK k \in S : n = Cardinality(Up(k))
  OBVIOUS
<1>6. ASSUME NEW l \in S, Rank[l] > Rank[k] PROVE FALSE
  <2>1. Up(l) \subseteq Up(k) /\ l \in Up(k) /\ l \notin Up(l)
    BY <1>1, <1>6
  <2>2. IsFiniteSet(Up(k)) /\ Up(l) \in SUBSET Up(k) /\ Up(l) # Up(k)
    BY <1>2, <2>1
  <2>3. Cardinality(Up(l)) < Cardinality(Up(k))
    <3>1. Cardinality(Up(l)) \in Nat /\ Cardinality(Up(k)) \in Nat
      BY <1>2
    <3> HIDE DEF Up, N
    <3>2. Cardinality(Up(l)) <= Cardinality(Up(k)) /\ Cardinality(Up(l)) # Cardinality(Up(k))
      BY <2>2, FS_Subset
    <3> QED
      BY <3>1, <3>2
  <2>4. Cardinality(Up(k)) <= Cardinality(Up(l))
    BY <1>4, <1>5
  <2> QED
    BY <1>2, <2>3, <2>4
<1> QED
  BY <1>1, <1>6

(***************************************************************************)
(* A page is what comes first of the rest: it is closed downwards, and one *)
(* that is not full leaves nothing over.                                   *)
(***************************************************************************)
LEMMA PageOfRest ==
  ASSUME NEW raw \in SUBSET Key, NEW t, t = Absent \/ t.after \in Key, NEW size \in Nat
  PROVE  LET rest == { k \in raw : t = Absent \/ Rank[k] > Rank[t.after] }
             page == Page(raw, t, size)
         IN  /\ page \subseteq rest /\ IsFiniteSet(page)
             /\ \A k \in page, l \in rest : Rank[l] <= Rank[k] => l \in page
             /\ Cardinality(page) < size => page = rest
<1> DEFINE rest == { k \in raw : t = Absent \/ Rank[k] > Rank[t.after] }
           page == Page(raw, t, size)
           Down(k) == { l \in rest : Rank[l] <= Rank[k] }
<1>1. \A k \in rest : Rank[k] \in Nat
  BY QueryAssumption
<1>2. /\ rest \in SUBSET Key /\ IsFiniteSet(rest)
      /\ \A k : Down(k) \in SUBSET rest /\ IsFiniteSet(Down(k)) /\ Cardinality(Down(k)) \in Nat
  <2>1. rest \in SUBSET Key /\ \A k : Down(k) \in SUBSET rest
    OBVIOUS
  <2> HIDE DEF rest, Down
  <2> QED
    BY <2>1, GraphAssumption, FS_Subset, FS_CardinalityType
<1>3. page = { k \in rest : Cardinality(Down(k)) <= size }
  BY DEF Page
<1> HIDE DEF rest, page
<1>4. page \subseteq rest /\ IsFiniteSet(page) /\ Cardinality(page) \in Nat
  BY <1>2, <1>3, FS_Subset, FS_CardinalityType
<1>5. ASSUME NEW k \in page, NEW l \in rest, Rank[l] <= Rank[k] PROVE l \in page
  <2>1. Down(l) \in SUBSET Down(k)
    <3>1. Rank[l] \in Nat /\ Rank[k] \in Nat
      BY <1>1, <1>4
    <3> SUFFICES ASSUME NEW x \in rest, Rank[x] <= Rank[l] PROVE Rank[x] <= Rank[k]
      OBVIOUS
    <3> QED
      BY <1>1, <1>5, <3>1
  <2>2. Cardinality(Down(l)) <= Cardinality(Down(k)) /\ Cardinality(Down(k)) <= size
    <3>1. Cardinality(Down(k)) <= size
      BY <1>3
    <3> HIDE DEF Down
    <3> QED
      BY <1>2, <2>1, <3>1, FS_Subset
  <2> HIDE DEF Down
  <2>3. Cardinality(Down(l)) <= size
    BY <1>2, <2>2
  <2> QED
    BY <1>3, <2>3
<1>6. ASSUME page # rest PROVE ~ (Cardinality(page) < size)
  <2>1. PICK k \in rest \ page : \A l \in rest \ page : Rank[k] <= Rank[l]
    BY <1>2, <1>4, <1>6, FirstKey
  <2>2. Down(k) = (Down(k) \ {k}) \cup {k} /\ k \notin Down(k) \ {k} /\ k \in Down(k)
    BY <1>1
  <2>3. \A l \in Down(k) \ {k} : l \in page
    <3> SUFFICES ASSUME NEW l \in Down(k), l # k, l \notin page PROVE FALSE
      OBVIOUS
    <3>1. l \in rest /\ Rank[l] <= Rank[k]
      OBVIOUS
    <3>2. Rank[k] <= Rank[l] /\ Rank[k] \in Nat /\ Rank[l] \in Nat
      BY <1>1, <2>1, <3>1
    <3>3. Rank[l] = Rank[k] /\ l \in Key /\ k \in Key
      BY <1>2, <3>1, <3>2
    <3> QED
      BY <3>3, QueryAssumption
  <2>4. Cardinality(Down(k)) > size
    <3> HIDE DEF Down
    <3>1. ~ (Cardinality(Down(k)) <= size) /\ Cardinality(Down(k)) \in Nat
      BY <1>2, <1>3, <2>1
    <3> QED
      BY <3>1
  <2> DEFINE D == Down(k) \ {k}
  <2>5. Cardinality(D) = Cardinality(Down(k)) - 1
    <3>1. k \in Down(k) /\ IsFiniteSet(Down(k))
      BY <1>2, <2>2
    <3> HIDE DEF Down
    <3> QED
      BY <3>1, FS_RemoveElement
  <2>6. D \in SUBSET page
    BY <2>3
  <2> HIDE DEF Down, D
  <2>7. Cardinality(D) <= Cardinality(page)
    BY <1>4, <2>6, FS_Subset
  <2> QED
    BY <1>2, <1>4, <2>4, <2>5, <2>7
<1> QED
  BY <1>4, <1>5, <1>6 DEF page, rest

-----------------------------------------------------------------------------
\* The search of paths(), hop by hop.
Source(r) == { [at |-> r.start, path |-> {}, seen |-> {r.start}] }

SearchedBy(f, r, U, d) ==
  f = [n \in 0..d |-> IF n = 0 THEN Source(r) ELSE Longer(r, U, f[n - 1])]

LEMMA SearchGoesOn ==
  ASSUME NEW r, NEW U, NEW d \in Nat, NEW f, SearchedBy(f, r, U, d)
  PROVE  \E g : SearchedBy(g, r, U, d + 1)
<1> DEFINE g == [n \in 0..(d + 1) |-> IF n = d + 1 THEN Longer(r, U, f[d]) ELSE f[n]]
<1>1. \A n \in 0..d : g[n] = f[n]
  OBVIOUS
<1>2. ASSUME NEW n \in 0..(d + 1)
      PROVE  g[n] = IF n = 0 THEN Source(r) ELSE Longer(r, U, g[n - 1])
  <2>1. CASE n = d + 1
    BY <1>1, <2>1
  <2>2. CASE n \in 0..d
    <3>1. g[n] = f[n] /\ (n # 0 => n - 1 \in 0..d)
      BY <2>2
    <3>2. f[n] = IF n = 0 THEN Source(r) ELSE Longer(r, U, f[n - 1])
      BY <2>2 DEF SearchedBy
    <3> QED
      BY <1>1, <3>1, <3>2
  <2> QED
    BY <2>1, <2>2
<1>3. SearchedBy(g, r, U, d + 1)
  BY <1>2 DEF SearchedBy
<1> QED
  BY <1>3

LEMMA SearchExists ==
  ASSUME NEW r, NEW U, NEW d \in Nat
  PROVE  \E f : SearchedBy(f, r, U, d)
<1> DEFINE Lost == { n \in Nat : ~ \E f : SearchedBy(f, r, U, n) }
<1>1. 0 \notin Lost
  <2>1. SearchedBy([n \in 0..0 |-> Source(r)], r, U, 0)
    BY DEF SearchedBy
  <2> QED
    BY <2>1
<1>2. CASE Lost # {}
  <2>1. PICK n \in Lost : \A m \in Lost : n <= m
    <3> Lost \in SUBSET Nat
      OBVIOUS
    <3> HIDE DEF Lost
    <3> QED
      BY <1>2, LeastNumber
  <2>2. n - 1 \in Nat /\ n - 1 \notin Lost /\ n = (n - 1) + 1
    BY <1>1, <2>1
  <2>3. PICK f : SearchedBy(f, r, U, n - 1)
    BY <2>2
  <2>4. \E g : SearchedBy(g, r, U, (n - 1) + 1)
    BY <2>2, <2>3, SearchGoesOn
  <2> QED
    BY <2>1, <2>2, <2>4
<1> QED
  BY <1>2

LEMMA WalksSearched ==
  ASSUME NEW r, NEW U, r.depth \in Nat
  PROVE  \E f : SearchedBy(f, r, U, r.depth) /\ Walks(r, U) = f[r.depth]
<1> DEFINE f == CHOOSE g : SearchedBy(g, r, U, r.depth)
<1>1. SearchedBy(f, r, U, r.depth)
  BY SearchExists
<1>2. Walks(r, U) = f[r.depth]
  BY DEF Walks, Source, SearchedBy
<1> QED
  BY <1>1, <1>2

LEMMA LongerGrows ==
  ASSUME NEW r, NEW U, NEW V, U \subseteq V, NEW W, NEW X, W \subseteq X
  PROVE  Longer(r, U, W) \subseteq Longer(r, V, X)
<1>1. \A v : Hops(U, r.direction, v) \subseteq Hops(V, r.direction, v)
  BY DEF Hops
<1> QED
  BY <1>1 DEF Longer

\* A search over more relations finds the walks of a search over fewer.
LEMMA WalksGrow ==
  ASSUME NEW r, r.depth \in Nat, NEW U, NEW V, U \subseteq V
  PROVE  Walks(r, U) \subseteq Walks(r, V)
<1> DEFINE d == r.depth
<1>1. PICK f : SearchedBy(f, r, U, d) /\ Walks(r, U) = f[d]
  BY WalksSearched
<1>2. PICK g : SearchedBy(g, r, V, d) /\ Walks(r, V) = g[d]
  BY WalksSearched
<1> DEFINE Lost == { n \in 0..d : ~ (f[n] \subseteq g[n]) }
<1>3. CASE Lost # {}
  <2>1. PICK n \in Lost : \A m \in Lost : n <= m
    <3> Lost \in SUBSET Nat
      OBVIOUS
    <3> HIDE DEF Lost
    <3> QED
      BY <1>3, LeastNumber
  <2>2. n # 0
    BY <1>1, <1>2, <2>1 DEF SearchedBy
  <2>3. n \in 0..d /\ n - 1 \in 0..d /\ f[n - 1] \subseteq g[n - 1]
    BY <2>1, <2>2
  <2>4. f[n] = Longer(r, U, f[n - 1]) /\ g[n] = Longer(r, V, g[n - 1])
    BY <1>1, <1>2, <2>2, <2>3 DEF SearchedBy
  <2>5. f[n] \subseteq g[n]
    BY <2>3, <2>4, LongerGrows
  <2> QED
    BY <2>1, <2>5
<1>4. d \in 0..d
  OBVIOUS
<1> QED
  BY <1>1, <1>2, <1>3, <1>4

\* Walks go over the relations that they may use.
LEMMA LongerUses ==
  ASSUME NEW r, NEW U, NEW W, \A w \in W : w.path \subseteq U
  PROVE  \A w \in Longer(r, U, W) : w.path \subseteq U
<1>1. \A v : \A h \in Hops(U, r.direction, v) : h.over \in U
  BY DEF Hops
<1> QED
  BY <1>1 DEF Longer

LEMMA WalksUse ==
  ASSUME NEW r, r.depth \in Nat, NEW U
  PROVE  \A w \in Walks(r, U) : w.path \subseteq U
<1> DEFINE d == r.depth
<1>1. PICK f : SearchedBy(f, r, U, d) /\ Walks(r, U) = f[d]
  BY WalksSearched
<1> DEFINE Lost == { n \in 0..d : ~ \A w \in f[n] : w.path \subseteq U }
<1>2. CASE Lost # {}
  <2>1. PICK n \in Lost : \A m \in Lost : n <= m
    <3> Lost \in SUBSET Nat
      OBVIOUS
    <3> HIDE DEF Lost
    <3> QED
      BY <1>2, LeastNumber
  <2>2. n # 0
    BY <1>1, <2>1 DEF SearchedBy, Source
  <2>3. n \in 0..d /\ n - 1 \in 0..d /\ \A w \in f[n - 1] : w.path \subseteq U
    BY <2>1, <2>2
  <2>4. f[n] = Longer(r, U, f[n - 1])
    BY <1>1, <2>2, <2>3 DEF SearchedBy
  <2>5. \A w \in f[n] : w.path \subseteq U
    BY <2>3, <2>4, LongerUses
  <2> QED
    BY <2>1, <2>5
<1> QED
  BY <1>1, <1>2

LEMMA RelationsUsable ==
  ASSUME NEW r \in Request
  PROVE  Relations(r) \subseteq Usable(r) /\ Relations(r) \subseteq Key
<1>1. r.depth \in Nat
  BY QueryAssumption
<1>2. \A w \in Walks(r, Usable(r)) : w.path \subseteq Usable(r)
  BY <1>1, WalksUse
<1> QED
  BY <1>2 DEF Relations, Usable

\* A growing graph takes no relation away from a request.
LEMMA RelationsStay ==
  ASSUME NEW r \in Request, [Next]_vars
  PROVE  Relations(r) \subseteq Relations(r)'
<1>1. r.depth \in Nat
  BY QueryAssumption
<1>2. Usable(r) \subseteq Usable(r)'
  BY StepKeeps, AbsentAssumption, QueryAssumption DEF Usable
<1>3. \A V : Usable(r) \subseteq V => Walks(r, Usable(r)) \subseteq Walks(r, V)
  BY <1>1, WalksGrow
<1>4. Walks(r, Usable(r)) \subseteq Walks(r, Usable(r))'
  BY <1>2, <1>3
<1> QED
  BY <1>4 DEF Relations

-----------------------------------------------------------------------------
(***************************************************************************)
(* What a reading relies on between two pages: the token is the client's   *)
(* own and for its own request, all relations up to its key are delivered, *)
(* and what was wanted or delivered is on the paths of the graph still.    *)
(***************************************************************************)
Reading(c) ==
  /\ cursor[c] # Absent => asked[c] # Absent
  /\ asked[c] # Absent =>
       /\ asked[c].proposed => c \in ProposedReader
       /\ wanted[c] \subseteq Relations(asked[c]) /\ Delivered(c) \subseteq Relations(asked[c])
  /\ cursor[c] # Absent =>
       /\ cursor[c].request = asked[c] /\ cursor[c].subject = c
       /\ \A k \in Delivered(c) : Rank[k] <= Rank[cursor[c].after]
       /\ \A k \in wanted[c] : Rank[k] <= Rank[cursor[c].after] => k \in Delivered(c)

InOrder(s) ==
  \A i, j \in 1..Len(s) : i < j => \A k \in s[i], l \in s[j] : Rank[k] < Rank[l]

\* Every page but a last one brought a relation that no earlier page had.
Short(c) ==
  /\ Cardinality(Delivered(c)) <= RelationLimit
  /\ Len(pages[c]) <= Cardinality(Delivered(c)) + (IF cursor[c] = Absent THEN 1 ELSE 0)

Sessions ==
  /\ secret \in BOOLEAN
  /\ now \in 0..MaxTime
  /\ asked \in [Client -> Request \cup {Absent}]
  /\ wanted \in [Client -> SUBSET Key]
  /\ pages \in [Client -> Seq(SUBSET Key)]
  /\ cursor \in [Client -> Token \cup {Absent}]
  /\ truncated \in [Client -> BOOLEAN]
  /\ begun \in [Client -> 0..MaxReadings]
  /\ answer \in Answers

Complete(c) ==
  asked[c] # Absent /\ cursor[c] = Absent =>
    \/ wanted[c] \subseteq Delivered(c)
    \/ ~ secret /\ truncated[c]

TraceInvariant ==
  Sessions /\ \A c \in Client : Reading(c) /\ Complete(c) /\ InOrder(pages[c]) /\ Short(c)

LEMMA TraceStart == TraceInit => TraceInvariant
<1> SUFFICES ASSUME TraceInit PROVE TraceInvariant
  OBVIOUS
<1>1. Sessions
  BY QueryAssumption DEF TraceInit, Sessions, Answers
<1>2. \A c \in Client : Reading(c) /\ Complete(c) /\ InOrder(pages[c]) /\ Short(c)
  <2>1. \A c \in Client : Reading(c) /\ Complete(c) /\ InOrder(pages[c])
    BY DEF TraceInit, Reading, Complete, InOrder
  <2>2. ASSUME TraceInit, NEW c \in Client PROVE Short(c)
    <3>1. pages[c] = <<>> /\ Len(<<>>) = 0 /\ 1..0 = {}
      BY <2>2 DEF TraceInit
    <3>2. Delivered(c) = {}
      BY <3>1 DEF Delivered
    <3>3. Cardinality(Delivered(c)) = 0 /\ RelationLimit \in Nat
      BY <3>2, FS_EmptySet, QueryAssumption
    <3> QED
      BY <3>1, <3>3 DEF Short
  <2> QED
    BY <2>1, <2>2
<1> QED
  BY <1>1, <1>2 DEF TraceInvariant

\* A session that does not move stays sound while the graph grows.
LEMMA SessionStays ==
  ASSUME [Next]_vars, Sessions, NEW c \in Client, Reading(c), Complete(c), InOrder(pages[c]), Short(c),
         asked'[c] = asked[c], wanted'[c] = wanted[c], pages'[c] = pages[c],
         cursor'[c] = cursor[c], truncated'[c] = truncated[c], secret' = secret
  PROVE  Reading(c)' /\ Complete(c)' /\ InOrder(pages'[c]) /\ Short(c)'
<1>1. Delivered(c)' = Delivered(c)
  BY DEF Delivered
<1>2. PICK a : a = asked[c]
  OBVIOUS
<1>3. a # Absent => Relations(a) \subseteq Relations(a)'
  BY <1>2, RelationsStay DEF Sessions
<1>4. Reading(c)'
  <2>1. cursor'[c] # Absent => asked'[c] # Absent
    BY DEF Reading
  <2>2. a # Absent => /\ a.proposed => c \in ProposedReader
                      /\ wanted'[c] \subseteq Relations(a)' /\ Delivered(c)' \subseteq Relations(a)'
    BY <1>1, <1>2, <1>3 DEF Reading
  <2>3. cursor'[c] # Absent =>
          /\ cursor'[c].request = asked'[c] /\ cursor'[c].subject = c
          /\ \A k \in Delivered(c)' : Rank[k] <= Rank[cursor'[c].after]
          /\ \A k \in wanted'[c] : Rank[k] <= Rank[cursor'[c].after] => k \in Delivered(c)'
    BY <1>1 DEF Reading
  <2>4. a = asked'[c]
    BY <1>2
  <2>5. asked'[c] # Absent => /\ wanted'[c] \subseteq Relations(asked[c])'
                              /\ Delivered(c)' \subseteq Relations(asked[c])'
    BY <2>2, <2>4
  <2> QED
    BY <2>1, <2>2, <2>3, <2>4, <2>5 DEF Reading
<1>5. Short(c)'
  BY <1>1 DEF Short
<1> QED
  BY <1>1, <1>4, <1>5 DEF Complete

\* The token of a page says where the page ends.
LEMMA TokenOfPage ==
  ASSUME Sessions, NEW c \in Client, NEW r \in Request, NEW page \in SUBSET Key,
         NEW size \in PageSize, IsFiniteSet(page)
  PROVE  LET n == NextToken(c, r, page, size)
         IN  IF Cardinality(page) < size \/ ~ secret
             THEN n = Absent
             ELSE /\ n \in Token /\ n # Absent /\ n.request = r /\ n.subject = c
                  /\ n.after \in page /\ \A l \in page : Rank[l] <= Rank[n.after]
<1>1. size \in Nat /\ size >= 1 /\ Cardinality(page) \in Nat
  BY QueryAssumption, FS_CardinalityType
<1>2. CASE Cardinality(page) < size \/ ~ secret
  BY <1>1, <1>2 DEF NextToken
<1>3. CASE ~ (Cardinality(page) < size) /\ secret
  <2>1. page # {}
    BY <1>1, <1>3, FS_EmptySet
  <2>2. PICK k : k = CHOOSE h \in page : \A l \in page : Rank[l] <= Rank[h]
    OBVIOUS
  <2>3. k \in page /\ \A l \in page : Rank[l] <= Rank[k]
    BY <2>1, <2>2, LastKey
  <2>4. NextToken(c, r, page, size)
        = [request |-> r, subject |-> c, expiresAt |-> now + TokenLife, after |-> k]
    BY <1>1, <1>3, <2>2 DEF NextToken
  <2>5. now + TokenLife \in 0..(MaxTime + TokenLife)
    BY QueryAssumption DEF Sessions
  <2>6. [request |-> r, subject |-> c, expiresAt |-> now + TokenLife, after |-> k] \in Token
    BY <2>3, <2>5 DEF Token
  <2> QED
    BY <1>3, <2>3, <2>4, <2>6, GraphAssumption
<1> QED
  BY <1>2, <1>3

LEMMA DeliveredGrows ==
  ASSUME NEW c, NEW page, pages[c] \in Seq(SUBSET Key), page \in SUBSET Key
  PROVE  /\ pages'[c] = <<page>> => Delivered(c)' = page
         /\ pages'[c] = Append(pages[c], page) => Delivered(c)' = Delivered(c) \cup page
<1>1. ASSUME pages'[c] = <<page>> PROVE Delivered(c)' = page
  <2>1. Len(<<page>>) = 1 /\ <<page>>[1] = page
    OBVIOUS
  <2>2. 1..1 = {1}
    OBVIOUS
  <2> QED
    BY <1>1, <2>1, <2>2 DEF Delivered
<1>2. ASSUME pages'[c] = Append(pages[c], page) PROVE Delivered(c)' = Delivered(c) \cup page
  <2> DEFINE s == pages[c]
             L == Len(s)
  <2>1. /\ L \in Nat /\ Len(Append(s, page)) = L + 1 /\ Append(s, page)[L + 1] = page
        /\ \A n \in 1..L : Append(s, page)[n] = s[n]
    OBVIOUS
  <2>2. 1..(L + 1) = 1..L \cup {L + 1}
    BY <2>1
  <2> HIDE DEF L
  <2> QED
    BY <1>2, <2>1, <2>2 DEF Delivered, L
<1> QED
  BY <1>1, <1>2

\* A page after those delivered keeps a reading in order.
LEMMA OrderGrows ==
  ASSUME NEW s \in Seq(SUBSET Key), InOrder(s), NEW page \in SUBSET Key,
         \A n \in 1..Len(s) : \A k \in s[n], l \in page : Rank[k] < Rank[l]
  PROVE  InOrder(Append(s, page)) /\ InOrder(<<page>>)
<1> DEFINE L == Len(s)
           a == Append(s, page)
<1>1. /\ L \in Nat /\ Len(a) = L + 1 /\ a[L + 1] = page /\ \A n \in 1..L : a[n] = s[n]
  OBVIOUS
<1>2. Len(<<page>>) = 1
  OBVIOUS
<1>3. InOrder(<<page>>)
  BY <1>2 DEF InOrder
<1> HIDE DEF L, a
<1>4. ASSUME NEW i \in 1..Len(a), NEW j \in 1..Len(a), i < j, NEW k \in a[i], NEW l \in a[j]
      PROVE  Rank[k] < Rank[l]
  <2>1. i \in 1..L /\ (j \in 1..L \/ j = L + 1)
    BY <1>1, <1>4
  <2> QED
    BY <1>1, <1>4, <2>1 DEF InOrder, L
<1> QED
  BY <1>3, <1>4 DEF InOrder, a

\* Sets of keys are finite, and counted as such.
LEMMA KeysCounted ==
  ASSUME NEW old \in SUBSET Key, NEW page \in SUBSET Key
  PROVE  /\ Cardinality(old) \in Nat /\ Cardinality(old \cup page) \in Nat
         /\ \A raw \in SUBSET Key : old \subseteq raw => Cardinality(old) <= Cardinality(raw)
         /\ Cardinality(old) <= Cardinality(old \cup page)
         /\ (\A k \in old : k \notin page) /\ page # {}
            => Cardinality(old) + 1 <= Cardinality(old \cup page)
<1>1. \A S \in SUBSET Key : IsFiniteSet(S) /\ Cardinality(S) \in Nat
  BY GraphAssumption, FS_Subset, FS_CardinalityType
<1>2. \A S, T \in SUBSET Key : S \subseteq T => Cardinality(S) <= Cardinality(T)
  BY <1>1, FS_Subset
<1>3. ASSUME \A k \in old : k \notin page, page # {}
      PROVE  Cardinality(old) + 1 <= Cardinality(old \cup page)
  <2>1. PICK k \in page : k \notin old
    BY <1>3
  <2>2. PICK T \in SUBSET Key : T = old \cup {k}
    OBVIOUS
  <2>3. Cardinality(T) = Cardinality(old) + 1
    BY <1>1, <2>1, <2>2, FS_AddElement
  <2>4. Cardinality(T) <= Cardinality(old \cup page)
    BY <1>2, <2>2
  <2> QED
    BY <2>3, <2>4
<1> QED
  BY <1>1, <1>2, <1>3

(***************************************************************************)
(* A page that is the first of a reading, or continues the client's own.   *)
(***************************************************************************)
LEMMA DeliverKeeps ==
  ASSUME TraceInvariant, NEW c \in Client, NEW r \in Request, NEW size \in PageSize, NEW t,
         Deliver(c, r, size, t),
         t = Absent => begun[c] < MaxReadings,
         t # Absent => t = cursor[c] /\ r = asked[c]
  PROVE  TraceInvariant'
<1>1. PICK raw : raw = Relations(r)
  OBVIOUS
<1>2. PICK page : page = Page(raw, t, size)
  OBVIOUS
<1>3. PICK n : n = NextToken(c, r, page, size)
  OBVIOUS
<1>4. PICK old : old = IF t = Absent THEN {} ELSE Delivered(c)
  OBVIOUS
<1>5. PICK want : want = IF t = Absent THEN raw ELSE wanted[c]
  OBVIOUS
<1>6. /\ asked' = [asked EXCEPT ![c] = r]
      /\ truncated' = [truncated EXCEPT ![c] = Cardinality(page) >= size]
      /\ wanted' = [wanted EXCEPT ![c] = IF t = Absent THEN raw ELSE @]
      /\ begun' = [begun EXCEPT ![c] = IF t = Absent THEN @ + 1 ELSE @]
      /\ pages' = [pages EXCEPT ![c] = IF t = Absent THEN <<page>> ELSE Append(@, page)]
      /\ cursor' = [cursor EXCEPT ![c] = n]
      /\ answer' = Status(r, page)
      /\ UNCHANGED <<vars, secret, now>> /\ Proceeds(c, r, t)
      /\ Cardinality(raw) <= RelationLimit
  BY <1>1, <1>2, <1>3 DEF Deliver
<1>7. Sessions /\ Reading(c) /\ Complete(c) /\ InOrder(pages[c]) /\ Short(c)
  BY DEF TraceInvariant
<1>8. raw \in SUBSET Key
  BY <1>1, RelationsUsable
<1>9. t # Absent => t \in Token /\ t.after \in Key
  BY <1>7 DEF Sessions, Token
<1> DEFINE rest == { k \in raw : t = Absent \/ Rank[k] > Rank[t.after] }
<1>10. /\ page \subseteq rest /\ page \in SUBSET Key /\ IsFiniteSet(page)
       /\ \A k \in page, l \in rest : Rank[l] <= Rank[k] => l \in page
       /\ Cardinality(page) < size => page = rest
  <2>1. size \in Nat
    BY QueryAssumption
  <2> QED
    BY <1>2, <1>8, <1>9, <2>1, PageOfRest
<1>11. IF Cardinality(page) < size \/ ~ secret
       THEN n = Absent
       ELSE /\ n \in Token /\ n # Absent /\ n.request = r /\ n.subject = c
            /\ n.after \in page /\ \A l \in page : Rank[l] <= Rank[n.after]
  BY <1>3, <1>7, <1>10, TokenOfPage
\* What was delivered before, and is wanted.
<1>12. /\ old \subseteq raw /\ want \subseteq raw
       /\ \A k \in want : k \in old \/ k \in rest
       /\ t # Absent => \A k \in old : Rank[k] <= Rank[t.after]
  <2>1. CASE t = Absent
    BY <1>4, <1>5, <2>1
  <2>2. CASE t # Absent
    <3>1. /\ old = Delivered(c) /\ want = wanted[c] /\ t = cursor[c] /\ r = asked[c] /\ t # Absent
          /\ asked[c] # Absent
      BY <1>4, <1>5, <1>7, <2>2 DEF Reading
    <3>2. /\ old \subseteq raw /\ want \subseteq raw
          /\ \A k \in old : Rank[k] <= Rank[t.after]
          /\ \A k \in want : Rank[k] <= Rank[t.after] => k \in old
      BY <1>1, <1>7, <3>1 DEF Reading
    <3>3. \A k \in raw : Rank[k] <= Rank[t.after] \/ Rank[k] > Rank[t.after]
      BY <1>8, <1>9, <2>2, QueryAssumption
    <3> QED
      BY <3>2, <3>3
  <2> QED
    BY <2>1, <2>2
<1>13. \A k \in old, l \in page : Rank[k] < Rank[l]
  <2>1. CASE t = Absent
    BY <1>4, <2>1
  <2>2. CASE t # Absent
    <3>1. \A k \in Key : Rank[k] \in Nat
      BY QueryAssumption
    <3>2. old \subseteq Key /\ page \subseteq Key /\ t.after \in Key
      BY <1>8, <1>9, <1>10, <1>12, <2>2
    <3> QED
      BY <1>10, <1>12, <2>2, <3>1, <3>2
  <2> QED
    BY <2>1, <2>2
<1>14. pages[c] \in Seq(SUBSET Key)
  BY <1>7 DEF Sessions
<1>15. /\ asked'[c] = r /\ wanted'[c] = want /\ cursor'[c] = n
       /\ Delivered(c)' = old \cup page
  <2>1. asked'[c] = r /\ wanted'[c] = want /\ cursor'[c] = n
    BY <1>5, <1>6, <1>7 DEF Sessions
  <2>2. pages'[c] = IF t = Absent THEN <<page>> ELSE Append(pages[c], page)
    BY <1>6, <1>7 DEF Sessions
  <2>3. Delivered(c)' = old \cup page
    BY <1>4, <1>10, <1>14, <2>2, DeliveredGrows
  <2> QED
    BY <2>1, <2>3
<1> HIDE DEF rest
<1>16. Relations(r)' = raw
  BY <1>1, <1>6 DEF Relations, Usable, vars
<1>17. Reading(c)'
  <2>1. r # Absent
    BY GraphAssumption
  <2>2. r.proposed => c \in ProposedReader
    BY <1>6 DEF Proceeds, Allowed
  <2>3. old \cup page \subseteq raw
    BY <1>10, <1>12 DEF rest
  <2>4. n # Absent => /\ n.request = r /\ n.subject = c /\ n.after \in page
                      /\ \A k \in old \cup page : Rank[k] <= Rank[n.after]
    <3>1. ASSUME n # Absent, NEW k \in old PROVE Rank[k] <= Rank[n.after]
      <4>1. Rank[k] < Rank[n.after] /\ k \in Key /\ n.after \in Key
        BY <1>8, <1>10, <1>11, <1>12, <1>13, <3>1
      <4> QED
        BY <4>1, QueryAssumption
    <3> QED
      BY <1>11, <3>1
  <2>5. n # Absent => \A k \in want : Rank[k] <= Rank[n.after] => k \in old \cup page
    BY <1>10, <1>12, <2>4
  <2> QED
    BY <1>12, <1>15, <1>16, <2>1, <2>2, <2>3, <2>4, <2>5 DEF Reading
<1>18. Complete(c)'
  <2>1. CASE Cardinality(page) < size
    BY <1>10, <1>12, <1>15, <2>1 DEF Complete
  <2>2. CASE ~ (Cardinality(page) < size)
    <3>1. truncated'[c] = (Cardinality(page) >= size)
      BY <1>6, <1>7 DEF Sessions
    <3>2. size \in Nat
      BY QueryAssumption
    <3>3. Cardinality(page) \in Nat
      BY <1>10, FS_CardinalityType
    <3>4. Cardinality(page) >= size
      BY <2>2, <3>2, <3>3
    <3>5. secret => n # Absent
      BY <1>11, <2>2
    <3>6. truncated'[c] /\ secret' = secret
      BY <1>6, <3>1, <3>4
    <3> QED
      BY <1>15, <3>5, <3>6 DEF Complete
  <2> QED
    BY <2>1, <2>2
<1>19. InOrder(pages'[c])
  <2>1. pages'[c] = IF t = Absent THEN <<page>> ELSE Append(pages[c], page)
    BY <1>6, <1>7 DEF Sessions
  <2>2. CASE t = Absent
    <3>1. Len(<<page>>) = 1
      OBVIOUS
    <3> QED
      BY <2>1, <2>2, <3>1 DEF InOrder
  <2>3. CASE t # Absent
    <3>1. \A i \in 1..Len(pages[c]) : \A k \in pages[c][i], l \in page : Rank[k] < Rank[l]
      BY <1>4, <1>13, <2>3 DEF Delivered
    <3> QED
      BY <1>7, <1>10, <1>14, <2>1, <2>3, <3>1, OrderGrows
  <2> QED
    BY <2>2, <2>3
<1>20. Sessions'
  <2>1. n \in Token \cup {Absent}
    BY <1>11
  <2>2. want \in SUBSET Key
    BY <1>8, <1>12
  <2>3. <<page>> \in Seq(SUBSET Key) /\ Append(pages[c], page) \in Seq(SUBSET Key)
    BY <1>10, <1>14
  <2>4. begun[c] \in 0..MaxReadings /\ (t = Absent => begun[c] + 1 \in 0..MaxReadings)
    BY <1>7, QueryAssumption DEF Sessions
  <2>5. answer' \in Answers
    BY <1>6 DEF Status, Answers
  <2>6. pages' \in [Client -> Seq(SUBSET Key)]
    BY <1>6, <1>7, <2>3 DEF Sessions
  <2>7. wanted' \in [Client -> SUBSET Key]
    BY <1>6, <1>7, <1>8 DEF Sessions
  <2>8. begun' \in [Client -> 0..MaxReadings]
    BY <1>6, <1>7, <2>4 DEF Sessions
  <2>10. truncated' \in [Client -> BOOLEAN]
    BY <1>6, <1>7 DEF Sessions
  <2>9. asked' \in [Client -> Request \cup {Absent}] /\ cursor' \in [Client -> Token \cup {Absent}]
    BY <1>6, <1>7, <2>1 DEF Sessions
  <2> QED
    BY <1>6, <1>7, <2>5, <2>6, <2>7, <2>8, <2>9, <2>10 DEF Sessions
<1>21. ASSUME NEW d \in Client, d # c PROVE Reading(d)' /\ Complete(d)' /\ InOrder(pages'[d]) /\ Short(d)'
  <2>1. /\ asked'[d] = asked[d] /\ wanted'[d] = wanted[d] /\ pages'[d] = pages[d]
        /\ cursor'[d] = cursor[d] /\ truncated'[d] = truncated[d] /\ secret' = secret
    BY <1>6, <1>7, <1>21 DEF Sessions
  <2>2. [Next]_vars
    BY <1>6
  <2> QED
    BY <1>7, <2>1, <2>2, SessionStays DEF TraceInvariant
<1>22. Short(c)'
  <2>1. /\ old \cup page \subseteq raw /\ raw \in SUBSET Key
        /\ \A k \in old : k \notin page
    <3>1. \A k \in Key : ~ (Rank[k] < Rank[k])
      BY QueryAssumption
    <3> QED
      BY <1>8, <1>10, <1>12, <1>13, <3>1 DEF rest
  <2>2. Cardinality(Delivered(c)') <= RelationLimit
    <3>1. Cardinality(old \cup page) <= Cardinality(raw)
      BY <2>1, KeysCounted
    <3>2. Cardinality(old \cup page) \in Nat /\ Cardinality(raw) \in Nat /\ RelationLimit \in Nat
      BY <2>1, KeysCounted, QueryAssumption
    <3> QED
      BY <1>6, <1>15, <3>1, <3>2
  <2>3. /\ Cardinality(old) <= Cardinality(old \cup page)
        /\ n # Absent => Cardinality(old) + 1 <= Cardinality(old \cup page)
        /\ Cardinality(old) \in Nat /\ Cardinality(old \cup page) \in Nat
    BY <1>11, <2>1, KeysCounted
  <2>4. Len(pages'[c]) <= Cardinality(old) + 1
    <3>1. CASE t = Absent
      <4>1. Len(pages'[c]) = 1
        BY <1>6, <1>7, <3>1 DEF Sessions
      <4> QED
        BY <2>3, <4>1
    <3>2. CASE t # Absent
      <4>1. cursor[c] # Absent /\ old = Delivered(c)
        BY <1>4, <3>2
      <4>2. Len(pages[c]) <= Cardinality(old) + 0 /\ Len(pages[c]) \in Nat
        BY <1>7, <1>14, <4>1 DEF Short
      <4>3. Len(pages'[c]) = Len(pages[c]) + 1
        BY <1>6, <1>7, <1>14, <3>2 DEF Sessions
      <4> QED
        BY <2>3, <4>2, <4>3
    <3> QED
      BY <3>1, <3>2
  <2>5. Len(pages'[c]) \in Nat
    BY <1>20 DEF Sessions
  <2> QED
    BY <1>15, <2>2, <2>3, <2>4, <2>5 DEF Short
<1> QED
  BY <1>17, <1>18, <1>19, <1>20, <1>21, <1>22 DEF TraceInvariant

\* A token of another client, or for another request, gets no page.
LEMMA BorrowedTokens ==
  ASSUME TraceInvariant, NEW c \in Client, NEW d \in Client, cursor[d] # Absent, NEW r,
         d # c \/ r # cursor[d].request
  PROVE  ~ Verifies(c, r, cursor[d])
BY DEF TraceInvariant, Reading, Verifies

LEMMA TellKeeps ==
  ASSUME TraceInvariant, NEW code \in Answers, Tell(code)
  PROVE  TraceInvariant'
<1>1. /\ [Next]_vars /\ answer' \in Answers
      /\ UNCHANGED <<secret, now, asked, wanted, pages, cursor, truncated, begun>>
  BY DEF Tell
<1>2. Sessions'
  BY <1>1 DEF TraceInvariant, Sessions
<1>3. \A c \in Client : Reading(c)' /\ Complete(c)' /\ InOrder(pages'[c]) /\ Short(c)'
  BY <1>1, SessionStays DEF TraceInvariant
<1> QED
  BY <1>1, <1>2, <1>3 DEF TraceInvariant

\* A call ends with a page, or leaves all sessions as they are.
LEMMA TraceEnds ==
  ASSUME NEW c, NEW r, NEW size, NEW t, Trace(c, r, size, t)
  PROVE  Deliver(c, r, size, t) \/ \E code \in Answers : Tell(code)
BY DEF Trace, Forbidden, InvalidToken, NotRegistered, OverLimit, Answers

LEMMA TraceStep == TraceInvariant /\ [TraceNext]_traceVars => TraceInvariant'
<1> SUFFICES ASSUME TraceInvariant, [TraceNext]_traceVars PROVE TraceInvariant'
  OBVIOUS
<1>1. Sessions /\ \A c \in Client : Reading(c) /\ Complete(c) /\ InOrder(pages[c]) /\ Short(c)
  BY DEF TraceInvariant
<1>2. ASSUME NEW c \in Client, Start(c) PROVE TraceInvariant'
  <2>1. PICK r \in Request, size \in PageSize : Trace(c, r, size, Absent)
    BY <1>2 DEF Start
  <2> QED
    BY <1>2, <2>1, TraceEnds, TellKeeps, DeliverKeeps DEF Start
<1>3. ASSUME NEW c \in Client, Follow(c) PROVE TraceInvariant'
  <2>1. PICK t : t = cursor[c]
    OBVIOUS
  <2>2. PICK r : r = asked[c]
    OBVIOUS
  <2>3. t # Absent /\ r \in Request
    BY <1>1, <1>3, <2>1, <2>2 DEF Follow, Reading, Sessions
  <2>4. PICK size \in PageSize : Trace(c, r, size, t)
    BY <1>3, <2>1, <2>2 DEF Follow
  <2> QED
    BY <2>1, <2>2, <2>3, <2>4, TraceEnds, TellKeeps, DeliverKeeps
<1>4. ASSUME NEW c \in Client, Borrow(c) PROVE TraceInvariant'
  <2>1. PICK d \in Client, r \in Request :
          /\ cursor[d] # Absent
          /\ d # c \/ r # cursor[d].request
          /\ \E size \in PageSize : Trace(c, r, size, cursor[d])
    BY <1>4 DEF Borrow
  <2>2. PICK t : t = cursor[d]
    OBVIOUS
  <2>3. PICK size \in PageSize : Trace(c, r, size, t)
    BY <2>1, <2>2
  <2>4. ~ Deliver(c, r, size, t)
    BY <2>1, <2>2, BorrowedTokens DEF Deliver, Proceeds
  <2> QED
    BY <2>3, <2>4, TraceEnds, TellKeeps
<1>5. CASE Fault
  BY <1>5, TellKeeps DEF Fault, Answers
<1>6. CASE Ingest \/ Tick \/ UNCHANGED traceVars
  <2>1. [Next]_vars /\ UNCHANGED <<secret, sessions>> /\ now' \in 0..MaxTime
    <3>1. CASE Ingest
      BY <1>1, <3>1 DEF Ingest, Next, Sessions
    <3>2. CASE Tick
      BY <1>1, <3>2, QueryAssumption DEF Tick, Sessions
    <3>3. CASE UNCHANGED traceVars
      BY <1>1, <3>3 DEF traceVars, Sessions
    <3> QED
      BY <1>6, <3>1, <3>2, <3>3
  <2>2. Sessions'
    BY <1>1, <2>1 DEF Sessions, sessions
  <2>3. \A c \in Client : Reading(c)' /\ Complete(c)' /\ InOrder(pages'[c]) /\ Short(c)'
    BY <1>1, <2>1, SessionStays DEF sessions
  <2> QED
    BY <2>2, <2>3 DEF TraceInvariant
<1> QED
  BY <1>2, <1>3, <1>4, <1>5, <1>6 DEF TraceNext

(***************************************************************************)
(* Queries write nothing: with all of its clients, reads and faults the    *)
(* query service implements EvidenceGraph (QueryService, query_service.py),*)
(* so that what is proved of the store holds of the store below it.        *)
(***************************************************************************)
THEOREM GraphUnderneath == TraceSpec => Spec
<1>1. [TraceNext]_traceVars => [Next]_vars
  BY DEF TraceNext, Start, Follow, Borrow, Trace, Forbidden, InvalidToken, NotRegistered,
         OverLimit, Deliver, Tell, Fault, Ingest, Tick, traceVars, Next
<1> QED
  BY <1>1, PTL DEF TraceSpec, TraceInit, Spec

LEMMA AlwaysReading == TraceSpec => []TraceInvariant
BY TraceStart, TraceStep, PTL DEF TraceSpec

\* Sessions hold requests, keys and tokens, and no client begins more readings
\* than it may.
THEOREM TraceTypeCorrect == TraceSpec => []TraceTypeOK
<1>1. TypeOK /\ TraceInvariant => TraceTypeOK
  BY DEF TraceInvariant, Sessions, TraceTypeOK
<1> QED
  BY <1>1, AlwaysReading, GraphUnderneath, TypeCorrect, PTL

(***************************************************************************)
(* Whoever follows the tokens to the end has every relation there was at   *)
(* the beginning, for any page sizes, which may change between two pages,  *)
(* and whatever is ingested, refused or offered with a wrong token then;   *)
(* unless the service has no page secret, and its page said truncated.     *)
(***************************************************************************)
THEOREM NoRelationLost == TraceSpec => []PagesComplete
<1>1. TraceInvariant => PagesComplete
  BY DEF TraceInvariant, Complete, PagesComplete
<1> QED
  BY <1>1, AlwaysReading, PTL

(***************************************************************************)
(* No relation comes twice in a reading, and pages come in order, though   *)
(* the relations that a later page is cut from have grown meanwhile.       *)
(***************************************************************************)
THEOREM NoRelationTwice == TraceSpec => []PagesInOrder
<1>1. TraceInvariant => PagesInOrder
  BY DEF TraceInvariant, InOrder, PagesInOrder
<1> QED
  BY <1>1, AlwaysReading, PTL

(***************************************************************************)
(* A reading has no more pages than it has relations, and one, whatever    *)
(* page sizes the client asks for and however the graph grows under it;    *)
(* and it never gets more than the limit of one query in all its pages.    *)
(* So a client that follows its tokens makes progress with each page: what *)
(* PagingEnds adds to this is that the next call comes.                    *)
(***************************************************************************)
ReadingsBounded ==
  \A c \in Client : /\ Len(pages[c]) <= Cardinality(Delivered(c)) + 1
                    /\ Cardinality(Delivered(c)) <= RelationLimit

THEOREM NoEndlessReading == TraceSpec => []ReadingsBounded
<1>1. ASSUME TraceInvariant, NEW c \in Client
      PROVE  /\ Len(pages[c]) <= Cardinality(Delivered(c)) + 1
             /\ Cardinality(Delivered(c)) <= RelationLimit
  <2>1. Short(c) /\ pages[c] \in Seq(SUBSET Key) /\ Reading(c)
    BY <1>1 DEF TraceInvariant, Sessions
  <2>2. Delivered(c) \in SUBSET Key
    BY <2>1 DEF Delivered
  <2>3. Cardinality(Delivered(c)) \in Nat /\ Len(pages[c]) \in Nat
    BY <2>1, <2>2, KeysCounted
  <2> QED
    BY <2>1, <2>3 DEF Short
<1>2. TraceInvariant => ReadingsBounded
  BY <1>1 DEF ReadingsBounded
<1> QED
  BY <1>2, AlwaysReading, PTL

(***************************************************************************)
(* What was delivered is approved, or the client may see proposals; and    *)
(* it is on a path of the present graph: a growing graph takes no path     *)
(* away.                                                                   *)
(***************************************************************************)
THEOREM DeliveredIsEntitled == TraceSpec => []PagesEntitled
<1>1. TraceInvariant => PagesEntitled
  <2> SUFFICES ASSUME TraceInvariant, NEW c \in Client, asked[c] # Absent
               PROVE  /\ asked[c].proposed => c \in ProposedReader
                      /\ ~ asked[c].proposed => \A k \in Delivered(c) : edges[k] \in ApprovedEdge
                      /\ Delivered(c) \subseteq Relations(asked[c])
    BY DEF PagesEntitled
  <2>1. asked[c] \in Request /\ Reading(c)
    BY DEF TraceInvariant, Sessions
  <2>2. Delivered(c) \subseteq Usable(asked[c])
    BY <2>1, RelationsUsable DEF Reading
  <2> QED
    BY <2>1, <2>2 DEF Reading, Usable
<1> QED
  BY <1>1, AlwaysReading, PTL

-----------------------------------------------------------------------------
(***************************************************************************)
(* Induction on a number that a set of numbers is closed under.            *)
(***************************************************************************)
LEMMA SetInduction ==
  ASSUME NEW d \in Nat, NEW S, 0 \in S, \A n \in 0..d : n \in S /\ n < d => n + 1 \in S
  PROVE  \A n \in 0..d : n \in S
<1> DEFINE Lost == { n \in 0..d : n \notin S }
<1>1. CASE Lost # {}
  <2>1. PICK n \in Lost : \A m \in Lost : n <= m
    <3> Lost \in SUBSET Nat
      OBVIOUS
    <3> HIDE DEF Lost
    <3> QED
      BY <1>1, LeastNumber
  <2>2. n \in 0..d /\ n # 0 /\ n \notin S
    BY <2>1
  <2>3. n - 1 \in 0..d /\ n - 1 < d /\ (n - 1) + 1 = n
    BY <2>2
  <2>4. n - 1 \in S
    BY <2>1, <2>3
  <2> QED
    BY <2>2, <2>3, <2>4
<1> QED
  BY <1>1

\* A function that applies a step again and again, d times.
Iterates(f, step, x, d) == f = [n \in 0..d |-> IF n = 0 THEN x ELSE step[f[n - 1]]]

LEMMA IterationExists ==
  ASSUME NEW step, NEW x, NEW d \in Nat
  PROVE  \E f : Iterates(f, step, x, d)
<1> DEFINE S == { m \in 0..d : \E f : Iterates(f, step, x, m) }
<1>1. 0 \in S
  <2>1. Iterates([n \in 0..0 |-> x], step, x, 0)
    BY DEF Iterates
  <2> QED
    BY <2>1
<1>2. ASSUME NEW m \in 0..d, m \in S, m < d PROVE m + 1 \in S
  <2>1. PICK f : Iterates(f, step, x, m)
    BY <1>2
  <2> DEFINE g == [n \in 0..(m + 1) |-> IF n = m + 1 THEN step[f[m]] ELSE f[n]]
  <2>2. \A n \in 0..m : g[n] = f[n]
    OBVIOUS
  <2>3. ASSUME NEW n \in 0..(m + 1)
        PROVE  g[n] = IF n = 0 THEN x ELSE step[g[n - 1]]
    <3>1. CASE n = m + 1
      BY <2>2, <3>1
    <3>2. CASE n \in 0..m
      <4>1. g[n] = f[n] /\ (n # 0 => n - 1 \in 0..m)
        BY <3>2
      <4>2. f[n] = IF n = 0 THEN x ELSE step[f[n - 1]]
        BY <2>1, <3>2 DEF Iterates
      <4> QED
        BY <2>2, <4>1, <4>2
    <3> QED
      BY <3>1, <3>2
  <2>4. Iterates(g, step, x, m + 1)
    BY <2>3 DEF Iterates
  <2> QED
    BY <1>2, <2>4
<1> HIDE DEF S
<1>3. d \in S
  BY <1>1, <1>2, SetInduction
<1> QED
  BY <1>3 DEF S

LEMMA IterationTyped ==
  ASSUME NEW X, NEW step \in [X -> X], NEW x \in X, NEW d \in Nat, NEW f, Iterates(f, step, x, d)
  PROVE  f \in [0..d -> X]
<1> DEFINE S == { n \in 0..d : f[n] \in X }
<1>1. 0 \in S
  BY DEF Iterates
<1>2. ASSUME NEW n \in 0..d, n \in S, n < d PROVE n + 1 \in S
  <2>1. f[n + 1] = step[f[n]]
    <3>1. n + 1 \in 0..d /\ n + 1 # 0 /\ (n + 1) - 1 = n
      BY <1>2
    <3> QED
      BY <3>1 DEF Iterates
  <2> QED
    BY <1>2, <2>1
<1> HIDE DEF S
<1>3. \A n \in 0..d : n \in S
  BY <1>1, <1>2, SetInduction
<1>4. \A n \in 0..d : f[n] \in X
  BY <1>3 DEF S
<1>5. f = [n \in 0..d |-> f[n]]
  BY DEF Iterates
<1> QED
  BY <1>4, <1>5

-----------------------------------------------------------------------------
(***************************************************************************)
(* What can be reached over relations of U in at most n hops, and the two  *)
(* searches that are compared with it.                                     *)
(***************************************************************************)
AroundBy(g, U, i, d) == g = [n \in 0..d |-> IF n = 0 THEN {i} ELSE Around(U, g[n - 1])]

RowsBy(h, r, U, d) == h = [n \in 0..d |-> IF n = 0 THEN Source(r) ELSE LongerRows(r, U, h[n - 1])]

LEMMA AroundExists ==
  ASSUME NEW U \in SUBSET Key, NEW i \in Id, NEW d \in Nat
  PROVE  \E g \in [0..d -> SUBSET Id] : AroundBy(g, U, i, d)
<1> DEFINE step == [V \in SUBSET Id |-> Around(U, V)]
<1>1. \A V \in SUBSET Id : Around(U, V) \in SUBSET Id
  <2>1. \A v : \A h \in Hops(U, "both", v) : h.to \in Id
    BY DEF Hops, Key
  <2> QED
    BY <2>1 DEF Around
<1>2. step \in [SUBSET Id -> SUBSET Id]
  BY <1>1
<1>3. \A V \in SUBSET Id : step[V] = Around(U, V)
  OBVIOUS
<1> HIDE DEF step
<1>4. PICK g : Iterates(g, step, {i}, d)
  BY IterationExists
<1>5. g \in [0..d -> SUBSET Id]
  BY <1>2, <1>4, IterationTyped
<1>6. \A n \in 0..d : n # 0 => n - 1 \in 0..d
  OBVIOUS
<1>7. \A n \in 0..d : g[n] = IF n = 0 THEN {i} ELSE Around(U, g[n - 1])
  BY <1>3, <1>4, <1>5, <1>6 DEF Iterates
<1> QED
  BY <1>5, <1>7 DEF AroundBy

LEMMA RowsExist ==
  ASSUME NEW U \in SUBSET Key, NEW r, r.start \in Id, NEW d \in Nat
  PROVE  \E h : RowsBy(h, r, U, d)
<1> DEFINE X == SUBSET [at : Id, path : SUBSET Key, seen : SUBSET Id]
           step == [W \in X |-> LongerRows(r, U, W)]
<1>1. ASSUME NEW W \in X PROVE LongerRows(r, U, W) \in X
  <2>1. \A v : \A h \in Hops(U, r.direction, v) : h.to \in Id /\ h.over \in Key
    BY DEF Hops, Key
  <2> QED
    BY <2>1 DEF LongerRows
<1>2. Source(r) \in X
  BY DEF Source
<1> HIDE DEF X
<1>3. step \in [X -> X] /\ \A W \in X : step[W] = LongerRows(r, U, W)
  BY <1>1
<1> HIDE DEF step
<1>4. PICK h : Iterates(h, step, Source(r), d)
  BY IterationExists
<1>5. h \in [0..d -> X]
  BY <1>2, <1>3, <1>4, IterationTyped
<1>6. \A n \in 0..d : n # 0 => n - 1 \in 0..d
  OBVIOUS
<1>7. \A n \in 0..d : h[n] = IF n = 0 THEN Source(r) ELSE LongerRows(r, U, h[n - 1])
  BY <1>3, <1>4, <1>5, <1>6 DEF Iterates
<1> QED
  BY <1>5, <1>7 DEF RowsBy

\* How many hops are asked for does not change what is reached in fewer.
LEMMA AroundAgree ==
  ASSUME NEW U, NEW i, NEW d \in Nat, NEW e \in Nat, d <= e,
         NEW f, AroundBy(f, U, i, d), NEW g, AroundBy(g, U, i, e)
  PROVE  \A n \in 0..d : f[n] = g[n]
<1> DEFINE S == { n \in 0..d : f[n] = g[n] }
<1>1. 0 \in S
  BY DEF AroundBy
<1>2. ASSUME NEW n \in 0..d, n \in S, n < d PROVE n + 1 \in S
  <2>1. n + 1 \in 0..d /\ n + 1 \in 0..e /\ n + 1 # 0 /\ (n + 1) - 1 = n
    BY <1>2
  <2>2. f[n + 1] = Around(U, f[n]) /\ g[n + 1] = Around(U, g[n])
    BY <2>1 DEF AroundBy
  <2> QED
    BY <1>2, <2>1, <2>2
<1> HIDE DEF S
<1>3. \A n \in 0..d : n \in S
  BY <1>1, <1>2, SetInduction
<1> QED
  BY <1>3 DEF S

LEMMA AroundNext ==
  ASSUME NEW U, NEW i, NEW d \in Nat, NEW f, AroundBy(f, U, i, d), NEW n \in 0..d, n < d
  PROVE  n + 1 \in 0..d /\ f[n + 1] = Around(U, f[n])
<1>1. n + 1 \in 0..d /\ n + 1 # 0 /\ (n + 1) - 1 = n
  OBVIOUS
<1> QED
  BY <1>1 DEF AroundBy

LEMMA SearchNext ==
  ASSUME NEW r, NEW U, NEW d \in Nat, NEW f, SearchedBy(f, r, U, d), NEW n \in 0..d, n < d
  PROVE  n + 1 \in 0..d /\ f[n + 1] = Longer(r, U, f[n])
<1>1. n + 1 \in 0..d /\ n + 1 # 0 /\ (n + 1) - 1 = n
  OBVIOUS
<1> QED
  BY <1>1 DEF SearchedBy

LEMMA RowsNext ==
  ASSUME NEW r, NEW U, NEW d \in Nat, NEW f, RowsBy(f, r, U, d), NEW n \in 0..d, n < d
  PROVE  n + 1 \in 0..d /\ f[n + 1] = LongerRows(r, U, f[n])
<1>1. n + 1 \in 0..d /\ n + 1 # 0 /\ (n + 1) - 1 = n
  OBVIOUS
<1> QED
  BY <1>1 DEF RowsBy

\* More hops reach no less, and one hop reaches the other end of a relation.
LEMMA AroundGrows ==
  ASSUME NEW U, NEW i, NEW d \in Nat, NEW g, AroundBy(g, U, i, d), NEW m \in 0..d
  PROVE  \A n \in 0..d : m <= n => g[m] \subseteq g[n]
<1>0. \A n \in 0..d : n < d => n + 1 \in 0..d /\ g[n + 1] = Around(U, g[n])
  BY AroundNext
<1> DEFINE S == { n \in 0..d : m <= n => g[m] \subseteq g[n] }
<1>1. 0 \in S
  OBVIOUS
<1>2. ASSUME NEW n \in 0..d, n \in S, n < d PROVE n + 1 \in S
  <2>1. \A V : V \subseteq Around(U, V)
    BY DEF Around
  <2>2. n + 1 \in 0..d /\ g[n + 1] = Around(U, g[n])
    BY <1>0, <1>2
  <2>3. n + 1 \in 0..d /\ g[n] \subseteq g[n + 1]
    BY <2>1, <2>2
  <2>4. m <= n => g[m] \subseteq g[n]
    BY <1>2
  <2>5. m <= n + 1 => g[m] \subseteq g[n + 1]
    <3>1. m <= n + 1 => m <= n \/ m = n + 1
      OBVIOUS
    <3> QED
      BY <2>3, <2>4, <3>1
  <2> QED
    BY <2>3, <2>5
<1> HIDE DEF S
<1>3. \A n \in 0..d : n \in S
  BY <1>1, <1>2, SetInduction
<1> QED
  BY <1>3 DEF S

\* A record that is reached is reached first in some number of hops.
LEMMA ReachedFirst ==
  ASSUME NEW d \in Nat, NEW g, NEW v, NEW n \in 0..d, v \in g[n]
  PROVE  \E m \in 0..n : v \in g[m] /\ \A l \in 0..d : l < m => v \notin g[l]
<1> DEFINE At == { m \in 0..d : v \in g[m] }
<1>1. PICK m \in At : \A l \in At : m <= l
  <2>1. At \in SUBSET Nat /\ n \in At
    OBVIOUS
  <2> HIDE DEF At
  <2> QED
    BY <2>1, LeastNumber
<1>2. m \in 0..n /\ v \in g[m]
  BY <1>1
<1>3. \A l \in 0..d : l < m => v \notin g[l]
  BY <1>1
<1> QED
  BY <1>2, <1>3

\* A hop over relations of U, whatever its direction, ends where Around looks.
LEMMA HopsAround ==
  ASSUME NEW U, NEW V, NEW v \in V, NEW d, NEW h \in Hops(U, d, v)
  PROVE  h.to \in Around(U, V)
<1>1. Hops(U, d, v) \subseteq Hops(U, "both", v)
  BY DEF Hops
<1> QED
  BY <1>1 DEF Around

\* A walk, and a row, is one that was there or one with a further hop.
Extended(w, h) == [at |-> h.to, path |-> w.path \cup {h.over}, seen |-> w.seen \cup {h.to}]

LEMMA LongerWalk ==
  ASSUME NEW r, NEW U, NEW W
  PROVE  \A w : w \in Longer(r, U, W) <=>
           \/ w \in W
           \/ \E v \in W : \E h \in Hops(U, r.direction, v.at) :
                v.at # r.target /\ h.to \notin v.seen /\ w = Extended(v, h)
BY DEF Longer, Extended

LEMMA LongerRow ==
  ASSUME NEW r, NEW U, NEW W
  PROVE  \A w : w \in LongerRows(r, U, W) <=>
           \/ w \in W
           \/ \E v \in W : \E h \in Hops(U, r.direction, v.at) :
                h.over \notin v.path /\ w = Extended(v, h)
BY DEF LongerRows, Extended

\* What a search finds within n hops is within n hops.
LEMMA WalksReach ==
  ASSUME NEW U, NEW r, NEW d \in Nat, NEW f, SearchedBy(f, r, U, d),
         NEW g, AroundBy(g, U, r.start, d)
  PROVE  \A n \in 0..d : \A w \in f[n] : w.at \in g[n]
<1> DEFINE S == { n \in 0..d : \A w \in f[n] : w.at \in g[n] }
<1>1. 0 \in S
  BY DEF SearchedBy, AroundBy, Source
<1>2. ASSUME NEW n \in 0..d, n \in S, n < d PROVE n + 1 \in S
  <2>1. n + 1 \in 0..d /\ f[n + 1] = Longer(r, U, f[n]) /\ g[n + 1] = Around(U, g[n])
    BY <1>2, SearchNext, AroundNext
  <2>2. ASSUME NEW w \in f[n + 1] PROVE w.at \in g[n + 1]
    <3>1. CASE w \in f[n]
      BY <1>2, <2>1, <3>1 DEF Around
    <3>2. ASSUME NEW v \in f[n], NEW h \in Hops(U, r.direction, v.at), w = Extended(v, h)
          PROVE  w.at \in g[n + 1]
      <4>1. v.at \in g[n] /\ w.at = h.to
        BY <1>2, <3>2 DEF Extended
      <4> QED
        BY <2>1, <4>1, HopsAround
    <3> QED
      BY <2>1, <3>1, <3>2, LongerWalk
  <2> QED
    BY <2>1, <2>2
<1> HIDE DEF S
<1>3. \A n \in 0..d : n \in S
  BY <1>1, <1>2, SetInduction
<1> QED
  BY <1>3 DEF S

LEMMA RowsReach ==
  ASSUME NEW U, NEW r, NEW d \in Nat, NEW f, RowsBy(f, r, U, d),
         NEW g, AroundBy(g, U, r.start, d)
  PROVE  \A n \in 0..d : \A w \in f[n] : w.at \in g[n]
<1> DEFINE S == { n \in 0..d : \A w \in f[n] : w.at \in g[n] }
<1>1. 0 \in S
  BY DEF RowsBy, AroundBy, Source
<1>2. ASSUME NEW n \in 0..d, n \in S, n < d PROVE n + 1 \in S
  <2>1. n + 1 \in 0..d /\ f[n + 1] = LongerRows(r, U, f[n]) /\ g[n + 1] = Around(U, g[n])
    BY <1>2, RowsNext, AroundNext
  <2>2. ASSUME NEW w \in f[n + 1] PROVE w.at \in g[n + 1]
    <3>1. CASE w \in f[n]
      BY <1>2, <2>1, <3>1 DEF Around
    <3>2. ASSUME NEW v \in f[n], NEW h \in Hops(U, r.direction, v.at), w = Extended(v, h)
          PROVE  w.at \in g[n + 1]
      <4>1. v.at \in g[n] /\ w.at = h.to
        BY <1>2, <3>2 DEF Extended
      <4> QED
        BY <2>1, <4>1, HopsAround
    <3> QED
      BY <2>1, <3>1, <3>2, LongerRow
  <2> QED
    BY <2>1, <2>2
<1> HIDE DEF S
<1>3. \A n \in 0..d : n \in S
  BY <1>1, <1>2, SetInduction
<1> QED
  BY <1>3 DEF S

\* A search keeps the walks it has.
LEMMA SearchGrows ==
  ASSUME NEW U, NEW r, NEW d \in Nat, NEW f, SearchedBy(f, r, U, d), NEW m \in 0..d
  PROVE  \A n \in 0..d : m <= n => f[m] \subseteq f[n]
<1>0. \A n \in 0..d : n < d => n + 1 \in 0..d /\ f[n + 1] = Longer(r, U, f[n])
  BY SearchNext
<1> DEFINE S == { n \in 0..d : m <= n => f[m] \subseteq f[n] }
<1>1. 0 \in S
  OBVIOUS
<1>2. ASSUME NEW n \in 0..d, n \in S, n < d PROVE n + 1 \in S
  <2>1. \A V : V \subseteq Longer(r, U, V)
    BY DEF Longer
  <2>2. n + 1 \in 0..d /\ f[n + 1] = Longer(r, U, f[n])
    BY <1>0, <1>2
  <2>3. n + 1 \in 0..d /\ f[n] \subseteq f[n + 1]
    BY <2>1, <2>2
  <2>4. m <= n => f[m] \subseteq f[n]
    BY <1>2
  <2>5. m <= n + 1 => f[m] \subseteq f[n + 1]
    <3>1. m <= n + 1 => m <= n \/ m = n + 1
      OBVIOUS
    <3> QED
      BY <2>3, <2>4, <3>1
  <2> QED
    BY <2>3, <2>5
<1> HIDE DEF S
<1>3. \A n \in 0..d : n \in S
  BY <1>1, <1>2, SetInduction
<1> QED
  BY <1>3 DEF S

\* A walk that has left its start has used a relation, it has seen both ends of
\* those it used, and nothing else but its start.
WalkSound(w, i, U) ==
  /\ w.at \in w.seen /\ (w.at = i \/ w.path # {})
  /\ \A k \in w.path : k.from \in w.seen /\ k.to \in w.seen
  /\ \A x \in w.seen : x = i \/ \E k \in U : x = k.from \/ x = k.to

LEMMA HopJoins ==
  ASSUME NEW U, NEW d, NEW v, NEW h \in Hops(U, d, v)
  PROVE  /\ h.over \in U
         /\ \/ h.over.from = v /\ h.over.to = h.to
            \/ h.over.to = v /\ h.over.from = h.to
BY DEF Hops

LEMMA WalksSound ==
  ASSUME NEW U, NEW r, NEW d \in Nat, NEW f, SearchedBy(f, r, U, d)
  PROVE  \A n \in 0..d : \A w \in f[n] : WalkSound(w, r.start, U)
<1> DEFINE S == { n \in 0..d : \A w \in f[n] : WalkSound(w, r.start, U) }
<1>1. 0 \in S
  BY DEF SearchedBy, Source, WalkSound
<1>2. ASSUME NEW n \in 0..d, n \in S, n < d PROVE n + 1 \in S
  <2>1. n + 1 \in 0..d /\ f[n + 1] = Longer(r, U, f[n])
    BY <1>2, SearchNext
  <2>2. ASSUME NEW w \in f[n + 1] PROVE WalkSound(w, r.start, U)
    <3>1. CASE w \in f[n]
      BY <1>2, <3>1
    <3>2. ASSUME NEW v \in f[n], NEW h \in Hops(U, r.direction, v.at), w = Extended(v, h)
          PROVE  WalkSound(w, r.start, U)
      <4>1. WalkSound(v, r.start, U)
        BY <1>2
      <4>2. w.at = h.to /\ w.path = v.path \cup {h.over} /\ w.seen = v.seen \cup {h.to}
        BY <3>2 DEF Extended
      <4>3. h.over \in U /\ \/ h.over.from = v.at /\ h.over.to = h.to
                            \/ h.over.to = v.at /\ h.over.from = h.to
        BY HopJoins
      <4> QED
        BY <4>1, <4>2, <4>3 DEF WalkSound
    <3> QED
      BY <2>1, <3>1, <3>2, LongerWalk
  <2> QED
    BY <2>1, <2>2
<1> HIDE DEF S
<1>3. \A n \in 0..d : n \in S
  BY <1>1, <1>2, SetInduction
<1> QED
  BY <1>3 DEF S

\* A walk that visits no record twice uses no relation twice.
LEMMA WalksAreRows ==
  ASSUME NEW U, NEW r, NEW d \in Nat, NEW f, SearchedBy(f, r, U, d), NEW g, RowsBy(g, r, U, d)
  PROVE  \A n \in 0..d : f[n] \subseteq g[n]
<1> DEFINE S == { n \in 0..d : f[n] \subseteq g[n] }
<1>1. 0 \in S
  BY DEF SearchedBy, RowsBy
<1>2. ASSUME NEW n \in 0..d, n \in S, n < d PROVE n + 1 \in S
  <2>1. /\ n + 1 \in 0..d /\ f[n + 1] = Longer(r, U, f[n])
        /\ g[n + 1] = LongerRows(r, U, g[n])
    BY <1>2, SearchNext, RowsNext
  <2>2. ASSUME NEW w \in f[n + 1] PROVE w \in g[n + 1]
    <3>1. CASE w \in f[n]
      BY <1>2, <2>1, <3>1, LongerRow
    <3>2. ASSUME NEW v \in f[n], NEW h \in Hops(U, r.direction, v.at),
                 h.to \notin v.seen, w = Extended(v, h)
          PROVE  w \in g[n + 1]
      <4>1. WalkSound(v, r.start, U)
        BY WalksSound
      <4>2. h.over.from = h.to \/ h.over.to = h.to
        BY HopJoins
      <4>3. h.over \notin v.path
        BY <3>2, <4>1, <4>2 DEF WalkSound
      <4> QED
        BY <1>2, <2>1, <3>2, <4>3, LongerRow
    <3> QED
      BY <2>1, <3>1, <3>2, LongerWalk
  <2> QED
    BY <2>1, <2>2
<1> HIDE DEF S
<1>3. \A n \in 0..d : n \in S
  BY <1>1, <1>2, SetInduction
<1> QED
  BY <1>3 DEF S

(***************************************************************************)
(* The search finds every record that is n hops away and no fewer, unless  *)
(* it passed the target: over a walk through n other records, all of them  *)
(* within n hops.                                                          *)
(***************************************************************************)
ShortWalk(w, v, n, V) ==
  /\ w.at = v /\ w.seen \subseteq V
  /\ IsFiniteSet(w.seen) /\ Cardinality(w.seen) = n + 1

LEMMA ExtendedWalk ==
  ASSUME NEW w, NEW u, NEW n \in Nat, NEW V, NEW X, ShortWalk(w, u, n, V), V \subseteq X,
         NEW h, h.to \in X, h.to \notin V
  PROVE  ShortWalk(Extended(w, h), h.to, n + 1, X)
<1>1. /\ IsFiniteSet(w.seen \cup {h.to}) /\ h.to \notin w.seen
      /\ Cardinality(w.seen \cup {h.to}) = Cardinality(w.seen) + 1
  BY FS_AddElement DEF ShortWalk
<1>2. Extended(w, h).at = h.to /\ Extended(w, h).seen = w.seen \cup {h.to}
  BY DEF Extended
<1> QED
  BY <1>1, <1>2 DEF ShortWalk

LEMMA WalkFound ==
  ASSUME NEW U, NEW r, r.direction = "both", NEW d \in Nat, NEW f, SearchedBy(f, r, U, d),
         NEW g, AroundBy(g, U, r.start, d)
  PROVE  \A n \in 0..d : \A v \in g[n] :
           (n # 0 => v \notin g[n - 1] /\ r.target \notin g[n - 1])
             => \E w \in f[n] : ShortWalk(w, v, n, g[n])
<1> DEFINE Nearest(n, v) == n # 0 => v \notin g[n - 1] /\ r.target \notin g[n - 1]
           S == { n \in 0..d : \A v \in g[n] :
                    Nearest(n, v) => \E w \in f[n] : ShortWalk(w, v, n, g[n]) }
<1>1. 0 \in S
  <2>1. g[0] = {r.start} /\ f[0] = Source(r)
    BY DEF SearchedBy, AroundBy
  <2>2. IsFiniteSet({r.start}) /\ Cardinality({r.start}) = 1
    BY FS_Singleton
  <2>3. \A w \in Source(r) : ShortWalk(w, r.start, 0, {r.start})
    <3>1. 0 + 1 = 1
      OBVIOUS
    <3>2. \A w \in Source(r) : w.at = r.start /\ w.seen = {r.start}
      BY DEF Source
    <3> QED
      BY <2>2, <3>1, <3>2 DEF ShortWalk
  <2>4. \E w \in Source(r) : TRUE
    BY DEF Source
  <2> QED
    BY <2>1, <2>3, <2>4
<1>2. ASSUME NEW n \in 0..d, n \in S, n < d PROVE n + 1 \in S
  <2>1. /\ n + 1 \in 0..d /\ f[n + 1] = Longer(r, U, f[n])
        /\ g[n + 1] = Around(U, g[n])
    BY <1>2, SearchNext, AroundNext
  <2>2. n + 1 # 0 /\ (n + 1) - 1 = n /\ n <= n + 1
    OBVIOUS
  <2>3. g[n] \subseteq g[n + 1]
    BY <2>1 DEF Around
  <2>4. ASSUME NEW v \in g[n + 1], v \notin g[n], r.target \notin g[n]
        PROVE  \E w \in f[n + 1] : ShortWalk(w, v, n + 1, g[n + 1])
    <3>0. PICK u \in g[n] : \E h \in Hops(U, "both", u) : v = h.to
      BY <2>1, <2>4 DEF Around
    <3>1. PICK h \in Hops(U, "both", u) : v = h.to
      BY <3>0
    <3>2. n # 0 => u \notin g[n - 1] /\ r.target \notin g[n - 1]
      <4> SUFFICES ASSUME n # 0 PROVE u \notin g[n - 1] /\ r.target \notin g[n - 1]
        OBVIOUS
      <4>1. n - 1 \in 0..d /\ n - 1 < d /\ (n - 1) + 1 = n
        BY <1>2
      <4>2. g[n] = Around(U, g[n - 1])
        BY <4>1, AroundNext
      <4>3. r.target \notin g[n - 1]
        BY <2>4, <4>2 DEF Around
      <4>4. u \in g[n - 1] => h.to \in Around(U, g[n - 1])
        BY <3>1, HopsAround
      <4> QED
        BY <2>4, <3>1, <4>2, <4>3, <4>4
    <3>3. PICK w \in f[n] : ShortWalk(w, u, n, g[n])
      BY <1>2, <3>2
    <3>4. w.at = u /\ u # r.target /\ h.to \notin w.seen
      BY <2>4, <3>1, <3>3 DEF ShortWalk
    <3>5. Extended(w, h) \in f[n + 1]
      BY <2>1, <3>1, <3>4, LongerWalk
    <3>6. ShortWalk(Extended(w, h), h.to, n + 1, g[n + 1])
      BY <2>3, <2>4, <3>1, <3>3, ExtendedWalk
    <3> QED
      BY <3>1, <3>5, <3>6
  <2> QED
    BY <2>1, <2>2, <2>4
<1> HIDE DEF S
<1>3. \A n \in 0..d : n \in S
  BY <1>1, <1>2, SetInduction
<1> QED
  BY <1>3 DEF S

\* So the search over d hops finds its target exactly if it is within d hops.
LEMMA TargetFound ==
  ASSUME NEW U, NEW r, r.direction = "both", NEW d \in Nat, NEW f, SearchedBy(f, r, U, d),
         NEW g, AroundBy(g, U, r.start, d)
  PROVE  (\E w \in f[d] : w.at = r.target) <=> r.target \in g[d]
<1>1. (\E w \in f[d] : w.at = r.target) => r.target \in g[d]
  BY WalksReach
<1>2. ASSUME r.target \in g[d] PROVE \E w \in f[d] : w.at = r.target
  <2>1. PICK m \in 0..d : r.target \in g[m] /\ \A l \in 0..d : l < m => r.target \notin g[l]
    BY <1>2, ReachedFirst
  <2>2. m # 0 => r.target \notin g[m - 1]
    <3>1. m # 0 => m - 1 \in 0..d /\ m - 1 < m
      OBVIOUS
    <3> QED
      BY <2>1, <3>1
  <2>3. PICK w \in f[m] : ShortWalk(w, r.target, m, g[m])
    BY <2>1, <2>2, WalkFound
  <2>4. f[m] \subseteq f[d]
    BY SearchGrows
  <2> QED
    BY <2>3, <2>4 DEF ShortWalk
<1> QED
  BY <1>1, <1>2

\* What is reached at all is reached in fewer hops than there are records.
LEMMA ReachedWithin ==
  ASSUME NEW U \in SUBSET Key, NEW i \in Id, NEW d \in Nat, NEW g, AroundBy(g, U, i, d),
         NEW n \in 0..d, NEW v \in g[n]
  PROVE  \E m \in 0..n : m < Cardinality(Id) /\ v \in g[m]
<1>1. PICK m \in 0..n : v \in g[m] /\ \A l \in 0..d : l < m => v \notin g[l]
  BY ReachedFirst
<1> DEFINE r == [start |-> i, target |-> v, direction |-> "both"]
<1>2. PICK f : SearchedBy(f, r, U, d)
  BY SearchExists
<1>3. m \in 0..d /\ (m # 0 => v \notin g[m - 1])
  <2>1. m \in 0..d /\ (m # 0 => m - 1 \in 0..d /\ m - 1 < m)
    OBVIOUS
  <2> QED
    BY <1>1, <2>1
<1>4. r.direction = "both" /\ r.start = i /\ r.target = v
  OBVIOUS
<1> HIDE DEF r
<1>5. PICK w \in f[m] : ShortWalk(w, v, m, g[m])
  BY <1>1, <1>2, <1>3, <1>4, WalkFound
<1>6. g[m] \subseteq Id
  <2>1. PICK G \in [0..d -> SUBSET Id] : AroundBy(G, U, i, d)
    BY AroundExists
  <2>2. G[m] = g[m]
    BY <1>3, <2>1, AroundAgree
  <2> QED
    BY <1>3, <2>1, <2>2
<1>7. Cardinality(w.seen) <= Cardinality(Id) /\ Cardinality(Id) \in Nat
  <2>1. w.seen \subseteq Id
    BY <1>5, <1>6 DEF ShortWalk
  <2> QED
    BY <2>1, GraphAssumption, FS_Subset, FS_CardinalityType
<1>8. m + 1 <= Cardinality(Id)
  BY <1>5, <1>7 DEF ShortWalk
<1> QED
  BY <1>1, <1>7, <1>8

\* The three searches of a request, over the relations that it may use.
LEMMA RowsSearched ==
  ASSUME NEW r, r.start \in Id, r.depth \in Nat
  PROVE  \E h : /\ RowsBy(h, r, Usable(r), r.depth)
                /\ Rows(r) = { w \in h[r.depth] :
                                 /\ w.path # {} /\ r.target \in {Absent, w.at}
                                 /\ r.proposed \/ \A i \in w.seen : nodes[i] \in ApprovedNode }
<1> DEFINE h == CHOOSE g : RowsBy(g, r, Usable(r), r.depth)
<1>1. \E g : RowsBy(g, r, Usable(r), r.depth)
  <2>1. PICK U \in SUBSET Key : U = Usable(r)
    BY DEF Usable
  <2>2. \E g : RowsBy(g, r, U, r.depth)
    BY RowsExist
  <2> QED
    BY <2>1, <2>2
<1>2. RowsBy(h, r, Usable(r), r.depth)
  BY <1>1
<1>3. Rows(r) = { w \in h[r.depth] :
                    /\ w.path # {} /\ r.target \in {Absent, w.at}
                    /\ r.proposed \/ \A i \in w.seen : nodes[i] \in ApprovedNode }
  BY DEF Rows, RowsBy, Source
<1> QED
  BY <1>2, <1>3

LEMMA FoundAround ==
  ASSUME NEW i \in Id, NEW d \in Nat, Cardinality(Id) <= d,
         NEW g, AroundBy(g, { k \in Key : edges[k] \in ApprovedEdge }, i, d)
  PROVE  Found(i) = g[Cardinality(Id)]
<1>1. PICK U \in SUBSET Key : U = { k \in Key : edges[k] \in ApprovedEdge }
  OBVIOUS
<1>2. PICK N \in Nat : N = Cardinality(Id)
  BY GraphAssumption, FS_CardinalityType
<1> DEFINE f == CHOOSE f : AroundBy(f, U, i, N)
<1>3. AroundBy(f, U, i, N)
  BY AroundExists
<1>4. Found(i) = f[N]
  BY <1>1, <1>2 DEF Found, AroundBy
<1> HIDE DEF f
<1>5. \A n \in 0..N : f[n] = g[n]
  BY <1>1, <1>2, <1>3, AroundAgree
<1> QED
  BY <1>2, <1>4, <1>5

LEMMA RelationsAround ==
  ASSUME NEW r, r.direction = "both", r.depth \in Nat,
         r.target # Absent, r.target # r.start,
         NEW g, AroundBy(g, Usable(r), r.start, r.depth)
  PROVE  Relations(r) # {} <=> r.target \in g[r.depth]
<1>1. PICK U : U = Usable(r)
  OBVIOUS
<1>2. PICK f : SearchedBy(f, r, U, r.depth) /\ Walks(r, U) = f[r.depth]
  BY WalksSearched
<1>3. (\E w \in f[r.depth] : w.at = r.target) <=> r.target \in g[r.depth]
  BY <1>1, <1>2, TargetFound
<1>4. \A w \in f[r.depth] : w.at = r.target => w.path # {}
  <2>1. \A w \in f[r.depth] : WalkSound(w, r.start, U)
    <3>1. r.depth \in 0..r.depth
      OBVIOUS
    <3> QED
      BY <1>2, <3>1, WalksSound
  <2> QED
    BY <2>1 DEF WalkSound
<1>5. Relations(r) # {} <=> \E w \in f[r.depth] : w.at = r.target /\ w.path # {}
  BY <1>1, <1>2 DEF Relations
<1> QED
  BY <1>3, <1>4, <1>5

LEMMA RowsAround ==
  ASSUME NEW r, r.direction = "both", r.depth \in Nat, r.start \in Id,
         r.target # Absent, r.target # r.start,
         NEW g, AroundBy(g, Usable(r), r.start, r.depth)
  PROVE  /\ Rows(r) # {} => r.target \in g[r.depth]
         /\ /\ r.target \in g[r.depth] /\ nodes[r.start] # Absent /\ EndpointsRegistered
            /\ \A k \in Id : nodes[k] \in ApprovedNode \cup {Absent}
            => Rows(r) # {}
<1>1. PICK U \in SUBSET Key : U = Usable(r)
  BY DEF Usable
<1>2. PICK h : /\ RowsBy(h, r, U, r.depth)
               /\ Rows(r) = { w \in h[r.depth] :
                                /\ w.path # {} /\ r.target \in {Absent, w.at}
                                /\ r.proposed \/ \A i \in w.seen : nodes[i] \in ApprovedNode }
  BY <1>1, RowsSearched
<1>3. Rows(r) # {} => r.target \in g[r.depth]
  <2>1. \A w \in h[r.depth] : w.at \in g[r.depth]
    <3>1. r.depth \in 0..r.depth
      OBVIOUS
    <3> QED
      BY <1>1, <1>2, <3>1, RowsReach
  <2> QED
    BY <1>2, <2>1
<1>4. ASSUME r.target \in g[r.depth], nodes[r.start] # Absent, EndpointsRegistered,
             \A k \in Id : nodes[k] \in ApprovedNode \cup {Absent}
      PROVE  Rows(r) # {}
  <2>1. PICK f : SearchedBy(f, r, U, r.depth)
    BY SearchExists
  <2>2. PICK w \in f[r.depth] : w.at = r.target
    BY <1>1, <1>4, <2>1, TargetFound
  <2>3. WalkSound(w, r.start, U)
    BY <2>1, WalksSound
  <2>4. f[r.depth] \subseteq h[r.depth]
    BY <1>2, <2>1, WalksAreRows
  <2>5. ASSUME NEW x \in w.seen PROVE nodes[x] \in ApprovedNode
    <3>1. x = r.start \/ \E k \in U : x = k.from \/ x = k.to
      BY <2>3 DEF WalkSound
    <3>2. \A k \in U : /\ k.from \in Id /\ k.to \in Id
                       /\ nodes[k.from] # Absent /\ nodes[k.to] # Absent
      BY <1>1, <1>4 DEF Usable, EndpointsRegistered, Key
    <3>3. x \in Id /\ nodes[x] # Absent
      BY <1>4, <3>1, <3>2
    <3> QED
      BY <1>4, <3>3
  <2> QED
    BY <1>2, <2>2, <2>3, <2>4, <2>5 DEF WalkSound
<1> QED
  BY <1>3, <1>4

(***************************************************************************)
(* Whoever finds evidence with less finds it with more: the service        *)
(* within six hops, the demo at any distance, Neo4j on approved records.   *)
(***************************************************************************)
BackendsOrdered ==
  \A i, j \in Id : i # j =>
    LET r     == Between(i, j)
        here  == Status(r, Relations(r))
        neo4j == Status(r, Rows(r))
    IN  /\ here = "ok" => DemoStatus(i, j) = "ok"
        /\ neo4j = "ok" => here = "ok"
        /\ (\A k \in Id : nodes[k] \in ApprovedNode \cup {Absent}) => neo4j = here

\* Approved relations lead from the one record to the other in six hops or fewer.
Near(i, j) ==
  \E g : AroundBy(g, { k \in Key : edges[k] \in ApprovedEdge }, i, 6) /\ j \in g[6]

LEMMA AnswersCompared ==
  ASSUME EndpointsRegistered, NEW i \in Id, NEW j \in Id, i # j,
                      NEW r, r = Between(i, j)
  PROVE  /\ Relations(r) # {} => j \in Found(i)
         /\ Relations(r) # {} <=> Near(i, j)
         /\ Cardinality(Id) <= 7 => (j \in Found(i) => Relations(r) # {})
         /\ Rows(r) # {} => Relations(r) # {}
         /\ /\ Relations(r) # {} /\ nodes[i] # Absent
            /\ \A k \in Id : nodes[k] \in ApprovedNode \cup {Absent}
            => Rows(r) # {}
<1>1. /\ r.start = i /\ r.target = j /\ r.direction = "both"
      /\ r.types = RelType /\ r.depth = 6 /\ r.proposed = FALSE
  BY DEF Between
<1>2. j # Absent
  BY GraphAssumption
<1>3. PICK U \in SUBSET Key : U = Usable(r) /\ U = { k \in Key : edges[k] \in ApprovedEdge }
  <2>1. \A k \in Key : k.type \in RelType
    BY DEF Key
  <2> QED
    BY <1>1, <2>1, AbsentAssumption, QueryAssumption DEF Usable
<1>4. PICK N \in Nat, D \in Nat : N = Cardinality(Id) /\ D = N + 6
  BY GraphAssumption, FS_CardinalityType
<1>5. PICK g : AroundBy(g, U, i, D)
  BY AroundExists
<1>6. PICK s : AroundBy(s, U, i, 6)
  BY AroundExists
<1>7. s[6] = g[6]
  <2>1. 6 \in Nat /\ 6 <= D /\ 6 \in 0..6
    BY <1>4
  <2> QED
    BY <1>5, <1>6, <2>1, AroundAgree
<1>8. Found(i) = g[N]
  <2>1. AroundBy(g, { k \in Key : edges[k] \in ApprovedEdge }, i, D)
    BY <1>3, <1>5
  <2>2. Cardinality(Id) <= D
    BY <1>4
  <2> QED
    BY <1>4, <2>1, <2>2, FoundAround
<1>9. /\ AroundBy(s, Usable(r), r.start, r.depth) /\ s[r.depth] = g[6]
      /\ r.depth \in Nat /\ r.start \in Id /\ r.target # Absent /\ r.target # r.start
  BY <1>1, <1>2, <1>3, <1>6, <1>7
<1>10. Relations(r) # {} <=> j \in g[6]
  BY <1>1, <1>9, RelationsAround
<1>11. /\ Rows(r) # {} => j \in g[6]
       /\ /\ j \in g[6] /\ nodes[i] # Absent
          /\ \A k \in Id : nodes[k] \in ApprovedNode \cup {Absent}
          => Rows(r) # {}
  BY <1>1, <1>9, RowsAround
<1>12. \A n \in 0..D : j \in g[n] => \E m \in 0..n : m < N /\ j \in g[m]
  BY <1>4, <1>5, ReachedWithin
<1>13. \A m \in 0..D : \A n \in 0..D : m <= n => g[m] \subseteq g[n]
  BY <1>5, AroundGrows
<1>14. j \in g[6] => j \in g[N]
  <2> SUFFICES ASSUME j \in g[6] PROVE j \in g[N]
    OBVIOUS
  <2>1. PICK m \in 0..6 : m < N /\ j \in g[m]
    <3>1. 6 \in 0..D
      BY <1>4
    <3> QED
      BY <1>12, <3>1
  <2>2. m \in 0..D /\ N \in 0..D /\ m <= N
    BY <1>4, <2>1
  <2> QED
    BY <1>13, <2>1, <2>2
<1>15. N <= 7 /\ j \in g[N] => j \in g[6]
  <2> SUFFICES ASSUME N <= 7, j \in g[N] PROVE j \in g[6]
    OBVIOUS
  <2>1. PICK m \in 0..N : m < N /\ j \in g[m]
    <3>1. N \in 0..D
      BY <1>4
    <3> QED
      BY <1>12, <3>1
  <2>2. m \in 0..D /\ 6 \in 0..D /\ m <= 6
    BY <1>4, <2>1
  <2> QED
    BY <1>13, <2>1, <2>2
<1>16. j \in g[6] <=> Near(i, j)
  <2>1. ASSUME NEW h, AroundBy(h, U, i, 6) PROVE h[6] = s[6]
    <3>1. 6 \in Nat /\ 6 <= 6 /\ 6 \in 0..6
      OBVIOUS
    <3> QED
      BY <1>6, <2>1, <3>1, AroundAgree
  <2> QED
    BY <1>3, <1>6, <1>7, <2>1 DEF Near
<1> QED
  BY <1>4, <1>8, <1>10, <1>11, <1>14, <1>15, <1>16

(***************************************************************************)
(* In every reachable graph, whatever its size, the demo lacks no evidence *)
(* that the service has, nor the service any that Neo4j has; where every   *)
(* record is approved, Neo4j has all that the service has.  So a search    *)
(* over paths without repeated relations finds no pair that the search     *)
(* over paths without repeated records misses.                             *)
(***************************************************************************)
THEOREM NoBackendInvents == TraceSpec => []BackendsOrdered
<1>1. EndpointsRegistered => BackendsOrdered
  <2> SUFFICES ASSUME EndpointsRegistered, NEW i \in Id, NEW j \in Id, i # j,
                      NEW r, r = Between(i, j)
               PROVE  /\ Status(r, Relations(r)) = "ok" => DemoStatus(i, j) = "ok"
                      /\ Status(r, Rows(r)) = "ok" => Status(r, Relations(r)) = "ok"
                      /\ (\A k \in Id : nodes[k] \in ApprovedNode \cup {Absent})
                         => Status(r, Rows(r)) = Status(r, Relations(r))
    BY DEF BackendsOrdered
  <2>1. /\ Relations(r) # {} => j \in Found(i)
        /\ Rows(r) # {} => Relations(r) # {}
        /\ /\ Relations(r) # {} /\ nodes[i] # Absent
           /\ \A k \in Id : nodes[k] \in ApprovedNode \cup {Absent}
           => Rows(r) # {}
    BY AnswersCompared
  <2>2. r.start = i /\ r.target = j /\ j # Absent
    BY GraphAssumption DEF Between
  <2> QED
    BY <2>1, <2>2 DEF Status, DemoStatus
<1> QED
  BY <1>1, GraphUnderneath, NoDanglingRelation, PTL

(***************************************************************************)
(* The depth is the only thing that tells the demo and the service apart:  *)
(* in every reachable graph, whatever its size, the service has evidence   *)
(* exactly if the demo has it and it is no more than six hops away, so     *)
(* that neither search, with its own rules for what it visits, cuts off a  *)
(* record that it could have reached (paths(), InMemoryGraph.trace()).     *)
(***************************************************************************)
DepthDecides ==
  \A i, j \in Id : i # j =>
    LET r == Between(i, j)
    IN  Status(r, Relations(r)) = "ok" <=> DemoStatus(i, j) = "ok" /\ Near(i, j)

THEOREM OnlyDepthDiffers == TraceSpec => []DepthDecides
<1>1. EndpointsRegistered => DepthDecides
  <2> SUFFICES ASSUME EndpointsRegistered, NEW i \in Id, NEW j \in Id, i # j,
                      NEW r, r = Between(i, j)
               PROVE  Status(r, Relations(r)) = "ok" <=> DemoStatus(i, j) = "ok" /\ Near(i, j)
    BY DEF DepthDecides
  <2>1. (Relations(r) # {} => j \in Found(i)) /\ (Relations(r) # {} <=> Near(i, j))
    BY AnswersCompared
  <2>2. r.start = i /\ r.target = j /\ j # Absent
    BY GraphAssumption DEF Between
  <2> QED
    BY <2>1, <2>2 DEF Status, DemoStatus
<1> QED
  BY <1>1, GraphUnderneath, NoDanglingRelation, PTL

(***************************************************************************)
(* Among at most seven records nothing is more than six hops away, and the *)
(* demo and the service give one answer in every reachable graph.          *)
(***************************************************************************)
THEOREM BackendsAgreeWithinDepth ==
  ASSUME Cardinality(Id) <= 7
  PROVE  TraceSpec => []BackendsAgree
<1>1. EndpointsRegistered => BackendsAgree
  <2> SUFFICES ASSUME EndpointsRegistered, NEW i \in Id, NEW j \in Id, i # j,
                      NEW r, r = Between(i, j)
               PROVE  /\ DemoStatus(i, j) = Status(r, Relations(r))
                      /\ Status(r, Rows(r)) = "ok" => Status(r, Relations(r)) = "ok"
                      /\ (\A k \in Id : nodes[k] \in ApprovedNode \cup {Absent})
                         => Status(r, Rows(r)) = Status(r, Relations(r))
    BY DEF BackendsAgree
  <2>1. /\ Relations(r) # {} <=> j \in Found(i)
        /\ Rows(r) # {} => Relations(r) # {}
        /\ /\ Relations(r) # {} /\ nodes[i] # Absent
           /\ \A k \in Id : nodes[k] \in ApprovedNode \cup {Absent}
           => Rows(r) # {}
    BY AnswersCompared
  <2>2. r.start = i /\ r.target = j /\ j # Absent
    BY GraphAssumption DEF Between
  <2> QED
    BY <2>1, <2>2 DEF Status, DemoStatus
<1> QED
  BY <1>1, GraphUnderneath, NoDanglingRelation, PTL
=============================================================================
