--------------------------- MODULE Neo4jStoreProofs ---------------------------
(***************************************************************************)
(* Neo4jStore keeps what it promises for any number of processes, batches  *)
(* and restarts: the locks of the database make up for checks that looked  *)
(* at an older state.                                                      *)
(***************************************************************************)
EXTENDS Neo4jStore, EvidenceGraphProofs

Typed ==
  /\ nodes \in [Id -> Mixed \cup {Absent}]
  /\ edges \in [Key -> Stored \cup {Absent}]
  /\ reply \in Replies
  /\ accepted \subseteq Batch
  /\ pc \in [Worker -> Phases]
  /\ batch \in [Worker -> Batch \cup {{}}]
  /\ attempt \in [Worker -> 0 .. MaxAttempts]
  /\ todo_nodes \in [Worker -> SUBSET Id]
  /\ todo_edges \in [Worker -> SUBSET Key]
  /\ new_nodes \in [Worker -> [Id -> Mixed \cup {Absent}]]
  /\ new_edges \in [Worker -> [Key -> Stored \cup {Absent}]]

\* What one transaction has written, no other has.
LockedOnce ==
  \A v, w \in Worker : v # w =>
    /\ \A i \in Id  : new_nodes[v][i] = Absent \/ new_nodes[w][i] = Absent
    /\ \A k \in Key : new_edges[v][k] = Absent \/ new_edges[w][k] = Absent

\* A transaction is about a sound batch, and between calls there is none.
Begun(w) ==
  /\ pc[w] = "idle" => batch[w] = {} /\ new_nodes[w] = NoNodes /\ new_edges[w] = NoEdges
  /\ pc[w] # "idle" => batch[w] \in Batch /\ ~ SelfConflicting(batch[w])
  /\ todo_nodes[w] \subseteq IdsOf(batch[w])
  /\ todo_edges[w] \subseteq KeysOf(batch[w])

\* A transaction wrote what a MERGE of its batch into the committed nodes
\* gives, not only at the time of the MERGE but still.
Written(w) ==
  /\ \A i \in Id : new_nodes[w][i] # Absent =>
       /\ i \in IdsOf(batch[w])
       /\ new_nodes[w][i] = MergedNode(nodes[i], NodeOf(batch[w], i))
  /\ \A k \in Key : new_edges[w][k] # Absent =>
       /\ k \in KeysOf(batch[w])
       /\ new_edges[w][k] = StoredEdge(EdgeOf(batch[w], k))

\* What the loops of work(tx) have passed: of the relations only those whose
\* target comes with the batch are sure to have been written.
Passed(w) ==
  /\ pc[w] \in {"write_nodes", "write_edges", "count", "commit"} =>
       /\ \A i \in IdsOf(batch[w]) \ todo_nodes[w] : new_nodes[w][i] # Absent
       /\ \A k \in KeysOf(batch[w]) \ todo_edges[w] :
            k.to \in IdsOf(batch[w]) => new_edges[w][k] # Absent
  /\ pc[w] \in {"write_edges", "count", "commit"} => todo_nodes[w] = {}
  /\ pc[w] \in {"count", "commit"} => todo_edges[w] = {}
  /\ pc[w] = "commit" => \A k \in KeysOf(batch[w]) : Visible(w, k.to)

Sane(w) == Begun(w) /\ Written(w) /\ Passed(w)

IInv == Typed /\ LockedOnce /\ \A w \in Worker : Sane(w)

-----------------------------------------------------------------------------
(***************************************************************************)
(* The statements: a MERGE of a node into a stored one, or into nothing,   *)
(* gives a stored node, and never brings an inference where a definition   *)
(* was approved by a human.                                                *)
(***************************************************************************)
LEMMA MixedShape ==
  ASSUME NEW x \in Mixed
  PROVE  \E n, m, p \in Node : x = With(n, m.extra, p.prov)
BY DEF Mixed

LEMMA MixedHas ==
  ASSUME NEW n \in Node, NEW m \in Node, NEW p \in Node
  PROVE  With(n, m.extra, p.prov) \in Mixed
BY DEF Mixed

LEMMA NodesAreMixed ==
  ASSUME NEW n \in Node
  PROVE  n = With(n, n.extra, n.prov) /\ n \in Mixed
<1>1. n = With(n, n.extra, n.prov)
  BY Zenon, ShapeAssumption DEF With
<1> QED
  BY <1>1, MixedHas

LEMMA MergeGivesMixed ==
  ASSUME NEW stored \in Mixed \cup {Absent}, NEW n \in Node
  PROVE  MergedNode(stored, n) \in Mixed /\ MergedNode(stored, n) # Absent
<1>1. CASE stored = Absent
  BY <1>1, NodesAreMixed, SentinelAssumption DEF MergedNode
<1>2. CASE stored # Absent
  <2>1. PICK s, t, u \in Node : stored = With(s, t.extra, u.prov)
    BY <1>2, MixedShape
  <2>2. \A x, y : With(stored, x, y) = With(s, x, y) /\ stored.extra = t.extra
    BY <2>1 DEF With
  <2>3. \A x, y : With(stored, x, y) = With(s, x, y)
    BY <2>2
  <2>4. MergedNode(stored, n) \in { With(c, x.extra, n.prov) : c \in {n, s}, x \in {n, t} }
    BY <1>2, <2>2, <2>3 DEF MergedNode
  <2>5. MergedNode(stored, n) \in Mixed
    BY <2>4, MixedHas
  <2> QED
    BY <2>5, SentinelAssumption
<1> QED
  BY <1>1, <1>2

LEMMA StoredEdges ==
  ASSUME NEW e \in Edge
  PROVE  StoredEdge(e) \in Stored /\ StoredEdge(e) # Absent
<1>1. StoredEdge(e) \in Stored
  BY Zenon DEF Stored
<1> QED
  BY <1>1, SentinelAssumption

\* A MERGE of what is stored changes nothing.
LEMMA MergeOfSame ==
  ASSUME NEW n \in Node
  PROVE  MergedNode(n, n) = n
BY NodesAreMixed, AbsentAssumption DEF MergedNode

LEMMA MergeKeepsApproval ==
  ASSUME NEW stored \in Mixed, NEW n \in Node, Protected(stored)
  PROVE  MergedNode(stored, n).status = "approved" /\ MergedNode(stored, n).method # "ai_inferred"
<1>1. stored # Absent
  BY SentinelAssumption
<1>2. CASE n.status = "approved"
  BY <1>1, <1>2, InferenceAssumption DEF MergedNode, With
<1>3. CASE n.status # "approved"
  BY <1>1, <1>3 DEF MergedNode, Protected, With
<1> QED
  BY <1>2, <1>3
-----------------------------------------------------------------------------
(***************************************************************************)
(* A step is taken by one worker.  The others keep their facts, since no   *)
(* node that they have locked changes, and no node disappears.             *)
(***************************************************************************)
Untouched(v) ==
  /\ pc'[v] = pc[v] /\ batch'[v] = batch[v]
  /\ todo_nodes'[v] = todo_nodes[v] /\ todo_edges'[v] = todo_edges[v]
  /\ new_nodes'[v] = new_nodes[v] /\ new_edges'[v] = new_edges[v]

LocksRespected(v) ==
  \A i \in Id : new_nodes[v][i] # Absent => nodes'[i] = nodes[i]

NodesStay == \A i \in Id : nodes[i] # Absent => nodes'[i] # Absent

LEMMA BatchInput ==
  ASSUME NEW w, Begun(w), pc[w] # "idle"
  PROVE  /\ \A i \in IdsOf(batch[w]) : NodeOf(batch[w], i) \in Node /\ i \in Id
         /\ \A k \in KeysOf(batch[w]) :
              /\ EdgeOf(batch[w], k) \in Edge
              /\ k \in Key /\ k.to \in Id /\ k.from \in IdsOf(batch[w])
<1>1. batch[w] \in Batch
  BY DEF Begun
<1>2. \A k \in Key : k.to \in Id
  BY DEF Key
<1> QED
  BY <1>1, <1>2, NodeOfIsNode, EdgeOfIsEdge

LEMMA UntouchedStaySane ==
  ASSUME NEW v \in Worker, Sane(v), Untouched(v), LocksRespected(v), NodesStay
  PROVE  Sane(v)'
<1>1. Begun(v)'
  BY DEF Sane, Begun, Untouched
<1>2. Written(v)'
  BY DEF Sane, Written, Untouched, LocksRespected
<1>3. Passed(v)'
  <2>1. ASSUME pc[v] = "commit", NEW k \in KeysOf(batch[v]) PROVE Visible(v, k.to)'
    BY <2>1, BatchInput DEF Sane, Passed, Visible, Untouched, NodesStay
  <2> QED
    BY <2>1 DEF Sane, Passed, Untouched
<1> QED
  BY <1>1, <1>2, <1>3 DEF Sane

\* So what is left of a step are the facts of the worker that takes it.
LEMMA OneWorkerMoves ==
  ASSUME IInv, NEW w \in Worker, Typed', Sane(w)', NodesStay,
         \A v \in Worker \ {w} : Untouched(v) /\ LocksRespected(v),
         \A v \in Worker \ {w} :
           /\ \A i \in Id  : new_nodes[v][i] = Absent \/ new_nodes'[w][i] = Absent
           /\ \A k \in Key : new_edges[v][k] = Absent \/ new_edges'[w][k] = Absent
  PROVE  IInv'
<1>1. \A v \in Worker : Sane(v)'
  BY UntouchedStaySane DEF IInv
<1>2. LockedOnce'
  <2> SUFFICES ASSUME NEW u \in Worker, NEW v \in Worker, u # v
               PROVE  /\ \A i \in Id  : new_nodes'[u][i] = Absent \/ new_nodes'[v][i] = Absent
                      /\ \A k \in Key : new_edges'[u][k] = Absent \/ new_edges'[v][k] = Absent
    BY DEF LockedOnce
  <2>1. CASE u # w /\ v # w
    BY <2>1 DEF IInv, LockedOnce, Untouched
  <2>2. CASE u = w \/ v = w
    BY <2>2 DEF Untouched
  <2> QED
    BY <2>1, <2>2
<1> QED
  BY <1>1, <1>2 DEF IInv
\* A step of w that writes nothing, or begins or ends its transaction.
LEMMA NothingWritten ==
  ASSUME IInv, NEW w \in Worker, Typed', Sane(w)', NodesStay,
         \A v \in Worker \ {w} : Untouched(v) /\ LocksRespected(v),
         \/ new_nodes'[w] = new_nodes[w] /\ new_edges'[w] = new_edges[w]
         \/ new_nodes'[w] = NoNodes /\ new_edges'[w] = NoEdges
  PROVE  IInv'
<1>1. \A v \in Worker \ {w} :
        /\ \A i \in Id  : new_nodes[v][i] = Absent \/ new_nodes'[w][i] = Absent
        /\ \A k \in Key : new_edges[v][k] = Absent \/ new_edges'[w][k] = Absent
  BY DEF IInv, LockedOnce, NoNodes, NoEdges
<1> QED
  BY <1>1, OneWorkerMoves

LEMMA NoneOfNothing == IdsOf({}) = {} /\ KeysOf({}) = {}
BY DEF IdsOf, KeysOf, Assertions

LEMMA EndKeeps ==
  ASSUME IInv, NEW w \in Worker, End(w), NodesStay,
         nodes' \in [Id -> Mixed \cup {Absent}], edges' \in [Key -> Stored \cup {Absent}],
         reply' \in Replies, accepted' \subseteq Batch,
         \A v \in Worker \ {w} : LocksRespected(v)
  PROVE  IInv'
<1>1. Typed'
  <2>1. /\ pc' \in [Worker -> Phases] /\ batch' \in [Worker -> Batch \cup {{}}]
        /\ attempt' \in [Worker -> 0 .. MaxAttempts]
    BY AttemptsAssumption DEF IInv, Typed, End, Phases
  <2>2. /\ todo_nodes' \in [Worker -> SUBSET Id] /\ todo_edges' \in [Worker -> SUBSET Key]
    BY DEF IInv, Typed, End
  <2>3. /\ new_nodes' \in [Worker -> [Id -> Mixed \cup {Absent}]]
        /\ new_edges' \in [Worker -> [Key -> Stored \cup {Absent}]]
    BY DEF IInv, Typed, End, NoNodes, NoEdges
  <2> QED
    BY <2>1, <2>2, <2>3 DEF Typed
<1>2. /\ pc'[w] = "idle" /\ batch'[w] = {} /\ todo_nodes'[w] = {} /\ todo_edges'[w] = {}
      /\ new_nodes'[w] = NoNodes /\ new_edges'[w] = NoEdges
  BY DEF IInv, Typed, End
<1>3. Sane(w)'
  BY <1>2 DEF Sane, Begun, Written, Passed, NoNodes, NoEdges
<1>4. \A v \in Worker \ {w} : Untouched(v)
  BY DEF IInv, Typed, End, Untouched
<1> QED
  BY <1>1, <1>2, <1>3, <1>4, NothingWritten

LEMMA RollbackKeeps ==
  ASSUME IInv, NEW w \in Worker, Rollback(w), reply' \in Replies
  PROVE  IInv'
BY EndKeeps DEF Rollback, IInv, Typed, NodesStay, LocksRespected

LEMMA EnterKeeps ==
  ASSUME IInv, NEW w \in Worker, NEW B \in Batch, ~ SelfConflicting(B),
         NEW n \in 0 .. MaxAttempts, Enter(w, B, n)
  PROVE  IInv'
<1>0. IdsOf(B) \subseteq Id /\ KeysOf(B) \subseteq Key
  BY NodeOfIsNode, EdgeOfIsEdge
<1>1. Typed'
  <2>1. /\ pc' \in [Worker -> Phases] /\ batch' \in [Worker -> Batch \cup {{}}]
        /\ attempt' \in [Worker -> 0 .. MaxAttempts]
    BY DEF IInv, Typed, Enter, Phases
  <2>2. /\ todo_nodes' \in [Worker -> SUBSET Id] /\ todo_edges' \in [Worker -> SUBSET Key]
    BY <1>0 DEF IInv, Typed, Enter
  <2>3. /\ new_nodes' \in [Worker -> [Id -> Mixed \cup {Absent}]]
        /\ new_edges' \in [Worker -> [Key -> Stored \cup {Absent}]]
    BY DEF IInv, Typed, Enter, NoNodes, NoEdges
  <2> QED
    BY <2>1, <2>2, <2>3 DEF Typed, IInv, Enter, vars
<1>2. /\ pc'[w] = "check_nodes" /\ batch'[w] = B
      /\ todo_nodes'[w] = IdsOf(B) /\ todo_edges'[w] = KeysOf(B)
      /\ new_nodes'[w] = NoNodes /\ new_edges'[w] = NoEdges
  BY DEF IInv, Typed, Enter
<1>3. Sane(w)'
  BY <1>2 DEF Sane, Begun, Written, Passed, NoNodes, NoEdges
<1>4. \A v \in Worker \ {w} : Untouched(v)
  BY DEF IInv, Typed, Enter, Untouched
<1>5. NodesStay /\ \A v \in Worker \ {w} : LocksRespected(v)
  BY DEF Enter, vars, NodesStay, LocksRespected
<1> QED
  BY <1>1, <1>2, <1>3, <1>4, <1>5, NothingWritten

\* A turn of a loop, or the way to the next: only the place of w changes.
LEMMA MoveKeeps ==
  ASSUME IInv, NEW w \in Worker, NEW p \in Phases \ {"idle"},
         NEW ids \in SUBSET IdsOf(batch[w]), NEW keys \in SUBSET KeysOf(batch[w]),
         pc[w] # "idle",
         pc' = [pc EXCEPT ![w] = p],
         todo_nodes' = [todo_nodes EXCEPT ![w] = ids],
         todo_edges' = [todo_edges EXCEPT ![w] = keys],
         UNCHANGED <<vars, batch, new_nodes, new_edges, attempt>>,
         Passed(w)'
  PROVE  IInv'
<1>0. IdsOf(batch[w]) \subseteq Id /\ KeysOf(batch[w]) \subseteq Key
  BY BatchInput DEF IInv, Sane
<1>1. Typed'
  BY <1>0 DEF IInv, Typed, vars
<1>2. Sane(w)'
  <2>1. pc'[w] = p /\ todo_nodes'[w] = ids /\ todo_edges'[w] = keys
    BY DEF IInv, Typed
  <2>2. Begun(w)' /\ Written(w)'
    BY <2>1 DEF IInv, Sane, Begun, Written, vars
  <2> QED
    BY <2>2 DEF Sane
<1>3. \A v \in Worker \ {w} : Untouched(v)
  BY DEF IInv, Typed, Untouched
<1>4. NodesStay /\ \A v \in Worker \ {w} : LocksRespected(v)
  BY DEF vars, NodesStay, LocksRespected
<1> QED
  BY <1>1, <1>2, <1>3, <1>4, NothingWritten
-----------------------------------------------------------------------------
LEMMA InitIInv == Neo4jInit => IInv
<1> SUFFICES ASSUME Neo4jInit PROVE IInv
  OBVIOUS
<1>1. Typed
  BY AttemptsAssumption DEF Neo4jInit, Init, Typed, Replies, Phases, NoNodes, NoEdges
<1>2. LockedOnce
  BY DEF Neo4jInit, LockedOnce, NoNodes, NoEdges
<1>3. \A w \in Worker : Sane(w)
  BY DEF Neo4jInit, Sane, Begun, Written, Passed, NoNodes, NoEdges
<1> QED
  BY <1>1, <1>2, <1>3 DEF IInv

LEMMA CheckKeeps ==
  ASSUME IInv, NEW w \in Worker,
         \/ \E i \in Id : CheckNode(w, i)
         \/ \E k \in Key : CheckEdge(w, k)
  PROVE  IInv'
<1>1. ASSUME NEW i \in Id, CheckNode(w, i) PROVE IInv'
  <2>1. CASE Refuse(w, "conflicting_record")
    BY <2>1, RollbackKeeps DEF Refuse, Replies
  <2>2. CASE ~ Refuse(w, "conflicting_record")
    <3>1. /\ pc[w] = "check_nodes" /\ pc' = [pc EXCEPT ![w] = "check_nodes"]
          /\ todo_nodes' = [todo_nodes EXCEPT ![w] = todo_nodes[w] \ {i}]
          /\ todo_edges' = [todo_edges EXCEPT ![w] = todo_edges[w]]
          /\ UNCHANGED <<vars, batch, new_nodes, new_edges, attempt>>
      BY <1>1, <2>2 DEF CheckNode, IInv, Typed
    <3>2. Passed(w)'
      BY <1>1, <2>2 DEF CheckNode, Passed
    <3>3. todo_nodes[w] \subseteq IdsOf(batch[w]) /\ todo_edges[w] \subseteq KeysOf(batch[w])
      BY DEF IInv, Sane, Begun
    <3> QED
      BY <3>1, <3>2, <3>3, MoveKeeps DEF Phases
  <2> QED
    BY <2>1, <2>2
<1>2. ASSUME NEW k \in Key, CheckEdge(w, k) PROVE IInv'
  <2>1. CASE Refuse(w, "conflicting_record")
    BY <2>1, RollbackKeeps DEF Refuse, Replies
  <2>2. CASE ~ Refuse(w, "conflicting_record")
    <3>1. /\ pc[w] = "check_edges" /\ pc' = [pc EXCEPT ![w] = "check_edges"]
          /\ todo_nodes' = [todo_nodes EXCEPT ![w] = todo_nodes[w]]
          /\ todo_edges' = [todo_edges EXCEPT ![w] = todo_edges[w] \ {k}]
          /\ UNCHANGED <<vars, batch, new_nodes, new_edges, attempt>>
      BY <1>2, <2>2 DEF CheckEdge, IInv, Typed
    <3>2. Passed(w)'
      BY <1>2, <2>2 DEF CheckEdge, Passed
    <3>3. todo_nodes[w] \subseteq IdsOf(batch[w]) /\ todo_edges[w] \subseteq KeysOf(batch[w])
      BY DEF IInv, Sane, Begun
    <3> QED
      BY <3>1, <3>2, <3>3, MoveKeeps DEF Phases
  <2> QED
    BY <2>1, <2>2
<1> QED
  BY <1>1, <1>2

LEMMA PhaseKeeps ==
  ASSUME IInv, NEW w \in Worker, NextPhase(w) \/ CountTargets(w)
  PROVE  IInv'
<1>0. /\ Begun(w) /\ Passed(w)
      /\ todo_nodes[w] \subseteq IdsOf(batch[w]) /\ todo_edges[w] \subseteq KeysOf(batch[w])
  BY DEF IInv, Sane, Begun
<1>1. ASSUME NEW p, NEW q \in Phases \ {"idle"}, p # "idle",
             NEW ids \in SUBSET IdsOf(batch[w]), NEW keys \in SUBSET KeysOf(batch[w]),
             Goto(w, p, q, ids, keys), Passed(w)'
      PROVE  IInv'
  BY <1>1, MoveKeeps DEF Goto
<1>2. ASSUME NEW p, NEW q, NEW ids, NEW keys, Goto(w, p, q, ids, keys)
      PROVE  /\ pc[w] = p /\ pc'[w] = q /\ todo_nodes'[w] = ids /\ todo_edges'[w] = keys
             /\ batch' = batch /\ new_nodes' = new_nodes /\ new_edges' = new_edges
             /\ nodes' = nodes
  BY <1>2 DEF Goto, IInv, Typed, vars
<1>3. CASE todo_nodes[w] = {} /\ Goto(w, "check_nodes", "check_edges", {}, todo_edges[w])
  <2>1. Passed(w)'
    BY <1>2, <1>3 DEF Passed
  <2> QED
    BY <1>0, <1>1, <1>3, <2>1 DEF Phases
<1>4. CASE Goto(w, "check_edges", "write_nodes", IdsOf(batch[w]), KeysOf(batch[w]))
  <2>1. Passed(w)'
    BY <1>2, <1>4 DEF Passed
  <2> QED
    BY <1>1, <1>4, <2>1 DEF Phases
<1>5. CASE todo_nodes[w] = {} /\ Goto(w, "write_nodes", "write_edges", {}, todo_edges[w])
  <2>1. Passed(w)'
    BY <1>0, <1>2, <1>5 DEF Passed
  <2> QED
    BY <1>0, <1>1, <1>5, <2>1 DEF Phases
<1>6. CASE todo_edges[w] = {} /\ Goto(w, "write_edges", "count", {}, {})
  <2>1. Passed(w)'
    BY <1>0, <1>2, <1>6 DEF Passed
  <2> QED
    BY <1>1, <1>6, <2>1 DEF Phases
<1>7. CASE CountTargets(w)
  <2>1. CASE Refuse(w, "unknown_target")
    BY <2>1, RollbackKeeps DEF Refuse, Replies
  <2>2. CASE ~ Refuse(w, "unknown_target")
    <3>1. Goto(w, "count", "commit", todo_nodes[w], todo_edges[w])
      BY <1>7, <2>2 DEF CountTargets, Goto, IInv, Typed
    <3>2. \A k \in KeysOf(batch[w]) : Visible(w, k.to)
      BY <1>7, <2>2 DEF CountTargets
    <3>3. Passed(w)'
      BY <1>0, <1>2, <3>1, <3>2 DEF Passed, Visible
    <3> QED
      BY <1>0, <1>1, <3>1, <3>3 DEF Phases
  <2> QED
    BY <2>1, <2>2
<1> QED
  BY <1>3, <1>4, <1>5, <1>6, <1>7 DEF NextPhase
LEMMA WriteNodeKeeps ==
  ASSUME IInv, NEW w \in Worker, NEW i \in Id, WriteNode(w, i)
  PROVE  IInv'
<1> DEFINE new == MergedNode(nodes[i], NodeOf(batch[w], i))
<1>0. /\ pc[w] = "write_nodes" /\ i \in todo_nodes[w] /\ i \in IdsOf(batch[w])
      /\ Begun(w) /\ Written(w) /\ Passed(w)
  BY DEF WriteNode, IInv, Sane, Begun
<1>1. new \in Mixed /\ new # Absent
  BY <1>0, BatchInput, MergeGivesMixed DEF IInv, Typed
<1> HIDE DEF new
<1>2. /\ pc' = pc /\ batch' = batch /\ todo_edges' = todo_edges /\ new_edges' = new_edges
      /\ nodes' = nodes /\ edges' = edges /\ reply' = reply /\ accepted' = accepted
      /\ attempt' = attempt
      /\ todo_nodes' = [todo_nodes EXCEPT ![w] = todo_nodes[w] \ {i}]
      /\ new_nodes' = [new_nodes EXCEPT ![w] = [new_nodes[w] EXCEPT ![i] = new]]
  BY DEF WriteNode, vars, new
<1>3. Typed'
  BY <1>1, <1>2 DEF IInv, Typed
<1>4. /\ todo_nodes'[w] = todo_nodes[w] \ {i}
      /\ new_nodes'[w] = [new_nodes[w] EXCEPT ![i] = new]
      /\ new_nodes'[w][i] = new
      /\ \A j \in Id \ {i} : new_nodes'[w][j] = new_nodes[w][j]
  BY <1>2 DEF IInv, Typed
<1>5. Sane(w)'
  <2>1. Begun(w)'
    BY <1>0, <1>2, <1>4 DEF Begun
  <2>2. Written(w)'
    BY <1>0, <1>2, <1>4 DEF Written, new
  <2>3. \A j \in IdsOf(batch[w]) : j \in Id
    BY <1>0, BatchInput
  <2>4. Passed(w)'
    BY <1>0, <1>1, <1>2, <1>4, <2>3 DEF Passed
  <2> QED
    BY <2>1, <2>2, <2>4 DEF Sane
<1>6. \A v \in Worker \ {w} : Untouched(v) /\ LocksRespected(v)
  BY <1>2 DEF IInv, Typed, Untouched, LocksRespected
<1>7. \A v \in Worker \ {w} :
        /\ \A j \in Id  : new_nodes[v][j] = Absent \/ new_nodes'[w][j] = Absent
        /\ \A k \in Key : new_edges[v][k] = Absent \/ new_edges'[w][k] = Absent
  BY <1>2, <1>4 DEF WriteNode, NodeFree, IInv, LockedOnce
<1> QED
  BY <1>2, <1>3, <1>5, <1>6, <1>7, OneWorkerMoves DEF NodesStay

LEMMA WriteEdgeKeeps ==
  ASSUME IInv, NEW w \in Worker, NEW k \in Key, WriteEdge(w, k)
  PROVE  IInv'
<1> DEFINE new == StoredEdge(EdgeOf(batch[w], k))
<1>0. /\ pc[w] = "write_edges" /\ k \in todo_edges[w] /\ k \in KeysOf(batch[w])
      /\ Begun(w) /\ Written(w) /\ Passed(w)
      /\ todo_nodes[w] = {}
  BY DEF WriteEdge, IInv, Sane, Begun, Passed
<1>1. new \in Stored /\ new # Absent
  BY <1>0, BatchInput, StoredEdges
<1> HIDE DEF new
<1>2. /\ pc' = pc /\ batch' = batch /\ todo_nodes' = todo_nodes /\ new_nodes' = new_nodes
      /\ nodes' = nodes /\ edges' = edges /\ reply' = reply /\ accepted' = accepted
      /\ attempt' = attempt
      /\ todo_edges' = [todo_edges EXCEPT ![w] = todo_edges[w] \ {k}]
  BY DEF WriteEdge, vars
<1>3. todo_edges'[w] = todo_edges[w] \ {k}
  BY <1>2 DEF IInv, Typed
\* All nodes of the batch are written: both ends of k are there if both come with it.
<1>4. k.to \in IdsOf(batch[w]) => Visible(w, k.from) /\ Visible(w, k.to)
  BY <1>0, BatchInput DEF Passed, Visible
<1>5. \A v \in Worker \ {w} : LocksRespected(v)
  BY <1>2 DEF LocksRespected
<1>6. NodesStay
  BY <1>2 DEF NodesStay
<1>7. CASE Visible(w, k.from) /\ Visible(w, k.to)
  <2>1. /\ EdgeFree(w, k)
        /\ new_edges' = [new_edges EXCEPT ![w] = [new_edges[w] EXCEPT ![k] = new]]
    BY <1>7 DEF WriteEdge, new
  <2>2. Typed'
    BY <1>1, <1>2, <2>1 DEF IInv, Typed
  <2>3. /\ new_edges'[w][k] = new
        /\ \A l \in Key \ {k} : new_edges'[w][l] = new_edges[w][l]
    BY <2>1 DEF IInv, Typed
  <2>4. Sane(w)'
    <3>1. Begun(w)'
      BY <1>0, <1>2, <1>3 DEF Begun
    <3>2. Written(w)'
      BY <1>0, <1>2, <2>3 DEF Written, new
    <3>3. \A l \in KeysOf(batch[w]) : l \in Key
      BY <1>0, BatchInput
    <3>4. Passed(w)'
      BY <1>0, <1>1, <1>2, <1>3, <2>3, <3>3 DEF Passed
    <3> QED
      BY <3>1, <3>2, <3>4 DEF Sane
  <2>5. \A v \in Worker \ {w} : Untouched(v)
    BY <1>2, <2>1 DEF IInv, Typed, Untouched
  <2>6. \A v \in Worker \ {w} :
          /\ \A i \in Id  : new_nodes[v][i] = Absent \/ new_nodes'[w][i] = Absent
          /\ \A l \in Key : new_edges[v][l] = Absent \/ new_edges'[w][l] = Absent
    BY <1>2, <2>1, <2>3 DEF EdgeFree, IInv, LockedOnce
  <2> QED
    BY <1>5, <1>6, <2>2, <2>4, <2>5, <2>6, OneWorkerMoves
<1>8. CASE ~ (Visible(w, k.from) /\ Visible(w, k.to))
  <2>1. new_edges' = new_edges
    BY <1>8 DEF WriteEdge
  <2>2. Typed'
    BY <1>2, <2>1 DEF IInv, Typed
  <2>3. Sane(w)'
    <3>1. Begun(w)' /\ Written(w)'
      BY <1>0, <1>2, <1>3, <2>1 DEF Begun, Written
    <3>2. Passed(w)'
      BY <1>0, <1>2, <1>3, <1>4, <1>8, <2>1 DEF Passed
    <3> QED
      BY <3>1, <3>2 DEF Sane
  <2>4. \A v \in Worker \ {w} : Untouched(v)
    BY <1>2, <2>1 DEF IInv, Typed, Untouched
  <2> QED
    BY <1>2, <1>5, <1>6, <2>1, <2>2, <2>3, <2>4, NothingWritten
<1> QED
  BY <1>7, <1>8

\* What a commit leaves in the database.
LEMMA CommitLeaves ==
  ASSUME IInv, NEW w \in Worker, Commit(w)
  PROVE  /\ batch[w] \in Batch /\ ~ SelfConflicting(batch[w])
         /\ accepted' = accepted \cup {batch[w]}
         /\ \A i \in IdsOf(batch[w]) :
              /\ i \in Id /\ NodeOf(batch[w], i) \in Node
              /\ nodes'[i] = MergedNode(nodes[i], NodeOf(batch[w], i)) /\ nodes'[i] # Absent
         /\ \A i \in Id \ IdsOf(batch[w]) : nodes'[i] = nodes[i]
         /\ \A k \in KeysOf(batch[w]) :
              /\ k \in Key /\ k.to \in Id /\ EdgeOf(batch[w], k) \in Edge
              /\ nodes'[k.to] # Absent
              /\ \/ edges'[k] = StoredEdge(EdgeOf(batch[w], k))
                 \/ k.to \notin IdsOf(batch[w]) /\ edges'[k] = edges[k]
         /\ \A k \in Key \ KeysOf(batch[w]) : edges'[k] = edges[k]
         /\ NodesStay
<1>0. /\ pc[w] = "commit" /\ todo_nodes[w] = {} /\ todo_edges[w] = {}
      /\ Begun(w) /\ Written(w) /\ Passed(w)
  BY DEF Commit, IInv, Sane, Passed
<1>1. batch[w] \in Batch /\ ~ SelfConflicting(batch[w]) /\ accepted' = accepted \cup {batch[w]}
  BY <1>0 DEF Begun, Commit
<1>2. /\ \A i \in Id  : nodes'[i] = IF new_nodes[w][i] # Absent THEN new_nodes[w][i] ELSE nodes[i]
      /\ \A k \in Key : edges'[k] = IF new_edges[w][k] # Absent THEN new_edges[w][k] ELSE edges[k]
  BY DEF Commit
<1>3. NodesStay
  BY <1>2 DEF NodesStay
<1>4. ASSUME NEW i \in IdsOf(batch[w])
      PROVE  /\ i \in Id /\ NodeOf(batch[w], i) \in Node
             /\ nodes'[i] = MergedNode(nodes[i], NodeOf(batch[w], i)) /\ nodes'[i] # Absent
  <2>1. i \in Id /\ NodeOf(batch[w], i) \in Node
    BY <1>0, BatchInput
  <2>2. new_nodes[w][i] # Absent
    BY <1>0 DEF Passed
  <2> QED
    BY <1>0, <1>2, <2>1, <2>2 DEF Written
<1>5. \A i \in Id \ IdsOf(batch[w]) : nodes'[i] = nodes[i]
  BY <1>0, <1>2 DEF Written
<1>6. ASSUME NEW k \in KeysOf(batch[w])
      PROVE  /\ k \in Key /\ k.to \in Id /\ EdgeOf(batch[w], k) \in Edge
             /\ nodes'[k.to] # Absent
             /\ \/ edges'[k] = StoredEdge(EdgeOf(batch[w], k))
                \/ k.to \notin IdsOf(batch[w]) /\ edges'[k] = edges[k]
  <2>1. k \in Key /\ k.to \in Id /\ EdgeOf(batch[w], k) \in Edge
    BY <1>0, BatchInput
  <2>2. nodes'[k.to] # Absent
    BY <1>0, <1>2, <2>1 DEF Passed, Visible
  <2>3. CASE new_edges[w][k] # Absent
    <3>1. edges'[k] = StoredEdge(EdgeOf(batch[w], k))
      <4>1. edges'[k] = new_edges[w][k]
        BY <1>2, <2>1, <2>3
      <4> QED
        BY <1>0, <2>1, <2>3, <4>1 DEF Written
    <3> QED
      BY <2>1, <2>2, <3>1
  <2>4. CASE new_edges[w][k] = Absent
    <3>1. k.to \notin IdsOf(batch[w])
      BY <1>0, <2>4 DEF Passed
    <3>2. edges'[k] = edges[k]
      BY <1>2, <2>1, <2>4
    <3> QED
      BY <2>1, <2>2, <3>1, <3>2
  <2> QED
    BY <2>3, <2>4
<1>7. \A k \in Key \ KeysOf(batch[w]) : edges'[k] = edges[k]
  BY <1>0, <1>2 DEF Written
<1> QED
  BY <1>1, <1>3, <1>4, <1>5, <1>6, <1>7

LEMMA CommitKeeps ==
  ASSUME IInv, NEW w \in Worker, Commit(w)
  PROVE  IInv'
<1>1. nodes' \in [Id -> Mixed \cup {Absent}] /\ edges' \in [Key -> Stored \cup {Absent}]
  BY DEF Commit, IInv, Typed
<1>2. reply' \in Replies /\ accepted' \subseteq Batch
  BY CommitLeaves DEF Commit, Replies, IInv, Typed
<1>3. \A v \in Worker \ {w} : LocksRespected(v)
  BY DEF Commit, IInv, LockedOnce, LocksRespected
<1>4. NodesStay
  BY CommitLeaves
<1> QED
  BY <1>1, <1>2, <1>3, <1>4, EndKeeps DEF Commit

LEMMA InterruptKeeps ==
  ASSUME IInv, NEW w \in Worker, Interrupt(w) \/ Crash(w)
  PROVE  IInv'
<1>1. CASE Rollback(w) /\ UNCHANGED reply
  BY <1>1, RollbackKeeps DEF IInv, Typed
<1>2. CASE pc[w] # "idle" /\ attempt[w] < MaxAttempts /\ Enter(w, batch[w], attempt[w] + 1)
  <2>1. batch[w] \in Batch /\ ~ SelfConflicting(batch[w])
    BY <1>2 DEF IInv, Sane, Begun
  <2>2. attempt[w] + 1 \in 0 .. MaxAttempts
    BY <1>2, AttemptsAssumption DEF IInv, Typed
  <2> QED
    BY <1>2, <2>1, <2>2, EnterKeeps
<1> QED
  BY <1>1, <1>2 DEF Interrupt, Crash

LEMMA StepIInv == IInv /\ [Neo4jNext]_neo4jVars => IInv'
<1> SUFFICES ASSUME IInv, [Neo4jNext]_neo4jVars PROVE IInv'
  OBVIOUS
<1>1. ASSUME NEW w \in Worker, NEW B \in Batch, IngestUnsound(w, B) PROVE IInv'
  <2>1. reply' \in Replies
    BY <1>1 DEF IngestUnsound, Replies
  <2> QED
    BY <1>1, <2>1 DEF IngestUnsound, tx, IInv, Typed, LockedOnce, Sane, Begun, Written, Passed, Visible
<1>2. ASSUME NEW w \in Worker, NEW B \in Batch, IngestBegin(w, B) PROVE IInv'
  BY <1>2, EnterKeeps, AttemptsAssumption DEF IngestBegin
<1>3. ASSUME NEW w \in Worker, Work(w) PROVE IInv'
  BY <1>3, CheckKeeps, WriteNodeKeeps, WriteEdgeKeeps, PhaseKeeps, CommitKeeps DEF Work
<1>4. ASSUME NEW w \in Worker, Interrupt(w) \/ Crash(w) PROVE IInv'
  BY <1>4, InterruptKeeps
<1>5. CASE UNCHANGED neo4jVars
  BY <1>5 DEF neo4jVars, vars, tx, IInv, Typed, LockedOnce, Sane, Begun, Written, Passed, Visible
<1> QED
  BY <1>1, <1>2, <1>3, <1>4, <1>5 DEF Neo4jNext
-----------------------------------------------------------------------------
(***************************************************************************)
(* In every reachable state, what an open transaction has written is what  *)
(* its statements would write now, no entry is written by two, and only    *)
(* the targets from outside a batch are still to be found missing.         *)
(***************************************************************************)
THEOREM Neo4jInvariant == Neo4jSpec => []IInv
BY InitIInv, StepIInv, PTL DEF Neo4jSpec

(***************************************************************************)
(* The variables of ingest() and of the database have their types.         *)
(***************************************************************************)
THEOREM Neo4jTypeCorrect == Neo4jSpec => []Neo4jTypeOK
<1>1. IInv => Neo4jTypeOK
  BY DEF IInv, Typed, Sane, Begun, Written, Neo4jTypeOK
<1> QED
  BY <1>1, Neo4jInvariant, PTL

\* All that happens to the database happens in a commit.
LEMMA OnlyCommits ==
  ASSUME [Neo4jNext]_neo4jVars, <<nodes, edges, accepted>>' # <<nodes, edges, accepted>>
  PROVE  \E w \in Worker : Commit(w)
<1>1. \A w \in Worker, B \in Batch :
        IngestUnsound(w, B) \/ IngestBegin(w, B) => UNCHANGED <<nodes, edges, accepted>>
  BY DEF IngestUnsound, IngestBegin, Enter, vars
<1>2. \A w \in Worker : Interrupt(w) \/ Crash(w) => UNCHANGED <<nodes, edges, accepted>>
  BY DEF Interrupt, Crash, Enter, Rollback, vars
<1>3. \A w \in Worker : Work(w) => Commit(w) \/ UNCHANGED <<nodes, edges, accepted>>
  BY DEF Work, CheckNode, CheckEdge, WriteNode, WriteEdge, NextPhase, Goto, CountTargets,
         Refuse, Rollback, vars
<1>4. UNCHANGED neo4jVars => UNCHANGED <<nodes, edges, accepted>>
  BY DEF neo4jVars, vars
<1> QED
  BY <1>1, <1>2, <1>3, <1>4 DEF Neo4jNext

LEMMA MergedContent ==
  ASSUME NEW stored \in Mixed \cup {Absent}, NEW n \in Node
  PROVE  \/ MergedNode(stored, n).title = n.title /\ MergedNode(stored, n).status = n.status
         \/ /\ stored # Absent
            /\ MergedNode(stored, n).title = stored.title
            /\ MergedNode(stored, n).status = stored.status
BY DEF MergedNode, With

(***************************************************************************)
(* Title and approval of every node, and all of every relation, come from  *)
(* a batch whose transaction committed, never from one that was refused,   *)
(* given up or cut off.                                                    *)
(***************************************************************************)
THEOREM ContentIsCommitted == Neo4jSpec => []OnlyCommittedContent
<1>1. Neo4jInit => OnlyCommittedContent
  BY DEF Neo4jInit, Init, OnlyCommittedContent
<1>2. IInv /\ OnlyCommittedContent /\ [Neo4jNext]_neo4jVars => OnlyCommittedContent'
  <2> SUFFICES ASSUME IInv, OnlyCommittedContent, [Neo4jNext]_neo4jVars
               PROVE  OnlyCommittedContent'
    OBVIOUS
  <2>1. CASE UNCHANGED <<nodes, edges, accepted>>
    BY <2>1 DEF OnlyCommittedContent
  <2>2. ASSUME NEW w \in Worker, Commit(w) PROVE OnlyCommittedContent'
    <3> DEFINE Said(i, t, s) == \E B \in accepted' : i \in IdsOf(B) /\ t = NodeOf(B, i).title
                                                               /\ s = NodeOf(B, i).status
    <3>1. ASSUME NEW i \in Id, nodes'[i] # Absent PROVE Said(i, nodes'[i].title, nodes'[i].status)
      <4>1. ASSUME nodes[i] # Absent PROVE Said(i, nodes[i].title, nodes[i].status)
        BY <2>2, <4>1, CommitLeaves DEF OnlyCommittedContent
      <4>2. CASE i \notin IdsOf(batch[w])
        BY <2>2, <3>1, <4>1, <4>2, CommitLeaves
      <4>3. CASE i \in IdsOf(batch[w])
        <5>1. /\ NodeOf(batch[w], i) \in Node /\ batch[w] \in accepted'
              /\ nodes'[i] = MergedNode(nodes[i], NodeOf(batch[w], i))
          BY <2>2, <4>3, CommitLeaves
        <5>2. Said(i, NodeOf(batch[w], i).title, NodeOf(batch[w], i).status)
          BY <4>3, <5>1
        <5>3. nodes[i] \in Mixed \cup {Absent}
          BY DEF IInv, Typed
        <5> HIDE DEF Said
        <5> QED
          BY <4>1, <5>1, <5>2, <5>3, MergedContent
      <4> QED
        BY <4>2, <4>3
    <3>2. ASSUME NEW k \in Key, edges'[k] # Absent
          PROVE  \E B \in accepted' : k \in KeysOf(B) /\ edges'[k] = StoredEdge(EdgeOf(B, k))
      BY <2>2, <3>2, CommitLeaves DEF OnlyCommittedContent
    <3> QED
      BY <3>1, <3>2 DEF OnlyCommittedContent
  <2> QED
    BY <2>1, <2>2, OnlyCommits
<1> QED
  BY <1>1, <1>2, Neo4jInvariant, PTL DEF Neo4jSpec

(***************************************************************************)
(* A committed batch has its records and the targets of its relations in   *)
(* the database: no commit takes a node away, and the count of targets     *)
(* looks at what is committed or written by the transaction itself.        *)
(***************************************************************************)
THEOREM CommittedStayPresent == Neo4jSpec => []CommittedIdsPresent
<1>1. Neo4jInit => CommittedIdsPresent
  BY DEF Neo4jInit, Init, CommittedIdsPresent
<1>2. IInv /\ CommittedIdsPresent /\ [Neo4jNext]_neo4jVars => CommittedIdsPresent'
  <2> SUFFICES ASSUME IInv, CommittedIdsPresent, [Neo4jNext]_neo4jVars
               PROVE  CommittedIdsPresent'
    OBVIOUS
  <2>1. CASE UNCHANGED <<nodes, edges, accepted>>
    BY <2>1 DEF CommittedIdsPresent
  <2>2. ASSUME NEW w \in Worker, Commit(w) PROVE CommittedIdsPresent'
    <3> SUFFICES ASSUME NEW B \in accepted'
                 PROVE  /\ \A i \in IdsOf(B)  : nodes'[i] # Absent
                        /\ \A k \in KeysOf(B) : nodes'[k.to] # Absent
      BY DEF CommittedIdsPresent
    <3>1. CASE B = batch[w]
      BY <2>2, <3>1, CommitLeaves
    <3>2. CASE B \in accepted
      <4>1. B \in Batch
        BY <3>2 DEF IInv, Typed
      <4>2. \A i \in IdsOf(B)  : i \in Id /\ nodes[i] # Absent
        BY <3>2, <4>1, NodeOfIsNode DEF CommittedIdsPresent
      <4>3. \A k \in KeysOf(B) : k.to \in Id /\ nodes[k.to] # Absent
        BY <3>2, <4>1, EdgeOfIsEdge DEF CommittedIdsPresent, Key
      <4> QED
        BY <2>2, <4>2, <4>3, CommitLeaves DEF NodesStay
    <3> QED
      BY <2>2, <3>1, <3>2, CommitLeaves
  <2> QED
    BY <2>1, <2>2, OnlyCommits
<1> QED
  BY <1>1, <1>2, Neo4jInvariant, PTL DEF Neo4jSpec

\* Two batches that do not contradict each other say the same of what they share.
LEMMA AgreementShared ==
  ASSUME NEW B \in Batch, NEW C \in Batch, ~ SelfConflicting(B \cup C)
  PROVE  /\ \A i \in IdsOf(B) \cap IdsOf(C)   : NodeOf(B, i) = NodeOf(C, i)
         /\ \A k \in KeysOf(B) \cap KeysOf(C) : EdgeOf(B, k) = EdgeOf(C, k)
<1>1. ASSUME NEW i \in IdsOf(B) \cap IdsOf(C) PROVE NodeOf(B, i) = NodeOf(C, i)
  <2>1. /\ (CHOOSE r \in B : r.id = i) \in B /\ (CHOOSE r \in B : r.id = i).id = i
        /\ (CHOOSE r \in C : r.id = i) \in C /\ (CHOOSE r \in C : r.id = i).id = i
    BY DEF IdsOf
  <2> QED
    BY <2>1 DEF SelfConflicting, NodeOf
<1>2. ASSUME NEW k \in KeysOf(B) \cap KeysOf(C) PROVE EdgeOf(B, k) = EdgeOf(C, k)
  <2>1. /\ (\E x \in Assertions(B) : x.key = k) /\ (\E x \in Assertions(C) : x.key = k)
        /\ Assertions(B) \subseteq Assertions(B \cup C)
        /\ Assertions(C) \subseteq Assertions(B \cup C)
    BY DEF KeysOf, Assertions
  <2> HIDE DEF Assertions
  <2>2. /\ (CHOOSE x \in Assertions(B) : x.key = k) \in Assertions(B)
        /\ (CHOOSE x \in Assertions(B) : x.key = k).key = k
        /\ (CHOOSE x \in Assertions(C) : x.key = k) \in Assertions(C)
        /\ (CHOOSE x \in Assertions(C) : x.key = k).key = k
    BY <2>1
  <2> QED
    BY <2>1, <2>2 DEF SelfConflicting, EdgeOf
<1> QED
  BY <1>1, <1>2

(***************************************************************************)
(* As long as the committed batches agree, the database holds exactly what *)
(* each of them said.  The commit of one more merges into what an agreeing *)
(* batch stored, which OnlyCommittedContent says is all there can be.      *)
(***************************************************************************)
THEOREM AgreementHolds == Neo4jSpec => []AgreeingBatchesHold
<1>1. Neo4jInit => AgreeingBatchesHold
  BY DEF Neo4jInit, Init, AgreeingBatchesHold
<1>2. IInv /\ OnlyCommittedContent /\ AgreeingBatchesHold /\ [Neo4jNext]_neo4jVars
      => AgreeingBatchesHold'
  <2> SUFFICES ASSUME IInv, OnlyCommittedContent, AgreeingBatchesHold, [Neo4jNext]_neo4jVars
               PROVE  AgreeingBatchesHold'
    OBVIOUS
  <2>1. CASE UNCHANGED <<nodes, edges, accepted>>
    BY <2>1 DEF AgreeingBatchesHold
  <2>2. ASSUME NEW w \in Worker, Commit(w) PROVE AgreeingBatchesHold'
    <3> DEFINE new == batch[w]
    <3>0. /\ accepted' = accepted \cup {new} /\ new \in Batch
          /\ \A i \in IdsOf(new) : nodes'[i] = MergedNode(nodes[i], NodeOf(new, i))
          /\ \A i \in IdsOf(new) : i \in Id /\ NodeOf(new, i) \in Node
          /\ \A i \in Id \ IdsOf(new) : nodes'[i] = nodes[i]
          /\ \A k \in KeysOf(new) : k.to \in IdsOf(new) => edges'[k] = StoredEdge(EdgeOf(new, k))
          /\ \A k \in Key \ KeysOf(new) : edges'[k] = edges[k]
      BY <2>2, CommitLeaves
    <3> HIDE DEF new
    <3> SUFFICES ASSUME \A B, C \in accepted' : ~ SelfConflicting(B \cup C),
                        \A B \in accepted' : \A k \in KeysOf(B) : k.to \in IdsOf(B),
                        NEW B \in accepted'
                 PROVE  /\ \A i \in IdsOf(B)  : nodes'[i] = NodeOf(B, i)
                        /\ \A k \in KeysOf(B) : edges'[k] = StoredEdge(EdgeOf(B, k))
      BY DEF AgreeingBatchesHold
    <3>1. \A C \in accepted : C \in Batch /\ \A i \in IdsOf(C)  : i \in Id /\ nodes[i] = NodeOf(C, i)
      BY <3>0, NodeOfIsNode DEF AgreeingBatchesHold, IInv, Typed
    <3>2. \A C \in accepted : \A k \in KeysOf(C) : k \in Key /\ edges[k] = StoredEdge(EdgeOf(C, k))
      BY <3>0, <3>1, EdgeOfIsEdge DEF AgreeingBatchesHold
    \* What the new batch merges into is nothing or its own node.
    <3>3. ASSUME NEW i \in IdsOf(new) PROVE nodes'[i] = NodeOf(new, i)
      <4>1. CASE nodes[i] = Absent
        BY <3>0, <4>1 DEF MergedNode
      <4>2. CASE nodes[i] # Absent
        <5>1. PICK C \in accepted : i \in IdsOf(C)
          BY <3>0, <4>2 DEF OnlyCommittedContent
        <5>2. nodes[i] = NodeOf(new, i)
          BY <3>0, <3>1, <5>1, AgreementShared
        <5> QED
          BY <3>0, <5>2, MergeOfSame
      <4> QED
        BY <4>1, <4>2
    <3>4. \A k \in KeysOf(new) : edges'[k] = StoredEdge(EdgeOf(new, k))
      BY <3>0
    <3>5. CASE B = new
      BY <3>3, <3>4, <3>5
    <3>6. CASE B \in accepted
      <4>1. \A i \in IdsOf(B) \cap IdsOf(new)   : NodeOf(B, i) = NodeOf(new, i)
        BY <3>0, <3>1, <3>6, AgreementShared
      <4>2. \A k \in KeysOf(B) \cap KeysOf(new) : EdgeOf(B, k) = EdgeOf(new, k)
        BY <3>0, <3>1, <3>6, AgreementShared
      <4>3. \A i \in IdsOf(B) : nodes'[i] = NodeOf(B, i)
        BY <3>0, <3>1, <3>3, <3>6, <4>1
      <4>4. \A k \in KeysOf(B) : edges'[k] = StoredEdge(EdgeOf(B, k))
        BY <3>0, <3>2, <3>4, <3>6, <4>2
      <4> QED
        BY <4>3, <4>4
    <3> QED
      BY <3>0, <3>5, <3>6
  <2> QED
    BY <2>1, <2>2, OnlyCommits
<1> QED
  BY <1>1, <1>2, Neo4jInvariant, ContentIsCommitted, PTL DEF Neo4jSpec

(***************************************************************************)
(* What a human approved is only ever replaced by something approved: the  *)
(* CASE expressions of the MERGE look at the node as it is when they write *)
(* it, and the lock keeps it so until the commit.                          *)
(***************************************************************************)
THEOREM ApprovalStands == Neo4jSpec => ApprovedNeverDemoted
<1>1. IInv /\ [Neo4jNext]_neo4jVars =>
        [ \A i \in Id :
            nodes[i] # Absent /\ Protected(nodes[i])
            => nodes'[i].status = "approved" /\ nodes'[i].method # "ai_inferred" ]_nodes
  <2> SUFFICES ASSUME IInv, [Neo4jNext]_neo4jVars, nodes' # nodes,
                      NEW i \in Id, nodes[i] # Absent, Protected(nodes[i])
               PROVE  nodes'[i].status = "approved" /\ nodes'[i].method # "ai_inferred"
    OBVIOUS
  <2>1. PICK w \in Worker : Commit(w)
    BY OnlyCommits
  <2>2. nodes[i] \in Mixed
    BY DEF IInv, Typed
  <2>3. CASE i \in IdsOf(batch[w])
    BY <2>1, <2>2, <2>3, CommitLeaves, MergeKeepsApproval
  <2>4. CASE i \notin IdsOf(batch[w])
    BY <2>1, <2>4, CommitLeaves DEF Protected
  <2> QED
    BY <2>3, <2>4
<1> QED
  BY <1>1, Neo4jInvariant, PTL DEF Neo4jSpec, ApprovedNeverDemoted
-----------------------------------------------------------------------------
(***************************************************************************)
(* The refinement, for one process at a time and plain batches.            *)
(***************************************************************************)

\* What the checks found is so until the commit, and the relations that are
\* missing then are those whose target the count will miss.
Alone(w) ==
  /\ pc[w] \in {"check_nodes", "write_nodes"} => todo_edges[w] = KeysOf(batch[w])
  /\ pc[w] # "idle" =>
       \A i \in IdsOf(batch[w]) :
         \/ pc[w] = "check_nodes" /\ i \in todo_nodes[w]
         \/ nodes[i] = Absent
         \/ Compared(nodes[i]) = Compared(NodeOf(batch[w], i))
  /\ pc[w] \notin {"idle", "check_nodes"} =>
       \A k \in KeysOf(batch[w]) :
         \/ pc[w] = "check_edges" /\ k \in todo_edges[w]
         \/ edges[k] = Absent
         \/ AsSubmitted(edges[k]) = EdgeOf(batch[w], k)
  /\ pc[w] \in {"write_edges", "count", "commit"} =>
       \A k \in KeysOf(batch[w]) \ todo_edges[w] :
         new_edges[w][k] # Absent \/ ~ Visible(w, k.to)

\* A stored node lacks the optional field just as every record of its id does.
FieldsKept ==
  \A i \in Id : nodes[i] # Absent =>
    \A B \in Batch : \A r \in B :
      r.id = i => (nodes[i].extra = Missing <=> r.node.extra = Missing)
\* The optional field of a merged node is missing when that of its record is.
LEMMA MergedFields ==
  ASSUME NEW stored \in Mixed \cup {Absent}, NEW n \in Node,
         stored # Absent => (stored.extra = Missing <=> n.extra = Missing)
  PROVE  MergedNode(stored, n).extra = Missing <=> n.extra = Missing
BY DEF MergedNode, With

LEMMA NodeOfRecord ==
  ASSUME NEW B, NEW i \in IdsOf(B)
  PROVE  \E r \in B : r.id = i /\ NodeOf(B, i) = r.node
<1>1. (CHOOSE r \in B : r.id = i) \in B /\ (CHOOSE r \in B : r.id = i).id = i
  BY DEF IdsOf
<1> QED
  BY <1>1 DEF NodeOf

LEMMA FieldsKeptStep ==
  ASSUME PlainBatches, IInv, FieldsKept, [Neo4jNext]_neo4jVars
  PROVE  FieldsKept'
<1> SUFFICES ASSUME NEW i \in Id, nodes'[i] # Absent, NEW C \in Batch, NEW r \in C, r.id = i
             PROVE  nodes'[i].extra = Missing <=> r.node.extra = Missing
  BY DEF FieldsKept
<1>1. CASE nodes'[i] = nodes[i]
  BY <1>1 DEF FieldsKept
<1>2. CASE nodes'[i] # nodes[i]
  <2>1. PICK w \in Worker : Commit(w)
    BY <1>2, OnlyCommits
  <2>2. i \in IdsOf(batch[w]) /\ batch[w] \in Batch
    BY <1>2, <2>1, CommitLeaves
  <2>3. PICK s \in batch[w] : s.id = i /\ NodeOf(batch[w], i) = s.node
    BY <2>2, NodeOfRecord
  <2>4. /\ r.node.extra = Missing <=> s.node.extra = Missing
        /\ nodes[i] # Absent => (nodes[i].extra = Missing <=> s.node.extra = Missing)
    BY <2>2, <2>3 DEF PlainBatches, FieldsKept
  <2>5. /\ nodes'[i] = MergedNode(nodes[i], s.node) /\ s.node \in Node
        /\ nodes[i] \in Mixed \cup {Absent}
    BY <2>1, <2>2, <2>3, CommitLeaves DEF IInv, Typed
  <2> QED
    BY <2>4, <2>5, MergedFields
<1> QED
  BY <1>1, <1>2

\* The checks are those of the abstract store.
LEMMA CheckCompares ==
  ASSUME PlainBatches, IInv, FieldsKept, NEW B \in Batch
  PROVE  /\ \A i \in IdsOf(B) : nodes[i] # Absent =>
              (NodeDiffers(nodes[i], NodeOf(B, i)) <=> Compared(nodes[i]) # Compared(NodeOf(B, i)))
         /\ \A k \in KeysOf(B) : edges[k] # Absent =>
              (EdgeDiffers(edges[k], EdgeOf(B, k)) <=> AsSubmitted(edges[k]) # EdgeOf(B, k))
<1>1. ASSUME NEW i \in IdsOf(B), nodes[i] # Absent
      PROVE  NodeDiffers(nodes[i], NodeOf(B, i)) <=> Compared(nodes[i]) # Compared(NodeOf(B, i))
  <2>1. i \in Id
    BY NodeOfIsNode
  <2>2. nodes[i].extra = Missing <=> NodeOf(B, i).extra = Missing
    BY <1>1, <2>1, NodeOfRecord DEF FieldsKept
  <2> QED
    BY <2>2 DEF NodeDiffers, Compared
<1>2. ASSUME NEW k \in KeysOf(B), edges[k] # Absent
      PROVE  EdgeDiffers(edges[k], EdgeOf(B, k)) <=> AsSubmitted(edges[k]) # EdgeOf(B, k)
  <2> DEFINE e == EdgeOf(B, k)
             s == edges[k]
  <2>1. e \in Edge /\ k \in Key
    BY EdgeOfIsEdge
  <2>2. e.conf = e.prov.conf
    <3>1. \E x \in Assertions(B) : x.key = k
      BY DEF KeysOf
    <3>2. (CHOOSE x \in Assertions(B) : x.key = k) \in Assertions(B)
      BY <3>1 
    <3> QED
      BY <3>2 DEF PlainBatches, EdgeOf
  <2>3. e = [status |-> e.status, method |-> e.method, conf |-> e.conf,
             prov |-> [src |-> e.prov.src, conf |-> e.prov.conf]]
    BY <2>1, ShapeAssumption, Zenon
  <2>4. PICK d \in Edge : s = StoredEdge(d)
    BY <1>2, <2>1 DEF IInv, Typed, Stored
  <2>5. s = [status |-> s.status, method |-> s.method, conf |-> s.conf, src |-> s.src]
    BY <2>4 DEF StoredEdge
  <2> HIDE DEF e, s
  <2>6. EdgeDiffers(s, e) <=> AsSubmitted(s) # e
    <3>1. ASSUME s.status = e.status, s.method = e.method, s.conf = e.conf, s.src = e.prov.src
          PROVE  ~ EdgeDiffers(s, e) /\ AsSubmitted(s) = e
      BY <2>2, <2>3, <2>5, <3>1 DEF EdgeDiffers, AsSubmitted
    <3>2. ASSUME s.status # e.status \/ s.method # e.method \/ s.conf # e.conf \/ s.src # e.prov.src
          PROVE  EdgeDiffers(s, e) /\ AsSubmitted(s) # e
      <4>1. EdgeDiffers(s, e)
        BY <3>2 DEF EdgeDiffers
      <4>2. AsSubmitted(s) # e
        BY <3>2 DEF AsSubmitted
      <4> QED
        BY <4>1, <4>2
    <3> QED
      BY <3>1, <3>2
  <2> QED
    BY <2>6 DEF e, s
<1> QED
  BY <1>1, <1>2
\* The only worker finds the database as its checks found it.
LEMMA AloneStep ==
  ASSUME PlainBatches, NEW w, Worker = {w}, IInv, FieldsKept, Alone(w), [Neo4jNext]_neo4jVars
  PROVE  Alone(w)'
<1>0. Begun(w) /\ Passed(w) /\ w \in Worker
  BY DEF IInv, Sane
<1>1. ASSUME NEW B \in Batch, IngestUnsound(w, B) PROVE Alone(w)'
  BY <1>1 DEF IngestUnsound, tx, Alone, Visible
<1>2. ASSUME NEW B, NEW n, Enter(w, B, n) PROVE Alone(w)'
  <2>1. /\ pc'[w] = "check_nodes" /\ batch'[w] = B
        /\ todo_nodes'[w] = IdsOf(B) /\ todo_edges'[w] = KeysOf(B)
    BY <1>0, <1>2 DEF Enter, IInv, Typed
  <2> QED
    BY <2>1 DEF Alone
<1>3. ASSUME End(w) PROVE Alone(w)'
  <2>1. pc'[w] = "idle"
    BY <1>0, <1>3 DEF End, IInv, Typed
  <2> QED
    BY <2>1 DEF Alone
<1>4. ASSUME NEW i \in Id, CheckNode(w, i), ~ End(w) PROVE Alone(w)'
  <2>1. /\ pc[w] = "check_nodes" /\ pc' = pc /\ batch' = batch /\ nodes' = nodes
        /\ todo_edges' = todo_edges
        /\ todo_nodes'[w] = todo_nodes[w] \ {i} /\ i \in IdsOf(batch[w])
        /\ nodes[i] # Absent => ~ NodeDiffers(nodes[i], NodeOf(batch[w], i))
    BY <1>0, <1>4 DEF CheckNode, Refuse, Rollback, vars, IInv, Typed, Begun
  <2>2. nodes[i] = Absent \/ Compared(nodes[i]) = Compared(NodeOf(batch[w], i))
    BY <1>0, <2>1, CheckCompares DEF Begun
  <2> QED
    BY <2>1, <2>2 DEF Alone
<1>5. ASSUME NEW k \in Key, CheckEdge(w, k), ~ End(w) PROVE Alone(w)'
  <2>1. /\ pc[w] = "check_edges" /\ pc' = pc /\ batch' = batch /\ nodes' = nodes /\ edges' = edges
        /\ todo_edges'[w] = todo_edges[w] \ {k} /\ k \in KeysOf(batch[w])
        /\ edges[k] # Absent => ~ EdgeDiffers(edges[k], EdgeOf(batch[w], k))
    BY <1>0, <1>5 DEF CheckEdge, Refuse, Rollback, vars, IInv, Typed, Begun
  <2>2. edges[k] = Absent \/ AsSubmitted(edges[k]) = EdgeOf(batch[w], k)
    BY <1>0, <2>1, CheckCompares DEF Begun
  <2> QED
    BY <2>1, <2>2 DEF Alone
<1>6. ASSUME NEW i \in Id, WriteNode(w, i) PROVE Alone(w)'
  BY <1>6 DEF WriteNode, vars, Alone
<1>7. ASSUME NEW k \in Key, WriteEdge(w, k) PROVE Alone(w)'
  <2>1. /\ pc[w] = "write_edges" /\ pc' = pc /\ batch' = batch /\ nodes' = nodes /\ edges' = edges
        /\ new_nodes' = new_nodes /\ todo_edges'[w] = todo_edges[w] \ {k}
        /\ k \in todo_edges[w] /\ k \in KeysOf(batch[w]) /\ todo_nodes[w] = {}
    BY <1>0, <1>7 DEF WriteEdge, vars, IInv, Typed, Begun, Passed
  <2>2. \A l \in KeysOf(batch[w]) : l \in Key
    BY <1>0, <2>1, BatchInput
  <2>3. Visible(w, k.from)
    BY <1>0, <2>1, BatchInput DEF Passed, Visible
  <2>4. StoredEdge(EdgeOf(batch[w], k)) # Absent
    BY <1>0, <2>1, BatchInput, StoredEdges
  <2>5. /\ \A l \in Key \ {k} : new_edges'[w][l] = new_edges[w][l]
        /\ Visible(w, k.to) => new_edges'[w][k] # Absent
    BY <1>0, <1>7, <2>3, <2>4 DEF WriteEdge, IInv, Typed
  <2>6. \A l \in KeysOf(batch[w]) \ todo_edges'[w] : new_edges'[w][l] # Absent \/ ~ Visible(w, l.to)
    BY <2>1, <2>2, <2>5 DEF Alone
  <2> QED
    BY <2>1, <2>6 DEF Alone, Visible
<1>8. ASSUME NEW p, NEW q, NEW ids, NEW keys, Goto(w, p, q, ids, keys)
      PROVE  /\ pc[w] = p /\ pc'[w] = q /\ todo_nodes'[w] = ids /\ todo_edges'[w] = keys
             /\ batch' = batch /\ new_nodes' = new_nodes /\ new_edges' = new_edges
             /\ nodes' = nodes /\ edges' = edges
  BY <1>0, <1>8 DEF Goto, IInv, Typed, vars
<1>9. ASSUME NextPhase(w) PROVE Alone(w)'
  <2>1. CASE todo_nodes[w] = {} /\ Goto(w, "check_nodes", "check_edges", {}, todo_edges[w])
    BY <1>8, <2>1 DEF Alone
  <2>2. CASE todo_edges[w] = {} /\ Goto(w, "check_edges", "write_nodes", IdsOf(batch[w]), KeysOf(batch[w]))
    BY <1>8, <2>2 DEF Alone
  <2>3. CASE todo_nodes[w] = {} /\ Goto(w, "write_nodes", "write_edges", {}, todo_edges[w])
    BY <1>8, <2>3 DEF Alone
  <2>4. CASE todo_edges[w] = {} /\ Goto(w, "write_edges", "count", {}, {})
    BY <1>8, <2>4 DEF Alone, Visible
  <2> QED
    BY <1>9, <2>1, <2>2, <2>3, <2>4 DEF NextPhase
<1>10. ASSUME CountTargets(w), ~ End(w) PROVE Alone(w)'
  <2>1. /\ pc[w] = "count" /\ pc'[w] = "commit" /\ batch' = batch /\ nodes' = nodes
        /\ edges' = edges /\ new_nodes' = new_nodes /\ new_edges' = new_edges
        /\ todo_nodes' = todo_nodes /\ todo_edges' = todo_edges
    BY <1>0, <1>10 DEF CountTargets, Refuse, Rollback, vars, IInv, Typed
  <2> QED
    BY <2>1 DEF Alone, Visible
<1>11. CASE UNCHANGED neo4jVars
  BY <1>11 DEF neo4jVars, vars, tx, Alone, Visible
<1>12. ASSUME Work(w) PROVE Alone(w)'
  BY <1>3, <1>4, <1>5, <1>6, <1>7, <1>9, <1>10, <1>12 DEF Work, Commit
<1>13. ASSUME Interrupt(w) \/ Crash(w) PROVE Alone(w)'
  BY <1>2, <1>3, <1>13 DEF Interrupt, Crash, Rollback
<1>14. ASSUME NEW B \in Batch, IngestBegin(w, B) PROVE Alone(w)'
  BY <1>2, <1>14 DEF IngestBegin
<1> QED
  BY <1>1, <1>11, <1>12, <1>13, <1>14 DEF Neo4jNext

\* The abstract store is about the same ids and keys.
LEMMA SameBatch ==
  ASSUME PlainBatches, NEW B \in Batch
  PROVE  /\ Store!IdsOf(ComparedBatch(B)) = IdsOf(B)
         /\ Store!KeysOf(ComparedBatch(B)) = KeysOf(B)
         /\ \A k : Store!EdgeOf(ComparedBatch(B), k) = EdgeOf(B, k)
         /\ Store!SelfConflicting(ComparedBatch(B)) <=> SelfConflicting(B)
         /\ ~ SelfConflicting(B) =>
              \A i \in IdsOf(B) : Store!NodeOf(ComparedBatch(B), i) = Compared(NodeOf(B, i))
<1> DEFINE As(r) == [r EXCEPT !.node = Compared(@)]
<1>0. \A r \in B : /\ As(r).id = r.id /\ As(r).node = Compared(r.node)
                   /\ As(r).relations = r.relations
  <2> SUFFICES ASSUME NEW r \in B
               PROVE  As(r).id = r.id /\ As(r).node = Compared(r.node) /\ As(r).relations = r.relations
    OBVIOUS
  <2>1. r \in Record
    BY BatchAssumption
  <2> QED
    BY <2>1 DEF Record
<1>1. ComparedBatch(B) = { As(r) : r \in B }
  BY DEF ComparedBatch
<1> HIDE DEF As
<1>2. Store!IdsOf(ComparedBatch(B)) = IdsOf(B)
  BY <1>0, <1>1 DEF Store!IdsOf, IdsOf
<1>3. Store!Assertions(ComparedBatch(B)) = Assertions(B)
  BY <1>0, <1>1 DEF Store!Assertions, Assertions
<1>4. Store!KeysOf(ComparedBatch(B)) = KeysOf(B) /\ \A k : Store!EdgeOf(ComparedBatch(B), k) = EdgeOf(B, k)
  BY <1>3 DEF Store!KeysOf, KeysOf, Store!EdgeOf, EdgeOf
<1>5. Store!SelfConflicting(ComparedBatch(B)) <=> SelfConflicting(B)
  <2>1. \A r, s \in B : r.id = s.id /\ Compared(r.node) = Compared(s.node) => r.node = s.node
    BY DEF PlainBatches
  <2>2. (\E r, s \in ComparedBatch(B) : r.id = s.id /\ r.node # s.node)
        <=> (\E r, s \in B : r.id = s.id /\ r.node # s.node)
    BY <1>0, <1>1, <2>1
  <2> QED
    BY <1>3, <2>2 DEF Store!SelfConflicting, SelfConflicting
<1>6. ASSUME ~ SelfConflicting(B), NEW i \in IdsOf(B)
      PROVE  Store!NodeOf(ComparedBatch(B), i) = Compared(NodeOf(B, i))
  <2>1. PICK r \in B : r.id = i /\ NodeOf(B, i) = r.node
    BY NodeOfRecord
  <2>2. \E c \in ComparedBatch(B) : c.id = i
    BY <1>0, <1>1, <2>1
  <2>3. /\ (CHOOSE c \in ComparedBatch(B) : c.id = i) \in ComparedBatch(B)
        /\ (CHOOSE c \in ComparedBatch(B) : c.id = i).id = i
    BY <2>2
  <2>4. \A c \in ComparedBatch(B) : c.id = i => c.node = Compared(r.node)
    BY <1>0, <1>1, <1>6, <2>1 DEF SelfConflicting
  <2> QED
    BY <2>1, <2>3, <2>4 DEF Store!NodeOf
<1> QED
  BY <1>2, <1>4, <1>5, <1>6
\* A relation whose confidence is that of its provenance is stored as it is.
LEMMA StoredAsSubmitted ==
  ASSUME PlainBatches, NEW B \in Batch, NEW k \in KeysOf(B)
  PROVE  AsSubmitted(StoredEdge(EdgeOf(B, k))) = EdgeOf(B, k)
<1> DEFINE e == EdgeOf(B, k)
<1>1. e \in Edge
  BY EdgeOfIsEdge
<1>2. \E x \in Assertions(B) : x.key = k
  BY DEF KeysOf
<1>3. (CHOOSE x \in Assertions(B) : x.key = k) \in Assertions(B)
  BY <1>2
<1>4. e.conf = e.prov.conf
  BY <1>3 DEF PlainBatches, EdgeOf
<1>5. e = [status |-> e.status, method |-> e.method, conf |-> e.conf,
           prov |-> [src |-> e.prov.src, conf |-> e.prov.conf]]
  BY <1>1, ShapeAssumption, Zenon
<1> HIDE DEF e
<1>6. AsSubmitted(StoredEdge(e)) = e
  BY <1>4, <1>5 DEF AsSubmitted, StoredEdge
<1> QED
  BY <1>6 DEF e

\* The database has an entry where the abstract store has one.
LEMMA AbstractEntries ==
  ASSUME PlainBatches, IInv, OnlyCommittedContent
  PROVE  /\ \A i \in Id  : nodes[i] # Absent => Compared(nodes[i]) # Absent
         /\ \A k \in Key : edges[k] # Absent => AsSubmitted(edges[k]) # Absent
<1>1. \A i \in Id : nodes[i] # Absent => Compared(nodes[i]) # Absent
  BY SentinelAssumption DEF IInv, Typed
<1>2. ASSUME NEW k \in Key, edges[k] # Absent PROVE AsSubmitted(edges[k]) # Absent
  <2>1. PICK B \in accepted : k \in KeysOf(B) /\ edges[k] = StoredEdge(EdgeOf(B, k))
    BY <1>2 DEF OnlyCommittedContent
  <2>2. B \in Batch
    BY DEF IInv, Typed
  <2> QED
    BY <2>1, <2>2, StoredAsSubmitted, EdgeOfIsEdge
<1> QED
  BY <1>1, <1>2

\* A check that fails is one of the abstract store, made of the same batch.
LEMMA AbstractChecks ==
  ASSUME PlainBatches, IInv, OnlyCommittedContent, NEW B \in Batch, ~ SelfConflicting(B)
  PROVE  /\ Store!NodeClash(ComparedBatch(B)) <=>
              \E i \in IdsOf(B) : nodes[i] # Absent /\ Compared(nodes[i]) # Compared(NodeOf(B, i))
         /\ Store!EdgeClash(ComparedBatch(B)) <=>
              \E k \in KeysOf(B) : edges[k] # Absent /\ AsSubmitted(edges[k]) # EdgeOf(B, k)
         /\ Store!Dangling(ComparedBatch(B)) <=>
              \E k \in KeysOf(B) : k.to \notin IdsOf(B) /\ nodes[k.to] = Absent
<1>1. /\ \A i \in IdsOf(B) : i \in Id
      /\ \A k \in KeysOf(B) : k \in Key /\ k.to \in Id
  BY NodeOfIsNode, EdgeOfIsEdge DEF Key
<1>2. Store!NodeClash(ComparedBatch(B)) <=>
        \E i \in IdsOf(B) : nodes[i] # Absent /\ Compared(nodes[i]) # Compared(NodeOf(B, i))
  BY <1>1, SameBatch, AbstractEntries DEF Store!NodeClash
<1>3. Store!EdgeClash(ComparedBatch(B)) <=>
        \E k \in KeysOf(B) : edges[k] # Absent /\ AsSubmitted(edges[k]) # EdgeOf(B, k)
  BY <1>1, SameBatch, AbstractEntries DEF Store!EdgeClash
<1>4. Store!Dangling(ComparedBatch(B)) <=>
        \E k \in KeysOf(B) : k.to \notin IdsOf(B) /\ nodes[k.to] = Absent
  BY <1>1, SameBatch, AbstractEntries DEF Store!Dangling
<1> QED
  BY <1>2, <1>3, <1>4

LEMMA RefuseImplements ==
  ASSUME PlainBatches, IInv, OnlyCommittedContent, NEW B \in Batch,
         UNCHANGED <<nodes, edges, accepted>>,
         \/ SelfConflicting(B) /\ reply' = "conflicting_record"
         \/ /\ ~ SelfConflicting(B) /\ reply' = "conflicting_record"
            /\ \E i \in IdsOf(B) : nodes[i] # Absent /\ Compared(nodes[i]) # Compared(NodeOf(B, i))
         \/ /\ ~ SelfConflicting(B)
            /\ \A i \in IdsOf(B) : nodes[i] = Absent \/ Compared(nodes[i]) = Compared(NodeOf(B, i))
            /\ \/ /\ \E k \in KeysOf(B) : edges[k] # Absent /\ AsSubmitted(edges[k]) # EdgeOf(B, k)
                  /\ reply' = "conflicting_record"
               \/ /\ \E k \in KeysOf(B) : k.to \notin IdsOf(B) /\ nodes[k.to] = Absent
                  /\ reply' = "unknown_target"
  PROVE  Store!Next
<1>1. ComparedBatch(B) \in { ComparedBatch(C) : C \in Batch }
  OBVIOUS
<1>2. Store!Reject(ComparedBatch(B))
  BY SameBatch, AbstractChecks DEF Store!Reject
<1> QED
  BY <1>1, <1>2 DEF Store!Next
\* A merge into a node that does not differ leaves what is compared.
LEMMA MergedCompared ==
  ASSUME NEW stored \in Mixed \cup {Absent}, NEW n \in Node,
         stored = Absent \/ Compared(stored) = Compared(n)
  PROVE  Compared(MergedNode(stored, n)) = Compared(n)
<1>1. CASE stored = Absent
  BY <1>1 DEF MergedNode
<1>2. CASE stored # Absent
  <2>1. /\ stored.title = n.title /\ stored.status = n.status
        /\ stored.method = n.method /\ stored.extra = n.extra
    BY <1>2 DEF Compared
  <2> QED
    BY <1>2, <2>1 DEF MergedNode, With, Compared
<1> QED
  BY <1>1, <1>2

LEMMA CommitImplements ==
  ASSUME PlainBatches, NEW w \in Worker, IInv, OnlyCommittedContent, Alone(w), Commit(w)
  PROVE  Store!Next
<1> PICK B : B = batch[w]
  OBVIOUS
<1>0. /\ pc[w] = "commit" /\ Begun(w) /\ Written(w) /\ Passed(w) /\ todo_edges[w] = {}
  BY DEF Commit, IInv, Sane, Passed
<1>1. B \in Batch /\ ~ SelfConflicting(B)
  BY <1>0 DEF Begun
<1>2. \A i \in IdsOf(B) : nodes[i] = Absent \/ Compared(nodes[i]) = Compared(NodeOf(B, i))
  BY <1>0 DEF Alone
<1>3. \A k \in KeysOf(B) : edges[k] = Absent \/ AsSubmitted(edges[k]) = EdgeOf(B, k)
  BY <1>0 DEF Alone
<1>4. \A k \in KeysOf(B) : Visible(w, k.to) /\ new_edges[w][k] # Absent /\ k.to \in Id
  BY <1>0, BatchInput DEF Alone, Passed
<1>5. \A k \in KeysOf(B) : k.to \in IdsOf(B) \/ nodes[k.to] # Absent
  BY <1>0, <1>4 DEF Visible, Written
<1>6. /\ \A i \in Id \ IdsOf(B) : nodes'[i] = nodes[i]
      /\ \A i \in IdsOf(B) : /\ i \in Id /\ NodeOf(B, i) \in Node /\ nodes'[i] # Absent
                             /\ nodes'[i] = MergedNode(nodes[i], NodeOf(B, i))
      /\ \A k \in Key \ KeysOf(B) : edges'[k] = edges[k]
      /\ accepted' = accepted \cup {B}
  BY CommitLeaves
<1>7. \A k \in KeysOf(B) : /\ k \in Key /\ edges'[k] = StoredEdge(EdgeOf(B, k)) /\ edges'[k] # Absent
  BY <1>0, <1>4, BatchInput DEF Written, Commit
<1>8. ASSUME NEW i \in IdsOf(B) PROVE Compared(nodes'[i]) = Compared(NodeOf(B, i))
  <2>1. nodes[i] \in Mixed \cup {Absent} /\ NodeOf(B, i) \in Node
    BY <1>6 DEF IInv, Typed
  <2>2. nodes[i] = Absent \/ Compared(nodes[i]) = Compared(NodeOf(B, i))
    BY <1>2
  <2>3. nodes'[i] = MergedNode(nodes[i], NodeOf(B, i))
    BY <1>6
  <2> QED
    BY <2>1, <2>2, <2>3, MergedCompared
<1>9. \A k \in KeysOf(B) : AsSubmitted(edges'[k]) = EdgeOf(B, k)
  BY <1>1, <1>7, StoredAsSubmitted
<1> DEFINE S == ComparedBatch(B)
<1>10. /\ ~ Store!SelfConflicting(S) /\ ~ Store!NodeClash(S)
       /\ ~ Store!EdgeClash(S) /\ ~ Store!Dangling(S)
  <2>1. ~ Store!SelfConflicting(S)
    BY <1>1, SameBatch
  <2>2. ~ Store!NodeClash(S)
    BY <1>1, <1>2, AbstractChecks
  <2>3. ~ Store!EdgeClash(S)
    BY <1>1, <1>3, AbstractChecks
  <2>4. ~ Store!Dangling(S)
    BY <1>1, <1>5, AbstractChecks
  <2> QED
    BY <2>1, <2>2, <2>3, <2>4
<1>11. [i \in Id |-> IF nodes'[i] = Absent THEN Absent ELSE Compared(nodes'[i])]
       = [i \in Id |-> IF i \in Store!IdsOf(S) THEN Store!NodeOf(S, i)
                       ELSE [j \in Id |-> IF nodes[j] = Absent THEN Absent ELSE Compared(nodes[j])][i]]
  <2>1. /\ Store!IdsOf(S) = IdsOf(B)
        /\ \A i \in IdsOf(B) : Store!NodeOf(S, i) = Compared(NodeOf(B, i))
    BY <1>1, SameBatch
  <2> HIDE DEF S
  <2> QED
    BY <1>6, <1>8, <2>1
<1>12. [k \in Key |-> IF edges'[k] = Absent THEN Absent ELSE AsSubmitted(edges'[k])]
       = [k \in Key |-> IF k \in Store!KeysOf(S) THEN Store!EdgeOf(S, k)
                        ELSE [l \in Key |-> IF edges[l] = Absent THEN Absent ELSE AsSubmitted(edges[l])][k]]
  <2>1. Store!KeysOf(S) = KeysOf(B) /\ \A k : Store!EdgeOf(S, k) = EdgeOf(B, k)
    BY <1>1, SameBatch
  <2> HIDE DEF S
  <2> QED
    BY <1>6, <1>7, <1>9, <2>1
<1>13. { ComparedBatch(C) : C \in accepted' } = { ComparedBatch(C) : C \in accepted } \cup {S}
  BY <1>6
<1>14. Store!Key = Key /\ reply' = "ok"
  BY DEF Store!Key, Key, Commit
<1>15. S \in { ComparedBatch(C) : C \in Batch }
  BY <1>1
<1> HIDE DEF S
<1>16. Store!Accept(S)
  BY <1>10, <1>11, <1>12, <1>13, <1>14 DEF Store!Accept
<1> QED
  BY <1>15, <1>16 DEF Store!Next

LEMMA StepImplements ==
  ASSUME PlainBatches, NEW w, Worker = {w}, IInv, FieldsKept, OnlyCommittedContent, Alone(w),
         [Neo4jNext]_neo4jVars
  PROVE  [Store!Next]_(Store!vars)
<1>0. w \in Worker /\ Begun(w) /\ Written(w) /\ Passed(w)
  BY DEF IInv, Sane
<1>1. UNCHANGED vars => UNCHANGED Store!vars
  BY DEF vars, Store!vars
<1>2. ASSUME NEW B \in Batch, IngestUnsound(w, B) PROVE Store!Next
  BY <1>2, RefuseImplements DEF IngestUnsound
<1>3. ASSUME NEW B \in Batch, IngestBegin(w, B) PROVE UNCHANGED vars
  BY <1>3 DEF IngestBegin, Enter
<1>4. ASSUME Interrupt(w) \/ Crash(w) PROVE UNCHANGED vars
  BY <1>4 DEF Interrupt, Crash, Enter, Rollback, vars
<1>5. ASSUME NEW i \in Id, CheckNode(w, i) PROVE Store!Next \/ UNCHANGED vars
  <2>1. CASE nodes[i] # Absent /\ NodeDiffers(nodes[i], NodeOf(batch[w], i))
    <3>1. batch[w] \in Batch /\ ~ SelfConflicting(batch[w]) /\ i \in IdsOf(batch[w])
      BY <1>0, <1>5 DEF CheckNode, Begun
    <3>2. Compared(nodes[i]) # Compared(NodeOf(batch[w], i))
      BY <2>1, <3>1, CheckCompares
    <3> QED
      BY <1>5, <2>1, <3>1, <3>2, RefuseImplements DEF CheckNode, Refuse, Rollback
  <2>2. CASE ~ (nodes[i] # Absent /\ NodeDiffers(nodes[i], NodeOf(batch[w], i)))
    BY <1>5, <2>2 DEF CheckNode
  <2> QED
    BY <2>1, <2>2
<1>6. ASSUME pc[w] \notin {"idle", "check_nodes"}
      PROVE  /\ batch[w] \in Batch /\ ~ SelfConflicting(batch[w])
             /\ \A i \in IdsOf(batch[w]) :
                  nodes[i] = Absent \/ Compared(nodes[i]) = Compared(NodeOf(batch[w], i))
  BY <1>0, <1>6 DEF Begun, Alone
<1>7. ASSUME NEW k \in Key, CheckEdge(w, k) PROVE Store!Next \/ UNCHANGED vars
  <2>1. CASE edges[k] # Absent /\ EdgeDiffers(edges[k], EdgeOf(batch[w], k))
    <3>1. pc[w] = "check_edges" /\ k \in KeysOf(batch[w])
      BY <1>0, <1>7 DEF CheckEdge, Begun
    <3>2. AsSubmitted(edges[k]) # EdgeOf(batch[w], k)
      BY <1>6, <2>1, <3>1, CheckCompares
    <3> QED
      BY <1>6, <1>7, <2>1, <3>1, <3>2, RefuseImplements DEF CheckEdge, Refuse, Rollback
  <2>2. CASE ~ (edges[k] # Absent /\ EdgeDiffers(edges[k], EdgeOf(batch[w], k)))
    BY <1>7, <2>2 DEF CheckEdge
  <2> QED
    BY <2>1, <2>2
<1>8. ASSUME CountTargets(w) PROVE Store!Next \/ UNCHANGED vars
  <2>1. CASE \A k \in KeysOf(batch[w]) : Visible(w, k.to)
    BY <1>8, <2>1 DEF CountTargets
  <2>2. CASE ~ \A k \in KeysOf(batch[w]) : Visible(w, k.to)
    <3>1. PICK k \in KeysOf(batch[w]) : ~ Visible(w, k.to)
      BY <2>2
    <3>2. pc[w] = "count" /\ todo_nodes[w] = {}
      BY <1>0, <1>8 DEF CountTargets, Passed
    <3>3. k.to \notin IdsOf(batch[w]) /\ nodes[k.to] = Absent
      BY <1>0, <3>1, <3>2 DEF Passed, Visible
    <3> QED
      BY <1>6, <1>8, <2>2, <3>1, <3>2, <3>3, RefuseImplements DEF CountTargets, Refuse, Rollback
  <2> QED
    BY <2>1, <2>2
<1>9. ASSUME Work(w) PROVE Store!Next \/ UNCHANGED vars
  <2>1. ASSUME NEW i \in Id, WriteNode(w, i) PROVE UNCHANGED vars
    BY <2>1 DEF WriteNode
  <2>2. ASSUME NEW k \in Key, WriteEdge(w, k) PROVE UNCHANGED vars
    BY <2>2 DEF WriteEdge
  <2>3. ASSUME NextPhase(w) PROVE UNCHANGED vars
    BY <2>3 DEF NextPhase, Goto
  <2> QED
    BY <1>0, <1>5, <1>7, <1>8, <1>9, <2>1, <2>2, <2>3, CommitImplements DEF Work
<1>10. UNCHANGED neo4jVars => UNCHANGED vars
  BY DEF neo4jVars
<1>11. Neo4jNext => Store!Next \/ UNCHANGED vars
  BY <1>2, <1>3, <1>4, <1>9 DEF Neo4jNext
<1> QED
  BY <1>1, <1>10, <1>11

LEMMA AloneInvariant ==
  ASSUME PlainBatches, NEW w, Worker = {w}
  PROVE  Neo4jSpec => [](FieldsKept /\ Alone(w))
<1>1. Neo4jInit => FieldsKept /\ Alone(w)
  BY DEF Neo4jInit, Init, FieldsKept, Alone
<1>2. IInv /\ FieldsKept /\ Alone(w) /\ [Neo4jNext]_neo4jVars => FieldsKept' /\ Alone(w)'
  BY FieldsKeptStep, AloneStep
<1> QED
  BY <1>1, <1>2, Neo4jInvariant, PTL DEF Neo4jSpec

(***************************************************************************)
(* With one process and plain batches Neo4jStore implements the promise of *)
(* a store: each ingest() takes its batch as a whole or not at all, what   *)
(* was taken is not changed (but for the provenance of nodes), and giving  *)
(* it again is accepted.  A check is then never stale, and no target can   *)
(* come between the MERGE of a relation and the count.                     *)
(***************************************************************************)
THEOREM OneWriterImplements ==
  ASSUME OneWriter, PlainBatches
  PROVE  Neo4jSpec => ImplementsEvidenceGraph
<1> PICK w : Worker = {w}
  BY DEF OneWriter
<1>1. Neo4jInit => Store!Init
  <2> SUFFICES ASSUME Neo4jInit PROVE Store!Init
    OBVIOUS
  <2>1. Store!Key = Key
    BY DEF Store!Key, Key
  <2> QED
    BY <2>1 DEF Neo4jInit, Init, Store!Init
<1>2. IInv /\ OnlyCommittedContent /\ FieldsKept /\ Alone(w) /\ [Neo4jNext]_neo4jVars
      => [Store!Next]_(Store!vars)
  BY StepImplements
<1> QED
  BY <1>1, <1>2, AloneInvariant, Neo4jInvariant, ContentIsCommitted, PTL
     DEF Neo4jSpec, ImplementsEvidenceGraph, Store!Spec

-----------------------------------------------------------------------------
(***************************************************************************)
(* Where the code keeps the three statements of the documents that it does *)
(* not keep in general.                                                    *)
(***************************************************************************)

(***************************************************************************)
(* The relations of a batch pass the check again in a database that holds  *)
(* nothing else, for any number of processes, when each is as certain as   *)
(* its provenance: that is all their check can stumble on.                 *)
(***************************************************************************)
THEOREM CertainBatchesReingest ==
  ASSUME \A B \in Batch : \A x \in Assertions(B) : x.edge.conf = x.edge.prov.conf
  PROVE  Neo4jSpec => []Reingestible
<1>1. IInv /\ OnlyCommittedContent => Reingestible
  <2> SUFFICES ASSUME IInv, OnlyCommittedContent, NEW B \in accepted, accepted = {B},
                      NEW k \in KeysOf(B), edges[k] # Absent
               PROVE  ~ EdgeDiffers(edges[k], EdgeOf(B, k))
    BY DEF Reingestible
  <2>1. B \in Batch /\ k \in Key
    BY EdgeOfIsEdge DEF IInv, Typed
  <2>2. edges[k] = StoredEdge(EdgeOf(B, k))
    BY <2>1 DEF OnlyCommittedContent
  <2>3. \E x \in Assertions(B) : x.key = k
    BY DEF KeysOf
  <2>4. (CHOOSE x \in Assertions(B) : x.key = k) \in Assertions(B)
    BY <2>3
  <2>5. EdgeOf(B, k).conf = EdgeOf(B, k).prov.conf
    BY <2>1, <2>4 DEF EdgeOf
  <2> QED
    BY <2>2, <2>5 DEF EdgeDiffers, StoredEdge
<1> QED
  BY <1>1, Neo4jInvariant, ContentIsCommitted, PTL

\* What the commit of the only worker does to the relations of its batch.
LEMMA AloneCommits ==
  ASSUME NEW w \in Worker, IInv, Alone(w), Commit(w)
  PROVE  \A k \in KeysOf(batch[w]) :
           /\ k \in Key /\ EdgeOf(batch[w], k) \in Edge
           /\ edges'[k] = StoredEdge(EdgeOf(batch[w], k)) /\ edges'[k] # Absent
           /\ edges[k] = Absent \/ AsSubmitted(edges[k]) = EdgeOf(batch[w], k)
<1>1. /\ pc[w] = "commit" /\ Begun(w) /\ Written(w) /\ Passed(w) /\ todo_edges[w] = {}
  BY DEF Commit, IInv, Sane, Passed
<1>2. \A k \in KeysOf(batch[w]) : Visible(w, k.to) /\ new_edges[w][k] # Absent
  BY <1>1 DEF Alone, Passed
<1>3. \A k \in KeysOf(batch[w]) : edges[k] = Absent \/ AsSubmitted(edges[k]) = EdgeOf(batch[w], k)
  BY <1>1 DEF Alone
<1> QED
  BY <1>1, <1>2, <1>3, BatchInput DEF Written, Commit, Begun

(***************************************************************************)
(* With one process at a time no relation of a committed batch is missing: *)
(* a MERGE that found no target is a target that the count misses too.     *)
(***************************************************************************)
THEOREM OneWriterOmitsNothing ==
  ASSUME OneWriter, PlainBatches
  PROVE  Neo4jSpec => []NoRelationOmitted
<1> PICK w : Worker = {w}
  BY DEF OneWriter
<1>1. Neo4jInit => NoRelationOmitted
  BY DEF Neo4jInit, Init, NoRelationOmitted
<1>2. IInv /\ Alone(w) /\ NoRelationOmitted /\ [Neo4jNext]_neo4jVars => NoRelationOmitted'
  <2> SUFFICES ASSUME IInv, Alone(w), NoRelationOmitted, [Neo4jNext]_neo4jVars
               PROVE  NoRelationOmitted'
    OBVIOUS
  <2>1. CASE UNCHANGED <<edges, accepted>>
    BY <2>1 DEF NoRelationOmitted
  <2>2. CASE Commit(w)
    <3> SUFFICES ASSUME NEW B \in accepted', NEW k \in KeysOf(B) PROVE edges'[k] # Absent
      BY DEF NoRelationOmitted
    <3>1. CASE k \in KeysOf(batch[w])
      BY <2>2, <3>1, AloneCommits
    <3>2. CASE k \notin KeysOf(batch[w])
      <4>1. B \in accepted /\ B \in Batch
        BY <2>2, <3>2, CommitLeaves DEF IInv, Typed
      <4>2. k \in Key /\ edges[k] # Absent
        BY <4>1, EdgeOfIsEdge DEF NoRelationOmitted
      <4> QED
        BY <2>2, <3>2, <4>2, CommitLeaves
    <3> QED
      BY <3>1, <3>2
  <2> QED
    BY <2>1, <2>2, OnlyCommits
<1> QED
  BY <1>1, <1>2, AloneInvariant, Neo4jInvariant, PTL DEF Neo4jSpec

(***************************************************************************)
(* With one process at a time an inference never replaces a relation that  *)
(* was approved: the check has seen the relation that the MERGE overwrites.*)
(* What _validate() asks of nodes it asks of relations too.                *)
(***************************************************************************)
THEOREM OneWriterKeepsApproved ==
  ASSUME OneWriter, PlainBatches,
         \A e \in Edge : e.method = "ai_inferred" => e.status = "proposed"
  PROVE  Neo4jSpec => ApprovedRelationKept
<1> PICK w : Worker = {w}
  BY DEF OneWriter
<1>1. IInv /\ Alone(w) /\ [Neo4jNext]_neo4jVars =>
        [ \A k \in Key :
            edges[k] # Absent /\ edges[k].status = "approved"
            => edges'[k].method # "ai_inferred" ]_edges
  <2> SUFFICES ASSUME IInv, Alone(w), [Neo4jNext]_neo4jVars, edges' # edges,
                      NEW k \in Key, edges[k] # Absent, edges[k].status = "approved"
               PROVE  edges'[k].method # "ai_inferred"
    OBVIOUS
  <2>1. Commit(w)
    BY OnlyCommits
  <2>2. PICK d \in Edge : edges[k] = StoredEdge(d)
    BY DEF IInv, Typed, Stored
  <2>3. edges[k].method # "ai_inferred"
    BY <2>2 DEF StoredEdge
  <2>4. CASE k \in KeysOf(batch[w])
    <3>1. /\ edges'[k] = StoredEdge(EdgeOf(batch[w], k))
          /\ AsSubmitted(edges[k]) = EdgeOf(batch[w], k)
      BY <2>1, <2>4, AloneCommits
    <3>2. edges'[k].method = edges[k].method
      BY <3>1 DEF StoredEdge, AsSubmitted
    <3> QED
      BY <2>3, <3>2
  <2>5. CASE k \notin KeysOf(batch[w])
    BY <2>1, <2>3, <2>5, CommitLeaves
  <2> QED
    BY <2>4, <2>5
<1> QED
  BY <1>1, AloneInvariant, Neo4jInvariant, PTL DEF Neo4jSpec, ApprovedRelationKept

-----------------------------------------------------------------------------
(***************************************************************************)
(* What CallsEnd rests on: a call whose next statement must wait for a     *)
(* lock waits for another call that is under way, never for one that has   *)
(* ended, was rolled back or died.  When all that are under way must wait, *)
(* they wait for each other: a deadlock, which the database breaks.        *)
(***************************************************************************)
StallsAreDeadlocks ==
  /\ \A w \in Worker : BlockedBy(w, Worker) => BlockedBy(w, { v \in Worker : pc[v] # "idle" })
  /\ (\A w \in Worker : pc[w] # "idle" => BlockedBy(w, Worker))
     => \A w \in Worker : pc[w] # "idle" => Deadlocked(w)

THEOREM NoStallUnbroken == Neo4jSpec => []StallsAreDeadlocks
<1>1. IInv => StallsAreDeadlocks
  <2> SUFFICES ASSUME IInv PROVE StallsAreDeadlocks
    OBVIOUS
  <2> DEFINE Busy == { v \in Worker : pc[v] # "idle" }
  <2>1. \A v \in Worker : /\ \A i \in Id  : new_nodes[v][i] # Absent => v \in Busy
                          /\ \A k \in Key : new_edges[v][k] # Absent => v \in Busy
    BY DEF IInv, Sane, Begun, NoNodes, NoEdges
  <2>2. \A w \in Worker : todo_nodes[w] \subseteq Id /\ todo_edges[w] \subseteq Key
    BY DEF IInv, Typed
  <2>3. \A w \in Worker : BlockedBy(w, Worker) => BlockedBy(w, Busy)
    BY <2>1, <2>2 DEF BlockedBy
  <2>4. ASSUME \A w \in Worker : pc[w] # "idle" => BlockedBy(w, Worker),
               NEW w \in Worker, pc[w] # "idle"
        PROVE  Deadlocked(w)
    <3>1. w \in Busy /\ Busy \in SUBSET Worker /\ \A v \in Busy : BlockedBy(v, Busy)
      BY <2>3, <2>4
    <3> QED
      BY <3>1 DEF Deadlocked
  <2> QED
    BY <2>3, <2>4 DEF StallsAreDeadlocks
<1> QED
  BY <1>1, Neo4jInvariant, PTL

(***************************************************************************)
(* A call makes its way or spends one of its attempts: each step that it   *)
(* takes ends it, begins one more of its MaxAttempts attempts, goes to a   *)
(* later phase, or leaves one thing less to do in the phase.  No step of   *)
(* another call takes it back.  So a call takes only so many steps.        *)
(***************************************************************************)
Place == [check_nodes |-> 1, check_edges |-> 2, write_nodes |-> 3, write_edges |-> 4,
          count |-> 5, commit |-> 6]

Onward(w) ==
  \/ pc'[w] = "idle"
  \/ attempt'[w] = attempt[w] + 1 /\ attempt'[w] <= MaxAttempts
  \/ /\ attempt'[w] = attempt[w]
     /\ \/ pc'[w] # "idle" /\ Place[pc[w]] < Place[pc'[w]]
        \/ /\ pc'[w] = pc[w]
           /\ \/ \E i \in todo_nodes[w] : /\ todo_nodes'[w] = todo_nodes[w] \ {i}
                                          /\ todo_edges'[w] = todo_edges[w]
              \/ \E k \in todo_edges[w] : /\ todo_edges'[w] = todo_edges[w] \ {k}
                                          /\ todo_nodes'[w] = todo_nodes[w]

StayingPut(w) ==
  /\ pc'[w] = pc[w] /\ attempt'[w] = attempt[w]
  /\ todo_nodes'[w] = todo_nodes[w] /\ todo_edges'[w] = todo_edges[w]

CallsGoOnward ==
  [][ \A w \in Worker : pc[w] # "idle" => Onward(w) \/ StayingPut(w) ]_tx

LEMMA OwnStepOnward ==
  ASSUME Typed, NEW w \in Worker, pc[w] # "idle",
         Work(w) \/ Interrupt(w) \/ Crash(w)
  PROVE  Onward(w)
<1>1. ASSUME End(w) PROVE Onward(w)
  BY <1>1 DEF Typed, End, Onward
<1>2. ASSUME NEW i \in Id, CheckNode(w, i) \/ WriteNode(w, i) PROVE Onward(w)
  <2>1. CASE CheckNode(w, i)
    BY <1>1, <2>1 DEF CheckNode, Refuse, Rollback, Typed, Onward
  <2>2. CASE WriteNode(w, i)
    BY <2>2 DEF WriteNode, Typed, Onward
  <2> QED
    BY <1>2, <2>1, <2>2
<1>3. ASSUME NEW k \in Key, CheckEdge(w, k) \/ WriteEdge(w, k) PROVE Onward(w)
  <2>1. CASE CheckEdge(w, k)
    BY <1>1, <2>1 DEF CheckEdge, Refuse, Rollback, Typed, Onward
  <2>2. CASE WriteEdge(w, k)
    BY <2>2 DEF WriteEdge, Typed, Onward
  <2> QED
    BY <1>3, <2>1, <2>2
<1>4. CASE NextPhase(w)
  <2>1. /\ attempt'[w] = attempt[w]
        /\ \/ pc[w] = "check_nodes" /\ pc'[w] = "check_edges"
           \/ pc[w] = "check_edges" /\ pc'[w] = "write_nodes"
           \/ pc[w] = "write_nodes" /\ pc'[w] = "write_edges"
           \/ pc[w] = "write_edges" /\ pc'[w] = "count"
    BY <1>4 DEF NextPhase, Goto, Typed
  <2> QED
    BY <2>1 DEF Onward, Place
<1>5. CASE CountTargets(w)
  <2>1. \/ End(w)
        \/ attempt'[w] = attempt[w] /\ pc[w] = "count" /\ pc'[w] = "commit"
    BY <1>5 DEF CountTargets, Refuse, Rollback, Typed
  <2> QED
    BY <1>1, <2>1 DEF Onward, Place
<1>6. CASE Interrupt(w)
  <2>1. \/ End(w)
        \/ attempt[w] < MaxAttempts /\ attempt'[w] = attempt[w] + 1
    BY <1>6 DEF Interrupt, Enter, Rollback, Typed
  <2> QED
    BY <1>1, <2>1, AttemptsAssumption DEF Typed, Onward
<1>7. CASE Commit(w) \/ Crash(w)
  BY <1>1, <1>7 DEF Commit, Crash, Rollback
<1> QED
  BY <1>2, <1>3, <1>4, <1>5, <1>6, <1>7 DEF Work

THEOREM CallsOnlyGoOnward == Neo4jSpec => CallsGoOnward
<1>1. IInv /\ [Neo4jNext]_neo4jVars =>
        [ \A w \in Worker : pc[w] # "idle" => Onward(w) \/ StayingPut(w) ]_tx
  <2> SUFFICES ASSUME IInv, Neo4jNext, NEW w \in Worker, pc[w] # "idle"
               PROVE  Onward(w) \/ StayingPut(w)
    BY DEF neo4jVars
  <2>1. PICK v \in Worker :
          \/ \E B \in Batch : IngestUnsound(v, B) \/ IngestBegin(v, B)
          \/ Work(v) \/ Interrupt(v) \/ Crash(v)
    BY DEF Neo4jNext
  <2>2. CASE v = w
    <3>1. Work(w) \/ Interrupt(w) \/ Crash(w)
      BY <2>1, <2>2 DEF IngestUnsound, IngestBegin
    <3> QED
      BY <3>1, OwnStepOnward DEF IInv
  <2>3. CASE v # w
    BY <2>1, <2>3 DEF IInv, Typed, StayingPut, IngestUnsound, IngestBegin, Enter, Work, CheckNode,
       CheckEdge, WriteNode, WriteEdge, NextPhase, Goto, CountTargets, Commit, Refuse, Rollback,
       End, Interrupt, Crash, tx
  <2> QED
    BY <2>2, <2>3
<1> QED
  BY <1>1, Neo4jInvariant, PTL DEF Neo4jSpec, CallsGoOnward
=============================================================================
