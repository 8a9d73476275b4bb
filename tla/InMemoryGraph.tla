---------------------------- MODULE InMemoryGraph ----------------------------
(***************************************************************************)
(* InMemoryGraph of domain_graph/ingest.py: ingest() writes the nodes and  *)
(* then the edges of a batch one by one into the two dictionaries, and puts *)
(* the copies taken on entry back when one of them cannot be written.      *)
(*                                                                         *)
(* Each step of the two loops is an action, so that every point at which   *)
(* the call can fail is a state of the model.  old_nodes and old_edges are  *)
(* locals of the call; between calls they are kept equal to the graph.     *)
(* The loops take the entries of a dictionary in any order: the code takes *)
(* them in insertion order, which is one of these.                         *)
(*                                                                         *)
(* A definition named X_Y is X with the bug Y; no specification uses it.   *)
(***************************************************************************)
EXTENDS EvidenceGraph

VARIABLES
  pc,            \* "idle", or the loop that the running ingest() is in
  batch,         \* the records of the running call
  old_nodes,     \* self.nodes and self.edges when the call began
  old_edges,
  todo_nodes,    \* ids and keys that the loops have still to write
  todo_edges

locals == <<pc, batch, old_nodes, old_edges, todo_nodes, todo_edges>>
allVars == <<vars, locals>>

InMemoryInit ==
  /\ Init
  /\ pc = "idle" /\ batch = {}
  /\ old_nodes = nodes /\ old_edges = edges
  /\ todo_nodes = {} /\ todo_edges = {}

\* normalize_inputs() fails before anything is copied or written.
IngestUnsound(B) ==
  /\ pc = "idle" /\ SelfConflicting(B)
  /\ reply' = "conflicting_record"
  /\ UNCHANGED <<nodes, edges, accepted, locals>>

IngestBegin(B) ==
  /\ pc = "idle" /\ ~ SelfConflicting(B)
  /\ pc' = "nodes" /\ batch' = B
  /\ todo_nodes' = IdsOf(B) /\ todo_edges' = KeysOf(B)
  /\ old_nodes' = nodes /\ old_edges' = edges
  /\ UNCHANGED vars

Rollback_NodesOnly(error) ==
  /\ nodes' = old_nodes
  /\ reply' = error
  /\ pc' = "idle" /\ batch' = {} /\ todo_nodes' = {} /\ todo_edges' = {}
  /\ UNCHANGED <<edges, accepted, old_nodes, old_edges>>

\* except Exception: self.nodes, self.edges = old_nodes, old_edges; raise
Rollback(error) ==
  /\ nodes' = old_nodes /\ edges' = old_edges
  /\ reply' = error
  /\ pc' = "idle" /\ batch' = {} /\ todo_nodes' = {} /\ todo_edges' = {}
  /\ UNCHANGED <<accepted, old_nodes, old_edges>>

PutNode(i) ==
  /\ pc = "nodes" /\ i \in todo_nodes
  /\ nodes[i] \in {Absent, NodeOf(batch, i)}
  /\ nodes' = [nodes EXCEPT ![i] = NodeOf(batch, i)]
  /\ todo_nodes' = todo_nodes \ {i}
  /\ UNCHANGED <<edges, reply, accepted, pc, batch, old_nodes, old_edges, todo_edges>>

RefuseNode(i) ==
  /\ pc = "nodes" /\ i \in todo_nodes
  /\ nodes[i] \notin {Absent, NodeOf(batch, i)}
  /\ Rollback("conflicting_record")

NodesDone ==
  /\ pc = "nodes" /\ todo_nodes = {}
  /\ pc' = "edges"
  /\ UNCHANGED <<vars, batch, old_nodes, old_edges, todo_nodes, todo_edges>>

PutEdge_AnyTarget(k) ==
  /\ pc = "edges" /\ k \in todo_edges
  /\ edges[k] \in {Absent, EdgeOf(batch, k)}
  /\ edges' = [edges EXCEPT ![k] = EdgeOf(batch, k)]
  /\ todo_edges' = todo_edges \ {k}
  /\ UNCHANGED <<nodes, reply, accepted, pc, batch, old_nodes, old_edges, todo_nodes>>

PutEdge_Overwriting(k) ==
  /\ pc = "edges" /\ k \in todo_edges
  /\ nodes[k.to] # Absent
  /\ edges' = [edges EXCEPT ![k] = EdgeOf(batch, k)]
  /\ todo_edges' = todo_edges \ {k}
  /\ UNCHANGED <<nodes, reply, accepted, pc, batch, old_nodes, old_edges, todo_nodes>>

PutEdge(k) ==
  /\ pc = "edges" /\ k \in todo_edges
  /\ nodes[k.to] # Absent
  /\ edges[k] \in {Absent, EdgeOf(batch, k)}
  /\ edges' = [edges EXCEPT ![k] = EdgeOf(batch, k)]
  /\ todo_edges' = todo_edges \ {k}
  /\ UNCHANGED <<nodes, reply, accepted, pc, batch, old_nodes, old_edges, todo_nodes>>

\* The target is looked up before the relation is compared.
RefuseEdge(k) ==
  /\ pc = "edges" /\ k \in todo_edges
  /\ \/ nodes[k.to] = Absent /\ Rollback("unknown_target")
     \/ /\ nodes[k.to] # Absent /\ edges[k] \notin {Absent, EdgeOf(batch, k)}
        /\ Rollback("conflicting_record")

IngestReturn ==
  /\ pc = "edges" /\ todo_edges = {}
  /\ pc' = "idle" /\ batch' = {}
  /\ reply' = "ok"
  /\ accepted' = accepted \cup {batch}
  /\ old_nodes' = nodes /\ old_edges' = edges
  /\ UNCHANGED <<nodes, edges, todo_nodes, todo_edges>>

InMemoryNext ==
  \/ \E B \in Batch : IngestUnsound(B) \/ IngestBegin(B)
  \/ \E i \in Id : PutNode(i) \/ RefuseNode(i)
  \/ \E k \in Key : PutEdge(k) \/ RefuseEdge(k)
  \/ NodesDone
  \/ IngestReturn

InMemorySpec == InMemoryInit /\ [][InMemoryNext]_allVars

-----------------------------------------------------------------------------
InMemoryTypeOK ==
  /\ TypeOK
  /\ pc \in {"idle", "nodes", "edges"}
  /\ batch \in Batch \cup {{}}
  /\ old_nodes \in [Id  -> Node \cup {Absent}]
  /\ old_edges \in [Key -> Edge \cup {Absent}]
  /\ todo_nodes \in SUBSET Id
  /\ todo_edges \in SUBSET Key

(***************************************************************************)
(* A running call has written exactly the entries that its loops have      *)
(* passed, over the graph it found: the strengthening under which the      *)
(* restored copies are shown to be the graph before the call.              *)
(***************************************************************************)
Progress ==
  /\ pc = "idle"  => /\ nodes = old_nodes /\ edges = old_edges
                     /\ batch = {} /\ todo_nodes = {} /\ todo_edges = {}
  /\ pc # "idle"  => batch \in Batch /\ ~ SelfConflicting(batch)
  /\ pc = "nodes" => todo_edges = KeysOf(batch)
  /\ pc = "edges" => todo_nodes = {}
  /\ todo_nodes \subseteq IdsOf(batch) /\ todo_edges \subseteq KeysOf(batch)
  /\ nodes = [i \in Id |-> IF i \in IdsOf(batch) \ todo_nodes
                           THEN NodeOf(batch, i) ELSE old_nodes[i]]
  /\ edges = [k \in Key |-> IF k \in KeysOf(batch) \ todo_edges
                            THEN EdgeOf(batch, k) ELSE old_edges[k]]
  /\ \A i \in IdsOf(batch) \ todo_nodes :
       old_nodes[i] \in {Absent, NodeOf(batch, i)}
  /\ \A k \in KeysOf(batch) \ todo_edges :
       /\ old_edges[k] \in {Absent, EdgeOf(batch, k)}
       /\ nodes[k.to] # Absent

(***************************************************************************)
(* Seen through the copies, which a caller would get back, a call has no   *)
(* effect until it returns and then takes the whole batch: InMemoryGraph   *)
(* implements EvidenceGraph (ingest() and its rollback).                   *)
(***************************************************************************)
Store == INSTANCE EvidenceGraph WITH nodes <- old_nodes, edges <- old_edges

ImplementsEvidenceGraph == Store!Spec

(***************************************************************************)
(* What a returned call stored is what the graph still holds, whatever the *)
(* calls after it did, the failing ones included (README, policy 4).       *)
(***************************************************************************)
TakenBatchesHold == Store!AcceptedBatchesHold

(***************************************************************************)
(* Even in the middle of a call no relation is in the dictionary without   *)
(* both of its ends: ingest() writes all nodes before the first edge and   *)
(* puts the edges back together with the nodes.                            *)
(***************************************************************************)
NeverDangling == EndpointsRegistered
=============================================================================
