----------------------------- MODULE Neo4jStore -----------------------------
(***************************************************************************)
(* Neo4jStore.ingest() of domain_graph/neo4j_store.py, called by several   *)
(* processes that share one database.  A call checks every node and every  *)
(* relation of its batch against the database, then runs the MERGE         *)
(* statements of neo4j_statements(), counts the targets and commits.       *)
(*                                                                         *)
(* The database and the driver are not in the repository.  They are taken  *)
(* as kindly as their documentation allows: a statement sees what is       *)
(* committed and what its own transaction wrote (read committed), a MERGE  *)
(* .. SET statement is atomic and keeps what it wrote locked until the end *)
(* of the transaction, the unique constraints exist, a rollback undoes the *)
(* transaction, and execute_write() calls the work function again after a  *)
(* transient error or a deadlock, at most MaxAttempts times.               *)
(*                                                                         *)
(* A definition named X_Y is X with the bug Y; no specification uses it.   *)
(***************************************************************************)
EXTENDS EvidenceGraph, Naturals

CONSTANTS
  Worker,        \* the processes that call ingest()
  MaxAttempts,   \* how often the driver runs the work function of one call
  Missing        \* an optional field that a record does not have

\* A node: what the CASE expressions protect, an optional field of the
\* allowlist (issueStatus, githubState, ...), and the provenance.
\* An edge has a confidence of its own beside that of its provenance.
ASSUME ShapeAssumption ==
  /\ \A n \in Node :
       n = [title |-> n.title, status |-> n.status, method |-> n.method,
            extra |-> n.extra, prov |-> n.prov]
  /\ \A e \in Edge :
       e = [status |-> e.status, method |-> e.method, conf |-> e.conf,
            prov |-> [src |-> e.prov.src, conf |-> e.prov.conf]]

ASSUME AttemptsAssumption == MaxAttempts \in Nat \ {0}

\* What a loader returns never calls an inference more than proposed
\* (_validate(); NoInferenceApproved in ImportsProofs).
ASSUME InferenceAssumption ==
  \A n \in Node : n.method = "ai_inferred" => n.status = "proposed"

\* payload.update(edge["provenance"]): the provenance's confidence wins.
StoredEdge(e) ==
  [status |-> e.status, method |-> e.method, conf |-> e.prov.conf, src |-> e.prov.src]

\* A node with the optional field and the provenance replaced.
With(n, extra, prov) ==
  [title |-> n.title, status |-> n.status, method |-> n.method, extra |-> extra, prov |-> prov]

\* A stored node: the optional field and the provenance may be of other batches.
Mixed  == { With(n, m.extra, p.prov) : n, m, p \in Node }
Stored == { StoredEdge(e) : e \in Edge }

\* What a check looks at: the provenance is not among it.
Compared(n) == [title |-> n.title, status |-> n.status, method |-> n.method, extra |-> n.extra]

ASSUME SentinelAssumption ==
  Absent \notin Mixed \cup Stored \cup { Compared(n) : n \in Mixed }

VARIABLES
  pc,            \* per worker: "idle", a phase of work(tx), or "commit"
  batch,         \* per worker: the records of its call
  todo_nodes,    \* per worker: what the loop of the phase has still to visit
  todo_edges,
  new_nodes,     \* per worker: what its transaction wrote, and so locks
  new_edges,
  attempt        \* per worker: how often work() has been started

tx == <<pc, batch, todo_nodes, todo_edges, new_nodes, new_edges, attempt>>
neo4jVars == <<vars, tx>>

NoNodes == [i \in Id |-> Absent]
NoEdges == [k \in Key |-> Absent]

Neo4jInit ==
  /\ Init
  /\ pc = [w \in Worker |-> "idle"]
  /\ batch = [w \in Worker |-> {}]
  /\ todo_nodes = [w \in Worker |-> {}]
  /\ todo_edges = [w \in Worker |-> {}]
  /\ new_nodes = [w \in Worker |-> NoNodes]
  /\ new_edges = [w \in Worker |-> NoEdges]
  /\ attempt = [w \in Worker |-> 0]

-----------------------------------------------------------------------------
(***************************************************************************)
(* What the statements compute.                                            *)
(***************************************************************************)

\* Only the fields of node_fields that the record has under that very name
\* are compared: the nested provenance is not among them.
NodeDiffers(stored, n) ==
  \/ stored.title # n.title \/ stored.status # n.status \/ stored.method # n.method
  \/ n.extra # Missing /\ stored.extra # n.extra

Protected(stored) == stored.status = "approved" /\ stored.method # "ai_inferred"

MergedNode_TitleOnly(stored, n) ==
  IF stored = Absent THEN n
  ELSE [n EXCEPT !.title = IF Protected(stored) /\ n.status # "approved"
                           THEN stored.title ELSE @,
                 !.extra = IF @ = Missing THEN stored.extra ELSE @]

MergedNode_NoCase(stored, n) ==
  IF stored = Absent THEN n
  ELSE [n EXCEPT !.extra = IF @ = Missing THEN stored.extra ELSE @]

\* MERGE (n:DomainNode ...) SET n.title = CASE ..., n.sourceId = ...
MergedNode(stored, n) ==
  IF stored = Absent THEN n
  ELSE LET core == IF Protected(stored) /\ n.status # "approved" THEN stored ELSE n
       IN  With(core, IF n.extra = Missing THEN stored.extra ELSE n.extra, n.prov)

EdgeDiffers_NoProvenance(stored, e) ==
  stored.status # e.status \/ stored.method # e.method \/ stored.conf # e.conf

EdgeDiffers(stored, e) ==
  stored # [status |-> e.status, method |-> e.method, conf |-> e.conf, src |-> e.prov.src]

\* What a statement of w sees of node i.
Visible(w, i) == nodes[i] # Absent \/ new_nodes[w][i] # Absent

NodeFree(w, i) == \A v \in Worker \ {w} : new_nodes[v][i] = Absent
EdgeFree(w, k) == \A v \in Worker \ {w} : new_edges[v][k] = Absent

-----------------------------------------------------------------------------
\* The transaction of w is gone, with what it wrote, and the call has ended.
End(w) ==
  /\ pc' = [pc EXCEPT ![w] = "idle"]
  /\ batch' = [batch EXCEPT ![w] = {}]
  /\ todo_nodes' = [todo_nodes EXCEPT ![w] = {}]
  /\ todo_edges' = [todo_edges EXCEPT ![w] = {}]
  /\ new_nodes' = [new_nodes EXCEPT ![w] = NoNodes]
  /\ new_edges' = [new_edges EXCEPT ![w] = NoEdges]
  /\ attempt' = [attempt EXCEPT ![w] = 0]

Rollback_KeepsWrites(w) ==
  /\ End(w)
  /\ nodes' = [i \in Id  |-> IF new_nodes[w][i] # Absent THEN new_nodes[w][i] ELSE nodes[i]]
  /\ edges' = [k \in Key |-> IF new_edges[w][k] # Absent THEN new_edges[w][k] ELSE edges[k]]
  /\ UNCHANGED accepted

\* The driver rolls the transaction back and raises.
Rollback(w) == End(w) /\ UNCHANGED <<nodes, edges, accepted>>

Refuse(w, error) == Rollback(w) /\ reply' = error

\* work(tx) is entered, for the first time or again.
Enter(w, B, n) ==
  /\ pc' = [pc EXCEPT ![w] = "check_nodes"]
  /\ batch' = [batch EXCEPT ![w] = B]
  /\ todo_nodes' = [todo_nodes EXCEPT ![w] = IdsOf(B)]
  /\ todo_edges' = [todo_edges EXCEPT ![w] = KeysOf(B)]
  /\ new_nodes' = [new_nodes EXCEPT ![w] = NoNodes]
  /\ new_edges' = [new_edges EXCEPT ![w] = NoEdges]
  /\ attempt' = [attempt EXCEPT ![w] = n]
  /\ UNCHANGED vars

IngestUnsound(w, B) ==
  /\ pc[w] = "idle" /\ SelfConflicting(B)
  /\ reply' = "conflicting_record"
  /\ UNCHANGED <<nodes, edges, accepted, tx>>

IngestBegin(w, B) == pc[w] = "idle" /\ ~ SelfConflicting(B) /\ Enter(w, B, 1)

\* MATCH (n:DomainNode {id:$id}) RETURN n, and the comparison.
CheckNode(w, i) ==
  /\ pc[w] = "check_nodes" /\ i \in todo_nodes[w]
  /\ IF nodes[i] # Absent /\ NodeDiffers(nodes[i], NodeOf(batch[w], i))
     THEN Refuse(w, "conflicting_record")
     ELSE /\ todo_nodes' = [todo_nodes EXCEPT ![w] = @ \ {i}]
          /\ UNCHANGED <<vars, pc, batch, todo_edges, new_nodes, new_edges, attempt>>

\* MATCH ()-[r:RELATION {key:$key}]-() RETURN r, and the comparison.
CheckEdge(w, k) ==
  /\ pc[w] = "check_edges" /\ k \in todo_edges[w]
  /\ IF edges[k] # Absent /\ EdgeDiffers(edges[k], EdgeOf(batch[w], k))
     THEN Refuse(w, "conflicting_record")
     ELSE /\ todo_edges' = [todo_edges EXCEPT ![w] = @ \ {k}]
          /\ UNCHANGED <<vars, pc, batch, todo_nodes, new_nodes, new_edges, attempt>>

WriteNode(w, i) ==
  /\ pc[w] = "write_nodes" /\ i \in todo_nodes[w]
  /\ NodeFree(w, i)
  /\ new_nodes' = [new_nodes EXCEPT ![w][i] = MergedNode(nodes[i], NodeOf(batch[w], i))]
  /\ todo_nodes' = [todo_nodes EXCEPT ![w] = @ \ {i}]
  /\ UNCHANGED <<vars, pc, batch, todo_edges, new_edges, attempt>>

\* MATCH (a), (b) MERGE (a)-[r]->(b) SET ...: without both ends there is no
\* row, and the statement succeeds without writing anything.
WriteEdge(w, k) ==
  /\ pc[w] = "write_edges" /\ k \in todo_edges[w]
  /\ IF Visible(w, k.from) /\ Visible(w, k.to)
     THEN /\ EdgeFree(w, k)
          /\ new_edges' = [new_edges EXCEPT ![w][k] = StoredEdge(EdgeOf(batch[w], k))]
     ELSE UNCHANGED new_edges
  /\ todo_edges' = [todo_edges EXCEPT ![w] = @ \ {k}]
  /\ UNCHANGED <<vars, pc, batch, todo_nodes, new_nodes, attempt>>

CountTargets_Ignored(w) ==
  /\ pc[w] = "count"
  /\ pc' = [pc EXCEPT ![w] = "commit"]
  /\ UNCHANGED <<vars, batch, todo_nodes, todo_edges, new_nodes, new_edges, attempt>>

\* UNWIND $ids AS id OPTIONAL MATCH ... RETURN count(n)
CountTargets(w) ==
  /\ pc[w] = "count"
  /\ IF \A k \in KeysOf(batch[w]) : Visible(w, k.to)
     THEN /\ pc' = [pc EXCEPT ![w] = "commit"]
          /\ UNCHANGED <<vars, batch, todo_nodes, todo_edges, new_nodes, new_edges, attempt>>
     ELSE Refuse(w, "unknown_target")

\* The loop in phase p is over and the next begins.
Goto(w, p, q, ids, keys) ==
  /\ pc[w] = p
  /\ pc' = [pc EXCEPT ![w] = q]
  /\ todo_nodes' = [todo_nodes EXCEPT ![w] = ids]
  /\ todo_edges' = [todo_edges EXCEPT ![w] = keys]
  /\ UNCHANGED <<vars, batch, new_nodes, new_edges, attempt>>

\* The statements are a generator that the first attempt has used up.
NextPhase_UsedUp(w) ==
  \/ todo_nodes[w] = {} /\ Goto(w, "check_nodes", "check_edges", {}, todo_edges[w])
  \/ /\ todo_edges[w] = {}
     /\ Goto(w, "check_edges", IF attempt[w] = 1 THEN "write_nodes" ELSE "count",
             IdsOf(batch[w]), KeysOf(batch[w]))
  \/ todo_nodes[w] = {} /\ Goto(w, "write_nodes", "write_edges", {}, todo_edges[w])
  \/ todo_edges[w] = {} /\ Goto(w, "write_edges", "count", {}, {})

NextPhase(w) ==
  \/ todo_nodes[w] = {} /\ Goto(w, "check_nodes", "check_edges", {}, todo_edges[w])
  \/ /\ todo_edges[w] = {}
     /\ Goto(w, "check_edges", "write_nodes", IdsOf(batch[w]), KeysOf(batch[w]))
  \/ todo_nodes[w] = {} /\ Goto(w, "write_nodes", "write_edges", {}, todo_edges[w])
  \/ todo_edges[w] = {} /\ Goto(w, "write_edges", "count", {}, {})

Commit(w) ==
  /\ pc[w] = "commit"
  /\ nodes' = [i \in Id  |-> IF new_nodes[w][i] # Absent THEN new_nodes[w][i] ELSE nodes[i]]
  /\ edges' = [k \in Key |-> IF new_edges[w][k] # Absent THEN new_edges[w][k] ELSE edges[k]]
  /\ accepted' = accepted \cup {batch[w]}
  /\ reply' = "ok"
  /\ End(w)

Interrupt_Unlimited(w) ==
  pc[w] # "idle" /\ Enter(w, batch[w], attempt[w])

\* A transient error, a lost connection, or the choice of w as the victim of
\* a deadlock: the driver starts over or, after its last attempt, raises.
Interrupt(w) ==
  /\ pc[w] # "idle"
  /\ \/ attempt[w] < MaxAttempts /\ Enter(w, batch[w], attempt[w] + 1)
     \/ attempt[w] = MaxAttempts /\ Rollback(w) /\ UNCHANGED reply

\* The process dies before the commit; when it dies with the commit on its
\* way, the database has done Commit or has not.
Crash(w) == pc[w] # "idle" /\ Rollback(w) /\ UNCHANGED reply

Work(w) ==
  \/ \E i \in Id : CheckNode(w, i) \/ WriteNode(w, i)
  \/ \E k \in Key : CheckEdge(w, k) \/ WriteEdge(w, k)
  \/ NextPhase(w) \/ CountTargets(w) \/ Commit(w)

Neo4jNext ==
  \E w \in Worker :
    \/ \E B \in Batch : IngestUnsound(w, B) \/ IngestBegin(w, B)
    \/ Work(w)
    \/ Interrupt(w)
    \/ Crash(w)

Neo4jSpec == Neo4jInit /\ [][Neo4jNext]_neo4jVars

\* Every entry that w has still to write is locked by a transaction of S.
BlockedBy(w, S) ==
  \/ /\ pc[w] = "write_nodes" /\ todo_nodes[w] # {}
     /\ \A i \in todo_nodes[w] : \E v \in S \ {w} : new_nodes[v][i] # Absent
  \/ /\ pc[w] = "write_edges" /\ todo_edges[w] # {}
     /\ \A k \in todo_edges[w] :
          /\ Visible(w, k.from) /\ Visible(w, k.to)
          /\ \E v \in S \ {w} : new_edges[v][k] # Absent

Deadlocked(w) ==
  \E S \in SUBSET Worker : w \in S /\ \A v \in S : BlockedBy(v, S)

\* A process takes its next step when it can, a lock is given to those who
\* wait for it in turn (strong fairness), and the database breaks a deadlock.
\* Nothing makes a transient error or a crash happen.
FairNeo4jSpec ==
  /\ Neo4jSpec
  /\ \A w \in Worker : SF_neo4jVars(Work(w))
  /\ \A w \in Worker : WF_neo4jVars(Deadlocked(w) /\ Interrupt(w))

-----------------------------------------------------------------------------
Phases == {"idle", "check_nodes", "check_edges", "write_nodes", "write_edges",
           "count", "commit"}

Neo4jTypeOK ==
  /\ nodes \in [Id -> Mixed \cup {Absent}]
  /\ edges \in [Key -> Stored \cup {Absent}]
  /\ reply \in Replies
  /\ accepted \in SUBSET Batch
  /\ pc \in [Worker -> Phases]
  /\ batch \in [Worker -> Batch \cup {{}}]
  /\ attempt \in [Worker -> 0 .. MaxAttempts]
  /\ \A w \in Worker :
       /\ todo_nodes[w] \subseteq IdsOf(batch[w])
       /\ todo_edges[w] \subseteq KeysOf(batch[w])
       /\ \A i \in Id  : new_nodes[w][i] # Absent => i \in IdsOf(batch[w])
       /\ \A k \in Key : new_edges[w][k] # Absent => k \in KeysOf(batch[w])

(***************************************************************************)
(* Nothing in the database comes from a batch that was refused, given up   *)
(* or cut off by a crash: the content of every node and every relation is  *)
(* that of a batch whose transaction committed (README: all of ingest() is *)
(* one transaction).                                                       *)
(***************************************************************************)
OnlyCommittedContent ==
  /\ \A i \in Id : nodes[i] # Absent =>
       \E B \in accepted :
         i \in IdsOf(B) /\ nodes[i].title = NodeOf(B, i).title
                       /\ nodes[i].status = NodeOf(B, i).status
  /\ \A k \in Key : edges[k] # Absent =>
       \E B \in accepted : k \in KeysOf(B) /\ edges[k] = StoredEdge(EdgeOf(B, k))

(***************************************************************************)
(* A committed batch has all its records, and the targets of all its       *)
(* relations, in the database, although the target may have been in the    *)
(* database, in another open transaction or nowhere when it was checked.   *)
(***************************************************************************)
CommittedIdsPresent ==
  \A B \in accepted :
    /\ \A i \in IdsOf(B)  : nodes[i] # Absent
    /\ \A k \in KeysOf(B) : nodes[k.to] # Absent

(***************************************************************************)
(* As long as the committed batches agree with each other and bring their  *)
(* own targets, the database holds exactly what each of them said, however *)
(* their transactions overlapped and were restarted.                       *)
(***************************************************************************)
AgreeingBatchesHold ==
  (/\ \A B, C \in accepted : ~ SelfConflicting(B \cup C)
   /\ \A B \in accepted : \A k \in KeysOf(B) : k.to \in IdsOf(B))
  => \A B \in accepted :
       /\ \A i \in IdsOf(B)  : nodes[i] = NodeOf(B, i)
       /\ \A k \in KeysOf(B) : edges[k] = StoredEdge(EdgeOf(B, k))

(***************************************************************************)
(* A definition that a human approved is replaced, if at all, by another   *)
(* approved one: the CASE expressions hold even when the check before them *)
(* looked at an older state (docs/design/issue-7, constraints).            *)
(***************************************************************************)
ApprovedNeverDemoted ==
  [][ \A i \in Id :
        nodes[i] # Absent /\ Protected(nodes[i])
        => nodes'[i].status = "approved" /\ nodes'[i].method # "ai_inferred" ]_nodes

\* Every ingest() call returns or raises, whoever waits for whose locks.
CallsEnd == \A w \in Worker : pc[w] # "idle" ~> pc[w] = "idle"

(***************************************************************************)
(* With one process at a time and plain batches, Neo4jStore implements     *)
(* EvidenceGraph, as InMemoryGraph does, but for the provenance of nodes:  *)
(* a second document with a record is taken, and leaves what was accepted  *)
(* as it was, except for where it is said to come from.                    *)
(***************************************************************************)
OneWriter == \E w : Worker = {w}

\* The confidence of a relation is that of its provenance, no batch has one
\* record from two documents, and all records of an id have the same fields.
PlainBatches ==
  /\ \A B \in Batch : \A x \in Assertions(B) : x.edge.conf = x.edge.prov.conf
  /\ \A B \in Batch : \A r, s \in B :
       r.id = s.id /\ Compared(r.node) = Compared(s.node) => r.node = s.node
  /\ \A B, C \in Batch : \A r \in B, s \in C :
       r.id = s.id => (r.node.extra = Missing <=> s.node.extra = Missing)

AsSubmitted(r) ==
  [status |-> r.status, method |-> r.method, conf |-> r.conf,
   prov |-> [src |-> r.src, conf |-> r.conf]]

ComparedBatch(B) == { [r EXCEPT !.node = Compared(@)] : r \in B }

Store == INSTANCE EvidenceGraph WITH
  Node     <- { Compared(n) : n \in Node },
  Batch    <- { ComparedBatch(B) : B \in Batch },
  nodes    <- [i \in Id |-> IF nodes[i] = Absent THEN Absent ELSE Compared(nodes[i])],
  edges    <- [k \in Key |-> IF edges[k] = Absent THEN Absent ELSE AsSubmitted(edges[k])],
  accepted <- { ComparedBatch(B) : B \in accepted }

ImplementsEvidenceGraph == Store!Spec

-----------------------------------------------------------------------------
(***************************************************************************)
(* What the documents say of Neo4jStore, beyond the above.                 *)
(***************************************************************************)

\* Accepted input can be processed again (README.md, policy 4): a batch is
\* never found to contradict the database that holds nothing but it.
Reingestible ==
  \A B \in accepted :
    accepted = {B} => \A k \in KeysOf(B) :
                        edges[k] # Absent => ~ EdgeDiffers(edges[k], EdgeOf(B, k))

\* An AI inference never replaces what a human approved (issue-7).
ApprovedRelationKept ==
  [][ \A k \in Key :
        edges[k] # Absent /\ edges[k].status = "approved"
        => edges'[k].method # "ai_inferred" ]_edges

\* No relation is silently omitted (the comment in work()).
NoRelationOmitted ==
  \A B \in accepted : \A k \in KeysOf(B) : edges[k] # Absent
=============================================================================
