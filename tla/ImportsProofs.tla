---------------------------- MODULE ImportsProofs ----------------------------
(***************************************************************************)
(* Proofs about the imports, for any documents, exports and snapshots:     *)
(* nothing inferred by an AI is in the graph as more than proposed, an     *)
(* issue of a tracker is there as the manifest of its file says, what a    *)
(* sync says refers to the same sync, and files that agree are taken.      *)
(***************************************************************************)
EXTENDS Imports, EvidenceGraphProofs

AllAdmissible(B) ==
  \A r \in B : /\ Admissible(r.node.status, r.node.method)
               /\ \A x \in r.relations : Admissible(x.edge.status, x.edge.method)

(***************************************************************************)
(* The property of the graph has to hold of the records under way as well. *)
(***************************************************************************)
Inductive ==
  /\ InferredStaysProposed
  /\ published \subseteq Sync
  /\ loaded # Absent => AllAdmissible(loaded)

-----------------------------------------------------------------------------
(***************************************************************************)
(* A document that _validate() lets through makes only admissible facts.   *)
(***************************************************************************)
LEMMA DocumentsAdmissible ==
  ASSUME NEW d, Valid(d)
  PROVE  AllAdmissible({DocumentRecord(d)})
<1> DEFINE r == DocumentRecord(d)
<1>1. Admissible(r.node.status, r.node.method)
  BY DEF Valid, DocumentRecord, Fact
<1>2. ASSUME NEW x \in r.relations
      PROVE  Admissible(x.edge.status, x.edge.method)
  <2>1. PICK y \in Indexed(d.relations) :
          /\ x.edge.status = RelationStatus(d, y[2])
          /\ x.edge.method = RelationMethod(d, y[2])
    BY <1>2 DEF DocumentRecord, Fact
  <2>2. PICK n \in DOMAIN d.relations : y[2] = d.relations[n]
    BY DEF Indexed
  <2> QED BY <2>1, <2>2 DEF Valid
<1> QED BY <1>1, <1>2 DEF AllAdmissible

(***************************************************************************)
(* What is imported from a tracker or from GitHub is never an inference.   *)
(***************************************************************************)
LEMMA ExportsAdmissible ==
  ASSUME NEW m, NEW digest
  PROVE  AllAdmissible(ExportRecords(m, digest))
<1>1. ASSUME NEW n, NEW row PROVE AllAdmissible({IssueRecord(m, n, row)})
  BY DEF AllAdmissible, IssueRecord, Imported, Fact, Admissible
<1>2. AllAdmissible({ExportDocument(m)})
  BY DEF AllAdmissible, ExportDocument, Imported, Fact, Admissible
<1> QED BY <1>1, <1>2 DEF AllAdmissible, ExportRecords

LEMMA SyncsAdmissible ==
  ASSUME NEW s \in Sync
  PROVE  AllAdmissible(SnapshotRecords[s])
<1> DEFINE Plain(links) == \A x \in links : x.edge.method = "deterministic_import"
<1>1. ASSUME NEW id, NEW content, NEW anchor, NEW links, Plain(links)
      PROVE  AllAdmissible({SyncedRecord(s, id, content, anchor, links)})
  BY <1>1 DEF AllAdmissible, SyncedRecord, SyncedLink, Synced, Fact, Admissible
<1>2. \A n, item : /\ Plain({}) /\ Plain(PullLinks(s, n, item))
                   /\ Plain(CommitLinks(s, n, item)) /\ Plain(ReviewLinks(s, n, item))
  BY DEF PullLinks, CommitLinks, ReviewLinks, SyncedLink, Synced, Fact
<1>3. AllAdmissible({[id |-> SyncIn(s), node |-> Synced(s, Absent, <<"$">>), relations |-> {}]})
  BY DEF AllAdmissible, Synced, Fact, Admissible
<1> HIDE DEF Plain
<1> QED BY <1>1, <1>2, <1>3 DEF AllAdmissible, SnapshotRecords

(***************************************************************************)
(* So a loader returns admissible facts or raises.                         *)
(***************************************************************************)
LEMMA LoadersAdmissible ==
  ASSUME NEW l \in Loader, Sound(l), published \subseteq Sync
  PROVE  AllAdmissible(RecordsOf(l))
<1>1. CASE l = "inputs"
  BY <1>1, DocumentsAdmissible DEF AllAdmissible, Sound, InputsSound, RecordsOf, InputRecords
<1>2. CASE l = "exports"
  BY <1>2, ExportsAdmissible DEF AllAdmissible, RecordsOf
<1>3. CASE l = "syncs"
  BY <1>3, SyncsAdmissible DEF AllAdmissible, RecordsOf
<1> QED BY <1>1, <1>2, <1>3 DEF Loader

(***************************************************************************)
(* A batch of admissible facts leaves only admissible facts in the graph.  *)
(***************************************************************************)
LEMMA AcceptKeepsAdmissible ==
  ASSUME NEW STATE B, AllAdmissible(B), Accept(B), InferredStaysProposed
  PROVE  InferredStaysProposed'
<1>1. ASSUME NEW i \in Id, nodes'[i] # Absent
      PROVE  Admissible(nodes'[i].status, nodes'[i].method)
  <2>1. CASE i \in IdsOf(B)
    <3>1. nodes'[i] = NodeOf(B, i) BY <2>1 DEF Accept
    <3>2. (CHOOSE r \in B : r.id = i) \in B BY <2>1 DEF IdsOf
    <3> QED BY <3>1, <3>2 DEF NodeOf, AllAdmissible
  <2>2. CASE i \notin IdsOf(B)
    BY <1>1, <2>2 DEF Accept, InferredStaysProposed
  <2> QED BY <2>1, <2>2
<1>2. ASSUME NEW k \in Key, edges'[k] # Absent
      PROVE  Admissible(edges'[k].status, edges'[k].method)
  <2>1. CASE k \in KeysOf(B)
    <3>1. edges'[k] = EdgeOf(B, k) BY <2>1 DEF Accept
    <3>2. PICK a \in Assertions(B) : EdgeOf(B, k) = a.edge
      <4>1. \E a \in Assertions(B) : a.key = k BY <2>1 DEF KeysOf
      <4> HIDE DEF Assertions
      <4> QED BY <4>1 DEF EdgeOf
    <3>3. PICK r \in B : \E x \in r.relations : a.edge = x.edge
      BY DEF Assertions
    <3> QED BY <3>1, <3>2, <3>3 DEF AllAdmissible
  <2>2. CASE k \notin KeysOf(B)
    BY <1>2, <2>2 DEF Accept, InferredStaysProposed
  <2> QED BY <2>1, <2>2
<1> QED BY <1>1, <1>2 DEF InferredStaysProposed

-----------------------------------------------------------------------------
LEMMA ImportStart == ImportInit => Inductive
BY AbsentAssumption DEF ImportInit, Init, Inductive, InferredStaysProposed

LEMMA ImportStep == Inductive /\ [ImportNext]_importVars => Inductive'
<1> SUFFICES ASSUME Inductive, [ImportNext]_importVars PROVE Inductive'
  OBVIOUS
<1>1. ASSUME NEW d \in Document, WriteDocument(d) PROVE Inductive'
  BY <1>1 DEF Inductive, InferredStaysProposed, WriteDocument, vars
<1>2. ASSUME NEW m \in Export, WriteManifest(m) \/ WriteOriginal(m) PROVE Inductive'
  BY <1>2 DEF Inductive, InferredStaysProposed, WriteManifest, WriteOriginal, vars
<1>3. ASSUME NEW s \in Sync, PublishSync(s) PROVE Inductive'
  BY <1>3 DEF Inductive, InferredStaysProposed, PublishSync, vars
<1>4. ASSUME NEW l \in Loader, Load(l) PROVE Inductive'
  <2>1. AllAdmissible(RecordsOf(l))
    BY <1>4, LoadersAdmissible DEF Load, Inductive
  <2> QED BY <1>4, <2>1 DEF Load, Inductive, InferredStaysProposed, vars, files
<1>5. ASSUME NEW l \in Loader, Refuse(l) PROVE Inductive'
  BY <1>5 DEF Refuse, Inductive, InferredStaysProposed, files
<1>6. CASE Ingest
  <2>1. published' = published /\ loaded' = Absent
    BY <1>6 DEF Ingest, files
  <2>2. CASE Accept(loaded)
    BY <1>6, <2>1, <2>2, AcceptKeepsAdmissible DEF Ingest, Inductive
  <2>3. CASE Reject(loaded)
    BY <2>1, <2>3 DEF Reject, Inductive, InferredStaysProposed
  <2> QED BY <1>6, <2>2, <2>3 DEF Ingest
<1>7. CASE Crash \/ UNCHANGED importVars
  BY <1>7 DEF Crash, Inductive, InferredStaysProposed, importVars, vars, files
<1> QED BY <1>1, <1>2, <1>3, <1>4, <1>5, <1>6, <1>7 DEF ImportNext

(***************************************************************************)
(* No record and no relation that an AI inferred is ever in the graph with *)
(* another status than proposed, whatever the files say and in whichever   *)
(* order they are written and imported (_validate(), normalize_inputs()).  *)
(***************************************************************************)
THEOREM NoInferenceApproved == ImportSpec => []InferredStaysProposed
<1>1. Inductive => InferredStaysProposed BY DEF Inductive
<1> QED BY ImportStart, ImportStep, <1>1, PTL DEF ImportSpec

-----------------------------------------------------------------------------
(***************************************************************************)
(* What the records of one loader are known to be when they are loaded:    *)
(* an issue carries the approval of the manifest that names its file, and  *)
(* the records of a sync refer to each other only.                         *)
(***************************************************************************)
Vouched(B) ==
  \A r \in B : r.node.source.type = "issue-trackers" =>
    \E m \in Export :
      /\ r.node.source = ExportSource(m) /\ r.node.status = m.status
      /\ \/ r.id = m.export
         \/ \E n \in DOMAIN Rows[m.digest] :
              Rows[m.digest][n].issue = r.id /\ Rows[m.digest][n].content = r.node.content

SelfContained(B) ==
  /\ \A r \in B :
       r.node.source.type = "github" /\ r.id # r.node.source.doc =>
         [from |-> r.id, type |-> "DERIVED_FROM", to |-> r.node.source.doc] \in KeysOf(B)
  /\ \A x \in Assertions(B) : x.edge.source.type = "github" =>
       \E r, t \in B : /\ r.id = x.key.from /\ r.node.source = x.edge.source
                       /\ t.id = x.key.to   /\ t.node.source = x.edge.source

\* The relation that SyncsSelfContained looks for has a key of the graph.
SyncsKeyed ==
  \A i \in Id :
    nodes[i] # Absent /\ nodes[i].source.type = "github" /\ i # nodes[i].source.doc =>
      [from |-> i, type |-> "DERIVED_FROM", to |-> nodes[i].source.doc] \in Key

ImportIInv ==
  /\ ImportTypeOK /\ EndpointsRegistered
  /\ ManifestVouches /\ SyncsSelfContained /\ SyncsKeyed
  /\ loaded # Absent => Vouched(loaded) /\ SelfContained(loaded)

(***************************************************************************)
(* What the operators on batches return.                                   *)
(***************************************************************************)
LEMMA NodeOfRecord ==
  ASSUME NEW B, ~ SelfConflicting(B), NEW r \in B
  PROVE  r.id \in IdsOf(B) /\ NodeOf(B, r.id) = r.node
BY DEF IdsOf, NodeOf, SelfConflicting

LEMMA EdgeOfKey ==
  ASSUME NEW B, NEW k \in KeysOf(B)
  PROVE  \E x \in Assertions(B) : x.key = k /\ x.edge = EdgeOf(B, k)
<1>1. \E x \in Assertions(B) : x.key = k
  BY DEF KeysOf
<1> HIDE DEF Assertions
<1> QED
  BY <1>1 DEF EdgeOf

LEMMA KeyOfRelation ==
  ASSUME NEW B, NEW r \in B, NEW x \in r.relations
  PROVE  [from |-> r.id, type |-> x.type, to |-> x.to] \in KeysOf(B)
<1> DEFINE a == [key |-> [from |-> r.id, type |-> x.type, to |-> x.to], edge |-> x.edge]
           Of(s) == { [key |-> [from |-> s.id, type |-> y.type, to |-> y.to], edge |-> y.edge]
                      : y \in s.relations }
<1>1. a \in Of(r)
  OBVIOUS
<1>2. Assertions(B) = UNION { Of(s) : s \in B }
  BY DEF Assertions
<1>3. a \in Assertions(B)
  <2> HIDE DEF a, Of
  <2> QED
    BY <1>1, <1>2
<1>4. a.key = [from |-> r.id, type |-> x.type, to |-> x.to]
  OBVIOUS
<1> HIDE DEF a
<1> QED
  BY <1>3, <1>4 DEF KeysOf

-----------------------------------------------------------------------------
(***************************************************************************)
(* What each loader returns.                                               *)
(***************************************************************************)
LEMMA LoadersReturnBatches ==
  ASSUME ImportTypeOK, NEW l \in Loader, Sound(l)
  PROVE  RecordsOf(l) \in Batch
<1>1. CASE l = "inputs"
  BY <1>1, LoaderAssumption DEF ImportTypeOK, Sound, RecordsOf
<1>2. CASE l = "exports"
  <2>1. /\ Exported \in SUBSET ExportId
        /\ \A x \in Exported : ExportSound(manifests[x], originals[x])
    BY <1>2 DEF Sound, Exported
  <2> QED
    BY <1>2, <2>1, LoaderAssumption DEF ImportTypeOK, RecordsOf
<1>3. CASE l = "syncs"
  BY <1>3, LoaderAssumption DEF ImportTypeOK, Sound, RecordsOf
<1> QED
  BY <1>1, <1>2, <1>3 DEF Loader

\* Documents are neither issues of a tracker nor of a sync.
LEMMA DocumentsOwn ==
  ASSUME NEW D \in SUBSET Document
  PROVE  Vouched(InputRecords(D)) /\ SelfContained(InputRecords(D))
<1>1. \A d \in D : d.dir # "issue-trackers" /\ d.dir # "github"
  BY DirectoryAssumption
<1>2. \A r \in InputRecords(D) :
        /\ r.node.source.type \notin {"issue-trackers", "github"}
        /\ \A x \in r.relations : x.edge.source.type # "github"
  BY <1>1 DEF InputRecords, DocumentRecord, DocumentSource, Fact
<1>3. \A x \in Assertions(InputRecords(D)) : x.edge.source.type # "github"
  BY <1>2 DEF Assertions
<1> QED
  BY <1>2, <1>3 DEF Vouched, SelfContained

\* An export is read with the manifest that names the digest of its file.
LEMMA ExportsVouched ==
  ASSUME NEW m \in Export, NEW digest, ExportSound(m, digest)
  PROVE  Vouched(ExportRecords(m, digest)) /\ SelfContained(ExportRecords(m, digest))
<1>1. digest = m.digest
  BY DEF ExportSound
<1>2. ASSUME NEW r \in ExportRecords(m, digest)
      PROVE  /\ r.node.source = ExportSource(m) /\ r.node.status = m.status
             /\ \/ r.id = m.export
                \/ \E n \in DOMAIN Rows[m.digest] :
                     Rows[m.digest][n].issue = r.id /\ Rows[m.digest][n].content = r.node.content
             /\ \A x \in r.relations : x.edge.source = ExportSource(m)
  <2>1. CASE r = ExportDocument(m)
    BY <2>1 DEF ExportDocument, Imported, Fact
  <2>2. CASE r # ExportDocument(m)
    <3>1. PICK y \in Indexed(Rows[digest]) : r = IssueRecord(m, y[1], y[2])
      BY <2>2 DEF ExportRecords
    <3>2. PICK n \in DOMAIN Rows[digest] : y = <<n, Rows[digest][n]>>
      BY DEF Indexed
    <3>3. r = IssueRecord(m, n, Rows[digest][n])
      BY <3>1, <3>2
    <3> QED
      BY <1>1, <3>3 DEF IssueRecord, Imported, Fact
  <2> QED
    BY <2>1, <2>2
<1>3. ExportSource(m).type = "issue-trackers"
  BY DEF ExportSource
<1>4. \A x \in Assertions(ExportRecords(m, digest)) : x.edge.source = ExportSource(m)
  BY <1>2 DEF Assertions
<1>5. Vouched(ExportRecords(m, digest))
  BY <1>2 DEF Vouched
<1>6. SelfContained(ExportRecords(m, digest))
  BY <1>2, <1>3, <1>4 DEF SelfContained
<1> QED
  BY <1>5, <1>6

\* The references of a snapshot that load_github_snapshots() lets through
\* lead to records of the snapshot.
LEMMA SyncOwn ==
  ASSUME NEW s \in Sync, SnapshotSound(Snapshot[s])
  PROVE  SelfContained(SnapshotRecords[s])
<1> DEFINE S == Snapshot[s]
           B == SnapshotRecords[s]
           Has(i) == \E r \in B : r.id = i
           Whole(r) ==
             /\ r.node.source = SyncSource(s)
             /\ r.id # SyncIn(s) =>
                  \E x \in r.relations : x.type = "DERIVED_FROM" /\ x.to = SyncIn(s)
             /\ \A x \in r.relations : x.edge.source = SyncSource(s) /\ Has(x.to)
<1>1. /\ \A x \in Indexed(S.issues) :
           SyncedRecord(s, IssueIn(x[2].number), x[2].content, <<"issues", x[1]>>, {}) \in B
      /\ \A x \in Indexed(S.pullRequests) :
           SyncedRecord(s, PullIn(x[2].number), x[2].content, <<"pullRequests", x[1]>>,
                        PullLinks(s, x[1], x[2])) \in B
      /\ \A x \in Indexed(S.commits) :
           SyncedRecord(s, CommitIn(x[2].sha), x[2].sha, <<"commits", x[1]>>,
                        CommitLinks(s, x[1], x[2])) \in B
      /\ [id |-> SyncIn(s), node |-> Synced(s, Absent, <<"$">>), relations |-> {}] \in B
  BY DEF SnapshotRecords
<1>2. Has(SyncIn(s))
  BY <1>1
<1>3. \A n \in Numbers(S.issues) : Has(IssueIn(n))
  <2> SUFFICES ASSUME NEW j \in DOMAIN S.issues PROVE Has(IssueIn(S.issues[j].number))
    BY DEF Numbers
  <2>1. <<j, S.issues[j]>> \in Indexed(S.issues)
    BY DEF Indexed
  <2> QED
    BY <1>1, <2>1 DEF SyncedRecord
<1>4. \A n \in Numbers(S.pullRequests) : Has(PullIn(n))
  <2> SUFFICES ASSUME NEW j \in DOMAIN S.pullRequests PROVE Has(PullIn(S.pullRequests[j].number))
    BY DEF Numbers
  <2>1. <<j, S.pullRequests[j]>> \in Indexed(S.pullRequests)
    BY DEF Indexed
  <2> QED
    BY <1>1, <2>1 DEF SyncedRecord
<1>5. \A h \in Shas(S) : Has(CommitIn(h))
  <2> SUFFICES ASSUME NEW j \in DOMAIN S.commits PROVE Has(CommitIn(S.commits[j].sha))
    BY DEF Shas
  <2>1. <<j, S.commits[j]>> \in Indexed(S.commits)
    BY DEF Indexed
  <2> QED
    BY <1>1, <2>1 DEF SyncedRecord
<1>6. ASSUME NEW id, NEW content, NEW anchor, NEW links,
             \A x \in links : x.edge.source = SyncSource(s) /\ Has(x.to)
      PROVE  Whole(SyncedRecord(s, id, content, anchor, links))
  <2> DEFINE r == SyncedRecord(s, id, content, anchor, links)
             d == SyncedLink(s, "DERIVED_FROM", SyncIn(s), Append(anchor, "source"))
  <2>1. r.node.source = SyncSource(s) /\ r.relations = links \cup {d}
    BY DEF SyncedRecord, Synced, Fact
  <2>2. d.type = "DERIVED_FROM" /\ d.to = SyncIn(s) /\ d.edge.source = SyncSource(s)
    BY DEF SyncedLink, Synced, Fact
  <2> HIDE DEF Has, r, d
  <2>3. Whole(r)
    BY <1>2, <1>6, <2>1, <2>2
  <2> QED
    BY <2>3 DEF r
<1> HIDE DEF Has
<1>7. ASSUME NEW y \in Indexed(S.pullRequests), NEW x \in PullLinks(s, y[1], y[2])
      PROVE  x.edge.source = SyncSource(s) /\ Has(x.to)
  <2>1. PICK z \in Indexed(y[2].linked) :
          x = SyncedLink(s, "RELATES_TO", IssueIn(z[2]), <<"pullRequests", y[1], "linked", z[1]>>)
    BY <1>7 DEF PullLinks
  <2>2. z[2] \in Numbers(S.issues)
    BY DEF SnapshotSound
  <2> QED
    BY <1>3, <2>1, <2>2 DEF SyncedLink, Synced, Fact
<1>8. ASSUME NEW y \in Indexed(S.commits), NEW x \in CommitLinks(s, y[1], y[2])
      PROVE  x.edge.source = SyncSource(s) /\ Has(x.to)
  <2>1. CASE \E p \in y[2].pullRequests :
               x = SyncedLink(s, "RELATES_TO", PullIn(p), <<"commits", y[1], "pullRequests">>)
    BY <1>4, <2>1 DEF SnapshotSound, SyncedLink, Synced, Fact
  <2>2. CASE \E h \in y[2].parents \cap Shas(S) :
               x = SyncedLink(s, "DERIVED_FROM", CommitIn(h), <<"commits", y[1], "parents">>)
    BY <1>5, <2>2 DEF SyncedLink, Synced, Fact
  <2> QED
    BY <1>8, <2>1, <2>2 DEF CommitLinks
<1>9. ASSUME NEW y \in Indexed(S.reviews), NEW x \in ReviewLinks(s, y[1], y[2])
      PROVE  x.edge.source = SyncSource(s) /\ Has(x.to)
  BY <1>4, <1>9 DEF ReviewLinks, SnapshotSound, SyncedLink, Synced, Fact
<1>10. Whole([id |-> SyncIn(s), node |-> Synced(s, Absent, <<"$">>), relations |-> {}])
  BY DEF Synced, Fact
<1>11. ASSUME NEW r \in B PROVE Whole(r)
  <2> HIDE DEF Whole
  <2>1. CASE \E y \in Indexed(S.issues) :
               r = SyncedRecord(s, IssueIn(y[2].number), y[2].content, <<"issues", y[1]>>, {})
    BY <1>6, <2>1
  <2>2. CASE \E y \in Indexed(S.pullRequests) :
               r = SyncedRecord(s, PullIn(y[2].number), y[2].content, <<"pullRequests", y[1]>>,
                                PullLinks(s, y[1], y[2]))
    BY <1>6, <1>7, <2>2
  <2>3. CASE \E y \in Indexed(S.commits) :
               r = SyncedRecord(s, CommitIn(y[2].sha), y[2].sha, <<"commits", y[1]>>,
                                CommitLinks(s, y[1], y[2]))
    BY <1>6, <1>8, <2>3
  <2>4. CASE \E y \in Indexed(S.reviews) :
               r = SyncedRecord(s, ReviewIn(y[2].number), y[2].content, <<"reviews", y[1]>>,
                                ReviewLinks(s, y[1], y[2]))
    BY <1>6, <1>9, <2>4
  <2>5. CASE r = [id |-> SyncIn(s), node |-> Synced(s, Absent, <<"$">>), relations |-> {}]
    BY <1>10, <2>5
  <2> QED
    BY <1>11, <2>1, <2>2, <2>3, <2>4, <2>5 DEF SnapshotRecords
<1>12. ASSUME NEW r \in B, r.id # SyncIn(s)
       PROVE  [from |-> r.id, type |-> "DERIVED_FROM", to |-> SyncIn(s)] \in KeysOf(B)
  <2>1. PICK x \in r.relations : x.type = "DERIVED_FROM" /\ x.to = SyncIn(s)
    BY <1>11, <1>12
  <2> HIDE DEF B
  <2> QED
    BY <2>1, KeyOfRelation
<1>13. SyncSource(s).doc = SyncIn(s)
  BY DEF SyncSource
<1>14. ASSUME NEW x \in Assertions(B)
       PROVE  \E r, t \in B : /\ r.id = x.key.from /\ r.node.source = x.edge.source
                              /\ t.id = x.key.to   /\ t.node.source = x.edge.source
  <2>1. PICK r \in B : \E y \in r.relations :
          x = [key |-> [from |-> r.id, type |-> y.type, to |-> y.to], edge |-> y.edge]
    BY DEF Assertions
  <2>2. x.key.from = r.id /\ x.edge.source = SyncSource(s) /\ Has(x.key.to)
    BY <1>11, <2>1
  <2>3. PICK t \in B : t.id = x.key.to
    BY <2>2 DEF Has
  <2> QED
    BY <1>11, <2>2, <2>3
<1>15. \A r \in B : r.node.source = SyncSource(s)
  BY <1>11
<1>16. \A r \in B : r.id # r.node.source.doc =>
         [from |-> r.id, type |-> "DERIVED_FROM", to |-> r.node.source.doc] \in KeysOf(B)
  <2> HIDE DEF B
  <2> QED
    BY <1>12, <1>13, <1>15
<1> HIDE DEF B
<1> QED
  BY <1>14, <1>16 DEF SelfContained, B

\* A sync says nothing of an issue tracker.
LEMMA SyncNotTracked ==
  ASSUME NEW s \in Sync
  PROVE  Vouched(SnapshotRecords[s])
<1> DEFINE Github(r) == r.node.source.type = "github"
<1>1. \A id, content, anchor, links : Github(SyncedRecord(s, id, content, anchor, links))
  BY DEF SyncedRecord, Synced, SyncSource, Fact
<1>2. Github([id |-> SyncIn(s), node |-> Synced(s, Absent, <<"$">>), relations |-> {}])
  BY DEF Synced, SyncSource, Fact
<1>3. ASSUME NEW r \in SnapshotRecords[s] PROVE Github(r)
  <2> HIDE DEF Github
  <2> QED
    BY <1>1, <1>2 DEF SnapshotRecords
<1> QED
  BY <1>3 DEF Vouched

\* What is so of the records of every file is so of all of them together.
LEMMA UnionOwn ==
  ASSUME NEW F, \A B \in F : Vouched(B) /\ SelfContained(B)
  PROVE  Vouched(UNION F) /\ SelfContained(UNION F)
<1>1. Vouched(UNION F)
  BY DEF Vouched
<1>2. \A x : x \in Assertions(UNION F) <=> \E B \in F : x \in Assertions(B)
  BY DEF Assertions
<1>3. \A B \in F : KeysOf(B) \subseteq KeysOf(UNION F)
  <2> HIDE DEF Assertions
  <2> QED
    BY <1>2 DEF KeysOf
<1>4. SelfContained(UNION F)
  <2>1. ASSUME NEW r \in UNION F, r.node.source.type = "github", r.id # r.node.source.doc
        PROVE  [from |-> r.id, type |-> "DERIVED_FROM", to |-> r.node.source.doc]
                 \in KeysOf(UNION F)
    BY <1>3, <2>1 DEF SelfContained
  <2>2. ASSUME NEW x \in Assertions(UNION F), x.edge.source.type = "github"
        PROVE  \E r, t \in UNION F :
                 /\ r.id = x.key.from /\ r.node.source = x.edge.source
                 /\ t.id = x.key.to   /\ t.node.source = x.edge.source
    <3>1. PICK B \in F : x \in Assertions(B)
      BY <1>2
    <3>2. PICK r \in B, t \in B : /\ r.id = x.key.from /\ r.node.source = x.edge.source
                                  /\ t.id = x.key.to   /\ t.node.source = x.edge.source
      BY <2>2, <3>1 DEF SelfContained
    <3> QED
      BY <3>2
  <2> QED
    BY <2>1, <2>2 DEF SelfContained
<1> QED
  BY <1>1, <1>4

LEMMA LoadersOwn ==
  ASSUME ImportTypeOK, NEW l \in Loader, Sound(l)
  PROVE  Vouched(RecordsOf(l)) /\ SelfContained(RecordsOf(l))
<1>1. CASE l = "inputs"
  <2>1. documents \in SUBSET Document
    BY DEF ImportTypeOK
  <2> QED
    BY <1>1, <2>1, DocumentsOwn DEF RecordsOf
<1>2. CASE l = "exports"
  <2>1. \A x \in Exported : manifests[x] \in Export /\ ExportSound(manifests[x], originals[x])
    BY <1>2 DEF Sound, Exported, ExportSound, ImportTypeOK
  <2>2. \A x \in Exported : /\ Vouched(ExportRecords(manifests[x], originals[x]))
                            /\ SelfContained(ExportRecords(manifests[x], originals[x]))
    BY <2>1, ExportsVouched
  <2> QED
    BY <1>2, <2>2, UnionOwn DEF RecordsOf
<1>3. CASE l = "syncs"
  <2>1. \A s \in published : s \in Sync /\ SnapshotSound(Snapshot[s])
    BY <1>3 DEF Sound, ImportTypeOK
  <2>2. \A s \in published : SelfContained(SnapshotRecords[s])
    BY <2>1, SyncOwn
  <2>3. \A s \in published : Vouched(SnapshotRecords[s])
    BY <2>1, SyncNotTracked
  <2> QED
    BY <1>3, <2>2, <2>3, UnionOwn DEF RecordsOf
<1> QED
  BY <1>1, <1>2, <1>3 DEF Loader

-----------------------------------------------------------------------------
(***************************************************************************)
(* What a batch brings into the graph is what its records say.             *)
(***************************************************************************)
LEMMA AcceptKeepsVouched ==
  ASSUME NEW B \in Batch, Accept(B), Vouched(B), ManifestVouches
  PROVE  ManifestVouches'
<1> SUFFICES ASSUME NEW i \in Id, nodes'[i] # Absent, nodes'[i].source.type = "issue-trackers"
             PROVE  \E m \in Export :
                      /\ nodes'[i].source = ExportSource(m) /\ nodes'[i].status = m.status
                      /\ \/ i = m.export
                         \/ \E n \in DOMAIN Rows[m.digest] :
                              /\ Rows[m.digest][n].issue = i
                              /\ Rows[m.digest][n].content = nodes'[i].content
  BY DEF ManifestVouches
<1>1. CASE i \in IdsOf(B)
  <2>1. PICK r \in B : r.id = i
    BY <1>1 DEF IdsOf
  <2>2. nodes'[i] = r.node
    BY <1>1, <2>1, NodeOfRecord DEF Accept
  <2> QED
    BY <2>1, <2>2 DEF Vouched
<1>2. CASE i \notin IdsOf(B)
  BY <1>2 DEF Accept, ManifestVouches
<1> QED
  BY <1>1, <1>2

LEMMA AcceptKeepsSyncs ==
  ASSUME NEW B \in Batch, Accept(B), SelfContained(B), EndpointsRegistered,
         SyncsSelfContained, SyncsKeyed
  PROVE  SyncsSelfContained' /\ SyncsKeyed'
<1>1. /\ \A i \in Id  : nodes[i] # Absent => nodes'[i] = nodes[i]
      /\ \A k \in Key : edges[k] # Absent => edges'[k] = edges[k]
  <2>1. Next
    BY DEF Next
  <2> QED
    BY <2>1, StepKeeps
<1>2. \A r \in B : r.id \in Id /\ nodes'[r.id] = r.node
  BY NodeOfRecord, NodeOfIsNode DEF Accept
<1>3. \A k \in KeysOf(B) : k \in Key /\ edges'[k] = EdgeOf(B, k) /\ edges'[k] # Absent
  BY EdgeOfIsEdge DEF Accept
<1>4. ASSUME NEW i \in Id, nodes'[i] # Absent, nodes'[i].source.type = "github",
             i # nodes'[i].source.doc
      PROVE  /\ [from |-> i, type |-> "DERIVED_FROM", to |-> nodes'[i].source.doc] \in Key
             /\ edges'[[from |-> i, type |-> "DERIVED_FROM", to |-> nodes'[i].source.doc]] # Absent
  <2>1. CASE i \in IdsOf(B)
    <3>1. PICK r \in B : r.id = i
      BY <2>1 DEF IdsOf
    <3> QED
      BY <1>2, <1>3, <1>4, <3>1 DEF SelfContained
  <2>2. CASE i \notin IdsOf(B)
    <3>1. nodes'[i] = nodes[i]
      BY <2>2 DEF Accept
    <3>2. edges[[from |-> i, type |-> "DERIVED_FROM", to |-> nodes[i].source.doc]] # Absent
      BY <1>4, <3>1 DEF SyncsSelfContained
    <3>3. [from |-> i, type |-> "DERIVED_FROM", to |-> nodes[i].source.doc] \in Key
      BY <1>4, <3>1 DEF SyncsKeyed
    <3> QED
      BY <1>1, <3>1, <3>2, <3>3
  <2> QED
    BY <2>1, <2>2
<1>5. ASSUME NEW k \in Key, edges'[k] # Absent, edges'[k].source.type = "github"
      PROVE  edges'[k].source = nodes'[k.from].source /\ edges'[k].source = nodes'[k.to].source
  <2>1. CASE k \in KeysOf(B)
    <3>1. PICK x \in Assertions(B) : x.key = k /\ x.edge = EdgeOf(B, k)
      BY <2>1, EdgeOfKey
    <3>2. x.edge = edges'[k]
      BY <1>3, <2>1, <3>1
    <3>3. PICK r \in B, t \in B : /\ r.id = k.from /\ r.node.source = x.edge.source
                                  /\ t.id = k.to   /\ t.node.source = x.edge.source
      BY <1>5, <3>1, <3>2 DEF SelfContained
    <3> QED
      BY <1>2, <3>2, <3>3
  <2>2. CASE k \notin KeysOf(B)
    <3>1. edges'[k] = edges[k]
      BY <2>2 DEF Accept
    <3>2. k.from \in Id /\ k.to \in Id /\ nodes[k.from] # Absent /\ nodes[k.to] # Absent
      BY <1>5, <3>1 DEF EndpointsRegistered, Key
    <3> QED
      BY <1>1, <1>5, <3>1, <3>2 DEF SyncsSelfContained
  <2> QED
    BY <2>1, <2>2
<1> QED
  BY <1>4, <1>5 DEF SyncsSelfContained, SyncsKeyed

-----------------------------------------------------------------------------
LEMMA ImportIInvStart == ImportInit => ImportIInv
BY DEF ImportInit, Init, ImportIInv, ImportTypeOK, EndpointsRegistered, ManifestVouches,
       SyncsSelfContained, SyncsKeyed, Replies

\* An import that ends is a step of the evidence graph.
LEMMA IngestStep ==
  ASSUME ImportIInv, Ingest
  PROVE  ImportIInv'
<1> PICK B : B = loaded
  OBVIOUS
<1>1. B \in Batch /\ Vouched(B) /\ SelfContained(B)
  BY DEF Ingest, ImportIInv, ImportTypeOK
<1>2. loaded' = Absent /\ UNCHANGED files
  BY DEF Ingest
<1>3. CASE Accept(B)
  <2>1. Next
    BY <1>1, <1>3 DEF Next
  <2>2. EndpointsRegistered'
    BY <2>1, EndpointsStep DEF ImportIInv
  <2>3. ImportTypeOK'
    <3>1. nodes' \in [Id -> Node \cup {Absent}] /\ edges' \in [Key -> Edge \cup {Absent}]
      BY <1>1, <1>3, AcceptTyped DEF ImportIInv, ImportTypeOK
    <3>2. reply' \in Replies /\ accepted' \subseteq Batch
      BY <1>1, <1>3 DEF Accept, ImportIInv, ImportTypeOK, Replies
    <3> QED
      BY <1>2, <3>1, <3>2 DEF ImportIInv, ImportTypeOK, files
  <2> QED
    BY <1>1, <1>2, <1>3, <2>2, <2>3, AcceptKeepsVouched, AcceptKeepsSyncs DEF ImportIInv
<1>4. CASE Reject(B)
  BY <1>2, <1>4 DEF Reject, ImportIInv, ImportTypeOK, EndpointsRegistered, ManifestVouches,
                    SyncsSelfContained, SyncsKeyed, Replies, files
<1> QED
  BY <1>3, <1>4 DEF Ingest

\* A step that leaves the graph alone.
LEMMA GraphUnchanged ==
  ASSUME ImportIInv, UNCHANGED <<nodes, edges>>, ImportTypeOK',
         \/ loaded' \in {Absent, loaded}
         \/ Vouched(loaded') /\ SelfContained(loaded')
  PROVE  ImportIInv'
BY DEF ImportIInv, EndpointsRegistered, ManifestVouches, SyncsSelfContained, SyncsKeyed

LEMMA ImportIInvStep ==
  ASSUME ImportIInv, [ImportNext]_importVars
  PROVE  ImportIInv'
<1>0. ImportTypeOK
  BY DEF ImportIInv
<1>1. ASSUME NEW d \in Document, WriteDocument(d) PROVE ImportIInv'
  <2>1. ImportTypeOK'
    BY <1>0, <1>1 DEF WriteDocument, ImportTypeOK, vars
  <2>2. UNCHANGED <<nodes, edges>> /\ loaded' \in {Absent, loaded}
    BY <1>1 DEF WriteDocument, vars
  <2> QED
    BY <2>1, <2>2, GraphUnchanged
<1>2. ASSUME NEW m \in Export, WriteManifest(m) PROVE ImportIInv'
  <2>1. ImportTypeOK'
    BY <1>0, <1>2 DEF WriteManifest, ImportTypeOK, vars
  <2>2. UNCHANGED <<nodes, edges>> /\ loaded' \in {Absent, loaded}
    BY <1>2 DEF WriteManifest, vars
  <2> QED
    BY <2>1, <2>2, GraphUnchanged
<1>3. ASSUME NEW m \in Export, WriteOriginal(m) PROVE ImportIInv'
  <2>1. ImportTypeOK'
    BY <1>0, <1>3, RowsAssumption DEF WriteOriginal, ImportTypeOK, vars
  <2>2. UNCHANGED <<nodes, edges>> /\ loaded' \in {Absent, loaded}
    BY <1>3 DEF WriteOriginal, vars
  <2> QED
    BY <2>1, <2>2, GraphUnchanged
<1>4. ASSUME NEW s \in Sync, PublishSync(s) PROVE ImportIInv'
  <2>1. ImportTypeOK'
    BY <1>0, <1>4 DEF PublishSync, ImportTypeOK, vars
  <2>2. UNCHANGED <<nodes, edges>> /\ loaded' \in {Absent, loaded}
    BY <1>4 DEF PublishSync, vars
  <2> QED
    BY <2>1, <2>2, GraphUnchanged
<1>5. ASSUME NEW l \in Loader, Load(l) PROVE ImportIInv'
  <2>1. /\ RecordsOf(l) \in Batch
        /\ Vouched(RecordsOf(l)) /\ SelfContained(RecordsOf(l))
    BY <1>0, <1>5, LoadersReturnBatches, LoadersOwn DEF Load
  <2>2. loaded' = RecordsOf(l) /\ UNCHANGED <<vars, files>>
    BY <1>5 DEF Load
  <2>3. ImportTypeOK'
    BY <1>0, <2>1, <2>2 DEF ImportTypeOK, vars, files
  <2> QED
    BY <2>1, <2>2, <2>3, GraphUnchanged DEF vars
<1>6. ASSUME NEW l \in Loader, Refuse(l) PROVE ImportIInv'
  <2>1. ImportTypeOK'
    BY <1>0, <1>6 DEF Refuse, ImportTypeOK, files
  <2>2. UNCHANGED <<nodes, edges>> /\ loaded' \in {Absent, loaded}
    BY <1>6 DEF Refuse
  <2> QED
    BY <2>1, <2>2, GraphUnchanged
<1>7. CASE Crash \/ UNCHANGED importVars
  <2>1. ImportTypeOK'
    BY <1>0, <1>7 DEF Crash, ImportTypeOK, importVars, vars, files
  <2>2. UNCHANGED <<nodes, edges>> /\ loaded' \in {Absent, loaded}
    BY <1>7 DEF Crash, importVars, vars
  <2> QED
    BY <2>1, <2>2, GraphUnchanged
<1> QED
  BY <1>1, <1>2, <1>3, <1>4, <1>5, <1>6, <1>7, IngestStep DEF ImportNext

\* The inductive invariant holds of the imports at any time.
THEOREM ImportInvariant == ImportSpec => []ImportIInv
BY ImportIInvStart, ImportIInvStep, PTL DEF ImportSpec

\* The graph, the files and the records under way have their types.
THEOREM ImportTypeCorrect == ImportSpec => []ImportTypeOK
<1>1. ImportIInv => ImportTypeOK
  BY DEF ImportIInv
<1> QED
  BY <1>1, ImportInvariant, PTL

(***************************************************************************)
(* An issue of a tracker is in the graph as a manifest says that names the *)
(* digest of the file the issue was read from, for any manifests and files *)
(* and whichever of the two is replaced first (load_issue_trackers()).     *)
(***************************************************************************)
THEOREM ManifestsVouch == ImportSpec => []ManifestVouches
<1>1. ImportIInv => ManifestVouches
  BY DEF ImportIInv
<1> QED
  BY <1>1, ImportInvariant, PTL

(***************************************************************************)
(* Every record of a sync is derived from that sync, and its relations     *)
(* lead to records of the same sync, for any snapshots, published in any   *)
(* order of imports (load_github_snapshots()).                             *)
(***************************************************************************)
THEOREM SyncsAreSelfContained == ImportSpec => []SyncsSelfContained
<1>1. ImportIInv => SyncsSelfContained
  BY DEF ImportIInv
<1> QED
  BY <1>1, ImportInvariant, PTL

-----------------------------------------------------------------------------
\* An import that ends is a step of the evidence graph; no other step changes
\* the graph or the history of batches.
LEMMA ImportSteps ==
  ASSUME ImportIInv, [ImportNext]_importVars
  PROVE  [Next]_<<nodes, edges, accepted>>
<1>1. CASE Ingest
  <2> PICK B : B = loaded
    OBVIOUS
  <2>1. B \in Batch
    BY <1>1 DEF Ingest, ImportIInv, ImportTypeOK
  <2> QED
    BY <1>1, <2>1 DEF Ingest, Next
<1>2. CASE ~ Ingest
  BY <1>2 DEF ImportNext, importVars, vars, WriteDocument, WriteManifest, WriteOriginal,
              PublishSync, Load, Refuse, Crash
<1> QED
  BY <1>1, <1>2

(***************************************************************************)
(* The imports write to the graph through ingest() only, with batches of   *)
(* records: apart from the errors that a loader raises, which the store    *)
(* does not know, they implement EvidenceGraph.                            *)
(***************************************************************************)
THEOREM ImportsOnlyIngest == ImportSpec => Init /\ [][Next]_<<nodes, edges, accepted>>
<1>1. ImportInit => Init
  BY DEF ImportInit
<1>2. ImportIInv /\ [ImportNext]_importVars => [Next]_<<nodes, edges, accepted>>
  BY ImportSteps
<1> QED
  BY <1>1, <1>2, ImportInvariant, PTL DEF ImportSpec

LEMMA ImportKeeps ==
  ASSUME ImportIInv, [ImportNext]_importVars
  PROVE  /\ \A i \in Id  : nodes[i] # Absent => nodes'[i] = nodes[i]
         /\ \A k \in Key : edges[k] # Absent => edges'[k] = edges[k]
<1>1. CASE Next
  BY <1>1, StepKeeps
<1>2. CASE UNCHANGED <<nodes, edges>>
  BY <1>2
<1> QED
  BY <1>1, <1>2, ImportSteps

(***************************************************************************)
(* Whatever is written, published, refused or lost on the way, no import   *)
(* changes or removes what an earlier one brought into the graph.          *)
(***************************************************************************)
THEOREM ImportsOverwriteNothing == ImportSpec => NothingOverwritten
<1>1. ImportIInv /\ [ImportNext]_importVars =>
        [ /\ \A i \in Id  : nodes[i] # Absent => nodes'[i] = nodes[i]
          /\ \A k \in Key : edges[k] # Absent => edges'[k] = edges[k] ]_<<nodes, edges>>
  BY ImportKeeps
<1> QED
  BY <1>1, ImportInvariant, PTL DEF ImportSpec, NothingOverwritten

\* The graph holds all that a batch said, once the batch is taken.
LEMMA AcceptedInGraph ==
  ASSUME NEW B \in Batch, Accept(B)
  PROVE  /\ \A r \in B : nodes'[r.id] = r.node
         /\ \A x \in Assertions(B) : edges'[x.key] = x.edge
<1>1. ASSUME NEW r \in B PROVE nodes'[r.id] = r.node
  <2>1. r.id \in IdsOf(B) /\ NodeOf(B, r.id) = r.node
    BY NodeOfRecord DEF Accept
  <2>2. r.id \in Id
    BY <2>1, NodeOfIsNode
  <2> QED
    BY <2>1, <2>2 DEF Accept
<1>2. ASSUME NEW x \in Assertions(B) PROVE edges'[x.key] = x.edge
  <2>1. x.key \in KeysOf(B)
    BY DEF KeysOf
  <2>2. PICK y \in Assertions(B) : y.key = x.key /\ y.edge = EdgeOf(B, x.key)
    BY <2>1, EdgeOfKey
  <2>3. y.edge = x.edge
    BY <2>2 DEF Accept, SelfConflicting
  <2>4. x.key \in Key
    BY <2>1, EdgeOfIsEdge
  <2> QED
    BY <2>1, <2>2, <2>3, <2>4 DEF Accept
<1> QED
  BY <1>1, <1>2

\* A batch that agrees with the graph and with itself, and whose relations
\* lead to records of its own or of the graph, is not refused.
LEMMA AgreedNotRejected ==
  ASSUME NEW B, Agree(B),
         \A k \in KeysOf(B) : k.to \in IdsOf(B) \/ nodes[k.to] # Absent
  PROVE  ~ Reject(B)
<1>1. ~ SelfConflicting(B)
  BY DEF Agree
<1>2. ~ NodeClash(B)
  <2> SUFFICES ASSUME NEW i \in IdsOf(B) PROVE nodes[i] \in {Absent, NodeOf(B, i)}
    BY DEF NodeClash
  <2>1. PICK r \in B : r.id = i
    BY DEF IdsOf
  <2> QED
    BY <1>1, <2>1, NodeOfRecord DEF Agree
<1>3. ~ EdgeClash(B)
  <2> SUFFICES ASSUME NEW k \in KeysOf(B) PROVE edges[k] \in {Absent, EdgeOf(B, k)}
    BY DEF EdgeClash
  <2>1. PICK x \in Assertions(B) : x.key = k /\ x.edge = EdgeOf(B, k)
    BY EdgeOfKey
  <2> QED
    BY <2>1 DEF Agree
<1>4. ~ Dangling(B)
  BY DEF Dangling
<1> QED
  BY <1>1, <1>2, <1>3, <1>4 DEF Reject

\* Every relation of the syncs leads to a record of the syncs.
LEMMA SyncsLeadToSyncs ==
  ASSUME ImportTypeOK, Sound("syncs"), NEW k \in KeysOf(RecordsOf("syncs"))
  PROVE  k.to \in IdsOf(RecordsOf("syncs"))
<1> PICK B : B = RecordsOf("syncs")
  OBVIOUS
<1>1. SelfContained(B)
  BY LoadersOwn DEF Loader
<1> DEFINE Of(links)   == \A x \in links : x.edge.source.type = "github"
           Github(r) == Of(r.relations)
<1>2. ASSUME NEW s \in Sync, NEW r \in SnapshotRecords[s]
      PROVE  Github(r)
  <2>1. ASSUME NEW id, NEW content, NEW anchor, NEW links, Of(links)
        PROVE  Github(SyncedRecord(s, id, content, anchor, links))
    BY <2>1 DEF SyncedRecord, SyncedLink, Synced, SyncSource, Fact
  <2>2. \A n, item : /\ Of({}) /\ Of(PullLinks(s, n, item))
                     /\ Of(CommitLinks(s, n, item)) /\ Of(ReviewLinks(s, n, item))
    BY DEF PullLinks, CommitLinks, ReviewLinks, SyncedLink, Synced, SyncSource, Fact
  <2>3. Github([id |-> SyncIn(s), node |-> Synced(s, Absent, <<"$">>), relations |-> {}])
    OBVIOUS
  <2> HIDE DEF Of, Github
  <2> QED
    BY <1>2, <2>1, <2>2, <2>3 DEF SnapshotRecords
<1>3. PICK x \in Assertions(B) : x.key = k
  BY DEF KeysOf
<1>4. PICK r \in B : \E y \in r.relations :
        x = [key |-> [from |-> r.id, type |-> y.type, to |-> y.to], edge |-> y.edge]
  BY DEF Assertions
<1>5. PICK s \in published : r \in SnapshotRecords[s]
  BY DEF RecordsOf
<1>6. s \in Sync
  BY DEF ImportTypeOK
<1>7. x.edge.source.type = "github"
  BY <1>2, <1>4, <1>5, <1>6
<1>8. PICK t \in B : t.id = x.key.to
  BY <1>1, <1>7 DEF SelfContained
<1> QED
  BY <1>3, <1>8 DEF IdsOf

-----------------------------------------------------------------------------
(***************************************************************************)
(* Every manifest lies in the directory of its own export, so that a       *)
(* relation to an export that is there leads to a record of the batch.     *)
(***************************************************************************)
Filed == \A x \in ExportId : manifests[x] # Absent => manifests[x].export = x

LEMMA ManifestsFiled == ImportSpec => []Filed
<1>1. ImportInit => Filed
  BY DEF ImportInit, Filed
<1>2. ImportIInv /\ Filed /\ [ImportNext]_importVars => Filed'
  <2> SUFFICES ASSUME ImportIInv, Filed, [ImportNext]_importVars PROVE Filed'
    OBVIOUS
  <2>1. ASSUME NEW m \in Export, WriteManifest(m) PROVE Filed'
    BY <2>1 DEF WriteManifest, Filed, ImportIInv, ImportTypeOK
  <2>2. CASE UNCHANGED manifests
    BY <2>2 DEF Filed
  <2>3. \/ UNCHANGED manifests
        \/ \E m \in Export : WriteManifest(m)
    BY DEF ImportNext, importVars, WriteDocument, WriteOriginal, PublishSync, Load, Refuse,
           Ingest, Crash, files
  <2> QED
    BY <2>1, <2>2, <2>3
<1> QED
  BY <1>1, <1>2, ImportInvariant, PTL DEF ImportSpec

\* Files that agree lead to records of their own batch or, from an export, to
\* documents.
LEMMA AgreedTargets ==
  ASSUME ImportIInv, Filed, FilesAgree, NEW l \in Loader, NEW k \in KeysOf(RecordsOf(l)),
         l = "exports" => InGraph(RecordsOf("inputs"))
  PROVE  k.to \in IdsOf(RecordsOf(l)) \/ nodes[k.to] # Absent
<1>0. ImportTypeOK /\ \A j \in Loader : Sound(j)
  BY DEF ImportIInv, FilesAgree
<1>1. CASE l = "inputs"
  <2>1. PICK d \in documents : d.id = k.to
    BY <1>1 DEF FilesAgree
  <2>2. DocumentRecord(d) \in RecordsOf(l)
    BY <1>1 DEF RecordsOf, InputRecords
  <2>3. DocumentRecord(d).id = k.to
    BY <2>1 DEF DocumentRecord
  <2> QED
    BY <2>2, <2>3 DEF IdsOf
<1>2. CASE l = "exports"
  <2>1. k.to \in { d.id : d \in documents } \cup Exported
    BY <1>2 DEF FilesAgree
  <2>2. CASE k.to \in Exported
    <3> DEFINE x == k.to
    <3>1. x \in ExportId /\ ExportSound(manifests[x], originals[x])
      BY <1>0, <2>2 DEF Sound, Loader, Exported
    <3>2. manifests[x].export = x
      BY <3>1 DEF ExportSound, Filed
    <3>3. ExportDocument(manifests[x]) \in RecordsOf(l)
      BY <1>2, <2>2 DEF RecordsOf, ExportRecords
    <3> QED
      BY <3>2, <3>3 DEF IdsOf, ExportDocument
  <2>3. CASE k.to \in { d.id : d \in documents }
    <3>1. PICK d \in documents : d.id = k.to
      BY <2>3
    <3> DEFINE B == RecordsOf("inputs")
               r == DocumentRecord(d)
    <3>2. B \in Batch /\ r \in B /\ r.id = k.to
      BY <1>0, <3>1, LoadersReturnBatches DEF Loader, RecordsOf, InputRecords, DocumentRecord
    <3> HIDE DEF B, r
    <3>3. nodes[r.id] = r.node
      BY <1>2, <3>2 DEF InGraph, B
    <3>4. r.node \in Node
      BY <3>2, BatchAssumption DEF Record
    <3> QED
      BY <3>2, <3>3, <3>4, AbsentAssumption
  <2> QED
    BY <2>1, <2>2, <2>3
<1>3. CASE l = "syncs"
  BY <1>0, <1>3, SyncsLeadToSyncs DEF Loader
<1> QED
  BY <1>1, <1>2, <1>3 DEF Loader

(***************************************************************************)
(* What Converges rests on.  While the files agree and are left alone,     *)
(* what they say stays in the graph once it is there, and an import of     *)
(* them is never refused: it brings all that its files say, that of the    *)
(* exports provided that the documents are in.                             *)
(***************************************************************************)
AgreedGetIn ==
  [][ \A l \in Loader :
        FilesAgree /\ UNCHANGED files =>
          /\ InGraph(RecordsOf(l)) => InGraph(RecordsOf(l))'
          /\ IngestOf(l) /\ (l = "exports" => InGraph(RecordsOf("inputs")))
               => InGraph(RecordsOf(l))' ]_importVars

LEMMA AgreedStep ==
  ASSUME ImportIInv, Filed, [ImportNext]_importVars,
         NEW l \in Loader, FilesAgree, UNCHANGED files
  PROVE  /\ InGraph(RecordsOf(l)) => InGraph(RecordsOf(l))'
         /\ IngestOf(l) /\ (l = "exports" => InGraph(RecordsOf("inputs")))
              => InGraph(RecordsOf(l))'
<1> PICK B : B = RecordsOf(l)
  OBVIOUS
<1>1. B \in Batch
  BY LoadersReturnBatches DEF ImportIInv, FilesAgree
<1>2. RecordsOf(l)' = B
  BY DEF RecordsOf, Exported, files
<1>3. \A r \in B : r.id \in Id /\ r.node # Absent
  BY <1>1, BatchAssumption, AbsentAssumption DEF Record
<1>4. \A x \in Assertions(B) : x.key \in Key /\ x.edge # Absent
  BY <1>1, AssertionsOfBatch, AbsentAssumption
<1>5. InGraph(RecordsOf(l)) => InGraph(RecordsOf(l))'
  <2>1. ASSUME InGraph(B)
        PROVE  /\ \A r \in B : nodes'[r.id] = r.node
               /\ \A x \in Assertions(B) : edges'[x.key] = x.edge
    BY <1>3, <1>4, <2>1, ImportKeeps DEF InGraph
  <2> QED
    BY <1>2, <2>1 DEF InGraph
<1>6. ASSUME IngestOf(l), l = "exports" => InGraph(RecordsOf("inputs"))
      PROVE  InGraph(RecordsOf(l))'
  <2>1. Accept(B) \/ Reject(B)
    BY <1>6 DEF IngestOf, Ingest
  <2>2. Agree(B)
    BY DEF FilesAgree
  <2>3. \A k \in KeysOf(B) : k.to \in IdsOf(B) \/ nodes[k.to] # Absent
    BY <1>6, AgreedTargets
  <2>4. Accept(B)
    BY <2>1, <2>2, <2>3, AgreedNotRejected
  <2> QED
    BY <1>1, <1>2, <2>4, AcceptedInGraph DEF InGraph
<1> QED
  BY <1>5, <1>6

THEOREM AgreedFilesGetIn == ImportSpec => AgreedGetIn
<1>1. ImportIInv /\ Filed /\ [ImportNext]_importVars =>
        [ \A l \in Loader :
            FilesAgree /\ UNCHANGED files =>
              /\ InGraph(RecordsOf(l)) => InGraph(RecordsOf(l))'
              /\ IngestOf(l) /\ (l = "exports" => InGraph(RecordsOf("inputs")))
                   => InGraph(RecordsOf(l))' ]_importVars
  BY AgreedStep
<1> QED
  BY <1>1, ImportInvariant, ManifestsFiled, PTL DEF ImportSpec, AgreedGetIn
=============================================================================
