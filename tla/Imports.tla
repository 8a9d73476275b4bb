------------------------------- MODULE Imports -------------------------------
(***************************************************************************)
(* The way from the input files to the graph.  load_inputs() for documents *)
(* and load_issue_trackers() for exports of an issue tracker (ingest.py),  *)
(* and load_github_snapshots() for snapshots (github_import.py), each turn *)
(* a whole directory into one batch of records, or refuse it for one file. *)
(* An import job gives the batch to ingest(), one batch at a time, while   *)
(* people write documents and exports, and syncs are published.            *)
(*                                                                         *)
(* The store is EvidenceGraph.  Of a file the model keeps what identifies, *)
(* approves and relates its records; content stands for the title, type    *)
(* and attributes, wellFormed for the checks of formats, dates, URLs and   *)
(* excerpts.  Every document leaves its provenance to the defaults.  There *)
(* is one GitHub repository, and what is published of it is whole, as      *)
(* SnapshotPublisher shows, and of values that the loader accepts.         *)
(*                                                                         *)
(* A definition named X_Y is X with the bug Y; no specification uses it.   *)
(***************************************************************************)
EXTENDS EvidenceGraph, Sequences, FiniteSets, Integers

CONSTANTS
  Document, \* what a document file may hold, [dir, id, ...]
  Export,   \* what a manifest of an export may say, [export, digest, ...]
  Rows,     \* digest -> the issues in the exported file of that digest
  Snapshot, \* the snapshots, in the order in which they are published
  CommitId  \* sha -> the sixteen digits that the id of a commit keeps

ExportId == { x.export : x \in Export }
Sync == DOMAIN Snapshot
Loader == {"inputs", "exports", "syncs"}

\* What normalize_inputs keeps of a record, or of a relation.
Fact(content, status, method, source, anchor) ==
  [content |-> content, status |-> status, method |-> method,
   source |-> source, anchor |-> anchor]

Indexed(s) == { <<n, s[n]>> : n \in DOMAIN s }

-----------------------------------------------------------------------------
\* Documents.  A field that the file leaves out is Absent.
Default(field, value) == IF field = Absent THEN value ELSE field

Status(d) == Default(d.status, IF d.approved = TRUE THEN "approved" ELSE "proposed")
Method(d) == Default(d.method, "deterministic_import")

\* A relation without a status or a method of its own has those of its record.
RelationStatus(d, x) == Default(x.status, Status(d))
RelationMethod(d, x) == Default(x.method, Method(d))

Admissible(status, method) == method = "ai_inferred" => status = "proposed"

Valid_OwnFields(d) ==
  /\ d.wellFormed
  /\ Absent \notin {d.status, d.approved} => d.approved = (d.status = "approved")
  /\ Admissible(Status(d), Method(d))
  /\ \A n \in DOMAIN d.relations :
       Absent \in {d.relations[n].status, d.relations[n].method}
         \/ Admissible(d.relations[n].status, d.relations[n].method)

Valid(d) ==
  /\ d.wellFormed
  /\ Absent \notin {d.status, d.approved} => d.approved = (d.status = "approved")
  /\ Admissible(Status(d), Method(d))
  /\ \A n \in DOMAIN d.relations :
       Admissible(RelationStatus(d, d.relations[n]), RelationMethod(d, d.relations[n]))

\* The provenance of a document, and of each of its relations by position.
DocumentSource(d) == [type |-> d.dir, doc |-> d.id, revision |-> Absent]

DocumentRecord(d) ==
  [id |-> d.id,
   node |-> Fact(d.content, Status(d), Method(d), DocumentSource(d), <<"$">>),
   relations |->
     { [type |-> x[2].type, to |-> x[2].to,
        edge |-> Fact(Absent, RelationStatus(d, x[2]), RelationMethod(d, x[2]),
                      DocumentSource(d), <<"relations", x[1]>>)]
       : x \in Indexed(d.relations) }]

\* load_inputs refuses the directories for one document, or for none at all.
InputsSound(D) ==
  /\ D # {} /\ \A d \in D : Valid(d)
  /\ \A d, e \in D : d.id = e.id => d = e

InputRecords(D) == { DocumentRecord(d) : d \in D }

-----------------------------------------------------------------------------
\* Exports: a manifest m and the digest of the file that lies next to it.
ManifestSound(m) == m.wellFormed /\ m.status \in {"approved", "proposed"}

ExportSound_AnyDigest(m, digest) ==
  /\ m # Absent /\ digest # Absent
  /\ ManifestSound(m)
  /\ \A p, q \in Indexed(Rows[digest]) : p[2].issue = q[2].issue => p = q

ExportSound(m, digest) ==
  /\ m # Absent /\ digest # Absent
  /\ ManifestSound(m)
  /\ digest = m.digest
  /\ \A p, q \in Indexed(Rows[digest]) : p[2].issue = q[2].issue => p = q

ExportSource(m) == [type |-> "issue-trackers", doc |-> m.export, revision |-> m.digest]

Imported(m, content, anchor) ==
  Fact(content, m.status, "deterministic_import", ExportSource(m), anchor)

\* One issue: derived from the export, related to its assignee and requirements.
IssueRecord(m, n, row) ==
  [id |-> row.issue,
   node |-> Imported(m, row.content, <<"row", n>>),
   relations |->
     { [type |-> "DERIVED_FROM", to |-> m.export,
        edge |-> Imported(m, Absent, <<"row", n, "source">>)] }
     \cup { [type |-> "RELATES_TO", to |-> i,
             edge |-> Imported(m, Absent, <<"row", n, "assignee">>)]
            : i \in {row.assignee} \ {Absent} }
     \cup { [type |-> "RELATES_TO", to |-> i,
             edge |-> Imported(m, Absent, <<"row", n, "requirementIds">>)]
            : i \in row.requirements }]

ExportDocument(m) ==
  [id |-> m.export, node |-> Imported(m, Absent, <<"$">>), relations |-> {}]

ExportRecords_NoDocument(m, digest) ==
  { IssueRecord(m, x[1], x[2]) : x \in Indexed(Rows[digest]) }

ExportRecords(m, digest) ==
  { IssueRecord(m, x[1], x[2]) : x \in Indexed(Rows[digest]) }
  \cup {ExportDocument(m)}

-----------------------------------------------------------------------------
\* Snapshots of the repository.
IssueIn(n)  == <<"ISSUE", n>>
PullIn(n)   == <<"PR", n>>
CommitIn(h) == <<"COMMIT", CommitId[h]>>
ReviewIn(n) == <<"REVIEW", n>>
SyncIn(s)   == <<"SYNC", s>>

Numbers(items) == { items[n].number : n \in DOMAIN items }
Shas(S)        == { S.commits[n].sha : n \in DOMAIN S.commits }

\* Issues and pull requests that the snapshot refers to are in the snapshot.
SnapshotSound(S) ==
  /\ S.wellFormed /\ S.status \in {"approved", "proposed"}
  /\ \A x \in Indexed(S.pullRequests) : \A y \in Indexed(x[2].linked) : y[2] \in Numbers(S.issues)
  /\ \A x \in Indexed(S.commits) : x[2].pullRequests \subseteq Numbers(S.pullRequests)
  /\ \A x \in Indexed(S.reviews) : x[2].pullRequest \in Numbers(S.pullRequests)

SyncSource(s) == [type |-> "github", doc |-> SyncIn(s), revision |-> s]

Synced(s, content, anchor) ==
  Fact(content, Snapshot[s].status, "deterministic_import", SyncSource(s), anchor)

SyncedLink(s, type, to, anchor) ==
  [type |-> type, to |-> to, edge |-> Synced(s, Absent, anchor)]

\* Every record of a snapshot is also derived from the record of the sync.
SyncedRecord(s, id, content, anchor, links) ==
  [id |-> id, node |-> Synced(s, content, anchor),
   relations |-> links \cup {SyncedLink(s, "DERIVED_FROM", SyncIn(s), Append(anchor, "source"))}]

PullLinks(s, n, item) ==
  { SyncedLink(s, "RELATES_TO", IssueIn(x[2]), <<"pullRequests", n, "linked", x[1]>>)
    : x \in Indexed(item.linked) }

CommitLinks_AnyParent(s, n, item) ==
  { SyncedLink(s, "RELATES_TO", PullIn(p), <<"commits", n, "pullRequests">>)
    : p \in item.pullRequests }
  \cup { SyncedLink(s, "DERIVED_FROM", CommitIn(h), <<"commits", n, "parents">>)
         : h \in item.parents }

\* A parent that the snapshot does not hold is left out.
CommitLinks(s, n, item) ==
  { SyncedLink(s, "RELATES_TO", PullIn(p), <<"commits", n, "pullRequests">>)
    : p \in item.pullRequests }
  \cup { SyncedLink(s, "DERIVED_FROM", CommitIn(h), <<"commits", n, "parents">>)
         : h \in item.parents \cap Shas(Snapshot[s]) }

ReviewLinks(s, n, item) ==
  { SyncedLink(s, "VERIFIES", PullIn(item.pullRequest), <<"reviews", n>>) }

SnapshotRecords ==
  [s \in Sync |->
    LET S == Snapshot[s]
    IN  { SyncedRecord(s, IssueIn(x[2].number), x[2].content, <<"issues", x[1]>>, {})
          : x \in Indexed(S.issues) }
        \cup { SyncedRecord(s, PullIn(x[2].number), x[2].content, <<"pullRequests", x[1]>>,
                            PullLinks(s, x[1], x[2])) : x \in Indexed(S.pullRequests) }
        \cup { SyncedRecord(s, CommitIn(x[2].sha), x[2].sha, <<"commits", x[1]>>,
                            CommitLinks(s, x[1], x[2])) : x \in Indexed(S.commits) }
        \cup { SyncedRecord(s, ReviewIn(x[2].number), x[2].content, <<"reviews", x[1]>>,
                            ReviewLinks(s, x[1], x[2])) : x \in Indexed(S.reviews) }
        \cup { [id |-> SyncIn(s), node |-> Synced(s, Absent, <<"$">>), relations |-> {}] }]

-----------------------------------------------------------------------------
\* The directories of load_inputs() (SOURCES).
ASSUME DirectoryAssumption ==
  \A d \in Document : d.dir \in {"meeting-notes", "requirements", "design", "source-metadata"}

\* A manifest may name the digest of any file, and of no other one.
ASSUME RowsAssumption == \A m \in Export : m.digest \in DOMAIN Rows

\* What a loader returns, ingest() can be called with.
ASSUME LoaderAssumption ==
  /\ \A D \in SUBSET Document : InputsSound(D) => InputRecords(D) \in Batch
  /\ \A m \in [ExportId -> Export \cup {Absent}], o \in [ExportId -> DOMAIN Rows \cup {Absent}] :
       \A X \in SUBSET ExportId :
         (\A x \in X : ExportSound(m[x], o[x]))
         => UNION { ExportRecords(m[x], o[x]) : x \in X } \in Batch
  /\ \A S \in SUBSET Sync :
       (\A s \in S : SnapshotSound(Snapshot[s])) => UNION { SnapshotRecords[s] : s \in S } \in Batch

-----------------------------------------------------------------------------
VARIABLES
  documents, \* the files in the four directories of load_inputs()
  manifests, \* export -> its manifest, or Absent
  originals, \* export -> the digest of its exported file, or Absent
  published, \* the syncs that were published
  loaded     \* the records that the job has still to give to ingest(), or Absent

files == <<documents, manifests, originals, published>>
importVars == <<vars, files, loaded>>

ImportInit ==
  /\ Init /\ loaded = Absent
  /\ documents = {} /\ published = {}
  /\ manifests = [x \in ExportId |-> Absent]
  /\ originals = [x \in ExportId |-> Absent]

\* A document is written, over the file of its name in its directory.
WriteDocument(d) ==
  /\ documents' = { e \in documents : <<e.dir, e.id>> # <<d.dir, d.id>> } \cup {d}
  /\ UNCHANGED <<vars, manifests, originals, published, loaded>>

\* Manifest and exported file of an export are two files.
WriteManifest(m) ==
  /\ manifests' = [manifests EXCEPT ![m.export] = m]
  /\ UNCHANGED <<vars, documents, originals, published, loaded>>

WriteOriginal(m) ==
  /\ originals' = [originals EXCEPT ![m.export] = m.digest]
  /\ UNCHANGED <<vars, documents, manifests, published, loaded>>

\* The id of a sync begins with its time.
PublishSync(s) ==
  /\ s = Cardinality(published) + 1
  /\ published' = published \cup {s}
  /\ UNCHANGED <<vars, documents, manifests, originals, loaded>>

Exported == { x \in ExportId : manifests[x] # Absent \/ originals[x] # Absent }

Sound(l) ==
  CASE l = "inputs"  -> InputsSound(documents)
    [] l = "exports" -> /\ Exported # {}
                        /\ \A x \in Exported : ExportSound(manifests[x], originals[x])
    [] l = "syncs"   -> \A s \in published : SnapshotSound(Snapshot[s])

RecordsOf(l) ==
  CASE l = "inputs"  -> InputRecords(documents)
    [] l = "exports" -> UNION { ExportRecords(manifests[x], originals[x]) : x \in Exported }
    [] l = "syncs"   -> UNION { SnapshotRecords[s] : s \in published }

\* The job calls one of the three loaders, which raises or returns the records.
\* The manifest of an export and its original are read here at one moment: if
\* they were replaced in between, the digest would refuse them, or they would
\* be the pair that the manifest was written for.  The job does not ask for
\* snapshots before there is one: that batch is empty.
Load(l) ==
  /\ loaded = Absent /\ Sound(l)
  /\ l = "syncs" => published # {}
  /\ loaded' = RecordsOf(l)
  /\ UNCHANGED <<vars, files>>

Refuse(l) ==
  /\ loaded = Absent /\ ~ Sound(l)
  /\ reply' = "invalid_input"
  /\ UNCHANGED <<nodes, edges, accepted, files, loaded>>

Ingest ==
  /\ loaded # Absent /\ loaded' = Absent
  /\ Accept(loaded) \/ Reject(loaded)
  /\ UNCHANGED files

\* The job hands on what the files of l say at present.
IngestOf(l) == loaded # Absent /\ Sound(l) /\ loaded = RecordsOf(l) /\ Ingest

\* The job dies with what it has loaded; files and graph are as they were.
Crash == loaded # Absent /\ loaded' = Absent /\ UNCHANGED <<vars, files>>

ImportNext ==
  \/ \E d \in Document : WriteDocument(d)
  \/ \E m \in Export : WriteManifest(m) \/ WriteOriginal(m)
  \/ \E s \in Sync : PublishSync(s)
  \/ \E l \in Loader : Load(l) \/ Refuse(l)
  \/ Ingest \/ Crash

\* Each of the three imports is started again and again, and does not die every time.
ImportSpec ==
  /\ ImportInit /\ [][ImportNext]_importVars
  /\ WF_loaded(Ingest \/ Crash)
  /\ \A l \in Loader : SF_loaded(Load(l)) /\ SF_loaded(IngestOf(l))
-----------------------------------------------------------------------------
ImportTypeOK ==
  /\ nodes \in [Id -> Node \cup {Absent}] /\ edges \in [Key -> Edge \cup {Absent}]
  /\ reply \in Replies \cup {"invalid_input"}
  /\ accepted \subseteq Batch /\ loaded \in Batch \cup {Absent}
  /\ documents \subseteq Document /\ published \subseteq Sync
  /\ manifests \in [ExportId -> Export \cup {Absent}]
  /\ originals \in [ExportId -> DOMAIN Rows \cup {Absent}]

(***************************************************************************)
(* No record and no relation in the graph is both inferred by an AI and    *)
(* more than proposed, though a document may leave fields out that its     *)
(* relations then take from it (_validate(), issue-7:124).                 *)
(***************************************************************************)
InferredStaysProposed ==
  /\ \A i \in Id  : nodes[i] # Absent => Admissible(nodes[i].status, nodes[i].method)
  /\ \A k \in Key : edges[k] # Absent => Admissible(edges[k].status, edges[k].method)

(***************************************************************************)
(* An issue of the tracker is in the graph with the approval of a manifest *)
(* that vouched for the file the issue was read from, although manifest    *)
(* and file are replaced one after the other (issue-5, sourceRevision).    *)
(***************************************************************************)
ManifestVouches ==
  \A i \in Id : nodes[i] # Absent /\ nodes[i].source.type = "issue-trackers" =>
    \E m \in Export :
      /\ nodes[i].source = ExportSource(m) /\ nodes[i].status = m.status
      /\ \/ i = m.export
         \/ \E n \in DOMAIN Rows[m.digest] :
              Rows[m.digest][n].issue = i /\ Rows[m.digest][n].content = nodes[i].content

(***************************************************************************)
(* What GitHub reported is read as one sync reported it: every record of a *)
(* sync is derived from the record of that sync, and its relations lead to *)
(* records of the same sync, never to what another one said of the same    *)
(* commit (issue-6:112-140).                                               *)
(***************************************************************************)
SyncsSelfContained ==
  /\ \A i \in Id :
       nodes[i] # Absent /\ nodes[i].source.type = "github" /\ i # nodes[i].source.doc =>
         edges[[from |-> i, type |-> "DERIVED_FROM", to |-> nodes[i].source.doc]] # Absent
  /\ \A k \in Key : edges[k] # Absent /\ edges[k].source.type = "github" =>
       edges[k].source = nodes[k.from].source /\ edges[k].source = nodes[k.to].source

\* The records do not disagree with each other or with the graph.
Agree(B) ==
  /\ ~ SelfConflicting(B)
  /\ \A r \in B : nodes[r.id] \in {Absent, r.node}
  /\ \A x \in Assertions(B) : edges[x.key] \in {Absent, x.edge}

\* The files can be loaded, agree, and refer to documents or, from an export,
\* to an export that is there as well.
FilesAgree ==
  LET written == { d.id : d \in documents }
  IN  /\ \A l \in Loader : Sound(l) /\ Agree(RecordsOf(l))
      /\ \A k \in KeysOf(RecordsOf("inputs"))  : k.to \in written
      /\ \A k \in KeysOf(RecordsOf("exports")) : k.to \in written \cup Exported

InGraph(B) ==
  /\ \A r \in B : nodes[r.id] = r.node
  /\ \A x \in Assertions(B) : edges[x.key] = x.edge

(***************************************************************************)
(* If in the end the files agree, all that they say reaches the graph, in  *)
(* whichever order the imports are run and however often an export is      *)
(* refused because the documents that it refers to are not in yet.         *)
(***************************************************************************)
Converges ==
  <>[]FilesAgree => []<>(\A l \in Loader : Sound(l) /\ InGraph(RecordsOf(l)))
=============================================================================
