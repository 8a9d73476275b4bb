------------------------------ MODULE MCImports ------------------------------
(***************************************************************************)
(* Two documents, one of which can be wrong in how its AI inference is     *)
(* approved, one export in two versions whose files differ, and three      *)
(* syncs: s2 has a commit whose parent only s1 holds, s3 repeats a commit. *)
(***************************************************************************)
EXTENDS Imports, TLC

CONSTANTS REQ, DES, TRACKER, TASK, g1, g2, c1, c2, t1, t2

Doc(dir, id, status, approved, method, relations) ==
  [dir |-> dir, id |-> id, status |-> status, approved |-> approved, method |-> method,
   content |-> Absent, wellFormed |-> TRUE, relations |-> relations]

InferredLink(status, method) ==
  << [type |-> "RELATES_TO", to |-> REQ, status |-> status, method |-> method] >>

MCDocument ==
  { Doc("requirements", REQ, Absent, TRUE, Absent, <<>>),
    Doc("design", DES, "approved", TRUE, "human_curated", InferredLink(Absent, "ai_inferred")),
    Doc("design", DES, "approved", Absent, "human_curated", InferredLink("proposed", "ai_inferred")) }

MCExport == { [export |-> TRACKER, digest |-> g1, status |-> "proposed", wellFormed |-> TRUE],
              [export |-> TRACKER, digest |-> g2, status |-> "approved", wellFormed |-> TRUE] }

Row(content) == [issue |-> TASK, content |-> content, assignee |-> Absent, requirements |-> {REQ}]
MCRows == (g1 :> <<Row(t1)>>) @@ (g2 :> <<Row(t2)>>)

Commit(sha, parents, pulls) == [sha |-> sha, parents |-> parents, pullRequests |-> pulls]
Pull(linked) == [number |-> 1, content |-> Absent, linked |-> linked]

MCSnapshot ==
  LET Shot(issues, pulls, commits, reviews) ==
        [status |-> "proposed", wellFormed |-> TRUE, issues |-> issues,
         pullRequests |-> pulls, commits |-> commits, reviews |-> reviews]
  IN << Shot(<<[number |-> 1, content |-> Absent]>>, <<Pull(<<1>>)>>,
             <<Commit(c1, {}, {1})>>, <<[number |-> 1, content |-> Absent, pullRequest |-> 1]>>),
        Shot(<<>>, <<>>, <<Commit(c2, {c1}, {})>>, <<>>),
        Shot(<<>>, <<>>, <<Commit(c1, {}, {})>>, <<>>) >>

MCCommitId == (c1 :> c1) @@ (c2 :> c2)

MCId == {REQ, DES, TRACKER, TASK}
        \cup { IssueIn(1), PullIn(1), ReviewIn(1), CommitIn(c1), CommitIn(c2) }
        \cup { SyncIn(s) : s \in 1..3 }
MCRelType == {"DERIVED_FROM", "RELATES_TO", "VERIFIES"}

MCBatch ==
  { InputRecords(D) : D \in SUBSET MCDocument }
  \cup { ExportRecords(m, d) : m \in MCExport, d \in {g1, g2} }
  \cup { UNION { SnapshotRecords[s] : s \in S } : S \in SUBSET (1..3) }

MCNode == { r.node : r \in UNION MCBatch }
MCEdge == { x.edge : x \in UNION { r.relations : r \in UNION MCBatch } }
=============================================================================
