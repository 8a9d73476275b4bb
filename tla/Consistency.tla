----------------------------- MODULE Consistency -----------------------------
(***************************************************************************)
(* ConsistencyService.check(): the rules that look for requirements without*)
(* implementation, code without requirement and missing provenance, in a   *)
(* whole graph or in a scope, the comparison of a report with an earlier   *)
(* one, and the audit of each check by a sink that may fail, while batches *)
(* of records keep arriving (the steps of EvidenceGraph).  One call of     *)
(* check() is one step: it runs in one thread over an in-memory graph.     *)
(*                                                                         *)
(* A fact is an approved record or relation, not inferred by an AI, with   *)
(* an excerpt, a confidence and its required provenance.  Two approved     *)
(* relations with one key cannot be in this graph, so that the rule        *)
(* conflicting_evidence finds nothing.                                     *)
(*                                                                         *)
(* A definition named X_Y is X with the bug Y; no specification uses it.   *)
(***************************************************************************)
EXTENDS EvidenceGraph, Integers, FiniteSets, SequencesExt

CONSTANTS
  Kind,         \* node -> its type
  ApprovedNode, \* approved, and not inferred by an AI
  ApprovedEdge,
  FactNode,     \* approved and with complete provenance
  FactEdge,
  IMPLEMENTS,   \* the relation type that the rules look at
  Revision,     \* base revisions, Absent included
  Request,      \* the requests that CI makes
  MaxFindings   \* the limit of a request

ASSUME ConsistencyAssumption ==
  /\ Kind \in [Node -> {"Requirement", "Business", "Design", "Code", "Feature", "Other"}]
  /\ FactNode \subseteq ApprovedNode /\ ApprovedNode \subseteq Node
  /\ FactEdge \subseteq ApprovedEdge /\ ApprovedEdge \subseteq Edge
  /\ IMPLEMENTS \in RelType /\ Absent \notin Key
  /\ Request \subseteq [scope : SUBSET Id, proposed : BOOLEAN, base : Revision]
  /\ MaxFindings \in 1..200

VARIABLES
  report,   \* the report of the last check, or its error
  events,   \* the audit events of that check, in order
  baseline, \* the findings that CI keeps to compare the next report with
  kept      \* history: the request of the baseline, and what was registered then

consistencyVars == <<vars, report, events, baseline, kept>>

Rules == {"requirement_without_implementation", "design_without_implementation",
          "implementation_without_requirement", "missing_provenance"}

\* What is found, what was expected of it, and the relation concerned, or Absent.
Expectations == {"of the record", "of its relation", "evidence"}
Finding == [rule : Rules, subject : Id, expected : Expectations, relation : Key \cup {Absent}]

\* The fingerprint leaves the relation out: two relations of one owner share it.
Fingerprint(f, base) ==
  [rule |-> f.rule, subject |-> f.subject, expected |-> f.expected, basis |-> base]

Reported == {"ok", "not_registered"}
Statuses == Reported \cup {"none", "query_limit_exceeded", "forbidden", "query_timeout",
                           "service_unavailable", "audit_unavailable"}
States   == {"open", "existing", "evidence_insufficient"}

Empty(status) == [status |-> status, findings |-> {}]

ConsistencyInit ==
  /\ Init
  /\ report = Empty("none") /\ events = <<>>
  /\ baseline = {} /\ kept = Absent

-----------------------------------------------------------------------------
\* An empty scope stands for the whole graph.
Ids(scope) == { i \in Id : nodes[i] # Absent /\ (scope # {} => i \in scope) }

\* snapshot(): approved records in the scope, approved relations that touch it.
SnapshotNodes(scope) == { i \in Ids(scope) : nodes[i] \in ApprovedNode }

SnapshotEdges_Inside(scope) ==
  { k \in Key : edges[k] \in ApprovedEdge /\ k.from \in Ids(scope) /\ k.to \in Ids(scope) }

SnapshotEdges_Any(scope) ==
  { k \in Key : edges[k] # Absent /\ (k.from \in Ids(scope) \/ k.to \in Ids(scope)) }

SnapshotEdges(scope) ==
  { k \in Key : edges[k] \in ApprovedEdge /\ (k.from \in Ids(scope) \/ k.to \in Ids(scope)) }

Candidates(scope) == Ids(scope) \ SnapshotNodes(scope)

\* A record of the snapshot that is of one of these kinds.
IsA(i, kinds, N) == i \in N /\ Kind[nodes[i]] \in kinds

\* The records of the scope, of one of these kinds, on the other end of a
\* relation that implements, or is implemented by, record i.
ImplementersOf(i, kinds, scope) ==
  { k.from : k \in { l \in SnapshotEdges(scope) :
               /\ l.type = IMPLEMENTS /\ edges[l] \in FactEdge /\ l.to = i
               /\ IsA(l.from, kinds, SnapshotNodes(scope)) } }

ImplementedBy(i, kinds, scope) ==
  { k.to : k \in { l \in SnapshotEdges(scope) :
               /\ l.type = IMPLEMENTS /\ edges[l] \in FactEdge /\ l.from = i
               /\ IsA(l.to, kinds, SnapshotNodes(scope)) } }

\* _rules()
Violates(i, rule, scope) ==
  LET N == SnapshotNodes(scope)
  IN  CASE rule = "requirement_without_implementation" ->
             IsA(i, {"Requirement"}, N) /\ ImplementersOf(i, {"Design", "Code"}, scope) = {}
        [] rule = "design_without_implementation" ->
             IsA(i, {"Design"}, N) /\ ImplementersOf(i, {"Code"}, scope) = {}
        [] rule = "implementation_without_requirement" ->
             /\ IsA(i, {"Code", "Feature"}, N)
             /\ ImplementedBy(i, {"Requirement", "Business", "Design"}, scope) = {}
        [] rule = "missing_provenance" -> i \in N /\ nodes[i] \notin FactNode

Findings(scope) ==
  { f \in [rule : Rules, subject : SnapshotNodes(scope),
          expected : {"of the record"}, relation : {Absent}] :
      Violates(f.subject, f.rule, scope) }
  \cup
  { [rule |-> "missing_provenance", subject |-> k.from,
     expected |-> "of its relation", relation |-> k] :
      k \in { l \in SnapshotEdges(scope) :
                edges[l] \notin FactEdge /\ l.from \in SnapshotNodes(scope) } }

\* Where nothing is approved, the candidates say that evidence is missing.
CandidateFindings_Requirements(scope) ==
  { [rule |-> "requirement_without_implementation",
     subject |-> i, expected |-> "evidence", relation |-> Absent] :
      i \in { j \in Candidates(scope) : Kind[nodes[j]] = "Requirement" } }

CandidateFindings(scope) ==
  { [rule |-> IF Kind[nodes[i]] = "Requirement" THEN "requirement_without_implementation"
                                                ELSE "implementation_without_requirement",
     subject |-> i, expected |-> "evidence", relation |-> Absent] :
      i \in { j \in Candidates(scope) : Kind[nodes[j]] \in {"Requirement", "Design", "Code", "Feature"} } }

\* _diff(): what the baseline holds already is existing.
Diffed(F, base) ==
  { [finding |-> f,
     state |-> IF Fingerprint(f, base) \in baseline THEN "existing" ELSE "open"] : f \in F }

Insufficient(F) == { [finding |-> f, state |-> "evidence_insufficient"] : f \in F }

\* check(): the findings of a request for the present graph, or why there are none.
Unknown(r) ==
  \/ \E i \in r.scope : nodes[i] = Absent
  \/ SnapshotNodes(r.scope) = {} /\ (r.proposed => Candidates(r.scope) = {})

AllFindings(r) ==
  Diffed(Findings(r.scope), r.base) \cup
  ( IF r.proposed /\ SnapshotNodes(r.scope) = {} THEN Insufficient(CandidateFindings(r.scope)) ELSE {} )

Report(r) ==
  IF Unknown(r) THEN Empty("not_registered")
  ELSE IF Cardinality(AllFindings(r)) > MaxFindings
       THEN Empty("query_limit_exceeded")
       ELSE [status |-> "ok", findings |-> AllFindings(r)]

\* The same call over Neo4jConsistencyRepository: it has no exists(), and
\* snapshot() takes an empty scope for no record at all.
Neo4jReport(r, tenantAware) ==
  Empty(CASE ~ tenantAware   -> "forbidden"
          [] r.scope # {}    -> "service_unavailable"
          [] OTHER           -> "not_registered")

\* What a check comes to before it is audited; a repository may raise.
Outcomes(r) ==
  {Report(r)} \cup { Neo4jReport(r, aware) : aware \in BOOLEAN } \cup
  {Empty("query_timeout"), Empty("service_unavailable")}

-----------------------------------------------------------------------------
\* What becomes of an event: it is stored; record() raises; or both.  Of what
\* it raises the service tells a TimeoutError from the rest; ConsistencyError is
\* its own, and no sink raises that.
Sink ==
  { s \in [stored : BOOLEAN, raises : {"nothing", "TimeoutError", "another"}] :
      s.stored \/ s.raises # "nothing" }

Sent(status, sink) == IF sink.stored THEN <<status>> ELSE <<>>

\* The finally clause: when its audit raises too, the exception of the sink escapes.
Failing(code, sink) ==
  [report |-> Empty(IF sink.raises = "nothing" THEN code ELSE "audit_unavailable"),
   events |-> Sent(code, sink)]

\* What the except clauses make of the exception of a sink.
Code(sink) == IF sink.raises = "TimeoutError" THEN "query_timeout" ELSE "service_unavailable"

\* A report is audited before it is returned; if that raises, the check fails.
Ending_BestEffort(outcome, first, second) ==
  IF outcome.status \in Reported
  THEN [report |-> outcome, events |-> Sent(outcome.status, first)]
  ELSE Failing(outcome.status, first)

Ending(outcome, first, second) ==
  IF outcome.status \notin Reported
  THEN Failing(outcome.status, first)
  ELSE IF first.raises = "nothing"
       THEN [report |-> outcome, events |-> Sent(outcome.status, first)]
       ELSE LET failed == Failing(Code(first), second)
            IN  [failed EXCEPT !.events = Sent(outcome.status, first) \o @]

Answers(r) ==
  { Ending(outcome, first, second) : outcome \in Outcomes(r), first \in Sink, second \in Sink }

\* One call of check(), which ends in one of these ways.
Ends(answer) == report' = answer.report /\ events' = answer.events

Check(r) == (\E answer \in Answers(r) : Ends(answer)) /\ UNCHANGED <<vars, baseline, kept>>

\* CI keeps the report of a check as the baseline of later checks.
Kept_OpenOnly(r, findings) ==
  { Fingerprint(x.finding, r.base) : x \in { y \in findings : y.state = "open" } }

Kept(r, findings) == { Fingerprint(x.finding, r.base) : x \in findings }

CheckAndKeep(r) ==
  \E answer \in Answers(r) :
    /\ answer.report.status = "ok"
    /\ Ends(answer)
    /\ baseline' = Kept(r, answer.report.findings)
    /\ kept' = [request |-> r, ids |-> Ids({})]
    /\ UNCHANGED vars

Ingest == (\E B \in Batch : Accept(B)) /\ UNCHANGED <<report, events, baseline, kept>>

ConsistencyNext == Ingest \/ \E r \in Request : Check(r) \/ CheckAndKeep(r)

ConsistencySpec == ConsistencyInit /\ [][ConsistencyNext]_consistencyVars
-----------------------------------------------------------------------------
ConsistencyTypeOK ==
  /\ TypeOK
  /\ report \in [status : Statuses, findings : SUBSET [finding : Finding, state : States]]
  /\ events \in Seq(Statuses)
  /\ baseline \subseteq [rule : Rules, subject : Id, expected : Expectations, basis : Revision]
  /\ kept \in [request : Request, ids : SUBSET Id] \cup {Absent}

\* A check of a scope finds of its records what the check of the whole graph finds.
ScopeMissesNothing ==
  \A r \in Request : { f \in Findings({}) : f.subject \in r.scope } \subseteq Findings(r.scope)

\* A check with candidates, of records none of which is approved, finds each of them.
InsufficiencyShown ==
  \A r \in Request :
    r.proposed /\ r.scope # {} /\ (\A i \in r.scope : nodes[i] \in Node \ ApprovedNode)
      => LET now == Report(r)
         IN  now.status # "query_limit_exceeded" =>
               /\ now.status = "ok"
               /\ \A i \in r.scope : Kind[nodes[i]] \in {"Requirement", "Design", "Code", "Feature"} =>
                    \E x \in now.findings : x.finding.subject = i

(***************************************************************************)
(* No check passes in silence.  Whatever the check of the whole graph      *)
(* finds about a record of a scope, the smaller check finds too (the       *)
(* converse fails: an implementation outside the scope is not seen); and   *)
(* where all is only proposed, a check that asks for candidates says of    *)
(* each that evidence is missing (consistency_service.py:26-27).           *)
(***************************************************************************)
ChecksMissNothing == ScopeMissesNothing /\ InsufficiencyShown

\* Batches of proposals and inferences leave the findings as they are.
ProposalsChangeNothing ==
  LET added == { i \in Id : nodes[i] = Absent /\ nodes'[i] # Absent }
      keyed == { k \in Key : edges[k] = Absent /\ edges'[k] # Absent }
  IN  (\A i \in added : nodes'[i] \notin ApprovedNode)
      /\ (\A k \in keyed : edges'[k] \notin ApprovedEdge)
      => Findings({})' = Findings({})

\* A rule about implementation that found nothing of a registered record never will.
ClearedStaysCleared ==
  \A f \in Findings({})' :
    f.rule # "missing_provenance" /\ nodes[f.subject] # Absent => f \in Findings({})

(***************************************************************************)
(* Evidence, and nothing else, decides: records and relations that are     *)
(* only proposed, or inferred by an AI, neither clear a finding nor cause  *)
(* one (issue-3, acceptance: proposed or AI evidence alone resolves no     *)
(* warning), and once the evidence for a record is complete, no later      *)
(* batch takes it away.                                                    *)
(***************************************************************************)
EvidenceDecides == [][ProposalsChangeNothing /\ ClearedStaysCleared]_<<nodes, edges>>

(***************************************************************************)
(* A pull request does not fail for what was there before: when the check  *)
(* of the baseline is repeated on the same base revision, however the      *)
(* graph has grown, a finding of a record registered at the time is not    *)
(* open (issue-3: only findings that are new count), except for the        *)
(* provenance of its relations.                                            *)
(***************************************************************************)
OldFindingsStayOld ==
  kept # Absent =>
    \A x \in Report(kept.request).findings :
      x.state = "open" /\ x.finding.relation = Absent => x.finding.subject \notin kept.ids

(***************************************************************************)
(* No report and no error leaves check() without its audit event: the last *)
(* event states what the caller got, whichever of the two audits failed    *)
(* and however.  There is one event only (issue-3:83), unless the sink     *)
(* stored the event of a report and raised all the same: then the event of *)
(* that report stands before the one of the error.                         *)
(***************************************************************************)
ReportsAreAudited ==
  report.status \notin {"none", "audit_unavailable"} =>
    /\ events # <<>> /\ Last(events) = report.status
    /\ Len(events) # 1 =>
         /\ Len(events) = 2 /\ Head(events) \in Reported
         /\ report.status \in {"query_timeout", "service_unavailable"}
=============================================================================
