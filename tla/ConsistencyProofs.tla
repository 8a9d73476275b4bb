-------------------------- MODULE ConsistencyProofs --------------------------
(***************************************************************************)
(* What Consistency promises of checks and their audit, for any records,   *)
(* batches, requests and limits.                                           *)
(***************************************************************************)
EXTENDS Consistency, EvidenceGraphProofs

\* Checks do not write; what else happens is a step of the store.
LEMMA GraphStep == [ConsistencyNext]_consistencyVars => [Next]_vars
BY DEF ConsistencyNext, Ingest, Check, CheckAndKeep, consistencyVars, Next

(***************************************************************************)
(* Checks write nothing to the store, whether their audit is kept, lost or *)
(* fails (ConsistencyService.check()): the service implements              *)
(* EvidenceGraph, and what is proved of the store holds of it.             *)
(***************************************************************************)
THEOREM StoreUnderneath == ConsistencySpec => Spec
BY GraphStep, PTL DEF ConsistencySpec, ConsistencyInit, Spec

-----------------------------------------------------------------------------
\* The report and the events of a check.
AuditedReport(outcome, evs) ==
  outcome.status \notin {"none", "audit_unavailable"} =>
    /\ evs # <<>> /\ Last(evs) = outcome.status
    /\ Len(evs) # 1 =>
         /\ Len(evs) = 2 /\ Head(evs) \in Reported
         /\ outcome.status \in {"query_timeout", "service_unavailable"}

LEMMA FailingAudited ==
  ASSUME NEW code \in Statuses, NEW sink \in Sink
  PROVE  LET answer == Failing(code, sink)
         IN  /\ AuditedReport(answer.report, answer.events)
             /\ answer.events \in {<<>>, <<code>>}
             /\ answer.report.status \notin {"none", "audit_unavailable"} => answer.events = <<code>> /\ answer.report.status = code
BY DEF AuditedReport, Failing, Empty, Sent, Last, Sink

LEMMA Joined ==
  ASSUME NEW a \in Statuses, NEW b \in Statuses
  PROVE  <<>> \o <<b>> = <<b>> /\ <<a>> \o <<b>> = <<a, b>>
<1>1. <<>> \in Seq(Statuses) /\ <<a>> \in Seq(Statuses) /\ <<b>> \in Seq(Statuses)
  OBVIOUS
<1>2. <<>> \o <<b>> = <<b>>
  BY <1>1
<1>3. <<a>> \o <<b>> = <<a, b>>
  <2> DEFINE both == <<a>> \o <<b>>
  <2>1. both \in Seq(Statuses) /\ Len(both) = 2
    BY <1>1
  <2>2. both[1] = a /\ both[2] = b
    BY <1>1
  <2> HIDE DEF both
  <2>3. both = <<a, b>>
    BY <2>1, <2>2
  <2> QED
    BY <2>3 DEF both
<1> QED
  BY <1>2, <1>3

LEMMA EndingAudited ==
  ASSUME NEW outcome, outcome.status \in Statuses, NEW first \in Sink, NEW second \in Sink
  PROVE  LET answer == Ending(outcome, first, second)
         IN  AuditedReport(answer.report, answer.events)
<1>1. CASE outcome.status \notin Reported
  BY <1>1, FailingAudited DEF Ending
<1>2. CASE outcome.status \in Reported /\ first.raises = "nothing"
  BY <1>2 DEF Ending, AuditedReport, Sent, Sink, Last, Reported
<1>3. CASE outcome.status \in Reported /\ first.raises # "nothing"
  <2> DEFINE code   == Code(first)
             failed == Failing(code, second)
             answer == Ending(outcome, first, second)
  <2>0. code \in {"query_timeout", "service_unavailable"}
    BY DEF Code
  <2>1. /\ answer.report = failed.report
        /\ answer.events = Sent(outcome.status, first) \o failed.events
    BY <1>3 DEF Ending, Failing
  <2>2. CASE second.raises = "nothing"
    <3>1. failed.report.status = code /\ failed.events = <<code>>
      BY <2>2 DEF Failing, Empty, Sent, Sink
    <3>2. Sent(outcome.status, first) \in {<<>>, <<outcome.status>>}
      BY DEF Sent
    <3>3. answer.events \in {<<code>>, <<outcome.status, code>>}
      <4>1. code \in Statuses
        BY <2>0 DEF Statuses
      <4> HIDE DEF code
      <4> QED
        BY <2>1, <3>1, <3>2, <4>1, Joined
    <3> HIDE DEF code
    <3>4. /\ answer.events # <<>> /\ answer.events[Len(answer.events)] = code
          /\ Len(answer.events) # 1 => Len(answer.events) = 2 /\ Head(answer.events) = outcome.status
      BY <3>3
    <3> QED
      BY <1>3, <2>0, <2>1, <3>1, <3>4 DEF AuditedReport, Last
  <2>3. CASE second.raises # "nothing"
    BY <2>1, <2>3 DEF Failing, Empty, AuditedReport
  <2> QED
    BY <2>2, <2>3
<1> QED
  BY <1>1, <1>2, <1>3

LEMMA OutcomesHaveStatus ==
  ASSUME NEW r \in Request, NEW outcome \in Outcomes(r)
  PROVE  outcome.status \in Statuses
<1>1. Report(r).status \in Statuses
  BY DEF Report, Empty, Statuses, Reported
<1>2. \A aware \in BOOLEAN : Neo4jReport(r, aware).status \in Statuses
  BY DEF Neo4jReport, Empty, Statuses, Reported
<1> QED
  BY <1>1, <1>2 DEF Outcomes, Empty, Statuses, Reported

(***************************************************************************)
(* No report and no error leaves check() without its event, whichever of   *)
(* its two audits raises, in whichever way, and whether it was stored.  A  *)
(* second event can only be that of the report which the sink stored and   *)
(* did not acknowledge.                                                    *)
(***************************************************************************)
THEOREM EveryReportAudited == ConsistencySpec => []ReportsAreAudited
<1>1. ConsistencyInit => ReportsAreAudited
  BY DEF ConsistencyInit, Empty, ReportsAreAudited
<1>2. ReportsAreAudited /\ [ConsistencyNext]_consistencyVars => ReportsAreAudited'
  <2> SUFFICES ASSUME ReportsAreAudited, [ConsistencyNext]_consistencyVars PROVE ReportsAreAudited'
    OBVIOUS
  <2>1. ASSUME NEW r \in Request, NEW answer \in Answers(r), Ends(answer) PROVE ReportsAreAudited'
    <3>1. AuditedReport(answer.report, answer.events)
      BY OutcomesHaveStatus, EndingAudited DEF Answers
    <3> QED
      BY <2>1, <3>1 DEF Ends, AuditedReport, ReportsAreAudited
  <2>2. CASE UNCHANGED <<report, events>>
    BY <2>2 DEF ReportsAreAudited
  <2> QED
    BY <2>1, <2>2 DEF ConsistencyNext, Ingest, Check, CheckAndKeep, consistencyVars
<1> QED
  BY <1>1, <1>2, PTL DEF ConsistencySpec

-----------------------------------------------------------------------------
\* A smaller scope sees no more implementers of a record than the whole graph.
LEMMA ScopesNarrow ==
  ASSUME NEW i \in Id, NEW scope \in SUBSET Id, NEW kinds
  PROVE  /\ SnapshotNodes(scope) \subseteq SnapshotNodes({})
         /\ SnapshotEdges(scope) \subseteq SnapshotEdges({})
         /\ ImplementersOf(i, kinds, scope) \subseteq ImplementersOf(i, kinds, {})
         /\ ImplementedBy(i, kinds, scope) \subseteq ImplementedBy(i, kinds, {})
<1>1. Ids(scope) \subseteq Ids({})
  BY DEF Ids
<1>2. SnapshotNodes(scope) \subseteq SnapshotNodes({}) /\ SnapshotEdges(scope) \subseteq SnapshotEdges({})
  BY <1>1 DEF SnapshotNodes, SnapshotEdges
<1> QED
  BY <1>2 DEF ImplementersOf, ImplementedBy, IsA

\* The two ways in which a finding comes about, before a step and after it.
LEMMA FindingForms ==
  ASSUME NEW scope, NEW f \in Findings(scope)
  PROVE  \/ /\ f \in [rule : Rules, subject : SnapshotNodes(scope), expected : {"of the record"}, relation : {Absent}]
            /\ Violates(f.subject, f.rule, scope)
         \/ \E k \in SnapshotEdges(scope) :
              /\ edges[k] \notin FactEdge /\ k.from \in SnapshotNodes(scope)
              /\ f = [rule |-> "missing_provenance", subject |-> k.from,
                      expected |-> "of its relation", relation |-> k]
BY Zenon DEF Findings

LEMMA NewFindingForms ==
  ASSUME NEW scope, NEW f \in Findings(scope)'
  PROVE  \/ /\ f \in [rule : Rules, subject : SnapshotNodes(scope)', expected : {"of the record"}, relation : {Absent}]
            /\ Violates(f.subject, f.rule, scope)'
         \/ \E k \in SnapshotEdges(scope)' :
              /\ edges'[k] \notin FactEdge /\ k.from \in SnapshotNodes(scope)'
              /\ f = [rule |-> "missing_provenance", subject |-> k.from,
                      expected |-> "of its relation", relation |-> k]
BY Zenon DEF Findings

LEMMA ScopesMissNothing == ScopeMissesNothing
<1> SUFFICES ASSUME NEW r \in Request, NEW f \in Findings({}), f.subject \in r.scope
             PROVE  f \in Findings(r.scope)
  BY DEF ScopeMissesNothing
<1>0. r.scope \in SUBSET Id
  BY ConsistencyAssumption
<1>1. f.subject \in SnapshotNodes({}) => f.subject \in SnapshotNodes(r.scope)
  BY DEF SnapshotNodes, Ids
<1>2. CASE /\ f \in [rule : Rules, subject : SnapshotNodes({}), expected : {"of the record"}, relation : {Absent}]
           /\ Violates(f.subject, f.rule, {})
  <2>1. f \in [rule : Rules, subject : SnapshotNodes({}), expected : {"of the record"}, relation : {Absent}]
    BY <1>2
  <2>2. f.subject \in SnapshotNodes(r.scope) /\ f.subject \in Id
    BY <1>1, <2>1 DEF SnapshotNodes, Ids
  <2>3. Violates(f.subject, f.rule, r.scope)
    <3> DEFINE i == f.subject
    <3>1. \A kinds : /\ ImplementersOf(i, kinds, r.scope) \subseteq ImplementersOf(i, kinds, {})
                     /\ ImplementedBy(i, kinds, r.scope) \subseteq ImplementedBy(i, kinds, {})
      BY <1>0, <2>2, ScopesNarrow
    <3>2. \A kinds : IsA(i, kinds, SnapshotNodes({})) => IsA(i, kinds, SnapshotNodes(r.scope))
      BY <2>2 DEF IsA
    <3>3. f.rule \in Rules
      BY <2>1
    <3> HIDE DEF i
    <3>4. ASSUME NEW rule \in Rules, Violates(i, rule, {}) PROVE Violates(i, rule, r.scope)
      <4>1. CASE rule = "requirement_without_implementation"
        BY <3>1, <3>2, <3>4, <4>1 DEF Violates
      <4>2. CASE rule = "design_without_implementation"
        BY <3>1, <3>2, <3>4, <4>2 DEF Violates
      <4>3. CASE rule = "implementation_without_requirement"
        BY <3>1, <3>2, <3>4, <4>3 DEF Violates
      <4>4. CASE rule = "missing_provenance"
        BY <2>2, <3>4, <4>4 DEF Violates, i
      <4> QED
        BY <4>1, <4>2, <4>3, <4>4 DEF Rules
    <3> QED
      BY <1>2, <3>3, <3>4 DEF i
  <2>4. f \in [rule : Rules, subject : SnapshotNodes(r.scope), expected : {"of the record"}, relation : {Absent}]
    BY <2>1, <2>2
  <2> QED
    BY <2>3, <2>4 DEF Findings
<1>3. ASSUME NEW k \in SnapshotEdges({}), edges[k] \notin FactEdge, k.from \in SnapshotNodes({}),
             f = [rule |-> "missing_provenance", subject |-> k.from,
                  expected |-> "of its relation", relation |-> k]
      PROVE  f \in Findings(r.scope)
  <2>1. k \in SnapshotEdges(r.scope) /\ k.from \in SnapshotNodes(r.scope)
    BY <1>1, <1>3 DEF SnapshotEdges, SnapshotNodes, Ids
  <2> QED
    BY <1>3, <2>1 DEF Findings
<1> QED
  BY <1>2, <1>3, FindingForms

LEMMA CandidatesShown == InsufficiencyShown
<1> SUFFICES ASSUME NEW r \in Request, r.proposed, r.scope # {},
                    \A i \in r.scope : nodes[i] \in Node \ ApprovedNode,
                    Report(r).status # "query_limit_exceeded"
             PROVE  /\ Report(r).status = "ok"
                    /\ \A i \in r.scope : Kind[nodes[i]] \in {"Requirement", "Design", "Code", "Feature"} =>
                         \E x \in Report(r).findings : x.finding.subject = i
  BY DEF InsufficiencyShown
<1>1. r.scope \subseteq Id /\ Candidates(r.scope) = r.scope /\ SnapshotNodes(r.scope) = {}
  BY ConsistencyAssumption, AbsentAssumption DEF Candidates, SnapshotNodes, Ids
<1>2. ~ Unknown(r)
  BY <1>1, AbsentAssumption DEF Unknown
<1>3. Report(r).status = "ok" /\ Report(r).findings = AllFindings(r)
  BY <1>2 DEF Report, Empty
<1>4. ASSUME NEW i \in r.scope, Kind[nodes[i]] \in {"Requirement", "Design", "Code", "Feature"}
      PROVE  \E x \in AllFindings(r) : x.finding.subject = i
  <2> DEFINE f == [rule |-> IF Kind[nodes[i]] = "Requirement" THEN "requirement_without_implementation"
                                                              ELSE "implementation_without_requirement",
                   subject |-> i, expected |-> "evidence", relation |-> Absent]
  <2>1. f \in CandidateFindings(r.scope)
    BY <1>1, <1>4, Zenon DEF CandidateFindings
  <2> DEFINE x == [finding |-> f, state |-> "evidence_insufficient"]
  <2>2. x \in Insufficient(CandidateFindings(r.scope))
    BY <2>1 DEF Insufficient
  <2>3. x \in AllFindings(r)
    BY <1>1, <2>2 DEF AllFindings
  <2>4. x.finding.subject = i
    OBVIOUS
  <2> QED
    BY <2>3, <2>4
<1> QED
  BY <1>3, <1>4

(***************************************************************************)
(* In any graph whatever, the check of a scope finds of its records what   *)
(* the check of the whole graph finds, and candidates are not passed over. *)
(***************************************************************************)
THEOREM NoSilentPass == ConsistencySpec => []ChecksMissNothing
BY ScopesMissNothing, CandidatesShown, PTL DEF ChecksMissNothing

-----------------------------------------------------------------------------
LEMMA Untouched ==
  ASSUME TypeOK, [Next]_vars
  PROVE  /\ \A i \in Id  : nodes[i] # Absent => nodes'[i] = nodes[i]
         /\ \A k \in Key : edges[k] # Absent => edges'[k] = edges[k]
BY StepKeeps

\* What has been implemented stays so, in any scope: implementers are only added.
LEMMA EvidenceStays ==
  ASSUME TypeOK, [Next]_vars, NEW scope \in SUBSET Id, NEW i \in Id, NEW kinds
  PROVE  /\ ImplementersOf(i, kinds, scope) \subseteq ImplementersOf(i, kinds, scope)'
         /\ ImplementedBy(i, kinds, scope) \subseteq ImplementedBy(i, kinds, scope)'
<1>1. \A j \in Id : nodes[j] # Absent => nodes'[j] = nodes[j]
  BY Untouched
<1>2. \A k \in Key : edges[k] # Absent => edges'[k] = edges[k]
  BY Untouched
<1>3. \A j \in SnapshotNodes(scope) : j \in SnapshotNodes(scope)' /\ nodes'[j] = nodes[j]
  BY <1>1 DEF SnapshotNodes, Ids
<1>4. \A k \in SnapshotEdges(scope) : k \in SnapshotEdges(scope)' /\ edges'[k] = edges[k]
  BY <1>1, <1>2, AbsentAssumption, ConsistencyAssumption DEF SnapshotEdges, Ids, Key
<1> QED
  BY <1>3, <1>4 DEF ImplementersOf, ImplementedBy, IsA

\* What a rule does not find of a registered record, it does not find later.
LEMMA NothingNewOfOldRecords ==
  ASSUME TypeOK, [Next]_vars, NEW scope \in SUBSET Id, NEW f \in Findings(scope)',
         f.relation = Absent, nodes[f.subject] # Absent
  PROVE  f \in Findings(scope)
<1>1. /\ f \in [rule : Rules, subject : SnapshotNodes(scope)', expected : {"of the record"}, relation : {Absent}]
      /\ Violates(f.subject, f.rule, scope)'
  <2>1. ~ \E k \in SnapshotEdges(scope)' :
            /\ edges'[k] \notin FactEdge /\ k.from \in SnapshotNodes(scope)'
            /\ f = [rule |-> "missing_provenance", subject |-> k.from,
                    expected |-> "of its relation", relation |-> k]
    <3> SUFFICES ASSUME NEW k \in SnapshotEdges(scope)',
                        f = [rule |-> "missing_provenance", subject |-> k.from,
                             expected |-> "of its relation", relation |-> k]
                 PROVE  FALSE
      BY Zenon
    <3>1. f.relation = k
      OBVIOUS
    <3>2. k \in Key
      BY DEF SnapshotEdges
    <3> QED
      BY <3>1, <3>2, ConsistencyAssumption
  <2> QED
    BY <2>1, NewFindingForms, Zenon
<1>2. f.subject \in Id /\ nodes'[f.subject] = nodes[f.subject]
  BY <1>1, Untouched DEF SnapshotNodes, Ids
<1>3. f.subject \in SnapshotNodes(scope)
  BY <1>1, <1>2 DEF SnapshotNodes, Ids
<1>4. Violates(f.subject, f.rule, scope)
  <2> DEFINE i == f.subject
  <2>1. \A kinds : /\ ImplementersOf(i, kinds, scope) \subseteq ImplementersOf(i, kinds, scope)'
                   /\ ImplementedBy(i, kinds, scope) \subseteq ImplementedBy(i, kinds, scope)'
    BY <1>2, EvidenceStays
  <2>2. \A kinds : IsA(i, kinds, SnapshotNodes(scope))' => IsA(i, kinds, SnapshotNodes(scope))
    BY <1>2, <1>3 DEF IsA
  <2>3. f.rule \in Rules
    BY <1>1
  <2>4. i \in SnapshotNodes(scope) /\ nodes'[i] = nodes[i]
    BY <1>2, <1>3
  <2> HIDE DEF i
  <2>5. ASSUME NEW rule \in Rules, Violates(i, rule, scope)'
        PROVE  Violates(i, rule, scope)
    <3>1. CASE rule = "requirement_without_implementation"
      BY <2>1, <2>2, <2>5, <3>1 DEF Violates
    <3>2. CASE rule = "design_without_implementation"
      BY <2>1, <2>2, <2>5, <3>2 DEF Violates
    <3>3. CASE rule = "implementation_without_requirement"
      BY <2>1, <2>2, <2>5, <3>3 DEF Violates
    <3>4. CASE rule = "missing_provenance"
      BY <2>4, <2>5, <3>4 DEF Violates
    <3> QED
      BY <3>1, <3>2, <3>3, <3>4 DEF Rules
  <2> QED
    BY <1>1, <2>3, <2>5 DEF i
<1>5. f \in [rule : Rules, subject : SnapshotNodes(scope), expected : {"of the record"}, relation : {Absent}]
  BY <1>1, <1>3
<1> QED
  BY <1>4, <1>5 DEF Findings

LEMMA StepClears == TypeOK /\ [Next]_vars => ClearedStaysCleared
<1> SUFFICES ASSUME TypeOK, [Next]_vars, NEW f \in Findings({})',
                    f.rule # "missing_provenance", nodes[f.subject] # Absent
             PROVE  f \in Findings({})
  BY DEF ClearedStaysCleared
<1>1. f.relation = Absent
  <2>1. ~ \E k \in SnapshotEdges({})' :
            /\ edges'[k] \notin FactEdge /\ k.from \in SnapshotNodes({})'
            /\ f = [rule |-> "missing_provenance", subject |-> k.from,
                    expected |-> "of its relation", relation |-> k]
    <3> SUFFICES ASSUME NEW k \in SnapshotEdges({})',
                        f = [rule |-> "missing_provenance", subject |-> k.from,
                             expected |-> "of its relation", relation |-> k]
                 PROVE  FALSE
      BY Zenon
    <3>1. f.rule = "missing_provenance"
      OBVIOUS
    <3> QED
      BY <3>1
  <2>2. f \in [rule : Rules, subject : SnapshotNodes({})', expected : {"of the record"}, relation : {Absent}]
    BY <2>1, NewFindingForms, Zenon
  <2> QED
    BY <2>2
<1> QED
  BY <1>1, NothingNewOfOldRecords

-----------------------------------------------------------------------------
\* A step that adds nothing approved shows the rules the same graph.
LEMMA SameEvidence ==
  ASSUME TypeOK, EndpointsRegistered, [Next]_vars,
         \A i \in Id  : nodes[i] = Absent /\ nodes'[i] # Absent => nodes'[i] \notin ApprovedNode,
         \A k \in Key : edges[k] = Absent /\ edges'[k] # Absent => edges'[k] \notin ApprovedEdge
  PROVE  /\ SnapshotNodes({})' = SnapshotNodes({})
         /\ SnapshotEdges({})' = SnapshotEdges({})
         /\ \A i \in SnapshotNodes({}) : nodes'[i] = nodes[i]
         /\ \A k \in SnapshotEdges({}) : edges'[k] = edges[k]
<1>1. Absent \notin ApprovedNode /\ Absent \notin ApprovedEdge
  BY AbsentAssumption, ConsistencyAssumption
<1>2. \A i \in Id : (nodes'[i] \in ApprovedNode <=> nodes[i] \in ApprovedNode)
                    /\ (nodes[i] # Absent => nodes'[i] = nodes[i])
  BY <1>1, Untouched
<1>3. \A k \in Key : (edges'[k] \in ApprovedEdge <=> edges[k] \in ApprovedEdge)
                     /\ (edges[k] # Absent => edges'[k] = edges[k])
  BY <1>1, Untouched
<1>4. SnapshotNodes({})' = SnapshotNodes({}) /\ \A i \in SnapshotNodes({}) : nodes'[i] = nodes[i]
  BY <1>1, <1>2 DEF SnapshotNodes, Ids
<1>5. ASSUME NEW k \in Key
      PROVE  k \in SnapshotEdges({})' <=> k \in SnapshotEdges({})
  <2>1. k.from \in Id /\ k.to \in Id
    BY DEF Key
  <2>2. edges[k] \in ApprovedEdge => k.from \in Ids({}) /\ k.from \in Ids({})'
    BY <1>1, <1>2, <2>1 DEF EndpointsRegistered, Ids
  <2> QED
    BY <1>3, <2>2 DEF SnapshotEdges
<1>6. SnapshotEdges({})' = SnapshotEdges({})
  BY <1>5 DEF SnapshotEdges
<1>7. \A k \in SnapshotEdges({}) : edges'[k] = edges[k]
  BY <1>1, <1>3 DEF SnapshotEdges
<1> QED
  BY <1>4, <1>6, <1>7

LEMMA StepDecides == TypeOK /\ EndpointsRegistered /\ [Next]_vars => ProposalsChangeNothing
<1> SUFFICES ASSUME TypeOK, EndpointsRegistered, [Next]_vars,
                    \A i \in Id  : nodes[i] = Absent /\ nodes'[i] # Absent => nodes'[i] \notin ApprovedNode,
                    \A k \in Key : edges[k] = Absent /\ edges'[k] # Absent => edges'[k] \notin ApprovedEdge
             PROVE  Findings({})' = Findings({})
  BY DEF ProposalsChangeNothing
<1>1. /\ SnapshotNodes({})' = SnapshotNodes({})
      /\ SnapshotEdges({})' = SnapshotEdges({})
      /\ \A i \in SnapshotNodes({}) : nodes'[i] = nodes[i]
      /\ \A k \in SnapshotEdges({}) : edges'[k] = edges[k]
  BY SameEvidence
<1>2. \A i, kinds : IsA(i, kinds, SnapshotNodes({}))' <=> IsA(i, kinds, SnapshotNodes({}))
  BY <1>1 DEF IsA
<1>3. \A i, kinds : /\ ImplementersOf(i, kinds, {})' = ImplementersOf(i, kinds, {})
                    /\ ImplementedBy(i, kinds, {})' = ImplementedBy(i, kinds, {})
  BY <1>1 DEF ImplementersOf, ImplementedBy, IsA
<1>4. ASSUME NEW i \in SnapshotNodes({}), NEW rule \in Rules
      PROVE  Violates(i, rule, {})' <=> Violates(i, rule, {})
  <2>1. CASE rule = "requirement_without_implementation"
    BY <1>2, <1>3, <2>1 DEF Violates
  <2>2. CASE rule = "design_without_implementation"
    BY <1>2, <1>3, <2>2 DEF Violates
  <2>3. CASE rule = "implementation_without_requirement"
    BY <1>2, <1>3, <2>3 DEF Violates
  <2>4. CASE rule = "missing_provenance"
    BY <1>1, <1>4, <2>4 DEF Violates
  <2> QED
    BY <1>4, <2>1, <2>2, <2>3, <2>4 DEF Rules
<1>5. ASSUME NEW f \in Findings({}) PROVE f \in Findings({})'
  <2>1. CASE /\ f \in [rule : Rules, subject : SnapshotNodes({}), expected : {"of the record"}, relation : {Absent}]
             /\ Violates(f.subject, f.rule, {})
    BY <1>1, <1>4, <2>1 DEF Findings
  <2>2. ASSUME NEW k \in SnapshotEdges({}), edges[k] \notin FactEdge, k.from \in SnapshotNodes({}),
               f = [rule |-> "missing_provenance", subject |-> k.from,
                    expected |-> "of its relation", relation |-> k]
        PROVE  f \in Findings({})'
    BY <1>1, <2>2 DEF Findings
  <2> QED
    BY <2>1, <2>2, FindingForms
<1>6. ASSUME NEW f \in Findings({})' PROVE f \in Findings({})
  <2>1. CASE /\ f \in [rule : Rules, subject : SnapshotNodes({})', expected : {"of the record"}, relation : {Absent}]
             /\ Violates(f.subject, f.rule, {})'
    BY <1>1, <1>4, <2>1 DEF Findings
  <2>2. ASSUME NEW k \in SnapshotEdges({})', edges'[k] \notin FactEdge, k.from \in SnapshotNodes({})',
               f = [rule |-> "missing_provenance", subject |-> k.from,
                    expected |-> "of its relation", relation |-> k]
        PROVE  f \in Findings({})
    BY <1>1, <2>2 DEF Findings
  <2> QED
    BY <2>1, <2>2, NewFindingForms
<1> QED
  BY <1>5, <1>6

(***************************************************************************)
(* Evidence, and nothing else, decides: no proposal or inference clears a  *)
(* finding or causes one, and a rule about implementation that evidence    *)
(* has cleared for a record stays clear, whatever batches come later.      *)
(***************************************************************************)
THEOREM EvidenceAlwaysDecides == ConsistencySpec => EvidenceDecides
<1>1. TypeOK /\ EndpointsRegistered /\ [Next]_vars => [ProposalsChangeNothing /\ ClearedStaysCleared]_<<nodes, edges>>
  BY StepDecides, StepClears
<1> QED
  BY <1>1, StoreUnderneath, TypeCorrect, NoDanglingRelation, PTL DEF Spec, EvidenceDecides

-----------------------------------------------------------------------------
\* A report that is "ok" holds what AllFindings found, and nothing else was lost.
LEMMA GoodAnswer ==
  ASSUME NEW r \in Request, NEW answer \in Answers(r), answer.report.status = "ok"
  PROVE  answer.report.findings = AllFindings(r)
<1>1. PICK outcome \in Outcomes(r), first \in Sink, second \in Sink :
        answer = Ending(outcome, first, second)
  BY DEF Answers
<1>2. outcome.status \in Reported /\ first.raises = "nothing"
  BY <1>1 DEF Ending, Failing, Code, Empty, Reported
<1>3. answer.report = outcome /\ outcome.status = "ok"
  BY <1>1, <1>2 DEF Ending
<1>4. outcome = Report(r)
  BY <1>3 DEF Outcomes, Neo4jReport, Empty
<1> QED
  BY <1>3, <1>4 DEF Report, Empty

\* The baseline holds what the rules find, now, of the records of its time.
BaselineCovers ==
  kept # Absent =>
    /\ kept.request \in Request
    /\ \A i \in kept.ids : nodes[i] # Absent
    /\ \A f \in Findings(kept.request.scope) :
         f.relation = Absent /\ f.subject \in kept.ids
           => Fingerprint(f, kept.request.base) \in baseline

LEMMA CoversMeansOld == BaselineCovers => OldFindingsStayOld
<1> SUFFICES ASSUME BaselineCovers, kept # Absent,
                    NEW x \in Report(kept.request).findings,
                    x.state = "open", x.finding.relation = Absent, x.finding.subject \in kept.ids
             PROVE  FALSE
  BY DEF OldFindingsStayOld
<1> DEFINE r == kept.request
<1>1. x \in AllFindings(r)
  BY DEF Report, Empty
<1>2. x \in Diffed(Findings(r.scope), r.base)
  BY <1>1 DEF AllFindings, Insufficient
<1>3. PICK f \in Findings(r.scope) :
        x = [finding |-> f,
             state |-> IF Fingerprint(f, r.base) \in baseline THEN "existing" ELSE "open"]
  BY <1>2 DEF Diffed
<1>4. x.finding = f /\ Fingerprint(f, r.base) \notin baseline
  BY <1>3
<1> QED
  BY <1>4 DEF BaselineCovers

LEMMA KeepingCovers ==
  ASSUME NEW r \in Request, CheckAndKeep(r)
  PROVE  BaselineCovers'
<1>1. PICK answer \in Answers(r) :
        /\ answer.report.status = "ok"
        /\ baseline' = Kept(r, answer.report.findings)
        /\ kept' = [request |-> r, ids |-> Ids({})]
        /\ UNCHANGED vars
  BY DEF CheckAndKeep
<1>2. answer.report.findings = AllFindings(r)
  BY <1>1, GoodAnswer
<1>3. ASSUME NEW f \in Findings(r.scope) PROVE Fingerprint(f, r.base) \in baseline'
  <2> DEFINE x == [finding |-> f,
                   state |-> IF Fingerprint(f, r.base) \in baseline THEN "existing" ELSE "open"]
  <2>1. x \in Diffed(Findings(r.scope), r.base)
    BY <1>3, Zenon DEF Diffed
  <2>2. x \in AllFindings(r)
    BY <2>1 DEF AllFindings
  <2>3. x.finding = f
    OBVIOUS
  <2> HIDE DEF x
  <2> QED
    BY <1>1, <1>2, <2>2, <2>3 DEF Kept
<1>4. /\ kept'.request = r /\ kept'.ids = Ids({})
      /\ nodes' = nodes /\ edges' = edges
  BY <1>1 DEF vars
<1>5. Findings(r.scope)' = Findings(r.scope)
  BY <1>4 DEF Findings, Violates, ImplementersOf, ImplementedBy, IsA, SnapshotEdges, SnapshotNodes, Ids
<1>6. \A i \in kept'.ids : nodes'[i] # Absent
  BY <1>4 DEF Ids
<1> QED
  BY <1>3, <1>4, <1>5, <1>6 DEF BaselineCovers, Fingerprint

LEMMA IngestCovers ==
  ASSUME TypeOK, BaselineCovers, [Next]_vars, UNCHANGED <<baseline, kept>>,
         kept.ids \subseteq Id
  PROVE  BaselineCovers'
<1> SUFFICES ASSUME kept # Absent PROVE BaselineCovers'
  BY DEF BaselineCovers
<1>1. kept.request \in Request /\ kept.request.scope \in SUBSET Id
  BY ConsistencyAssumption DEF BaselineCovers
<1>2. \A i \in kept.ids : nodes'[i] # Absent
  BY Untouched DEF BaselineCovers
<1>3. ASSUME NEW f \in Findings(kept.request.scope)', f.relation = Absent, f.subject \in kept.ids
      PROVE  Fingerprint(f, kept.request.base) \in baseline
  <2>1. nodes[f.subject] # Absent
    BY <1>3 DEF BaselineCovers
  <2>2. f \in Findings(kept.request.scope)
    BY <1>1, <1>3, <2>1, NothingNewOfOldRecords
  <2> QED
    BY <1>3, <2>2 DEF BaselineCovers
<1> QED
  BY <1>1, <1>2, <1>3 DEF BaselineCovers, Fingerprint

(***************************************************************************)
(* What was there before a baseline never fails a later pull request that  *)
(* asks the same of the same base: the baseline holds the fingerprint of   *)
(* every finding there still is of the records registered at the time.     *)
(***************************************************************************)
THEOREM OldFindingsNeverOpen == ConsistencySpec => []OldFindingsStayOld
<1> DEFINE Inv == BaselineCovers /\ (kept # Absent => kept.ids \subseteq Id)
<1>1. ConsistencyInit => Inv
  BY DEF ConsistencyInit, BaselineCovers
<1>2. TypeOK /\ Inv /\ [ConsistencyNext]_consistencyVars => Inv'
  <2> SUFFICES ASSUME TypeOK, Inv, [ConsistencyNext]_consistencyVars PROVE Inv'
    OBVIOUS
  <2>1. ASSUME NEW r \in Request, CheckAndKeep(r) PROVE Inv'
    <3>1. kept'.ids \subseteq Id
      <4>1. kept' = [request |-> r, ids |-> Ids({})]
        BY <2>1 DEF CheckAndKeep
      <4> QED
        BY <4>1 DEF Ids
    <3> QED
      BY <2>1, <3>1, KeepingCovers
  <2>2. CASE [Next]_vars /\ UNCHANGED <<baseline, kept>>
    <3>1. CASE kept = Absent
      BY <2>2, <3>1 DEF BaselineCovers
    <3> QED
      BY <2>2, <3>1, IngestCovers
  <2> QED
    BY <2>1, <2>2, GraphStep DEF ConsistencyNext, Ingest, Check, consistencyVars
<1>3. Inv => OldFindingsStayOld
  BY CoversMeansOld
<1> QED
  BY <1>1, <1>2, <1>3, StoreUnderneath, TypeCorrect, PTL DEF ConsistencySpec

-----------------------------------------------------------------------------
Reports == [status : Statuses, findings : SUBSET [finding : Finding, state : States]]

LEMMA FindingsTyped ==
  ASSUME NEW scope
  PROVE  Findings(scope) \subseteq Finding /\ CandidateFindings(scope) \subseteq Finding
<1>1. SnapshotNodes(scope) \subseteq Id /\ Candidates(scope) \subseteq Id
  BY DEF SnapshotNodes, Candidates, Ids
<1>2. ASSUME NEW f \in Findings(scope) PROVE f \in Finding
  <2>1. CASE f \in [rule : Rules, subject : SnapshotNodes(scope), expected : {"of the record"},
                    relation : {Absent}]
    BY <1>1, <2>1 DEF Finding, Expectations
  <2>2. ASSUME NEW k \in SnapshotEdges(scope), k.from \in SnapshotNodes(scope),
               f = [rule |-> "missing_provenance", subject |-> k.from,
                    expected |-> "of its relation", relation |-> k]
        PROVE  f \in Finding
    <3>1. k \in Key /\ k.from \in Id
      BY <1>1, <2>2 DEF SnapshotEdges
    <3> QED
      BY <2>2, <3>1 DEF Finding, Rules, Expectations
  <2> QED
    BY <2>1, <2>2, FindingForms
<1>3. ASSUME NEW f \in CandidateFindings(scope) PROVE f \in Finding
  <2>1. PICK i \in Candidates(scope) :
          f = [rule |-> IF Kind[nodes[i]] = "Requirement" THEN "requirement_without_implementation"
                                                          ELSE "implementation_without_requirement",
               subject |-> i, expected |-> "evidence", relation |-> Absent]
    BY <1>3, Zenon DEF CandidateFindings
  <2>2. i \in Id
    BY <1>1
  <2> QED
    BY <2>1, <2>2 DEF Finding, Rules, Expectations
<1> QED
  BY <1>2, <1>3

LEMMA OutcomesTyped ==
  ASSUME NEW r \in Request, NEW outcome \in Outcomes(r)
  PROVE  outcome \in Reports
<1>1. \A status \in Statuses : Empty(status) \in Reports
  BY DEF Empty, Reports
<1>2. AllFindings(r) \subseteq [finding : Finding, state : States]
  <2>1. \A F \in SUBSET Finding : Diffed(F, r.base) \subseteq [finding : Finding, state : States]
    BY DEF Diffed, States
  <2>2. \A F \in SUBSET Finding : Insufficient(F) \subseteq [finding : Finding, state : States]
    BY DEF Insufficient, States
  <2>3. Findings(r.scope) \in SUBSET Finding /\ CandidateFindings(r.scope) \in SUBSET Finding
    BY FindingsTyped
  <2> QED
    BY <2>1, <2>2, <2>3 DEF AllFindings
<1>3. Report(r) \in Reports
  <2>1. [status |-> "ok", findings |-> AllFindings(r)] \in Reports
    BY <1>2 DEF Reports, Statuses, Reported
  <2> QED
    BY <1>1, <2>1 DEF Report, Statuses, Reported
<1>4. \A aware \in BOOLEAN : Neo4jReport(r, aware) \in Reports
  BY <1>1 DEF Neo4jReport, Statuses, Reported
<1> QED
  BY <1>1, <1>3, <1>4 DEF Outcomes, Statuses, Reported

LEMMA AnswersTyped ==
  ASSUME NEW r \in Request, NEW answer \in Answers(r)
  PROVE  answer.report \in Reports /\ answer.events \in Seq(Statuses)
<1>1. PICK outcome \in Outcomes(r), first \in Sink, second \in Sink :
        answer = Ending(outcome, first, second)
  BY DEF Answers
<1>2. outcome \in Reports /\ outcome.status \in Statuses
  BY OutcomesTyped DEF Reports
<1>3. ASSUME NEW code \in Statuses, NEW sink \in Sink
      PROVE  /\ Failing(code, sink).report \in Reports
             /\ Failing(code, sink).events \in Seq(Statuses)
             /\ Sent(code, sink) \in Seq(Statuses)
  <2>1. Sent(code, sink) \in Seq(Statuses)
    BY DEF Sent
  <2>2. (IF sink.raises = "nothing" THEN code ELSE "audit_unavailable") \in Statuses
    BY DEF Statuses
  <2> QED
    BY <2>1, <2>2 DEF Failing, Empty, Reports
<1>4. CASE outcome.status \notin Reported
  BY <1>1, <1>2, <1>3, <1>4 DEF Ending
<1>5. CASE outcome.status \in Reported /\ first.raises = "nothing"
  <2>1. answer = [report |-> outcome, events |-> Sent(outcome.status, first)]
    BY <1>1, <1>5 DEF Ending
  <2> QED
    BY <1>2, <1>3, <2>1
<1>6. CASE outcome.status \in Reported /\ first.raises # "nothing"
  <2> DEFINE failed == Failing(Code(first), second)
  <2>1. /\ answer.report = failed.report
        /\ answer.events = Sent(outcome.status, first) \o failed.events
    BY <1>1, <1>6 DEF Ending, Failing
  <2>2. Code(first) \in Statuses
    BY DEF Code, Statuses
  <2>3. failed.report \in Reports /\ failed.events \in Seq(Statuses)
    BY <1>3, <2>2
  <2>4. Sent(outcome.status, first) \in Seq(Statuses)
    BY <1>2, <1>3
  <2> HIDE DEF failed
  <2> QED
    BY <2>1, <2>3, <2>4
<1> QED
  BY <1>4, <1>5, <1>6

(***************************************************************************)
(* Reports hold findings of the four rules about ids and keys, and events  *)
(* name nothing but statuses, whichever audit is refused; what CI keeps as *)
(* a baseline are fingerprints of such findings.                           *)
(***************************************************************************)
THEOREM ConsistencyTypeCorrect == ConsistencySpec => []ConsistencyTypeOK
<1> DEFINE Mine == /\ report \in Reports /\ events \in Seq(Statuses)
                   /\ baseline \subseteq [rule : Rules, subject : Id, expected : Expectations,
                                          basis : Revision]
                   /\ kept \in [request : Request, ids : SUBSET Id] \cup {Absent}
<1>1. ConsistencyInit => Mine
  BY DEF ConsistencyInit, Empty, Reports, Statuses
<1>2. Mine /\ [ConsistencyNext]_consistencyVars => Mine'
  <2> SUFFICES ASSUME Mine, [ConsistencyNext]_consistencyVars PROVE Mine'
    OBVIOUS
  <2>1. ASSUME NEW r \in Request, Check(r) PROVE Mine'
    BY <2>1, AnswersTyped DEF Check, Ends
  <2>2. ASSUME NEW r \in Request, CheckAndKeep(r) PROVE Mine'
    <3>1. PICK answer \in Answers(r) :
            /\ answer.report.status = "ok" /\ Ends(answer)
            /\ baseline' = Kept(r, answer.report.findings)
            /\ kept' = [request |-> r, ids |-> Ids({})]
      BY <2>2 DEF CheckAndKeep
    <3>2. answer.report \in Reports /\ answer.events \in Seq(Statuses)
      BY AnswersTyped
    <3>3. r.base \in Revision /\ \A x \in answer.report.findings : x.finding \in Finding
      BY <3>2, ConsistencyAssumption DEF Reports
    <3>4. baseline' \subseteq [rule : Rules, subject : Id, expected : Expectations, basis : Revision]
      BY <3>1, <3>3 DEF Kept, Fingerprint, Finding
    <3>5. Ids({}) \in SUBSET Id
      BY DEF Ids
    <3> QED
      BY <3>1, <3>2, <3>4, <3>5 DEF Ends
  <2>3. CASE UNCHANGED <<report, events, baseline, kept>>
    BY <2>3
  <2> QED
    BY <2>1, <2>2, <2>3 DEF ConsistencyNext, Ingest, consistencyVars
<1>3. TypeOK /\ Mine => ConsistencyTypeOK
  BY DEF ConsistencyTypeOK, Reports
<1> QED
  BY <1>1, <1>2, <1>3, StoreUnderneath, TypeCorrect, PTL DEF ConsistencySpec
=============================================================================
