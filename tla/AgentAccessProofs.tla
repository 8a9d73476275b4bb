-------------------------- MODULE AgentAccessProofs --------------------------
(***************************************************************************)
(* What AgentAccess promises, for any callers, subjects, tokens, caps,     *)
(* windows and errors, and however calls overlap.                          *)
(*                                                                         *)
(* First what it promises of a single call, which sees of the others only  *)
(* a clock and a record of the limiter that both grow; then what the       *)
(* limiter promises of all calls together, from the queues it keeps.       *)
(***************************************************************************)
EXTENDS AgentAccess, FiniteSetTheorems, SequenceTheorems, TLAPS

Steps == {"idle", "authenticate", "handle", "admit", "read", "trace", "audit"}

Typed ==
  /\ now \in Nat
  /\ \A g \in limited : g.at \in Nat /\ g.at <= now
  /\ pc \in [Caller -> Steps]
  /\ readAt \in [Caller -> Int]
  /\ error \in [Caller -> Codes] /\ reply \in [Caller -> Codes \cup {"result", "raised"}]
  /\ args \in [Caller -> Argument \cup {<<>>}]
  /\ log \in [Caller -> SUBSET ({"mcp_tool_call", "graph_trace"} \X Codes)]
  /\ \A k \in Caller : pc[k] # "idle" \/ reply[k] # "none" \/ readAt[k] >= 0 => args[k] \in Argument

\* What the bearer must be when agents get past authenticate() and the limiter.
Authenticated(k) == args[k].bearer.sound /\ AtHome(args[k].bearer)

LetPass(k) == \E g \in limited : g.caller = k /\ g.ok /\ g.at <= now

\* ReadsAreEntitled for one call, and what its next step relies on.
Entitled(k) ==
  LET b == args[k].bearer
  IN  /\ b.sound /\ "read" \in b.scopes /\ MayPropose(args[k])
      /\ args[k].tool # "get_provenance" => readAt[k] < b.exp
      /\ args[k].door = "mcp" =>
           /\ b.tenant = HomeTenant /\ b.inPolicy
           /\ \E g \in limited : g.caller = k /\ g.ok /\ g.at <= readAt[k]

Checked(k) ==
  /\ readAt[k] >= 0 => Entitled(k)
  /\ args[k].door = "mcp" /\ pc[k] \in {"admit", "read"} => Authenticated(k)
  /\ args[k].door = "mcp" /\ pc[k] = "read" => MayPropose(args[k]) /\ LetPass(k)
  /\ pc[k] = "handle" => args[k].door = "http"

ReadInvariant == Typed /\ \A k \in Caller : Checked(k)

-----------------------------------------------------------------------------
LEMMA AccessStart == Init => ReadInvariant
<1> SUFFICES ASSUME Init PROVE ReadInvariant
  OBVIOUS
<1>1. Typed
  BY DEF Init, Typed, Steps, Codes
<1>2. \A k \in Caller : Checked(k)
  BY DEF Init, Checked
<1> QED
  BY <1>1, <1>2 DEF ReadInvariant

\* A call that does not move keeps its facts, whatever is added to the limiter.
LEMMA OthersUntouched ==
  ASSUME Typed, NEW i \in Caller, Checked(i),
         pc'[i] = pc[i], args'[i] = args[i], readAt'[i] = readAt[i],
         limited \subseteq limited', now' \in Nat, now <= now'
  PROVE  Checked(i)'
<1>1. \A g \in limited : g.at \in Nat
  BY DEF Typed
<1>2. LetPass(i) => LetPass(i)'
  BY <1>1 DEF LetPass, Typed
<1>3. Entitled(i) => Entitled(i)'
  BY DEF Entitled, MayPropose
<1> QED
  BY <1>2, <1>3 DEF Checked, Authenticated, MayPropose, AtHome

\* The three ways in which a step leaves a call.
LEMMA GiveTyped ==
  ASSUME Typed, NEW k \in Caller, NEW code \in Codes, Give(k, code)
  PROVE  /\ pc' \in [Caller -> Steps] /\ pc' = [pc EXCEPT ![k] = "audit"]
         /\ error' \in [Caller -> Codes] /\ error' = [error EXCEPT ![k] = Public(code)]
BY DEF Typed, Give, Public, Steps, Codes

LEMMA GoOnTyped ==
  ASSUME Typed, NEW k \in Caller, NEW step \in Steps, GoOn(k, step)
  PROVE  pc' \in [Caller -> Steps] /\ pc' = [pc EXCEPT ![k] = step] /\ error' = error
BY DEF Typed, GoOn

LEMMA AnswerTyped ==
  ASSUME Typed, NEW k \in Caller, NEW code \in Codes, Answer(k, code)
  PROVE  /\ pc' \in [Caller -> Steps] /\ pc' = [pc EXCEPT ![k] = "idle"]
         /\ error' \in [Caller -> Codes] /\ error' = [error EXCEPT ![k] = code]
         /\ reply' \in [Caller -> Codes \cup {"result", "raised"}]
         /\ reply' = [reply EXCEPT ![k] = IF code = "none" THEN "result" ELSE code]
BY DEF Typed, Answer, Steps

LEMMA ErrorsAreCodes ==
  /\ {"none", "unauthorized", "forbidden", "rate_limited", "service_unavailable",
      "internal_error", "invalid_page_token", "unsupported_media_type", "query_timeout",
      "invalid_request"} \subseteq Codes
  /\ \A door \in Door : Escaped(door) \subseteq Codes \ {"none"}
  /\ ParseErrors \subseteq Codes /\ TraceErrors \subseteq Codes /\ ProvenanceErrors \subseteq Codes
BY AccessAssumption DEF ParseErrors, Codes, Escaped, Door

\* One event more is still a log.
LEMMA LogTyped ==
  ASSUME Typed, NEW k \in Caller, NEW event \in {"mcp_tool_call", "graph_trace"} \X Codes
  PROVE  [log EXCEPT ![k] = @ \cup {event}] \in [Caller -> SUBSET ({"mcp_tool_call", "graph_trace"} \X Codes)]
<1> DEFINE Logs == SUBSET ({"mcp_tool_call", "graph_trace"} \X Codes)
<1>1. log \in [Caller -> Logs]
  BY DEF Typed
<1>2. log[k] \cup {event} \in Logs
  BY <1>1
<1> HIDE DEF Logs
<1>3. [log EXCEPT ![k] = @ \cup {event}] \in [Caller -> Logs]
  BY <1>1, <1>2
<1> QED
  BY <1>3 DEF Logs

LEMMA StepTyped == Typed /\ [Next]_vars => Typed'
<1> SUFFICES ASSUME Typed, [Next]_vars PROVE Typed'
  OBVIOUS
<1>1. ASSUME NEW k \in Caller, NEW a \in Argument, NEW step \in {"authenticate", "handle"}, Begin(k, a, step)
      PROVE  Typed'
  BY <1>1, ErrorsAreCodes DEF Begin, Typed, Steps
<1>2. ASSUME NEW k \in Caller, Authenticate(k) PROVE Typed'
  <2>1. ASSUME NEW code \in {"unauthorized", "forbidden"}, Give(k, code) PROVE Typed'
    BY <1>2, <2>1, GiveTyped, ErrorsAreCodes DEF Authenticate, Typed
  <2>2. ASSUME GoOn(k, "admit") PROVE Typed'
    BY <1>2, <2>2, GoOnTyped DEF Authenticate, Typed, Steps
  <2> QED
    BY <1>2, <2>1, <2>2 DEF Authenticate
<1>3. ASSUME NEW k \in Caller, Refused(k) PROVE Typed'
  <2>1. PICK code \in Codes : Give(k, code)
    BY <1>3, ErrorsAreCodes DEF Refused
  <2> QED
    BY <1>3, <2>1, GiveTyped DEF Refused, Typed
<1>4. ASSUME NEW k \in Caller, Limit(k) PROVE Typed'
  <2>1. \A g \in limited' : g.at \in Nat /\ g.at <= now
    BY <1>4 DEF Limit, Typed
  <2>2. ASSUME Give(k, "rate_limited") PROVE Typed'
    BY <1>4, <2>1, <2>2, GiveTyped, ErrorsAreCodes DEF Limit, Typed
  <2>3. ASSUME GoOn(k, "read") PROVE Typed'
    BY <1>4, <2>1, <2>3, GoOnTyped DEF Limit, Typed, Steps
  <2> QED
    BY <1>4, <2>2, <2>3 DEF Limit
<1>5. ASSUME NEW k \in Caller, HttpRefused(k) PROVE Typed'
  <2>1. PICK code \in Codes : Answer(k, code)
    BY <1>5, ErrorsAreCodes DEF HttpRefused
  <2> QED
    BY <1>5, <2>1, AnswerTyped DEF HttpRefused, Typed
<1>6. ASSUME NEW k \in Caller, HttpParsed(k) PROVE Typed'
  BY <1>6, GoOnTyped DEF HttpParsed, Typed, Steps
<1>7. ASSUME NEW k \in Caller, Provenance(k) PROVE Typed'
  <2>1. PICK code \in Codes : Give(k, code)
    BY <1>7, ErrorsAreCodes DEF Provenance
  <2> QED
    BY <1>7, <2>1, GiveTyped DEF Provenance, Typed
<1>8. ASSUME NEW k \in Caller, Trace(k) PROVE Typed'
  <2>1. PICK code \in Codes : error' = [error EXCEPT ![k] = code]
    BY <1>8, ErrorsAreCodes DEF Trace
  <2>2. readAt' \in [Caller -> Int]
    BY <1>8 DEF Trace, Typed
  <2> QED
    BY <1>8, <2>1, <2>2 DEF Trace, Typed, Steps
<1>9. ASSUME NEW k \in Caller, TraceAudit(k) PROVE Typed'
  <2>0. <<"graph_trace", error[k]>> \in {"mcp_tool_call", "graph_trace"} \X Codes
    BY DEF Typed
  <2>1. /\ log' \in [Caller -> SUBSET ({"mcp_tool_call", "graph_trace"} \X Codes)]
        /\ UNCHANGED <<now, limited, args, readAt>>
    <3>1. [log EXCEPT ![k] = @ \cup {<<"graph_trace", error[k]>>}]
            \in [Caller -> SUBSET ({"mcp_tool_call", "graph_trace"} \X Codes)]
      BY <2>0, LogTyped
    <3>2. \/ log' = log
          \/ log' = [log EXCEPT ![k] = @ \cup {<<"graph_trace", error[k]>>}]
      BY <1>9 DEF TraceAudit, Lost, Stored
    <3>3. log \in [Caller -> SUBSET ({"mcp_tool_call", "graph_trace"} \X Codes)]
      BY DEF Typed
    <3>4. UNCHANGED <<now, limited, args, readAt>>
      BY <1>9 DEF TraceAudit
    <3> QED
      BY <3>1, <3>2, <3>3, <3>4
  <2>2. ASSUME NEW code \in Codes, Traced(k, code) PROVE Typed'
    <3>1. CASE Give(k, code) /\ UNCHANGED reply
      BY <2>1, <3>1, <1>9, GiveTyped DEF Typed, TraceAudit
    <3>2. CASE Answer(k, code)
      BY <2>1, <3>2, <1>9, AnswerTyped DEF Typed, TraceAudit
    <3> QED
      BY <2>2, <3>1, <3>2 DEF Traced
  <2>3. ASSUME NEW code \in Codes, error' = [error EXCEPT ![k] = code], UNCHANGED <<pc, reply>>
        PROVE  Typed'
    BY <2>1, <2>3 DEF Typed
  <2>4. \/ \E code \in Codes : Traced(k, code)
        \/ \E code \in Codes : error' = [error EXCEPT ![k] = code] /\ UNCHANGED <<pc, reply>>
    <3>1. error[k] \in Codes /\ args[k].door \in Door
      BY <1>9, AccessAssumption DEF Typed, TraceAudit
    <3> QED
      BY <1>9, <3>1, ErrorsAreCodes DEF TraceAudit
  <2> QED
    BY <2>2, <2>3, <2>4
<1>10. ASSUME NEW k \in Caller, Audit(k) PROVE Typed'
  <2>0. <<"mcp_tool_call", error[k]>> \in {"mcp_tool_call", "graph_trace"} \X Codes
    BY DEF Typed
  <2>1. /\ log' \in [Caller -> SUBSET ({"mcp_tool_call", "graph_trace"} \X Codes)]
        /\ UNCHANGED <<now, limited, args, readAt>>
    <3>1. [log EXCEPT ![k] = @ \cup {<<"mcp_tool_call", error[k]>>}]
            \in [Caller -> SUBSET ({"mcp_tool_call", "graph_trace"} \X Codes)]
      BY <2>0, LogTyped
    <3>2. \/ log' = log
          \/ log' = [log EXCEPT ![k] = @ \cup {<<"mcp_tool_call", error[k]>>}]
      BY <1>10 DEF Audit, Lost, Stored
    <3>3. log \in [Caller -> SUBSET ({"mcp_tool_call", "graph_trace"} \X Codes)]
      BY DEF Typed
    <3>4. UNCHANGED <<now, limited, args, readAt>>
      BY <1>10 DEF Audit
    <3> QED
      BY <3>1, <3>2, <3>3, <3>4
  <2>2. CASE Answer(k, error[k])
    BY <1>10, <2>1, <2>2, AnswerTyped DEF Audit, Typed
  <2>3. CASE reply' = [reply EXCEPT ![k] = "raised"] /\ GoOn(k, "idle")
    BY <1>10, <2>1, <2>3, GoOnTyped DEF Audit, Typed, Steps
  <2> QED
    BY <1>10, <2>2, <2>3 DEF Audit
<1>11. CASE SinkChanges \/ Tick
  BY <1>11, AccessAssumption DEF SinkChanges, Tick, callVars, Typed
<1>12. CASE UNCHANGED vars
  BY <1>12 DEF vars, callVars, Typed
<1> QED
  BY <1>1, <1>2, <1>3, <1>4, <1>5, <1>6, <1>7, <1>8, <1>9, <1>10, <1>11, <1>12
     DEF Next, Step, Call, Handle

-----------------------------------------------------------------------------
\* A step of call k that leaves the clock alone touches no other call.
LEMMA OneCallMoves ==
  ASSUME ReadInvariant, NEW k \in Caller, Checked(k)', UNCHANGED now, limited \subseteq limited',
         \A i \in Caller \ {k} : pc'[i] = pc[i] /\ args'[i] = args[i] /\ readAt'[i] = readAt[i]
  PROVE  \A i \in Caller : Checked(i)'
<1>1. now' \in Nat /\ now <= now'
  BY DEF ReadInvariant, Typed
<1>2. \A i \in Caller \ {k} : Checked(i)'
  BY <1>1, OthersUntouched DEF ReadInvariant
<1> QED
  BY <1>2

LEMMA StepReads == ReadInvariant /\ [Next]_vars => ReadInvariant'
<1> SUFFICES ASSUME ReadInvariant, [Next]_vars PROVE \A k \in Caller : Checked(k)'
  BY StepTyped DEF ReadInvariant
<1> USE DEF ReadInvariant
<1>1. ASSUME NEW k \in Caller, NEW a \in Argument, Call(k, a) \/ Handle(k, a)
      PROVE  \A i \in Caller : Checked(i)'
  <2>1. Checked(k)'
    BY <1>1 DEF Call, Handle, Begin, Typed, Checked
  <2> QED
    BY <1>1, <2>1, OneCallMoves DEF Call, Handle, Begin, Typed
<1>2. ASSUME NEW k \in Caller, Authenticate(k) PROVE \A i \in Caller : Checked(i)'
  <2>1. Checked(k)'
    BY <1>2 DEF Authenticate, Give, GoOn, Typed, Checked, Entitled, Authenticated, MayPropose, AtHome
  <2> QED
    BY <1>2, <2>1, OneCallMoves DEF Authenticate, Give, GoOn, Typed
<1>3. ASSUME NEW k \in Caller, Refused(k) PROVE \A i \in Caller : Checked(i)'
  <2>1. pc' = [pc EXCEPT ![k] = "audit"]
    BY <1>3 DEF Refused, Give
  <2>2. Checked(k)'
    BY <1>3, <2>1 DEF Refused, Typed, Checked, Entitled, MayPropose
  <2> QED
    BY <1>3, <2>1, <2>2, OneCallMoves DEF Refused, Typed
<1>4. ASSUME NEW k \in Caller, Limit(k) PROVE \A i \in Caller : Checked(i)'
  <2> DEFINE g == [n |-> Cardinality(limited) + 1, caller |-> k,
                   queue |-> <<args[k].bearer.subject, args[k].tool>>, at |-> now,
                   ok |-> \A q \in {<<args[k].bearer.subject, args[k].tool>>, TenantQueue} :
                            Len(Recent(q)) < Cap(q)]
  <2>1. limited' = limited \cup {g} /\ UNCHANGED <<now, args, readAt>>
    BY <1>4 DEF Limit
  <2>2. Entitled(k) => Entitled(k)'
    BY <2>1 DEF Entitled, MayPropose
  <2>3. CASE g.ok
    <3>1. pc' = [pc EXCEPT ![k] = "read"]
      BY <1>4, <2>3 DEF Limit, GoOn
    <3>2. LetPass(k)'
      <4>1. g \in limited' /\ g.caller = k /\ g.at = now /\ now' = now /\ now \in Nat
        BY <2>1 DEF Typed
      <4> HIDE DEF g
      <4> QED
        BY <2>3, <4>1 DEF LetPass
    <3>3. Checked(k)'
      BY <1>4, <2>1, <2>2, <3>1, <3>2 DEF Limit, Typed, Checked, Authenticated, MayPropose, AtHome
    <3> QED
      BY <2>1, <3>1, <3>3, OneCallMoves DEF Typed
  <2>4. CASE ~ g.ok
    <3>1. pc' = [pc EXCEPT ![k] = "audit"]
      BY <1>4, <2>4 DEF Limit, Give
    <3>2. Checked(k)'
      BY <2>1, <2>2, <3>1 DEF Typed, Checked
    <3> QED
      BY <2>1, <3>1, <3>2, OneCallMoves DEF Typed
  <2> QED
    BY <2>3, <2>4
<1>5. ASSUME NEW k \in Caller, HttpRefused(k) PROVE \A i \in Caller : Checked(i)'
  <2>1. pc' = [pc EXCEPT ![k] = "idle"]
    BY <1>5 DEF HttpRefused, Answer
  <2>2. Checked(k)'
    BY <1>5, <2>1 DEF HttpRefused, Typed, Checked, Entitled, MayPropose
  <2> QED
    BY <1>5, <2>1, <2>2, OneCallMoves DEF HttpRefused, Typed
<1>6. ASSUME NEW k \in Caller, HttpParsed(k) PROVE \A i \in Caller : Checked(i)'
  <2>1. pc' = [pc EXCEPT ![k] = "read"]
    BY <1>6 DEF HttpParsed, GoOn
  <2>2. Checked(k)'
    BY <1>6, <2>1 DEF HttpParsed, Typed, Checked, Entitled, MayPropose
  <2> QED
    BY <1>6, <2>1, <2>2, OneCallMoves DEF HttpParsed, Typed
<1>7. ASSUME NEW k \in Caller, Provenance(k) PROVE \A i \in Caller : Checked(i)'
  <2>1. pc' = [pc EXCEPT ![k] = "audit"] /\ readAt' = [readAt EXCEPT ![k] = now] /\ UNCHANGED <<now, args, limited>>
    BY <1>7 DEF Provenance, Give
  <2>2. args[k].door = "mcp"
    BY <1>7, AccessAssumption DEF Provenance, Typed, Door
  <2>3. Checked(k)'
    BY <1>7, <2>1, <2>2 DEF Provenance, Typed, Checked, Entitled, Authenticated, LetPass, AtHome, MayPropose
  <2> QED
    BY <2>1, <2>3, OneCallMoves DEF Typed
<1>8. ASSUME NEW k \in Caller, Trace(k) PROVE \A i \in Caller : Checked(i)'
  <2>1. pc' = [pc EXCEPT ![k] = "trace"] /\ UNCHANGED <<now, args, limited>>
    BY <1>8 DEF Trace
  <2>2. CASE UNCHANGED readAt
    <3>1. Checked(k)'
      BY <2>1, <2>2 DEF Typed, Checked, Entitled, MayPropose
    <3> QED
      BY <2>1, <2>2, <3>1, OneCallMoves DEF Typed
  <2>3. CASE /\ readAt' = [readAt EXCEPT ![k] = now]
             /\ args[k].bearer.sound /\ now < args[k].bearer.exp
             /\ "read" \in args[k].bearer.scopes /\ MayPropose(args[k])
    <3>1. readAt'[k] = now
      BY <2>3 DEF Typed
    <3>2. args[k].door = "mcp" =>
            args[k].bearer.tenant = HomeTenant /\ args[k].bearer.inPolicy /\ LetPass(k)
      BY <1>8 DEF Trace, Checked, Authenticated, AtHome
    <3>3. Entitled(k)'
      BY <2>1, <2>3, <3>1, <3>2 DEF Entitled, LetPass, MayPropose
    <3>4. Checked(k)'
      BY <2>1, <3>3 DEF Typed, Checked
    <3> QED
      BY <2>1, <2>3, <3>4, OneCallMoves DEF Typed
  <2> QED
    BY <1>8, <2>2, <2>3 DEF Trace
<1>9. ASSUME NEW k \in Caller, TraceAudit(k) PROVE \A i \in Caller : Checked(i)'
  <2>1. \/ pc' = [pc EXCEPT ![k] = "audit"]
        \/ pc' = [pc EXCEPT ![k] = "idle"]
        \/ pc' = pc
    BY <1>9 DEF TraceAudit, Traced, Give, Answer
  <2>2. Checked(k)'
    BY <1>9, <2>1 DEF TraceAudit, Typed, Checked, Entitled, MayPropose
  <2> QED
    BY <1>9, <2>1, <2>2, OneCallMoves DEF TraceAudit, Typed
<1>10. ASSUME NEW k \in Caller, Audit(k) PROVE \A i \in Caller : Checked(i)'
  <2>1. pc' = [pc EXCEPT ![k] = "idle"]
    BY <1>10 DEF Audit, Answer, GoOn
  <2>2. Checked(k)'
    BY <1>10, <2>1 DEF Audit, Typed, Checked, Entitled, MayPropose
  <2> QED
    BY <1>10, <2>1, <2>2, OneCallMoves DEF Audit, Typed
<1>11. CASE SinkChanges \/ Tick
  <2>1. UNCHANGED <<limited, pc, args, readAt>> /\ now' \in Nat /\ now <= now'
    BY <1>11 DEF SinkChanges, Tick, callVars, Typed
  <2> QED
    BY <2>1, OthersUntouched DEF Typed
<1>12. CASE UNCHANGED vars
  <2>1. UNCHANGED <<now, limited, pc, args, readAt>>
    BY <1>12 DEF vars, callVars
  <2> QED
    BY <2>1, OthersUntouched DEF Typed
<1> QED
  BY <1>1, <1>2, <1>3, <1>4, <1>5, <1>6, <1>7, <1>8, <1>9, <1>10, <1>11, <1>12 DEF Next, Step

LEMMA AlwaysEntitled == Spec => []ReadInvariant
BY AccessStart, StepReads, PTL DEF Spec

(***************************************************************************)
(* The repository is read only for a token that has the scopes, and for an *)
(* agent of this tenant and its projects whom the limiter let pass; a      *)
(* trace reads only while the token is valid, however long ago it was      *)
(* checked.                                                                *)
(***************************************************************************)
THEOREM EveryReadEntitled == Spec => []ReadsAreEntitled
<1>1. ReadInvariant => ReadsAreEntitled
  BY DEF ReadInvariant, Checked, Entitled, ReadsAreEntitled
<1> QED
  BY <1>1, AlwaysEntitled, PTL

-----------------------------------------------------------------------------
(***************************************************************************)
(* AnswersAreAudited for one call, and what the steps before the answer    *)
(* leave in the log: nothing before an event is sent, and no event of the  *)
(* call itself before its last step.                                       *)
(***************************************************************************)
McpEvents(k) == { e \in log[k] : e[1] = "mcp_tool_call" }

Answered(k) ==
  LET outcome == IF reply[k] = "result" THEN "none" ELSE reply[k]
      trace == log[k] \ McpEvents(k)
  IN  \/ /\ args[k].door = "mcp"
         /\ IF reply[k] = "raised" THEN McpEvents(k) \subseteq {<<"mcp_tool_call", error[k]>>}
                                   ELSE McpEvents(k) = {<<"mcp_tool_call", outcome>>}
         /\ reply[k] = "result" /\ args[k].tool # "get_provenance" =>
              trace = {<<"graph_trace", "none">>}
      \/ /\ args[k].door = "http" /\ McpEvents(k) = {}
         /\ ~ args[k].wellFormed => trace = {}
         /\ args[k].wellFormed /\ outcome \notin Escaped("http") =>
              /\ <<"graph_trace", outcome>> \in trace
              /\ trace # {<<"graph_trace", outcome>>} =>
                   /\ outcome \in {"query_timeout", "service_unavailable"}
                   /\ trace = {<<"graph_trace", outcome>>, <<"graph_trace", "none">>}

\* What precedes the event of a trace: nothing, or the event of its success,
\* which was stored though the sink raised.
Sending(k) ==
  /\ error[k] \notin Escaped("http") /\ args[k].tool # "get_provenance"
  /\ \/ log[k] = {}
     \/ /\ log[k] = {<<"graph_trace", "none">>}
        /\ error[k] \in {"query_timeout", "service_unavailable"}

Audited(k) ==
  /\ pc[k] = "idle" /\ reply[k] # "none" => Answered(k)
  /\ pc[k] \in {"authenticate", "admit"} => args[k].door = "mcp"
  /\ pc[k] = "handle" => args[k].door = "http"
  /\ pc[k] \in {"authenticate", "handle", "admit", "read"} => log[k] = {}
  /\ pc[k] \in {"read", "trace"} /\ args[k].door = "http" => args[k].wellFormed
  /\ pc[k] = "trace" => Sending(k)
  /\ pc[k] = "audit" =>
       /\ args[k].door = "mcp" /\ McpEvents(k) = {}
       /\ error[k] = "none" /\ args[k].tool # "get_provenance" => log[k] = {<<"graph_trace", "none">>}

AuditInvariant == Typed /\ \A k \in Caller : Audited(k)

LEMMA AuditStart == Init => AuditInvariant
<1> SUFFICES ASSUME Init PROVE \A k \in Caller : Audited(k)
  BY AccessStart DEF AuditInvariant, ReadInvariant
<1> QED
  BY DEF Init, Audited

LEMMA OtherAnswers ==
  ASSUME NEW i \in Caller, Audited(i), pc'[i] = pc[i], args'[i] = args[i],
         error'[i] = error[i], log'[i] = log[i], reply'[i] = reply[i]
  PROVE  Audited(i)'
BY DEF Audited, Answered, McpEvents, Sending

\* A step of call k touches the answer of no other call.
LEMMA OneCallAnswers ==
  ASSUME AuditInvariant, NEW k \in Caller, Audited(k)',
         \A i \in Caller \ {k} : /\ pc'[i] = pc[i] /\ args'[i] = args[i] /\ error'[i] = error[i]
                                 /\ log'[i] = log[i] /\ reply'[i] = reply[i]
  PROVE  \A i \in Caller : Audited(i)'
BY OtherAnswers DEF AuditInvariant

\* Giving an error to an agent, or the result of get_provenance, before an
\* event was sent.
LEMMA GiveAudited ==
  ASSUME AuditInvariant, NEW k \in Caller, NEW code \in Codes, Give(k, code),
         args[k].door = "mcp", log[k] = {}, code = "none" => args[k].tool = "get_provenance",
         UNCHANGED <<args, log, reply>>
  PROVE  \A i \in Caller : Audited(i)'
<1>1. /\ pc' = [pc EXCEPT ![k] = "audit"] /\ error' = [error EXCEPT ![k] = Public(code)]
      /\ Public(code) = "none" => code = "none"
  BY GiveTyped DEF AuditInvariant, Public
<1>2. Audited(k)'
  BY <1>1 DEF AuditInvariant, Typed, Audited, McpEvents
<1> QED
  BY <1>1, <1>2, OneCallAnswers DEF AuditInvariant, Typed

LEMMA GoOnAudited ==
  ASSUME AuditInvariant, NEW k \in Caller, NEW step \in {"admit", "read"}, GoOn(k, step),
         log[k] = {}, step = "admit" => args[k].door = "mcp",
         step = "read" /\ args[k].door = "http" => args[k].wellFormed,
         UNCHANGED <<args, log, reply>>
  PROVE  \A i \in Caller : Audited(i)'
<1>1. pc' = [pc EXCEPT ![k] = step] /\ error' = error
  BY DEF GoOn
<1>2. Audited(k)'
  BY <1>1 DEF AuditInvariant, Typed, Audited
<1> QED
  BY <1>1, <1>2, OneCallAnswers DEF AuditInvariant, Typed

LEMMA StepAudits == AuditInvariant /\ [Next]_vars => AuditInvariant'
<1> SUFFICES ASSUME AuditInvariant, [Next]_vars PROVE \A k \in Caller : Audited(k)'
  BY StepTyped DEF AuditInvariant
<1> USE DEF AuditInvariant
<1>1. ASSUME NEW k \in Caller, NEW a \in Argument, Call(k, a) \/ Handle(k, a)
      PROVE  \A i \in Caller : Audited(i)'
  <2>1. Audited(k)'
    BY <1>1 DEF Call, Handle, Begin, Typed, Audited
  <2> QED
    BY <1>1, <2>1, OneCallAnswers DEF Call, Handle, Begin, Typed
<1>2. ASSUME NEW k \in Caller, Authenticate(k) PROVE \A i \in Caller : Audited(i)'
  <2>1. args[k].door = "mcp" /\ log[k] = {} /\ UNCHANGED <<args, log, reply>>
    BY <1>2 DEF Authenticate, Audited
  <2>2. Give(k, "unauthorized") \/ Give(k, "forbidden") \/ GoOn(k, "admit")
    BY <1>2 DEF Authenticate
  <2> QED
    BY <2>1, <2>2, GiveAudited, GoOnAudited, ErrorsAreCodes
<1>3. ASSUME NEW k \in Caller, Refused(k) PROVE \A i \in Caller : Audited(i)'
  <2>1. args[k].door = "mcp" /\ log[k] = {} /\ UNCHANGED <<args, log, reply>>
    BY <1>3 DEF Refused, Audited
  <2>2. \E code \in Codes \ {"none"} : Give(k, code)
    BY <1>3, ErrorsAreCodes DEF Refused, ParseErrors
  <2> QED
    BY <2>1, <2>2, GiveAudited
<1>4. ASSUME NEW k \in Caller, Limit(k) PROVE \A i \in Caller : Audited(i)'
  <2>1. args[k].door = "mcp" /\ log[k] = {} /\ args[k].wellFormed /\ UNCHANGED <<args, log, reply>>
    BY <1>4 DEF Limit, Audited
  <2>2. GoOn(k, "read") \/ Give(k, "rate_limited")
    BY <1>4 DEF Limit
  <2> QED
    BY <2>1, <2>2, GiveAudited, GoOnAudited, ErrorsAreCodes
<1>5. ASSUME NEW k \in Caller, HttpRefused(k) PROVE \A i \in Caller : Audited(i)'
  <2>1. /\ args[k].door = "http" /\ log[k] = {} /\ ~ args[k].wellFormed
        /\ UNCHANGED <<args, log>>
    BY <1>5 DEF HttpRefused, Audited
  <2>2. PICK code \in Codes : Answer(k, code)
    BY <1>5, ErrorsAreCodes DEF HttpRefused
  <2>3. pc' = [pc EXCEPT ![k] = "idle"] /\ error' = [error EXCEPT ![k] = code]
        /\ reply' = [reply EXCEPT ![k] = IF code = "none" THEN "result" ELSE code]
    BY <2>2 DEF Answer
  <2>4. Audited(k)'
    BY <2>1, <2>3 DEF Typed, Audited, Answered, McpEvents
  <2> QED
    BY <2>1, <2>3, <2>4, OneCallAnswers DEF Typed
<1>6. ASSUME NEW k \in Caller, HttpParsed(k) PROVE \A i \in Caller : Audited(i)'
  BY <1>6, GoOnAudited DEF HttpParsed, Audited
<1>7. ASSUME NEW k \in Caller, Provenance(k) PROVE \A i \in Caller : Audited(i)'
  <2>1. /\ args[k].door = "mcp" /\ log[k] = {} /\ args[k].tool = "get_provenance"
        /\ UNCHANGED <<args, log, reply>>
    BY <1>7, AccessAssumption DEF Provenance, Audited, Typed, Door
  <2>2. \E code \in Codes : Give(k, code)
    BY <1>7, ErrorsAreCodes DEF Provenance
  <2> QED
    BY <2>1, <2>2, GiveAudited
<1>8. ASSUME NEW k \in Caller, Trace(k) PROVE \A i \in Caller : Audited(i)'
  <2>1. /\ pc' = [pc EXCEPT ![k] = "trace"] /\ UNCHANGED <<args, log, reply>>
        /\ args[k].tool # "get_provenance"
    BY <1>8 DEF Trace
  <2>2. PICK code \in Codes \ Escaped("http") : error' = [error EXCEPT ![k] = code]
    BY <1>8, AccessAssumption DEF Trace, Codes, Escaped
  <2>3. pc[k] = "read" /\ log'[k] = {} /\ error'[k] = code /\ pc'[k] = "trace"
    BY <1>8, <2>1, <2>2 DEF Trace, Typed, Audited
  <2>5. Sending(k)'
    BY <2>1, <2>2, <2>3 DEF Sending
  <2>4. Audited(k)'
    BY <2>1, <2>3, <2>5 DEF Audited
  <2> QED
    BY <2>1, <2>2, <2>4, OneCallAnswers DEF Typed
<1>9. ASSUME NEW k \in Caller, TraceAudit(k) PROVE \A i \in Caller : Audited(i)'
  <2> DEFINE e == error[k]
             event == <<"graph_trace", e>>
  <2>1. /\ pc[k] = "trace" /\ Sending(k) /\ e \in Codes /\ args[k].door \in {"mcp", "http"}
        /\ args[k].door = "http" => args[k].wellFormed
        /\ UNCHANGED args
    BY <1>9, AccessAssumption DEF TraceAudit, Audited, Typed, Door
  <2>2. /\ log' = log \/ log' = [log EXCEPT ![k] = @ \cup {event}]
        /\ \A i \in Caller \ {k} : log'[i] = log[i]
        /\ log'[k] = log[k] \/ log'[k] = log[k] \cup {event}
    BY <1>9 DEF TraceAudit, Lost, Stored, Typed
  <2>3. McpEvents(k)' = {} /\ log'[k] \ McpEvents(k)' = log'[k]
    BY <2>1, <2>2 DEF Sending, McpEvents
\* An agent is answered later.
  <2>4. ASSUME NEW code \in Codes, args[k].door = "mcp", Give(k, code), UNCHANGED reply,
               code = "none" => log'[k] = {<<"graph_trace", "none">>}
        PROVE  \A i \in Caller : Audited(i)'
    <3>1. /\ pc' = [pc EXCEPT ![k] = "audit"] /\ error' = [error EXCEPT ![k] = Public(code)]
          /\ Public(code) = "none" => code = "none"
      BY <2>4 DEF Give, Public
    <3>2. pc'[k] = "audit" /\ error'[k] = Public(code)
      BY <3>1 DEF Typed
    <3>3. Audited(k)'
      BY <2>1, <2>3, <2>4, <3>1, <3>2 DEF Audited
    <3>4. \A i \in Caller \ {k} : pc'[i] = pc[i] /\ error'[i] = error[i]
      BY <3>1 DEF Typed
    <3> QED
      BY <2>1, <2>2, <2>4, <3>3, <3>4, OneCallAnswers
\* An HTTP client is answered now.
  <2>5. ASSUME args[k].door = "http", NEW code \in Codes, Answer(k, code),
               \/ code \in Escaped("http")
               \/ code = e /\ log'[k] = log[k] \cup {event}
        PROVE  \A i \in Caller : Audited(i)'
    <3>1. /\ pc' = [pc EXCEPT ![k] = "idle"] /\ error' = [error EXCEPT ![k] = code]
          /\ reply' = [reply EXCEPT ![k] = IF code = "none" THEN "result" ELSE code]
      BY <2>5 DEF Answer
    <3>2. code = IF reply'[k] = "result" THEN "none" ELSE reply'[k]
      BY <2>5, <3>1 DEF Typed, Codes
    <3>3. code \notin Escaped("http") =>
            /\ <<"graph_trace", code>> \in log'[k]
            /\ log'[k] # {<<"graph_trace", code>>} =>
                 /\ code \in {"query_timeout", "service_unavailable"}
                 /\ log'[k] = {<<"graph_trace", code>>, <<"graph_trace", "none">>}
      BY <2>1, <2>5 DEF Sending
    <3>4. Answered(k)'
      BY <2>1, <2>3, <2>5, <3>2, <3>3 DEF Answered
    <3>5. pc'[k] = "idle"
      BY <3>1 DEF Typed
    <3>6. Audited(k)'
      BY <3>4, <3>5 DEF Audited
    <3>7. \A i \in Caller \ {k} : pc'[i] = pc[i] /\ error'[i] = error[i] /\ reply'[i] = reply[i]
      BY <3>1 DEF Typed
    <3> QED
      BY <2>1, <2>2, <3>6, <3>7, OneCallAnswers
  <2>6. ASSUME Traced(k, e), log'[k] = log[k] \cup {event} PROVE \A i \in Caller : Audited(i)'
    <3>1. e = "none" => log'[k] = {<<"graph_trace", "none">>}
      BY <2>1, <2>6 DEF Sending
    <3> QED
      BY <2>1, <2>4, <2>5, <2>6, <3>1 DEF Traced
  <2>7. ASSUME e = "none", NEW code \in {"query_timeout", "service_unavailable"},
               error' = [error EXCEPT ![k] = code], UNCHANGED <<pc, reply>>
        PROVE  \A i \in Caller : Audited(i)'
    <3>1. error'[k] = code /\ code \notin Escaped("http") /\ pc'[k] = "trace"
      BY <2>1, <2>7 DEF Typed, Escaped
    <3>2. Sending(k)'
      BY <2>1, <2>2, <2>7, <3>1 DEF Sending
    <3>3. Audited(k)'
      BY <2>1, <3>1, <3>2 DEF Audited
    <3>4. \A i \in Caller \ {k} : error'[i] = error[i]
      BY <2>7 DEF Typed
    <3> QED
      BY <2>1, <2>2, <2>7, <3>3, <3>4, OneCallAnswers
  <2>8. ASSUME NEW code \in Escaped(args[k].door), Traced(k, code)
        PROVE  \A i \in Caller : Audited(i)'
    <3>1. code \in Codes /\ code # "none"
      BY <2>1, <2>8, ErrorsAreCodes DEF Door
    <3>2. CASE args[k].door = "mcp"
      BY <2>4, <2>8, <3>1, <3>2 DEF Traced
    <3>3. CASE args[k].door = "http"
      <4>1. code \in Escaped("http") /\ Answer(k, code)
        BY <2>8, <3>3 DEF Traced
      <4>2. PICK c \in Codes : c = code
        BY <3>1
      <4>3. Answer(k, c) /\ c \in Escaped("http")
        BY <4>1, <4>2
      <4> QED
        BY <2>5, <3>3, <4>3
    <3> QED
      BY <2>1, <3>2, <3>3
  <2>9. \/ Traced(k, e) /\ log'[k] = log[k] \cup {event}
        \/ /\ e = "none" /\ UNCHANGED <<pc, reply>>
           /\ \E code \in {"query_timeout", "service_unavailable"} :
                 error' = [error EXCEPT ![k] = code]
        \/ \E code \in Escaped(args[k].door) : Traced(k, code)
    BY <1>9 DEF TraceAudit, Stored, Typed
  <2> QED
    BY <2>6, <2>7, <2>8, <2>9
<1>10. ASSUME NEW k \in Caller, Audit(k) PROVE \A i \in Caller : Audited(i)'
  <2> DEFINE e == error[k]
  <2>1. /\ args[k].door = "mcp" /\ McpEvents(k) = {} /\ e \in Codes /\ UNCHANGED args
        /\ e = "none" /\ args[k].tool # "get_provenance" => log[k] = {<<"graph_trace", "none">>}
    BY <1>10 DEF Audit, Audited, Typed
  <2>2. CASE log' = [log EXCEPT ![k] = @ \cup {<<"mcp_tool_call", e>>}] /\ Answer(k, e)
    <3>1. /\ pc' = [pc EXCEPT ![k] = "idle"] /\ error' = [error EXCEPT ![k] = e]
          /\ reply' = [reply EXCEPT ![k] = IF e = "none" THEN "result" ELSE e]
      BY <2>2 DEF Answer
    <3>2. e = (IF reply'[k] = "result" THEN "none" ELSE reply'[k]) /\ reply'[k] # "raised"
      BY <2>1, <3>1 DEF Typed, Codes
    <3>3. log'[k] = log[k] \cup {<<"mcp_tool_call", e>>}
      BY <2>2 DEF Typed
    <3>4. /\ McpEvents(k)' = {<<"mcp_tool_call", e>>}
          /\ log'[k] \ McpEvents(k)' = log[k]
      BY <2>1, <3>3 DEF McpEvents
    <3>5. reply'[k] = "result" => e = "none"
      BY <3>2
    <3>6. Answered(k)'
      BY <2>1, <3>2, <3>4, <3>5 DEF Answered
    <3>7. Audited(k)'
      BY <3>1, <3>6 DEF Typed, Audited
    <3> QED
      BY <2>1, <2>2, <3>1, <3>7, OneCallAnswers DEF Typed
  <2>3. CASE /\ reply' = [reply EXCEPT ![k] = "raised"] /\ GoOn(k, "idle")
             /\ \/ log' = log
                \/ log' = [log EXCEPT ![k] = @ \cup {<<"mcp_tool_call", e>>}]
    <3>1. pc' = [pc EXCEPT ![k] = "idle"] /\ error' = error /\ reply'[k] = "raised" /\ pc'[k] = "idle"
      BY <2>3 DEF GoOn, Typed
    <3>4. /\ log'[k] \subseteq log[k] \cup {<<"mcp_tool_call", e>>}
          /\ \A i \in Caller \ {k} : log'[i] = log[i] /\ reply'[i] = reply[i] /\ pc'[i] = pc[i]
      BY <2>3, <3>1 DEF Typed
    <3>5. McpEvents(k)' \subseteq {<<"mcp_tool_call", error'[k]>>}
      BY <2>1, <3>1, <3>4 DEF McpEvents
    <3>2. Answered(k)'
      BY <2>1, <3>1, <3>5 DEF Answered
    <3>3. Audited(k)'
      BY <3>1, <3>2 DEF Audited
    <3> QED
      BY <2>1, <3>1, <3>3, <3>4, OneCallAnswers
  <2> QED
    BY <1>10, <2>2, <2>3 DEF Audit, Lost, Stored
<1>11. CASE SinkChanges \/ Tick \/ UNCHANGED vars
  <2>1. UNCHANGED <<pc, args, error, log, reply>>
    BY <1>11 DEF SinkChanges, Tick, vars, callVars
  <2> QED
    BY <2>1, OtherAnswers DEF AuditInvariant
<1> QED
  BY <1>1, <1>2, <1>3, <1>4, <1>5, <1>6, <1>7, <1>8, <1>9, <1>10, <1>11 DEF Next, Step

(***************************************************************************)
(* No answer leaves either door without the event of its outcome in the    *)
(* audit sink, whatever the sink raises and whether it stored the event:   *)
(* the answer turns into an error first, or into an exception when there   *)
(* is nothing left to turn.                                                *)
(***************************************************************************)
THEOREM EveryAnswerAudited == Spec => []AnswersAreAudited
<1>1. AuditInvariant => AnswersAreAudited
  BY DEF AuditInvariant, Audited, Answered, McpEvents, AnswersAreAudited
<1> QED
  BY <1>1, AuditStart, StepAudits, PTL DEF Spec

-----------------------------------------------------------------------------
(***************************************************************************)
(* The limiter.  For the counts a queue is the set of its calls that are   *)
(* still in the window; the deque of the code must hold as many events.    *)
(***************************************************************************)

\* The entries of a queue that are in the window at time t.
FreshIn(s, t) == { n \in 1..Len(s) : t - s[n] < Window }

\* The calls of queue q that are in the window at time t.
Young(q, t) == { h \in limited : q \in {h.queue, TenantQueue} /\ t - h.at < Window }

\* A call that has begun and can still come to the limiter.
Waiting == { k \in Caller : pc[k] \in {"authenticate", "admit"} }

AccessTyped ==
  /\ now \in 0..MaxTime /\ sinkUp \in BOOLEAN /\ calls \in 0..MaxCalls
  /\ events \in [Queue -> Seq(0..MaxTime)]
  /\ readAt \in [Caller -> -1..MaxTime]
  /\ limited \subseteq [n : Nat, caller : Caller, queue : Queue, at : 0..MaxTime, ok : BOOLEAN]

Numbered ==
  /\ IsFiniteSet(limited) /\ IsFiniteSet(Waiting)
  /\ Cardinality(limited) + Cardinality(Waiting) <= calls
  /\ \A g \in limited : g.n \in 1..Cardinality(limited) /\ g.at <= now

InOrder ==
  \A q \in Queue :
    /\ \A n \in 1..Len(events[q]) : events[q][n] <= now
    /\ \A m, n \in 1..Len(events[q]) : m <= n => events[q][m] <= events[q][n]

\* From now on a queue and the calls that it counts leave the window together,
\* and those that were let pass are never more than the cap.
Counted ==
  \A q \in Queue, t \in Nat : now <= t =>
    /\ Cardinality(FreshIn(events[q], t)) = Cardinality(Young(q, t))
    /\ Cardinality({ h \in Young(q, t) : h.ok }) <= Cap(q)

LimiterInvariant ==
  /\ Typed /\ AccessTyped /\ Numbered /\ InOrder /\ Counted /\ LimitsAsConfigured

-----------------------------------------------------------------------------
\* A set of natural numbers that is not empty has a least element.
LEMMA LeastNumber ==
  ASSUME NEW S \in SUBSET Nat, S # {}
  PROVE  \E n \in S : \A m \in S : n <= m
<1> DEFINE F == { 0..n : n \in S }
           R == StrictSubsetOrdering(Nat)
<1>1. F \subseteq FiniteSubsetsOf(Nat) /\ F # {}
  <2>1. \A n \in S : 0..n \in SUBSET Nat /\ IsFiniteSet(0..n)
    BY FS_Interval
  <2> QED
    BY <2>1 DEF FiniteSubsetsOf
<1>2. IsWellFoundedOn(R, FiniteSubsetsOf(Nat))
  BY FS_StrictSubsetOrderingWellFounded
<1>3. PICK A \in F : \A B \in F : <<B, A>> \notin R
  <2> HIDE DEF F, R
  <2> QED
    BY <1>1, <1>2, WFMin
<1>4. PICK n \in S : A = 0..n
  OBVIOUS
<1>5. ASSUME NEW m \in S PROVE n <= m
  <2>1. 0..m \in F /\ <<0..m, A>> \notin R
    BY <1>3
  <2>2. ~ (0..m \subseteq 0..n /\ 0..m # 0..n)
    BY <1>4, <2>1 DEF StrictSubsetOrdering
  <2>3. ASSUME m < n PROVE FALSE
    <3>1. n \in 0..n /\ n \notin 0..m /\ 0..m \subseteq 0..n
      BY <2>3
    <3> QED
      BY <2>2, <3>1
  <2> QED
    BY <2>3
<1> QED
  BY <1>5

\* What popleft() leaves begins with the first event in the window.
LEMMA PoppedUntil ==
  ASSUME NEW q \in Queue, events[q] \in Seq(0..MaxTime), now \in Nat
  PROVE  /\ Popped(q) \in 0..Len(events[q])
         /\ \A m \in 1..Popped(q) : now - events[q][m] >= Window
         /\ Popped(q) < Len(events[q]) => now - events[q][Popped(q) + 1] < Window
<1> DEFINE s == events[q]
           S == { n \in 0..Len(s) : n < Len(s) => now - s[n + 1] < Window }
<1>1. Len(s) \in Nat /\ \A n \in 1..Len(s) : s[n] \in Nat
  BY AccessAssumption
<1>2. S \in SUBSET Nat /\ Len(s) \in S
  BY <1>1
<1>3. PICK n \in S : \A m \in S : n <= m
  <2> HIDE DEF S
  <2> QED
    BY <1>2, LeastNumber
<1>4. ASSUME NEW m \in 1..n PROVE now - s[m] >= Window
  <2>1. m - 1 \notin S /\ m - 1 \in 0..Len(s)
    BY <1>1, <1>3
  <2>2. ~ (now - s[m] < Window)
    BY <1>1, <2>1
  <2>3. s[m] \in Nat /\ Window \in Nat
    BY <1>1, <1>3, AccessAssumption
  <2> QED
    BY <2>2, <2>3
<1>5. /\ n \in 0..Len(s)
      /\ \A m \in 1..n : now - s[m] >= Window
      /\ n < Len(s) => now - s[n + 1] < Window
  BY <1>3, <1>4
<1> QED
  BY <1>5 DEF Popped

LEMMA FreshFinite ==
  ASSUME NEW s \in Seq(Nat), NEW t
  PROVE  IsFiniteSet(FreshIn(s, t)) /\ Cardinality(FreshIn(s, t)) \in Nat
<1>1. IsFiniteSet(1..Len(s)) /\ FreshIn(s, t) \in SUBSET (1..Len(s))
  BY FS_Interval DEF FreshIn
<1> QED
  BY <1>1, FS_Subset, FS_CardinalityType

\* Dropping entries that are out of the window, and adding one, changes the
\* number of those in the window by that one, now and at any later time.
LEMMA FreshCounted ==
  ASSUME NEW s \in Seq(Nat), NEW c \in Nat, NEW t \in Nat, c <= t, NEW p \in 0..Len(s),
         \A m \in 1..p : c - s[m] >= Window
  PROVE  LET r == Append(SubSeq(s, p + 1, Len(s)), c)
         IN  /\ r \in Seq(Nat)
             /\ Len(r) = Len(s) - p + 1
             /\ \A n \in 1..(Len(s) - p) : r[n] = s[n + p]
             /\ r[Len(r)] = c
             /\ Cardinality(FreshIn(r, t))
                = Cardinality(FreshIn(s, t)) + (IF t - c < Window THEN 1 ELSE 0)
<1> DEFINE L == Len(s)
           u == SubSeq(s, p + 1, L)
           r == Append(u, c)
           A == FreshIn(s, t)
           B == FreshIn(u, t)
           f == [n \in B |-> n + p]
<1>0. Window \in Nat
  BY AccessAssumption
<1>1. L \in Nat /\ \A n \in 1..L : s[n] \in Nat
  OBVIOUS
<1>2. u \in Seq(Nat) /\ Len(u) = L - p /\ \A n \in 1..(L - p) : u[n] = s[n + p]
  BY <1>1
<1> HIDE DEF u
<1>3. r \in Seq(Nat) /\ Len(r) = L - p + 1 /\ r[L - p + 1] = c
      /\ \A n \in 1..(L - p) : r[n] = u[n]
  BY <1>1, <1>2
<1>4. \A m \in 1..L : t - s[m] < Window => m > p
  BY <1>0, <1>1
<1>5. f \in Bijection(B, A)
  <2>1. f \in [B -> A]
    <3> SUFFICES ASSUME NEW n \in B PROVE n + p \in A
      OBVIOUS
    <3>1. n \in 1..(L - p) /\ t - u[n] < Window
      BY <1>2 DEF FreshIn
    <3>2. u[n] = s[n + p] /\ n + p \in 1..L
      BY <1>1, <1>2, <3>1
    <3> QED
      BY <3>1, <3>2 DEF FreshIn
  <2>2. \A x, y \in B : f[x] = f[y] => x = y
    BY <1>2 DEF FreshIn
  <2>3. \A m \in A : \E n \in B : f[n] = m
    <3> SUFFICES ASSUME NEW m \in A PROVE m - p \in B /\ f[m - p] = m
      OBVIOUS
    <3>1. m \in 1..L /\ t - s[m] < Window /\ m > p
      BY <1>4 DEF FreshIn
    <3>2. m - p \in 1..(L - p) /\ (m - p) + p = m
      BY <1>1, <3>1
    <3>3. u[m - p] = s[m]
      BY <1>2, <3>2
    <3>4. m - p \in B
      BY <1>2, <3>1, <3>2, <3>3 DEF FreshIn
    <3> QED
      BY <3>2, <3>4
  <2> HIDE DEF f
  <2> QED
    BY <2>1, <2>2, <2>3 DEF Bijection, Injection, Surjection, IsInjective
<1>6. IsFiniteSet(B) /\ Cardinality(A) = Cardinality(B) /\ Cardinality(B) \in Nat
  <2>1. IsFiniteSet(B) /\ Cardinality(B) \in Nat
    BY <1>2, FreshFinite
  <2>2. ExistsBijection(B, A)
    BY <1>5 DEF ExistsBijection
  <2> QED
    BY <2>1, <2>2, FS_Bijection
<1>7. FreshIn(r, t) = IF t - c < Window THEN B \cup {L - p + 1} ELSE B
  BY <1>1, <1>2, <1>3 DEF FreshIn
<1>8. L - p + 1 \notin B
  BY <1>1, <1>2 DEF FreshIn
<1>9. Cardinality(FreshIn(r, t)) = Cardinality(A) + (IF t - c < Window THEN 1 ELSE 0)
  <2> DEFINE x == L - p + 1
  <2>1. Cardinality(B \cup {x}) = Cardinality(B) + 1
    <3> HIDE DEF B, x
    <3> QED
      BY <1>6, <1>8, FS_AddElement DEF x
  <2> HIDE DEF A, B, r, L
  <2>2. CASE t - c < Window
    BY <1>6, <1>7, <2>1, <2>2
  <2>3. CASE ~ (t - c < Window)
    BY <1>6, <1>7, <2>3
  <2> QED
    BY <2>2, <2>3
<1> QED
  BY <1>2, <1>3, <1>9 DEF u

\* What popleft() leaves are the events in the window, as many as there are
\* calls in the window.
LEMMA RecentCounts ==
  ASSUME NEW q \in Queue, events[q] \in Seq(0..MaxTime), now \in Nat,
         \A m, n \in 1..Len(events[q]) : m <= n => events[q][m] <= events[q][n]
  PROVE  Len(Recent(q)) = Cardinality(FreshIn(events[q], now))
<1> DEFINE s == events[q]
           L == Len(s)
           p == Popped(q)
<1>1. L \in Nat /\ \A n \in 1..L : s[n] \in Nat
  BY AccessAssumption
<1>2. Window \in Nat
  BY AccessAssumption
<1>3. /\ p \in 0..L
      /\ \A m \in 1..p : now - s[m] >= Window
      /\ p < L => now - s[p + 1] < Window
  BY PoppedUntil
<1> HIDE DEF p
<1>4. FreshIn(s, now) = (p + 1)..L
  <2>1. ASSUME NEW n \in (p + 1)..L PROVE now - s[n] < Window
    <3>1. p + 1 \in 1..L /\ n \in 1..L /\ s[p + 1] <= s[n] /\ now - s[p + 1] < Window
      BY <1>1, <1>3
    <3>2. s[p + 1] \in Nat /\ s[n] \in Nat
      BY <1>1, <3>1
    <3> QED
      BY <1>2, <3>1, <3>2
  <2>2. ASSUME NEW n \in 1..L, now - s[n] < Window PROVE n \in (p + 1)..L
    <3>1. n \notin 1..p
      BY <1>1, <1>2, <1>3, <2>2
    <3> QED
      BY <1>1, <1>3, <3>1
  <2> QED
    BY <1>3, <2>1, <2>2 DEF FreshIn
<1>5. Cardinality((p + 1)..L) = L - p
  <2>1. p + 1 \in Int /\ L \in Int /\ ~ (p + 1 > L) = (p < L) /\ L - (p + 1) + 1 = L - p
    BY <1>1, <1>3
  <2>2. Cardinality((p + 1)..L) = IF p + 1 > L THEN 0 ELSE L - (p + 1) + 1
    BY <2>1, FS_Interval
  <2> HIDE DEF L
  <2> QED
    BY <1>1, <1>3, <2>1, <2>2
<1>6. Len(SubSeq(s, p + 1, L)) = L - p
  BY <1>1, <1>3
<1> QED
  BY <1>4, <1>5, <1>6 DEF Recent, p

\* What a queue is after a call: in order, and with one event more in every
\* window that holds the call.
LEMMA QueueTakes ==
  ASSUME NEW q \in Queue, events[q] \in Seq(0..MaxTime), now \in 0..MaxTime,
         \A n \in 1..Len(events[q]) : events[q][n] <= now,
         \A m, n \in 1..Len(events[q]) : m <= n => events[q][m] <= events[q][n]
  PROVE  LET r == Append(Recent(q), now)
         IN  /\ r \in Seq(0..MaxTime)
             /\ \A n \in 1..Len(r) : r[n] <= now
             /\ \A m, n \in 1..Len(r) : m <= n => r[m] <= r[n]
             /\ \A t \in Nat : now <= t =>
                  Cardinality(FreshIn(r, t))
                  = Cardinality(FreshIn(events[q], t)) + (IF t - now < Window THEN 1 ELSE 0)
<1> DEFINE s == events[q]
           L == Len(s)
           p == Popped(q)
           r == Append(Recent(q), now)
<1>1. /\ s \in Seq(0..MaxTime) /\ s \in Seq(Nat) /\ now \in Nat /\ L \in Nat
      /\ \A n \in 1..L : s[n] \in 0..MaxTime /\ s[n] \in Nat
  BY AccessAssumption
<1>2. /\ p \in 0..L /\ \A m \in 1..p : now - s[m] >= Window
      /\ r = Append(SubSeq(s, p + 1, L), now)
  BY <1>1, PoppedUntil DEF Recent
<1>3. \A n \in 1..L : s[n] <= now /\ \A m \in 1..n : s[m] <= s[n]
  <2> TAKE n \in 1..L
  <2>1. \A m \in 1..n : m \in 1..L /\ m <= n
    BY <1>1
  <2> QED
    BY <2>1
<1> HIDE DEF s, L, p, r
<1>4. \A t \in Nat : now <= t =>
        /\ Len(r) = L - p + 1
        /\ \A n \in 1..(L - p) : r[n] = s[n + p]
        /\ r[Len(r)] = now
        /\ Cardinality(FreshIn(r, t))
           = Cardinality(FreshIn(s, t)) + (IF t - now < Window THEN 1 ELSE 0)
  <2> TAKE t \in Nat
  <2> HAVE now <= t
  <2> QED
    BY <1>1, <1>2, FreshCounted DEF L
<1>5. /\ Len(r) = L - p + 1 /\ r[L - p + 1] = now
      /\ \A n \in 1..(L - p) : r[n] = s[n + p] /\ n + p \in 1..L
  <2>1. now <= now
    BY <1>1
  <2>2. \A n \in 1..(L - p) : n + p \in 1..L
    BY <1>1, <1>2
  <2> QED
    BY <1>1, <1>4, <2>1, <2>2
<1>6. \A n \in 1..(L - p + 1) : n \in 1..(L - p) \/ n = L - p + 1
  BY <1>1, <1>2
<1>7. ASSUME NEW n \in 1..(L - p + 1) PROVE r[n] \in 0..MaxTime /\ r[n] <= now
  <2>1. CASE n = L - p + 1
    BY <1>1, <1>5, <2>1
  <2>2. CASE n \in 1..(L - p)
    BY <1>1, <1>3, <1>5, <2>2
  <2> QED
    BY <1>6, <2>1, <2>2
<1>8. ASSUME NEW m \in 1..(L - p + 1), NEW n \in 1..(L - p + 1), m <= n PROVE r[m] <= r[n]
  <2>1. CASE n = L - p + 1
    BY <1>5, <1>7, <2>1
  <2>2. CASE n \in 1..(L - p)
    <3>1. m \in 1..(L - p) /\ n + p \in 1..L /\ m + p \in 1..(n + p)
      BY <1>1, <1>2, <1>8, <2>2
    <3> DEFINE x == m + p
               y == n + p
    <3>2. r[m] = s[x] /\ r[n] = s[y]
      BY <1>5, <2>2, <3>1
    <3>3. y \in 1..L /\ x \in 1..y
      BY <3>1
    <3> HIDE DEF x, y
    <3> QED
      BY <1>3, <3>2, <3>3
  <2> QED
    BY <1>6, <2>1, <2>2
<1>9. r \in Seq(0..MaxTime)
  <2>1. r \in Seq(Nat)
    <3>1. SubSeq(s, p + 1, L) \in Seq(Nat)
      BY <1>1, <1>2 DEF L
    <3> QED
      BY <1>1, <1>2, <3>1
  <2>2. \A n \in 1..Len(r) : r[n] \in 0..MaxTime
    BY <1>5, <1>7
  <2>3. Len(r) \in Nat /\ r \in [1..Len(r) -> 0..MaxTime]
    BY <2>1, <2>2
  <2> QED
    BY <2>3, SeqDef
<1> QED
  BY <1>4, <1>5, <1>7, <1>8, <1>9 DEF r, s

-----------------------------------------------------------------------------
LEMMA LimiterStart == Init => LimiterInvariant
<1> SUFFICES ASSUME Init PROVE LimiterInvariant
  OBVIOUS
<1>1. Typed
  BY AccessStart DEF ReadInvariant
<1>2. AccessTyped
  BY AccessAssumption DEF Init, AccessTyped
<1>3. Numbered
  <2>1. limited = {} /\ Waiting = {} /\ calls = 0
    BY DEF Init, Waiting
  <2> QED
    BY <2>1, FS_EmptySet DEF Numbered
<1>4. InOrder
  BY DEF Init, InOrder
<1>5. Counted
  <2> SUFFICES ASSUME NEW q \in Queue, NEW t \in Nat
               PROVE  /\ Cardinality(FreshIn(events[q], t)) = Cardinality(Young(q, t))
                      /\ Cardinality({ h \in Young(q, t) : h.ok }) <= Cap(q)
    BY DEF Counted
  <2>1. FreshIn(events[q], t) = {} /\ Young(q, t) = {} /\ { h \in Young(q, t) : h.ok } = {}
    BY DEF Init, FreshIn, Young
  <2>2. Cap(q) \in Nat
    BY AccessAssumption DEF Cap
  <2> QED
    BY <2>1, <2>2, FS_EmptySet
<1>6. LimitsAsConfigured
  BY DEF Init, LimitsAsConfigured, WindowBound, RefusalsJustified
<1> QED
  BY <1>1, <1>2, <1>3, <1>4, <1>5, <1>6 DEF LimiterInvariant

\* All steps of a call but that of the limiter leave the queues alone.
LEMMA OtherSteps ==
  ASSUME Typed, AccessTyped, NEW k \in Caller, Step(k), ~ Limit(k)
  PROVE  /\ UNCHANGED <<now, sinkUp, events, limited, calls>>
         /\ readAt' \in [Caller -> -1..MaxTime]
         /\ Waiting' \subseteq Waiting
<1>0. /\ readAt \in [Caller -> -1..MaxTime] /\ now \in -1..MaxTime
      /\ pc \in [Caller -> Steps]
  BY AccessAssumption DEF AccessTyped, Typed
<1>1. CASE Authenticate(k)
  <2>1. pc' = [pc EXCEPT ![k] = "admit"] \/ pc' = [pc EXCEPT ![k] = "audit"]
    BY <1>1 DEF Authenticate, Give, GoOn
  <2> QED
    BY <1>0, <1>1, <2>1 DEF Authenticate, Waiting
<1>2. CASE Refused(k) \/ HttpRefused(k) \/ HttpParsed(k) \/ Provenance(k) \/ Trace(k)
           \/ TraceAudit(k) \/ Audit(k)
  <2>1. \/ pc' = pc
        \/ \E step \in {"audit", "idle", "read", "trace"} : pc' = [pc EXCEPT ![k] = step]
    BY <1>2 DEF Refused, HttpRefused, HttpParsed, Provenance, Trace, TraceAudit, Audit,
                Traced, Give, GoOn, Answer
  <2>2. Waiting' \subseteq Waiting
    BY <1>0, <2>1 DEF Waiting
  <2>3. UNCHANGED <<now, sinkUp, events, limited, calls>>
    BY <1>2 DEF Refused, HttpRefused, HttpParsed, Provenance, Trace, TraceAudit, Audit
  <2>4. readAt' = readAt \/ readAt' = [readAt EXCEPT ![k] = now]
    BY <1>2 DEF Refused, HttpRefused, HttpParsed, Provenance, Trace, TraceAudit, Audit
  <2> QED
    BY <1>0, <2>2, <2>3, <2>4
<1> QED
  BY <1>1, <1>2 DEF Step

\* A call that begins waits for the limiter, or does not.
LEMMA BeginSteps ==
  ASSUME Typed, AccessTyped, NEW k \in Caller, NEW a, NEW step, Begin(k, a, step)
  PROVE  /\ UNCHANGED <<now, sinkUp, events, limited>> /\ calls' = calls + 1
         /\ calls' \in 0..MaxCalls /\ readAt' \in [Caller -> -1..MaxTime]
         /\ Waiting' \subseteq Waiting \cup {k}
<1>1. pc' = [pc EXCEPT ![k] = step] /\ readAt' = [readAt EXCEPT ![k] = -1]
      /\ UNCHANGED <<now, sinkUp, events, limited>> /\ calls' = calls + 1 /\ calls < MaxCalls
  BY DEF Begin
<1>2. Waiting' \subseteq Waiting \cup {k}
  BY <1>1 DEF Typed, Waiting
<1>3. readAt' \in [Caller -> -1..MaxTime] /\ calls' \in 0..MaxCalls
  BY <1>1, AccessAssumption DEF AccessTyped
<1> QED
  BY <1>1, <1>2, <1>3

\* What the limiter does: it numbers the call, and both queues take it.
LEMMA LimitSteps ==
  ASSUME Typed, AccessTyped, NEW k \in Caller, Limit(k)
  PROVE  LET own == <<args[k].bearer.subject, args[k].tool>>
             ok  == \A q \in {own, TenantQueue} : Len(Recent(q)) < Cap(q)
         IN  /\ UNCHANGED <<now, sinkUp, calls, readAt>>
             /\ own \in Queue /\ TenantQueue \in Queue
             /\ limited' = limited \cup {[n |-> Cardinality(limited) + 1, caller |-> k,
                                          queue |-> own, at |-> now, ok |-> ok]}
             /\ \A q \in {own, TenantQueue} : events'[q] = Append(Recent(q), now)
             /\ \A q \in Queue \ {own, TenantQueue} : events'[q] = events[q]
             /\ events' = [q \in Queue |-> events'[q]]
             /\ k \in Waiting /\ Waiting' = Waiting \ {k}
<1> DEFINE own == <<args[k].bearer.subject, args[k].tool>>
<1>1. args[k] \in Argument
  BY DEF Limit, Typed
<1>2. own \in Queue /\ TenantQueue \in Queue
  BY <1>1, AccessAssumption DEF Queue
<1>3. k \in Waiting /\ Waiting' = Waiting \ {k}
  <2>1. pc' = [pc EXCEPT ![k] = "read"] \/ pc' = [pc EXCEPT ![k] = "audit"]
    BY DEF Limit, GoOn, Give
  <2> QED
    BY <2>1 DEF Limit, Typed, Waiting
<1>4. events' = [q \in Queue |-> IF q \in {own, TenantQueue} THEN Append(Recent(q), now)
                                                              ELSE events[q]]
  BY DEF Limit
<1> HIDE DEF own
<1>5. /\ \A q \in {own, TenantQueue} : events'[q] = Append(Recent(q), now)
      /\ \A q \in Queue \ {own, TenantQueue} : events'[q] = events[q]
      /\ events' = [q \in Queue |-> events'[q]]
  BY <1>2, <1>4
<1> QED
  BY <1>2, <1>3, <1>5 DEF Limit, own

\* While nothing is queued, calls only leave the window.
LEMMA QuietStep ==
  ASSUME LimiterInvariant, UNCHANGED <<events, limited>>, now' \in Nat, now <= now'
  PROVE  InOrder' /\ Counted' /\ LimitsAsConfigured'
<1>1. now \in Nat /\ \A q \in Queue : \A n \in 1..Len(events[q]) : events[q][n] \in Nat
  BY AccessAssumption DEF LimiterInvariant, AccessTyped, Typed
<1>2. InOrder'
  BY <1>1 DEF LimiterInvariant, InOrder
<1>3. Counted'
  <2>1. \A q \in Queue : events'[q] = events[q] /\ \A t : Young(q, t)' = Young(q, t)
    BY DEF Young
  <2>2. \A t \in Nat : now' <= t => now <= t
    BY <1>1
  <2> QED
    BY <2>1, <2>2 DEF LimiterInvariant, Counted
<1>4. LimitsAsConfigured'
  BY DEF LimiterInvariant, LimitsAsConfigured, WindowBound, RefusalsJustified, InWindow
<1> QED
  BY <1>2, <1>3, <1>4

LEMMA YoungFinite ==
  ASSUME Numbered, NEW q, NEW t
  PROVE  /\ IsFiniteSet(Young(q, t)) /\ Cardinality(Young(q, t)) \in Nat
         /\ \A S \in SUBSET Young(q, t) :
              IsFiniteSet(S) /\ Cardinality(S) \in Nat /\ Cardinality(S) <= Cardinality(Young(q, t))
<1>1. Young(q, t) \in SUBSET limited /\ IsFiniteSet(limited)
  BY DEF Young, Numbered
<1>2. IsFiniteSet(Young(q, t))
  BY <1>1, FS_Subset
<1> QED
  BY <1>2, FS_Subset, FS_CardinalityType

LEMMA NumberedOn ==
  ASSUME Typed, Numbered, calls \in Nat, NEW k, UNCHANGED <<limited, now>>,
         \/ Waiting' \subseteq Waiting /\ calls' = calls
         \/ Waiting' \subseteq Waiting \cup {k} /\ calls' = calls + 1
  PROVE  Numbered'
<1>1. IsFiniteSet(Waiting) /\ Cardinality(Waiting) \in Nat /\ Cardinality(limited) \in Nat
  BY FS_CardinalityType DEF Numbered
<1>2. IsFiniteSet(Waiting') /\ Cardinality(Waiting') \in Nat
      /\ Cardinality(limited) + Cardinality(Waiting') <= calls'
  <2>1. CASE Waiting' \subseteq Waiting /\ calls' = calls
    <3>1. IsFiniteSet(Waiting') /\ Cardinality(Waiting') <= Cardinality(Waiting)
      BY <1>1, <2>1, FS_Subset
    <3> QED
      BY <1>1, <2>1, <3>1, FS_CardinalityType DEF Numbered
  <2>2. CASE Waiting' \subseteq Waiting \cup {k} /\ calls' = calls + 1
    <3>1. /\ IsFiniteSet(Waiting \cup {k}) /\ Cardinality(Waiting \cup {k}) \in Nat
          /\ Cardinality(Waiting \cup {k}) <= Cardinality(Waiting) + 1
      <4>1. /\ IsFiniteSet(Waiting \cup {k})
            /\ \/ Cardinality(Waiting \cup {k}) = Cardinality(Waiting)
               \/ Cardinality(Waiting \cup {k}) = Cardinality(Waiting) + 1
        BY <1>1, FS_AddElement
      <4> QED
        BY <1>1, <4>1
    <3>2. IsFiniteSet(Waiting') /\ Cardinality(Waiting') <= Cardinality(Waiting \cup {k})
      BY <2>2, <3>1, FS_Subset
    <3> QED
      BY <1>1, <2>2, <3>1, <3>2, FS_CardinalityType DEF Numbered
  <2> QED
    BY <2>1, <2>2
<1> QED
  BY <1>2 DEF Numbered

(***************************************************************************)
(* The step of the limiter.  The call that it lets pass was preceded by    *)
(* fewer calls in the window than the cap, those it refused included.      *)
(***************************************************************************)
LEMMA LimitCounts ==
  ASSUME LimiterInvariant, NEW k \in Caller, Limit(k)
  PROVE  AccessTyped' /\ Numbered' /\ InOrder' /\ Counted' /\ LimitsAsConfigured'
<1> DEFINE own  == <<args[k].bearer.subject, args[k].tool>>
           mine == {own, TenantQueue}
           ok   == \A q \in mine : Len(Recent(q)) < Cap(q)
           N    == Cardinality(limited)
<1>0. PICK g : g = [n |-> N + 1, caller |-> k, queue |-> own, at |-> now, ok |-> ok]
  OBVIOUS
<1>1. /\ UNCHANGED <<now, sinkUp, calls, readAt>>
      /\ own \in Queue /\ TenantQueue \in Queue
      /\ limited' = limited \cup {g}
      /\ \A q \in mine : events'[q] = Append(Recent(q), now)
      /\ \A q \in Queue \ mine : events'[q] = events[q]
      /\ events' = [q \in Queue |-> events'[q]]
      /\ k \in Waiting /\ Waiting' = Waiting \ {k}
  BY <1>0, LimitSteps DEF LimiterInvariant
<1>2. /\ now \in Nat /\ now \in 0..MaxTime /\ IsFiniteSet(limited) /\ N \in Nat
      /\ \A h \in limited : h.n \in 1..N /\ h.at \in Nat /\ h.at <= now
  BY FS_CardinalityType DEF LimiterInvariant, Typed, AccessTyped, Numbered
<1>3. /\ g \notin limited /\ g.n = N + 1 /\ g.at = now /\ g.queue = own /\ g.ok = ok
      /\ g \in [n : Nat, caller : Caller, queue : Queue, at : 0..MaxTime, ok : BOOLEAN]
  BY <1>0, <1>1, <1>2
<1>4. Window \in Nat /\ Window > 0 /\ \A q \in Queue : Cap(q) \in Nat
  BY AccessAssumption DEF Cap
<1> HIDE DEF ok
\* The queues.
<1>5. \A q \in Queue :
        /\ events[q] \in Seq(0..MaxTime)
        /\ \A n \in 1..Len(events[q]) : events[q][n] <= now
        /\ \A m, n \in 1..Len(events[q]) : m <= n => events[q][m] <= events[q][n]
  BY DEF LimiterInvariant, AccessTyped, InOrder
<1>6. ASSUME NEW q \in Queue
      PROVE  /\ events'[q] \in Seq(0..MaxTime)
             /\ \A n \in 1..Len(events'[q]) : events'[q][n] <= now
             /\ \A m, n \in 1..Len(events'[q]) : m <= n => events'[q][m] <= events'[q][n]
             /\ \A t \in Nat : now <= t =>
                  Cardinality(FreshIn(events'[q], t))
                  = Cardinality(FreshIn(events[q], t))
                    + (IF q \in mine /\ t - now < Window THEN 1 ELSE 0)
  <2>1. CASE q \in mine
    <3> DEFINE r == Append(Recent(q), now)
    <3>1. events'[q] = r
      BY <1>1, <2>1
    <3>2. /\ r \in Seq(0..MaxTime)
          /\ \A n \in 1..Len(r) : r[n] <= now
          /\ \A m, n \in 1..Len(r) : m <= n => r[m] <= r[n]
          /\ \A t \in Nat : now <= t =>
               Cardinality(FreshIn(r, t))
               = Cardinality(FreshIn(events[q], t)) + (IF t - now < Window THEN 1 ELSE 0)
      BY <1>2, <1>5, QueueTakes
    <3> HIDE DEF r
    <3> QED
      BY <2>1, <3>1, <3>2
  <2>2. CASE q \notin mine
    <3>1. events'[q] = events[q]
      BY <1>1, <2>2
    <3>2. events[q] \in Seq(Nat)
      BY <1>5, AccessAssumption
    <3>3. \A t \in Nat : Cardinality(FreshIn(events[q], t)) \in Nat
      BY <3>2, FreshFinite
    <3> QED
      BY <1>5, <2>2, <3>1, <3>3
  <2> QED
    BY <2>1, <2>2
<1>7. InOrder'
  BY <1>1, <1>6 DEF InOrder
<1>8. AccessTyped'
  <2>1. events' \in [Queue -> Seq(0..MaxTime)]
    BY <1>1, <1>6
  <2>2. limited' \subseteq [n : Nat, caller : Caller, queue : Queue, at : 0..MaxTime, ok : BOOLEAN]
    BY <1>1, <1>3 DEF LimiterInvariant, AccessTyped
  <2> QED
    BY <1>1, <2>1, <2>2 DEF LimiterInvariant, AccessTyped
\* The calls.
<1>10. Numbered'
  <2>1. IsFiniteSet(limited') /\ Cardinality(limited') = N + 1
    BY <1>1, <1>2, <1>3, FS_AddElement
  <2>2. /\ IsFiniteSet(Waiting) /\ Cardinality(Waiting) \in Nat
        /\ IsFiniteSet(Waiting') /\ Cardinality(Waiting') = Cardinality(Waiting) - 1
    BY <1>1, FS_RemoveElement, FS_CardinalityType DEF LimiterInvariant, Numbered
  <2>3. N + Cardinality(Waiting) <= calls /\ calls \in Nat
    BY AccessAssumption DEF LimiterInvariant, Numbered, AccessTyped
  <2>4. \A h \in limited' : h.n \in 1..(N + 1) /\ h.at <= now
    BY <1>1, <1>2, <1>3
  <2>5. N + 1 + Cardinality(Waiting') <= calls
    BY <1>2, <2>2, <2>3
  <2> QED
    BY <1>1, <2>1, <2>2, <2>4, <2>5 DEF Numbered
<1>11. ASSUME NEW q \in Queue, NEW t \in Nat, now <= t
       PROVE  Young(q, t)' = IF q \in mine /\ t - now < Window THEN Young(q, t) \cup {g}
                                                                ELSE Young(q, t)
  BY <1>1, <1>3 DEF Young
<1>12. ASSUME NEW q \in mine PROVE Len(Recent(q)) = Cardinality(Young(q, now))
  <2>1. q \in Queue
    BY <1>1
  <2>2. now <= now /\ events[q] \in Seq(0..MaxTime)
    BY <1>2, <1>5, <2>1
  <2>3. Len(Recent(q)) = Cardinality(FreshIn(events[q], now))
    <3>1. \A m, n \in 1..Len(events[q]) : m <= n => events[q][m] <= events[q][n]
      BY <1>5, <2>1
    <3> HIDE DEF mine
    <3> QED
      BY <1>2, <2>2, <2>1, <3>1, RecentCounts
  <2>4. Cardinality(FreshIn(events[q], now)) = Cardinality(Young(q, now))
    BY <1>2, <2>2, <2>1 DEF LimiterInvariant, Counted
  <2> QED
    BY <2>3, <2>4
<1>13. \A q \in Queue, t \in Nat :
         /\ IsFiniteSet(Young(q, t)) /\ Cardinality(Young(q, t)) \in Nat
         /\ \A S \in SUBSET Young(q, t) : /\ IsFiniteSet(S) /\ Cardinality(S) \in Nat
                                          /\ Cardinality(S) <= Cardinality(Young(q, t))
  BY YoungFinite DEF LimiterInvariant
<1>14. \A q, t : g \notin Young(q, t)
  BY <1>3 DEF Young
<1>15. \A q \in Queue, t \in Nat : now <= t => Young(q, t) \subseteq Young(q, now)
  BY <1>2, <1>4 DEF Young
<1>16. ASSUME NEW q \in mine, ok PROVE Cardinality(Young(q, now)) < Cap(q)
  BY <1>12, <1>16 DEF ok
<1>17. Counted'
  <2> SUFFICES ASSUME NEW q \in Queue, NEW t \in Nat, now <= t
               PROVE  /\ Cardinality(FreshIn(events'[q], t)) = Cardinality(Young(q, t)')
                      /\ Cardinality({ h \in Young(q, t)' : h.ok }) <= Cap(q)
    BY <1>1 DEF Counted
  <2>1. /\ Cardinality(FreshIn(events[q], t)) = Cardinality(Young(q, t))
        /\ Cardinality({ h \in Young(q, t) : h.ok }) <= Cap(q)
    BY DEF LimiterInvariant, Counted
  <2>2. IsFiniteSet(Young(q, t)) /\ Cardinality(Young(q, t)) \in Nat
    BY <1>13
  <2>3. CASE q \in mine /\ t - now < Window
    <3>1. Young(q, t)' = Young(q, t) \cup {g}
      BY <1>11, <2>3
    <3>2. /\ IsFiniteSet(Young(q, t) \cup {g})
          /\ Cardinality(Young(q, t) \cup {g}) = Cardinality(Young(q, t)) + 1
      BY <1>14, <2>2, FS_AddElement
    <3>3. Cardinality({ h \in Young(q, t)' : h.ok }) <= Cap(q)
      <4>1. CASE ok
        <5>1. /\ Cardinality({ h \in Young(q, t) \cup {g} : h.ok }) \in Nat
              /\ Cardinality({ h \in Young(q, t) \cup {g} : h.ok }) <= Cardinality(Young(q, t)) + 1
          BY <3>2, FS_Subset, FS_CardinalityType
        <5>2. Young(q, t) \in SUBSET Young(q, now)
          BY <1>15
        <5>3. /\ Cardinality(Young(q, t)) <= Cardinality(Young(q, now))
              /\ Cardinality(Young(q, now)) \in Nat
          BY <1>2, <1>13, <5>2
        <5>4. Cardinality(Young(q, now)) < Cap(q)
          BY <1>16, <2>3, <4>1
        <5> QED
          BY <1>4, <2>2, <3>1, <5>1, <5>3, <5>4
      <4>2. CASE ~ ok
        <5>1. { h \in Young(q, t) \cup {g} : h.ok } = { h \in Young(q, t) : h.ok }
          BY <1>3, <4>2
        <5> QED
          BY <2>1, <3>1, <5>1
      <4> QED
        BY <4>1, <4>2
    <3>4. Cardinality(FreshIn(events'[q], t)) = Cardinality(Young(q, t)) + 1
      BY <1>6, <2>1, <2>3
    <3> QED
      BY <3>1, <3>2, <3>3, <3>4
  <2>4. CASE ~ (q \in mine /\ t - now < Window)
    <3>1. Young(q, t)' = Young(q, t)
      BY <1>11, <2>4
    <3>2. Cardinality(FreshIn(events'[q], t)) = Cardinality(Young(q, t))
      <4>1. Cardinality(FreshIn(events'[q], t)) = Cardinality(FreshIn(events[q], t)) + 0
        BY <1>6, <2>4
      <4> QED
        BY <2>1, <2>2, <4>1
    <3> QED
      BY <2>1, <3>1, <3>2
  <2> QED
    BY <2>3, <2>4
\* What was said of the earlier calls stays: the new one comes after them.
<1>18. LimitsAsConfigured'
  <2> DEFINE W(h, q) == { x \in limited' : /\ x.n <= h.n /\ h.at - x.at < Window
                                           /\ q \in {x.queue, TenantQueue} }
  <2>1. \A h \in limited, q \in Queue : W(h, q) = InWindow(h, q)
    BY <1>1, <1>2, <1>3 DEF InWindow
  <2>2. ASSUME NEW q \in mine PROVE W(g, q) = Young(q, now) \cup {g}
    <3>1. \A x \in limited : x.n <= N + 1 /\ now - x.at \in Int
      BY <1>2
    <3>2. /\ limited' = limited \cup {g} /\ g.n = N + 1 /\ g.n <= N + 1 /\ g.at = now
          /\ g.at - g.at < Window /\ q \in {g.queue, TenantQueue}
      BY <1>1, <1>2, <1>3, <1>4
    <3> QED
      BY <3>1, <3>2 DEF Young
  <2>3. \A h \in limited : h.queue \in Queue
    BY DEF LimiterInvariant, AccessTyped
  <2>4. TenantQueue \in Queue /\ own \in Queue
    BY <1>1
  <2>5. ASSUME NEW q \in mine PROVE Cardinality({ x \in W(g, q) : x.ok }) <= Cap(q)
    <3>1. q \in Queue /\ now' = now
      BY <1>1
    <3>2. now <= now /\ now - now < Window
      BY <1>2, <1>4
    <3>3. W(g, q) = Young(q, now)'
      BY <1>2, <1>11, <2>2, <3>2, <3>1
    <3> HIDE DEF W, mine
    <3>4. Cardinality({ x \in Young(q, now)' : x.ok }) <= Cap(q)
      BY <1>2, <1>17, <3>2, <3>1 DEF Counted
    <3> QED
      BY <3>3, <3>4
  <2>6. WindowBound'
    <3> SUFFICES ASSUME NEW h \in limited', NEW q \in {h.queue, TenantQueue}
                 PROVE  Cardinality({ x \in W(h, q) : x.ok }) <= Cap(q)
      BY DEF WindowBound, InWindow
    <3>1. CASE h \in limited
      <4>1. q \in Queue /\ W(h, q) = InWindow(h, q)
        BY <2>1, <2>3, <2>4, <3>1
      <4> HIDE DEF W
      <4> QED
        BY <3>1, <4>1 DEF LimiterInvariant, LimitsAsConfigured, WindowBound
    <3>2. CASE h = g
      <4>1. q \in mine
        BY <1>3, <3>2
      <4> HIDE DEF W, mine
      <4> QED
        BY <2>5, <3>2, <4>1
    <3> QED
      BY <1>1, <3>1, <3>2
  <2>7. RefusalsJustified'
    <3> SUFFICES ASSUME NEW h \in limited', ~ h.ok
                 PROVE  \E q \in {h.queue, TenantQueue} : Cardinality(W(h, q)) > Cap(q)
      BY DEF RefusalsJustified, InWindow
    <3>1. CASE h \in limited
      <4>1. \A q \in {h.queue, TenantQueue} : W(h, q) = InWindow(h, q)
        BY <2>1, <2>3, <2>4, <3>1
      <4> HIDE DEF W
      <4> QED
        BY <3>1, <4>1 DEF LimiterInvariant, LimitsAsConfigured, RefusalsJustified
    <3>2. CASE h = g
      <4>1. PICK q \in mine : ~ (Len(Recent(q)) < Cap(q))
        BY <1>3, <3>2 DEF ok
      <4>2. /\ IsFiniteSet(Young(q, now)) /\ Cardinality(Young(q, now)) \in Nat
            /\ Cap(q) \in Nat
        BY <1>1, <1>2, <1>4, <1>13
      <4>3. Cardinality(Young(q, now) \cup {g}) = Cardinality(Young(q, now)) + 1
        BY <1>14, <4>2, FS_AddElement
      <4>4. q \in {h.queue, TenantQueue} /\ W(h, q) = Young(q, now) \cup {g}
        BY <1>3, <2>2, <3>2
      <4>5. ~ (Cardinality(Young(q, now)) < Cap(q))
        BY <1>12, <4>1
      <4> HIDE DEF W, mine
      <4>6. Cardinality(W(h, q)) > Cap(q)
        BY <4>2, <4>3, <4>4, <4>5
      <4> QED
        BY <4>4, <4>6
    <3> QED
      BY <1>1, <3>1, <3>2
  <2> QED
    BY <2>6, <2>7 DEF LimitsAsConfigured
<1> QED
  BY <1>7, <1>8, <1>10, <1>17, <1>18

LEMMA LimiterStep == LimiterInvariant /\ [Next]_vars => LimiterInvariant'
<1> SUFFICES ASSUME LimiterInvariant, [Next]_vars PROVE LimiterInvariant'
  OBVIOUS
<1>1. Typed'
  BY StepTyped DEF LimiterInvariant
<1>2. /\ Typed /\ AccessTyped /\ Numbered /\ calls \in Nat /\ now \in Nat /\ now <= now
      /\ calls < MaxCalls => calls + 1 \in 0..MaxCalls
  BY AccessAssumption DEF LimiterInvariant, AccessTyped
\* A step that leaves the queues and the clock alone.
<1>3. ASSUME NEW k \in Caller, UNCHANGED <<now, sinkUp, events, limited>>,
             \/ Waiting' \subseteq Waiting /\ calls' = calls
             \/ Waiting' \subseteq Waiting \cup {k} /\ calls' = calls + 1,
             calls' \in 0..MaxCalls, readAt' \in [Caller -> -1..MaxTime]
      PROVE  LimiterInvariant'
  <2>1. Numbered'
    BY <1>2, <1>3, NumberedOn
  <2>2. InOrder' /\ Counted' /\ LimitsAsConfigured'
    BY <1>2, <1>3, QuietStep
  <2>3. AccessTyped'
    BY <1>2, <1>3 DEF AccessTyped
  <2> QED
    BY <1>1, <2>1, <2>2, <2>3 DEF LimiterInvariant
<1>4. ASSUME NEW k \in Caller, NEW a \in Argument, Call(k, a) \/ Handle(k, a)
      PROVE  LimiterInvariant'
  <2>1. Begin(k, a, "authenticate") \/ Begin(k, a, "handle")
    BY <1>4 DEF Call, Handle
  <2>2. /\ UNCHANGED <<now, sinkUp, events, limited>> /\ calls' = calls + 1
        /\ calls' \in 0..MaxCalls /\ readAt' \in [Caller -> -1..MaxTime]
        /\ Waiting' \subseteq Waiting \cup {k}
    BY <1>2, <2>1, BeginSteps
  <2> QED
    BY <1>3, <2>2
<1>5. ASSUME NEW k \in Caller, Step(k) PROVE LimiterInvariant'
  <2>1. CASE Limit(k)
    BY <1>1, <2>1, LimitCounts DEF LimiterInvariant
  <2>2. CASE ~ Limit(k)
    <3>1. /\ UNCHANGED <<now, sinkUp, events, limited, calls>>
          /\ readAt' \in [Caller -> -1..MaxTime] /\ Waiting' \subseteq Waiting
      BY <1>2, <1>5, <2>2, OtherSteps
    <3>2. calls' \in 0..MaxCalls
      BY <1>2, <3>1 DEF AccessTyped
    <3> QED
      BY <1>3, <3>1, <3>2
  <2> QED
    BY <2>1, <2>2
<1>6. CASE SinkChanges \/ Tick \/ UNCHANGED vars
  <2>1. /\ UNCHANGED <<events, limited, calls, pc, readAt>>
        /\ sinkUp' \in BOOLEAN /\ now' \in 0..MaxTime /\ now' \in Nat /\ now <= now'
    <3>1. UNCHANGED <<events, limited, calls, pc, readAt>>
      BY <1>6 DEF SinkChanges, Tick, vars, callVars
    <3>2. sinkUp' = sinkUp \/ sinkUp' = ~ sinkUp
      BY <1>6 DEF SinkChanges, Tick, vars
    <3>3. \/ now' = now
          \/ now < MaxTime /\ now' = now + 1
      BY <1>6 DEF SinkChanges, Tick, vars
    <3>4. sinkUp' \in BOOLEAN
      BY <1>2, <3>2 DEF AccessTyped
    <3>5. now \in 0..MaxTime /\ MaxTime \in Nat
      BY <1>2, AccessAssumption DEF AccessTyped
    <3>6. now' \in 0..MaxTime /\ now' \in Nat /\ now <= now'
      BY <3>3, <3>5
    <3> QED
      BY <3>1, <3>4, <3>6
  <2>2. AccessTyped'
    BY <1>2, <2>1 DEF AccessTyped
  <2>3. Waiting' = Waiting
    BY <2>1 DEF Waiting
  <2>4. Numbered'
    <3>1. \A g \in limited : g.n \in 1..Cardinality(limited) /\ g.at \in Nat /\ g.at <= now
      BY <1>2 DEF Numbered, Typed
    <3>2. \A g \in limited : g.at <= now'
      BY <1>2, <2>1, <3>1
    <3> QED
      BY <1>2, <2>1, <2>3, <3>1, <3>2 DEF Numbered
  <2>5. InOrder' /\ Counted' /\ LimitsAsConfigured'
    BY <2>1, QuietStep
  <2> QED
    BY <1>1, <2>2, <2>4, <2>5 DEF LimiterInvariant
<1> QED
  BY <1>4, <1>5, <1>6 DEF Next

LEMMA AlwaysLimited == Spec => []LimiterInvariant
BY LimiterStart, LimiterStep, PTL DEF Spec

(***************************************************************************)
(* The sliding windows of the limiter do what the configuration says, for  *)
(* any caps and any window: in no window does it let more calls of one     *)
(* subject and tool, or of the tenant, pass than the cap, whichever calls  *)
(* overlap and however the clock moves between them; and it refuses only   *)
(* when the calls of the last window, those it refused included, are more  *)
(* than the cap.                                                           *)
(***************************************************************************)
THEOREM WindowsHold == Spec => []LimitsAsConfigured
BY AlwaysLimited, PTL DEF LimiterInvariant

\* Every call comes to the limiter at most once, so that the record of the
\* limiter stays within the number of calls.
THEOREM AccessTypeCorrect == Spec => []TypeOK
<1>1. LimiterInvariant => TypeOK
  <2> SUFFICES ASSUME LimiterInvariant PROVE TypeOK
    OBVIOUS
  <2>1. Typed /\ AccessTyped /\ Numbered
    BY DEF LimiterInvariant
  <2>2. /\ Cardinality(limited) \in Nat /\ Cardinality(Waiting) \in Nat
        /\ calls \in Nat /\ calls <= MaxCalls /\ MaxCalls \in Nat
    BY <2>1, FS_CardinalityType, AccessAssumption DEF Numbered, AccessTyped
  <2>3. Cardinality(limited) <= MaxCalls
    BY <2>1, <2>2 DEF Numbered
  <2>4. \A g \in limited : g.n \in 1..MaxCalls
    BY <2>1, <2>2, <2>3 DEF Numbered
  <2>5. limited \subseteq [n : 1..MaxCalls, caller : Caller, queue : Queue, at : 0..MaxTime,
                           ok : BOOLEAN]
    BY <2>1, <2>4 DEF AccessTyped
  <2> QED
    BY <2>1, <2>5 DEF TypeOK, Typed, AccessTyped, Steps
<1> QED
  BY <1>1, AlwaysLimited, PTL
=============================================================================
