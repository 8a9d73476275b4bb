----------------------------- MODULE AgentAccess -----------------------------
(***************************************************************************)
(* The two doors to QueryService: McpToolService.call() with Authenticator *)
(* and RateLimiter for agents, and GraphQueryApi.handle() for HTTP, whose  *)
(* middleware has authenticated the caller.  Several calls at once share   *)
(* the limiter, a clock and an audit sink that comes and goes, and tokens  *)
(* expire while a call is under way.  What the query finds is left open    *)
(* here; TraceQuery says it.                                               *)
(*                                                                         *)
(* The verifier of the token, the middleware, the repository and the sink  *)
(* are external.  One step is what a call does between two calls to them.  *)
(*                                                                         *)
(* A definition named X_Y is X with the bug Y; no specification uses it.   *)
(***************************************************************************)
EXTENDS Integers, FiniteSets, Sequences

CONSTANTS
  Caller,           \* the calls that can be under way at once
  Subject,
  Bearer,           \* what the verifier, or the middleware, says of the caller
  Argument,         \* what callers ask for, and at which door
  HomeTenant,       \* the tenant of the deployment policy
  SubjectCap,       \* 30 + 10
  TenantCap,        \* 300 + 60
  Window,           \* 60 seconds
  MaxLifetime,      \* 15 minutes and 60 seconds of clock skew
  TraceErrors,      \* how the repository can fail a trace
  ProvenanceErrors, \* and get_provenance
  MaxTime,          \* bounds of the model: on the clock
  MaxCalls          \* and on the number of calls

Tool  == {"trace", "impact", "get_provenance"}
Door  == {"mcp", "http"}
Scope == {"read", "read-proposed"}

Codes == {"none", "unauthorized", "forbidden", "invalid_request", "rate_limited",
          "query_limit_exceeded", "query_timeout", "service_unavailable",
          "invalid_page_token", "not_registered", "evidence_insufficient",
          "unsupported_media_type", "internal_error"}

ASSUME AccessAssumption ==
  /\ Bearer \subseteq [sound : BOOLEAN, subject : Subject, tenant : STRING,
                       inPolicy : BOOLEAN, scopes : SUBSET Scope, exp : Int]
  /\ Argument \subseteq [door : Door, tool : Tool, bearer : Bearer, proposed : BOOLEAN,
                          wellFormed : BOOLEAN]
  /\ \A a \in Argument : a.door = "http" => a.tool = "trace"
  /\ TraceErrors \subseteq {"query_limit_exceeded", "query_timeout", "service_unavailable"}
  /\ ProvenanceErrors \subseteq {"not_registered", "evidence_insufficient", "service_unavailable"}
  /\ {SubjectCap, TenantCap, Window, MaxLifetime, MaxTime, MaxCalls} \subseteq Nat
  /\ Window > 0

VARIABLES
  now,     \* the clock
  sinkUp,  \* the durable audit sink is available
  events,  \* RateLimiter: its queues of call times, for subject and tool and for the tenant
  limited, \* history: the calls that came to the limiter, and which it let pass
  calls,   \* how many calls have begun
  pc,      \* per caller: "idle", or what its call does next
  args,    \* per caller: the arguments of its last call
  error,   \* per caller: the error code so far
  readAt,  \* per caller: when its call read the repository, or -1
  log,     \* per caller: the events that the sinks hold of its call
  reply    \* per caller: what the last call returned or raised

callVars == <<pc, args, error, readAt, log, reply>>
vars     == <<now, sinkUp, events, limited, calls, callVars>>

\* The queues of the limiter, one per subject and tool and one for the tenant.
TenantQueue == <<"tenant">>
Queue  == (Subject \X Tool) \cup {TenantQueue}
Cap(q) == IF q = TenantQueue THEN TenantCap ELSE SubjectCap

Init ==
  /\ now = 0 /\ sinkUp = TRUE /\ calls = 0
  /\ events = [q \in Queue |-> <<>>]
  /\ limited = {}
  /\ pc = [k \in Caller |-> "idle"]
  /\ args = [k \in Caller |-> <<>>]
  /\ error = [k \in Caller |-> "none"]
  /\ readAt = [k \in Caller |-> -1]
  /\ log = [k \in Caller |-> {}]
  /\ reply = [k \in Caller |-> "none"]

-----------------------------------------------------------------------------
Begin(k, a, step) ==
  /\ pc[k] = "idle" /\ calls < MaxCalls
  /\ calls' = calls + 1
  /\ pc' = [pc EXCEPT ![k] = step]
  /\ args' = [args EXCEPT ![k] = a]
  /\ error' = [error EXCEPT ![k] = "none"]
  /\ readAt' = [readAt EXCEPT ![k] = -1]
  /\ log' = [log EXCEPT ![k] = {}]
  /\ reply' = [reply EXCEPT ![k] = "none"]
  /\ UNCHANGED <<now, sinkUp, events, limited>>

\* McpToolService.call() and GraphQueryApi.handle() are entered.
Call(k, a)   == a.door = "mcp"  /\ Begin(k, a, "authenticate")
Handle(k, a) == a.door = "http" /\ Begin(k, a, "handle")

GoOn(k, step) == pc' = [pc EXCEPT ![k] = step] /\ UNCHANGED error

\* The call returns a result, or its error.
Answer(k, code) ==
  /\ pc' = [pc EXCEPT ![k] = "idle"]
  /\ error' = [error EXCEPT ![k] = code]
  /\ reply' = [reply EXCEPT ![k] = IF code = "none" THEN "result" ELSE code]

\* A driver's own code gets through.
Public_Leaks(code) == IF code = "query_timeout" THEN "driver_error" ELSE code

\* The exception handler of call() turns every error into a public one.
Public(code) == IF code = "invalid_page_token" THEN "service_unavailable" ELSE code

Give(k, code) ==
  /\ pc' = [pc EXCEPT ![k] = "audit"]
  /\ error' = [error EXCEPT ![k] = Public(code)]

\* authenticate(): a token that is sound, in its lifetime, for this tenant and scope.
InLifetime(b) == now < b.exp /\ b.exp - now <= MaxLifetime

\* inPolicy: all projects of the token are projects of the deployment policy.
AtHome(b) == b.tenant = HomeTenant /\ b.inPolicy /\ "read" \in b.scopes

Authenticate(k) ==
  /\ pc[k] = "authenticate"
  /\ LET b == args[k].bearer
     IN  \/ ~ (b.sound /\ InLifetime(b)) /\ Give(k, "unauthorized")
         \/ b.sound /\ InLifetime(b) /\ ~ AtHome(b) /\ Give(k, "forbidden")
         \/ b.sound /\ InLifetime(b) /\ AtHome(b) /\ GoOn(k, "admit")
  /\ UNCHANGED <<now, sinkUp, events, limited, calls, args, readAt, log, reply>>

\* What parse_request() can say of a body or of arguments.
ParseErrors == {"invalid_request", "query_limit_exceeded", "invalid_page_token"}

\* handle(): the method, the media type and the size, then parse_request().
\* Nothing records what is refused here.
HttpRefused(k) ==
  /\ pc[k] = "handle" /\ ~ args[k].wellFormed
  /\ \E code \in ParseErrors \cup {"unsupported_media_type"} : Answer(k, code)
  /\ UNCHANGED <<now, sinkUp, events, limited, calls, args, readAt, log>>

HttpParsed(k) ==
  /\ pc[k] = "handle" /\ args[k].wellFormed
  /\ GoOn(k, "read")
  /\ UNCHANGED <<now, sinkUp, events, limited, calls, args, readAt, log, reply>>

\* The scope for proposed records.
MayPropose(a) == a.proposed => "read-proposed" \in a.bearer.scopes

\* parse_tool_input(), which stumbles over a list where it expects a string,
\* and the scope.
Refused(k) ==
  /\ pc[k] = "admit"
  /\ \/ /\ ~ args[k].wellFormed
        /\ \E code \in ParseErrors \cup {"service_unavailable"} :
             (args[k].tool = "get_provenance" => code = "invalid_request") /\ Give(k, code)
     \/ args[k].wellFormed /\ ~ MayPropose(args[k]) /\ Give(k, "forbidden")
  /\ UNCHANGED <<now, sinkUp, events, limited, calls, args, readAt, log, reply>>

\* How often popleft() is called: until the oldest event is in the window.
Popped(q) ==
  CHOOSE n \in 0..Len(events[q]) :
    /\ \A m \in 1..n : now - events[q][m] >= Window
    /\ n < Len(events[q]) => now - events[q][n + 1] < Window

Recent(q) == SubSeq(events[q], Popped(q) + 1, Len(events[q]))

\* RateLimiter.allow(): both queues take the call, let pass or not.
Limit_SubjectOnly(k) ==
  /\ pc[k] = "admit" /\ args[k].wellFormed /\ MayPropose(args[k])
  /\ LET own == <<args[k].bearer.subject, args[k].tool>>
         mine == {own, TenantQueue}
         ok   == Len(Recent(own)) < Cap(own)
     IN  /\ events' = [q \in Queue |-> IF q \in mine THEN Append(Recent(q), now) ELSE events[q]]
         /\ limited' = limited \cup {[n |-> Cardinality(limited) + 1, caller |-> k,
                                      queue |-> own, at |-> now, ok |-> ok]}
         /\ IF ok THEN GoOn(k, "read") ELSE Give(k, "rate_limited")
  /\ UNCHANGED <<now, sinkUp, calls, args, readAt, log, reply>>

Limit(k) ==
  /\ pc[k] = "admit" /\ args[k].wellFormed /\ MayPropose(args[k])
  /\ LET own == <<args[k].bearer.subject, args[k].tool>>
         mine == {own, TenantQueue}
         ok   == \A q \in mine : Len(Recent(q)) < Cap(q)
     IN  /\ events' = [q \in Queue |-> IF q \in mine THEN Append(Recent(q), now) ELSE events[q]]
         /\ limited' = limited \cup {[n |-> Cardinality(limited) + 1, caller |-> k,
                                      queue |-> own, at |-> now, ok |-> ok]}
         /\ IF ok THEN GoOn(k, "read") ELSE Give(k, "rate_limited")
  /\ UNCHANGED <<now, sinkUp, calls, args, readAt, log, reply>>

\* get_provenance asks the repository itself; only the other tools have an
\* event of the query service.
Provenance(k) ==
  /\ pc[k] = "read" /\ args[k].tool = "get_provenance"
  /\ readAt' = [readAt EXCEPT ![k] = now]
  /\ \E code \in {"none"} \cup ProvenanceErrors : Give(k, code)
  /\ UNCHANGED <<now, sinkUp, events, limited, calls, args, log, reply>>

\* QueryService.trace() looks at the expiry again, then at the page token.
Trace_TrustsAuthenticate(k) ==
  /\ pc[k] = "read" /\ args[k].tool # "get_provenance"
  /\ readAt' = [readAt EXCEPT ![k] = now]
  /\ pc' = [pc EXCEPT ![k] = "trace"]
  /\ UNCHANGED error
  /\ UNCHANGED <<now, sinkUp, events, limited, calls, args, log, reply>>

Trace(k) ==
  /\ pc[k] = "read" /\ args[k].tool # "get_provenance"
  /\ pc' = [pc EXCEPT ![k] = "trace"]
  /\ LET b == args[k].bearer
         valid == b.sound /\ now < b.exp
         entitled == "read" \in b.scopes /\ MayPropose(args[k])
     IN  \/ /\ ~ valid
            /\ error' = [error EXCEPT ![k] = "unauthorized"] /\ UNCHANGED readAt
         \/ /\ valid /\ ~ entitled
            /\ error' = [error EXCEPT ![k] = "forbidden"] /\ UNCHANGED readAt
         \/ /\ valid /\ entitled
            /\ error' = [error EXCEPT ![k] = "invalid_page_token"] /\ UNCHANGED readAt
         \/ /\ valid /\ entitled
            /\ \E code \in {"none"} \cup TraceErrors : error' = [error EXCEPT ![k] = code]
            /\ readAt' = [readAt EXCEPT ![k] = now]
  /\ UNCHANGED <<now, sinkUp, events, limited, calls, args, log, reply>>

\* trace() has returned, or raised: call() goes on to its own event, while
\* handle() answers.
Traced(k, code) ==
  IF args[k].door = "mcp" THEN Give(k, code) /\ UNCHANGED reply ELSE Answer(k, code)

\* A sink that raises may have stored the event all the same.
Stored(k, event) == log' = [log EXCEPT ![k] = @ \cup {event}]
Lost(k, event)   == Stored(k, event) \/ UNCHANGED log

\* What becomes of an exception of the sink that trace() does not catch: call()
\* makes one answer of all, handle() takes a ValueError for a bad request.
Escaped(door) == IF door = "mcp" THEN {"service_unavailable"} ELSE {"internal_error", "invalid_request"}

\* The graph_trace event.  A success that cannot be recorded becomes an error,
\* by whether the sink raised a TimeoutError, which is recorded in its turn; an
\* error that cannot be recorded is raised, and no QueryApiError then.
TraceAudit(k) ==
  /\ pc[k] = "trace"
  /\ LET event == <<"graph_trace", error[k]>>
     IN  \/ /\ sinkUp
            /\ Stored(k, event)
            /\ Traced(k, error[k])
         \/ /\ ~ sinkUp /\ error[k] = "none"
            /\ Lost(k, event)
            /\ \E code \in {"query_timeout", "service_unavailable"} :
                 error' = [error EXCEPT ![k] = code]
            /\ UNCHANGED <<pc, reply>>
         \/ /\ ~ sinkUp /\ error[k] # "none"
            /\ Lost(k, event)
            /\ \E code \in Escaped(args[k].door) : Traced(k, code)
  /\ UNCHANGED <<now, sinkUp, events, limited, calls, args, readAt>>

\* The mcp_tool_call event of the finally clause.
Audit_BestEffort(k) ==
  /\ pc[k] = "audit"
  /\ IF sinkUp THEN Stored(k, <<"mcp_tool_call", error[k]>>) ELSE Lost(k, <<"mcp_tool_call", error[k]>>)
  /\ Answer(k, error[k])
  /\ UNCHANGED <<now, sinkUp, events, limited, calls, args, readAt>>

Audit(k) ==
  /\ pc[k] = "audit"
  /\ LET event == <<"mcp_tool_call", error[k]>>
     IN  \/ sinkUp /\ Stored(k, event) /\ Answer(k, error[k])
         \/ /\ ~ sinkUp /\ Lost(k, event)
            /\ reply' = [reply EXCEPT ![k] = "raised"]
            /\ GoOn(k, "idle")
  /\ UNCHANGED <<now, sinkUp, events, limited, calls, args, readAt>>

-----------------------------------------------------------------------------
Step(k) ==
  \/ Authenticate(k) \/ Refused(k) \/ Limit(k) \/ HttpRefused(k) \/ HttpParsed(k)
  \/ Provenance(k) \/ Trace(k) \/ TraceAudit(k) \/ Audit(k)

SinkChanges ==
  /\ sinkUp' = ~ sinkUp
  /\ UNCHANGED <<now, events, limited, calls, callVars>>

Tick ==
  /\ now < MaxTime /\ now' = now + 1
  /\ UNCHANGED <<sinkUp, events, limited, calls, callVars>>

Next ==
  \/ \E k \in Caller : Step(k) \/ \E a \in Argument : Call(k, a) \/ Handle(k, a)
  \/ SinkChanges
  \/ Tick

Spec == Init /\ [][Next]_vars
-----------------------------------------------------------------------------
TypeOK ==
  /\ now \in 0..MaxTime /\ sinkUp \in BOOLEAN /\ calls \in 0..MaxCalls
  /\ events \in [Queue -> Seq(0..MaxTime)]
  /\ limited \subseteq [n : 1..MaxCalls, caller : Caller, queue : Queue, at : 0..MaxTime,
                         ok : BOOLEAN]
  /\ pc \in [Caller -> {"idle", "authenticate", "handle", "admit", "read", "trace", "audit"}]
  /\ args \in [Caller -> Argument \cup {<<>>}]
  /\ error \in [Caller -> Codes]
  /\ readAt \in [Caller -> -1..MaxTime]
  /\ log \in [Caller -> SUBSET ({"mcp_tool_call", "graph_trace"} \X Codes)]
  /\ reply \in [Caller -> Codes \cup {"result", "raised"}]

\* The calls of a queue in the window that ends with call g.
InWindow(g, q) ==
  { h \in limited : h.n <= g.n /\ g.at - h.at < Window /\ q \in {h.queue, TenantQueue} }

WindowBound ==
  \A g \in limited : \A q \in {g.queue, TenantQueue} :
    Cardinality({ h \in InWindow(g, q) : h.ok }) <= Cap(q)

RefusalsJustified ==
  \A g \in limited : ~ g.ok =>
    \E q \in {g.queue, TenantQueue} : Cardinality(InWindow(g, q)) > Cap(q)

(***************************************************************************)
(* In no 60 seconds does the limiter let more calls of one subject and     *)
(* tool, or of the tenant, pass than its limit and burst allow, whichever  *)
(* calls overlap; and it refuses a call only when as many have come before *)
(* it in the last 60 seconds, those it refused included.  The second half  *)
(* is what the code does (mcp_service.py:20-22), and not what issue-4:147  *)
(* -149 prescribes: a token bucket refills while a caller retries, here    *)
(* only a caller, in a tenant, that pauses is sure to be let in again.     *)
(***************************************************************************)
LimitsAsConfigured == WindowBound /\ RefusalsJustified

(***************************************************************************)
(* The repository is read only for a token with the scopes that the call   *)
(* needs, and by an agent only for a token of this tenant and its projects *)
(* and after the limiter let the call pass; and a trace reads only while   *)
(* the token is valid, though it was checked earlier (issue-4:238: no call *)
(* of the database otherwise).                                             *)
(***************************************************************************)
ReadsAreEntitled ==
  \A k \in Caller : readAt[k] >= 0 =>
    LET b == args[k].bearer
    IN  /\ b.sound /\ "read" \in b.scopes /\ MayPropose(args[k])
        /\ args[k].tool # "get_provenance" => readAt[k] < b.exp
        /\ args[k].door = "mcp" =>
             /\ b.tenant = HomeTenant /\ b.inPolicy
             /\ \E g \in limited : g.caller = k /\ g.ok /\ g.at <= readAt[k]

(***************************************************************************)
(* No call returns a result, or an error, that the audit sink does not     *)
(* hold.  To an agent: one mcp_tool_call event with the same outcome, and  *)
(* for a trace a graph_trace event of its success; when that event cannot  *)
(* be recorded, the call raises.  Over HTTP: a graph_trace event with the  *)
(* same outcome, except for requests that are refused before trace(), and  *)
(* for the answer to an error that could not be recorded either.  It is    *)
(* the only one, unless the sink stored the event of a success and raised  *)
(* all the same (issue-4:152, issue-2:103, issue-9:269).                   *)
(***************************************************************************)
AnswersAreAudited ==
  \A k \in Caller : pc[k] = "idle" /\ reply[k] # "none" =>
    LET outcome == IF reply[k] = "result" THEN "none" ELSE reply[k]
        mcp   == { e \in log[k] : e[1] = "mcp_tool_call" }
        trace == log[k] \ mcp
    IN  \/ /\ args[k].door = "mcp"
           /\ IF reply[k] = "raised" THEN mcp \subseteq {<<"mcp_tool_call", error[k]>>}
                                     ELSE mcp = {<<"mcp_tool_call", outcome>>}
           /\ reply[k] = "result" /\ args[k].tool # "get_provenance" =>
                trace = {<<"graph_trace", "none">>}
        \/ /\ args[k].door = "http" /\ mcp = {}
           /\ ~ args[k].wellFormed => trace = {}
           /\ args[k].wellFormed /\ outcome \notin Escaped("http") =>
                /\ <<"graph_trace", outcome>> \in trace
                /\ trace # {<<"graph_trace", outcome>>} =>
                     /\ outcome \in {"query_timeout", "service_unavailable"}
                     /\ trace = {<<"graph_trace", outcome>>, <<"graph_trace", "none">>}
=============================================================================
