------------------------------ MODULE TraceQuery ------------------------------
(***************************************************************************)
(* QueryService.trace() over an InMemoryQueryRepository: clients read the  *)
(* relations around a record page by page, while batches of records keep   *)
(* arriving (the steps of EvidenceGraph).  A page token carries the key    *)
(* after which the next page starts; it is signed for one subject and one  *)
(* request and expires.  A service that was given no secret to sign with   *)
(* gives no token: what lies beyond a first page is out of reach then.     *)
(* One call of trace() is one step: nothing in it waits, and the in-memory *)
(* graph is used by one thread.                                            *)
(* What the query of the demo and the Neo4j repository find in the same    *)
(* graph is stated beside it, for comparison.                              *)
(*                                                                         *)
(* A definition named X_Y is X with the bug Y; no specification uses it.   *)
(***************************************************************************)
EXTENDS EvidenceGraph, Integers, FiniteSets, Sequences

CONSTANTS
  ApprovedNode,   \* approved, and not inferred by an AI
  ApprovedEdge,
  Rank,           \* key -> its place in the order of the key strings
  Client,         \* subject ids
  ProposedReader, \* the subjects with the scope read-proposed
  Request,        \* the requests, without page size and page token
  PageSize,       \* the page sizes that clients ask for
  RelationLimit,  \* 10000
  TokenLife,      \* 600 seconds
  MaxTime,        \* bounds of the model: on the clock
  MaxReadings     \* and on how often a client starts anew

ASSUME QueryAssumption ==
  /\ ApprovedNode \subseteq Node /\ ApprovedEdge \subseteq Edge
  /\ Rank \in [Key -> Nat] /\ \A k, l \in Key : Rank[k] = Rank[l] => k = l
  /\ ProposedReader \subseteq Client
  /\ Request \subseteq [start : Id, target : Id \cup {Absent},
                        direction : {"outbound", "inbound", "both"},
                        types : SUBSET RelType, depth : 1..6, proposed : BOOLEAN]
  /\ PageSize \subseteq 1..100
  /\ {RelationLimit, TokenLife, MaxTime, MaxReadings} \subseteq Nat

Token == [request : Request, after : Key, subject : Client, expiresAt : 0..(MaxTime + TokenLife)]

ASSUME GraphAssumption ==
  /\ IsFiniteSet(Id) /\ IsFiniteSet(Key)
  /\ Absent \notin Id /\ Absent \notin Request /\ Absent \notin Token

VARIABLES
  secret,  \* the service was given a page secret; None is the default
  now,     \* the clock
  asked,   \* per client: the request whose pages it is reading, or Absent
  wanted,  \* per client: the relations it had when the first page was answered
  pages,   \* per client: the pages of that reading, oldest first
  cursor,  \* per client: the token of the last page, Absent if it came without
  truncated, \* per client: the last page was as long as was asked for
  begun,   \* per client: how many readings it has begun
  answer   \* how the last call ended

sessions  == <<asked, wanted, pages, cursor, truncated, begun, answer>>
traceVars == <<vars, secret, now, sessions>>

Answers == {"none", "ok", "not_registered", "evidence_insufficient", "forbidden",
            "invalid_page_token", "query_limit_exceeded", "failed"}

TraceInit ==
  /\ Init
  /\ secret \in BOOLEAN
  /\ now = 0
  /\ asked  = [c \in Client |-> Absent]
  /\ wanted = [c \in Client |-> {}]
  /\ pages  = [c \in Client |-> <<>>]
  /\ cursor = [c \in Client |-> Absent]
  /\ truncated = [c \in Client |-> FALSE]
  /\ begun  = [c \in Client |-> 0]
  /\ answer = "none"

-----------------------------------------------------------------------------
\* The relations that r may use: of its types, and approved unless it asks for more.
Usable(r) ==
  { k \in Key : /\ edges[k] # Absent /\ k.type \in r.types
                /\ r.proposed \/ edges[k] \in ApprovedEdge }

\* One hop from node v over a relation of U: the relation and the node reached.
Hops(U, d, v) ==
  { [over |-> k, to |-> k.to]   : k \in { l \in U : d # "inbound"  /\ l.from = v } } \cup
  { [over |-> k, to |-> k.from] : k \in { l \in U : d # "outbound" /\ l.to = v } }

\* The breadth-first search goes one hop further, over relations of U: its
\* paths visit no node twice, and end when they reach the target.
Longer(r, U, W) ==
  LET Extend(w) == { [at |-> h.to, path |-> w.path \cup {h.over}, seen |-> w.seen \cup {h.to}] :
                       h \in { g \in Hops(U, r.direction, w.at) : g.to \notin w.seen } }
  IN  W \cup UNION { Extend(w) : w \in { v \in W : v.at # r.target } }

\* All that was in its queue when it ends.
Walks(r, U) ==
  LET walks[n \in 0..r.depth] ==
        IF n = 0 THEN { [at |-> r.start, path |-> {}, seen |-> {r.start}] }
                 ELSE Longer(r, U, walks[n - 1])
  IN  walks[r.depth]

\* paths(): the relations on the paths to the target, or on all of them.
Relations(r) ==
  UNION { w.path : w \in { v \in Walks(r, Usable(r)) : r.target \in {Absent, v.at} } }

\* relations=[r for r in raw if not after or key(r)>after][:page_size]
Page(raw, t, size) ==
  LET rest == { k \in raw : t = Absent \/ Rank[k] > Rank[t.after] }
  IN  { k \in rest : Cardinality({ l \in rest : Rank[l] <= Rank[k] }) <= size }

\* The status of an answer, by the relations or rows it is made from.
Status(r, raw) ==
  IF nodes[r.start] = Absent THEN "not_registered"
  ELSE IF r.target # Absent /\ raw = {} THEN "evidence_insufficient" ELSE "ok"

\* sign_page_token() for the last relation of a page that is full, with the
\* secret if there is one.
NextToken_MoreThanFull(c, r, page, size) ==
  IF secret /\ Cardinality(page) > size
  THEN [request |-> r, subject |-> c, expiresAt |-> now + TokenLife,
        after |-> CHOOSE k \in page : \A l \in page : Rank[l] <= Rank[k]]
  ELSE Absent

NextToken_FirstKey(c, r, page, size) ==
  IF secret /\ Cardinality(page) >= size
  THEN [request |-> r, subject |-> c, expiresAt |-> now + TokenLife,
        after |-> CHOOSE k \in page : \A l \in page : Rank[l] >= Rank[k]]
  ELSE Absent

NextToken(c, r, page, size) ==
  IF secret /\ Cardinality(page) >= size
  THEN [request |-> r, subject |-> c, expiresAt |-> now + TokenLife,
        after |-> CHOOSE k \in page : \A l \in page : Rank[l] <= Rank[k]]
  ELSE Absent

\* verify_page_token(): the signature can only be the service's own.
Verifies_Strict(c, r, t) == t.request = r /\ t.subject = c /\ now < t.expiresAt

Verifies_AnyRequest(c, r, t) == t.subject = c /\ now <= t.expiresAt

Verifies(c, r, t) == t.request = r /\ t.subject = c /\ now <= t.expiresAt

-----------------------------------------------------------------------------
Allowed(c, r) == r.proposed => c \in ProposedReader
Proceeds(c, r, t) == Allowed(c, r) /\ (t # Absent => Verifies(c, r, t))

\* An answer without a page leaves the client where it was.
Tell(code) ==
  /\ answer' = code
  /\ UNCHANGED <<vars, secret, now, asked, wanted, pages, cursor, truncated, begun>>

Forbidden(c, r) == ~ Allowed(c, r) /\ Tell("forbidden")

InvalidToken(c, r, t) ==
  /\ Allowed(c, r) /\ t # Absent /\ ~ Verifies(c, r, t)
  /\ Tell("invalid_page_token")

NotRegistered(c, r, t) ==
  /\ Proceeds(c, r, t) /\ nodes[r.start] = Absent
  /\ Tell("not_registered")

OverLimit(c, r, t) ==
  /\ Proceeds(c, r, t) /\ nodes[r.start] # Absent
  /\ Cardinality(Relations(r)) > RelationLimit
  /\ Tell("query_limit_exceeded")

\* The page is the first of a reading, or continues the client's own.
Deliver(c, r, size, t) ==
  /\ Proceeds(c, r, t) /\ nodes[r.start] # Absent
  /\ LET raw  == Relations(r)
         page == Page(raw, t, size)
     IN  /\ Cardinality(raw) <= RelationLimit
         /\ asked' = [asked EXCEPT ![c] = r]
         /\ wanted' = [wanted EXCEPT ![c] = IF t = Absent THEN raw ELSE @]
         /\ begun' = [begun EXCEPT ![c] = IF t = Absent THEN @ + 1 ELSE @]
         /\ pages' = [pages EXCEPT ![c] = IF t = Absent THEN <<page>> ELSE Append(@, page)]
         /\ answer' = Status(r, page)
         /\ cursor' = [cursor EXCEPT ![c] = NextToken(c, r, page, size)]
         /\ truncated' = [truncated EXCEPT ![c] = Cardinality(page) >= size]
  /\ UNCHANGED <<vars, secret, now>>

Trace(c, r, size, t) ==
  \/ Forbidden(c, r)        \/ InvalidToken(c, r, t) \/ NotRegistered(c, r, t)
  \/ OverLimit(c, r, t)     \/ Deliver(c, r, size, t)

\* The principal has expired (unauthorized), or the repository raises
\* (query_timeout, service_unavailable): all one to the client.
Fault == Tell("failed")

\* A client starts a reading, goes on with its own, or offers a token that is
\* another's, or its own with another request.
Start(c) ==
  /\ begun[c] < MaxReadings
  /\ \E r \in Request, size \in PageSize : Trace(c, r, size, Absent)

Follow(c) ==
  /\ cursor[c] # Absent
  /\ \E size \in PageSize : Trace(c, asked[c], size, cursor[c])

Borrow(c) ==
  \E d \in Client, r \in Request :
    /\ cursor[d] # Absent
    /\ d # c \/ r # cursor[d].request
    /\ \E size \in PageSize : Trace(c, r, size, cursor[d])

\* A batch that is refused leaves the graph as it is.
Ingest == (\E B \in Batch : Accept(B)) /\ UNCHANGED <<secret, now, sessions>>

Tick == now < MaxTime /\ now' = now + 1 /\ UNCHANGED <<vars, secret, sessions>>

TraceNext ==
  \/ \E c \in Client : Start(c) \/ Follow(c) \/ Borrow(c)
  \/ Fault
  \/ Ingest
  \/ Tick

TraceSpec == TraceInit /\ [][TraceNext]_traceVars /\ \A c \in Client : WF_traceVars(Follow(c))
-----------------------------------------------------------------------------
\* The records of V, and what relations of U connect with one of them.
Around(U, V) == UNION { {v} \cup { h.to : h \in Hops(U, "both", v) } : v \in V }

\* InMemoryGraph.trace(): all that approved relations connect with a record.
Found_AnyStatus(start) ==
  LET linked == { k \in Key : edges[k] # Absent }
      found[n \in 0..Cardinality(Id)] ==
        IF n = 0 THEN {start}
                 ELSE Around(linked, found[n - 1])
  IN  found[Cardinality(Id)]

Found(start) ==
  LET linked == { k \in Key : edges[k] \in ApprovedEdge }
      found[n \in 0..Cardinality(Id)] ==
        IF n = 0 THEN {start}
                 ELSE Around(linked, found[n - 1])
  IN  found[Cardinality(Id)]

\* The demo's query.trace(), which also wants a relation where there is no target.
DemoStatus(start, target) ==
  IF nodes[start] = Absent THEN "not_registered"
  ELSE IF target \in Found(start) \cup {Absent} /\ Found(start) # {start}
       THEN "ok" ELSE "evidence_insufficient"

\* Neo4j goes one hop further: its paths use no relation twice.
LongerRows(r, U, W) ==
  LET Extend(w) == { [at |-> h.to, path |-> w.path \cup {h.over}, seen |-> w.seen \cup {h.to}] :
                       h \in { g \in Hops(U, r.direction, w.at) : g.over \notin w.path } }
  IN  W \cup UNION { Extend(w) : w \in W }

\* The rows of Neo4jQueryRepository.paths(), whose records must be approved as well.
Rows(r) ==
  LET usable == Usable(r)
      rows[n \in 0..r.depth] ==
        IF n = 0 THEN { [at |-> r.start, path |-> {}, seen |-> {r.start}] }
                 ELSE LongerRows(r, usable, rows[n - 1])
  IN  { w \in rows[r.depth] :
          /\ w.path # {} /\ r.target \in {Absent, w.at}
          /\ r.proposed \/ \A i \in w.seen : nodes[i] \in ApprovedNode }

-----------------------------------------------------------------------------
TraceTypeOK ==
  /\ TypeOK
  /\ secret \in BOOLEAN
  /\ now \in 0..MaxTime
  /\ asked \in [Client -> Request \cup {Absent}]
  /\ wanted \in [Client -> SUBSET Key]
  /\ pages \in [Client -> Seq(SUBSET Key)]
  /\ cursor \in [Client -> Token \cup {Absent}]
  /\ truncated \in [Client -> BOOLEAN]
  /\ begun \in [Client -> 0..MaxReadings]
  /\ answer \in Answers

Delivered(c) == UNION { pages[c][i] : i \in 1..Len(pages[c]) }

(***************************************************************************)
(* A client that has followed the tokens to the end has received every     *)
(* relation there was when it began, whatever was ingested meanwhile and   *)
(* whatever page sizes and failed calls came between.  Only a service      *)
(* without a page secret, which signs no token, ends a reading before      *)
(* that: with a page that says truncated, and cannot be followed           *)
(* (query_service.py:43-44).                                               *)
(***************************************************************************)
PagesComplete ==
  \A c \in Client : asked[c] # Absent /\ cursor[c] = Absent =>
    \/ wanted[c] \subseteq Delivered(c)
    \/ ~ secret /\ truncated[c]

(***************************************************************************)
(* No relation is delivered twice in one reading: every page lies after    *)
(* the ones before it in the order of the keys.                            *)
(***************************************************************************)
PagesInOrder ==
  \A c \in Client : \A i, j \in 1..Len(pages[c]) : i < j =>
    \A k \in pages[c][i], l \in pages[c][j] : Rank[k] < Rank[l]

(***************************************************************************)
(* What was delivered may be delivered: it is approved, unless the client  *)
(* asked for proposed relations and has the scope; and it is on a path of  *)
(* the present graph still.                                                *)
(***************************************************************************)
PagesEntitled ==
  \A c \in Client : asked[c] # Absent =>
    /\ asked[c].proposed => c \in ProposedReader
    /\ ~ asked[c].proposed => \A k \in Delivered(c) : edges[k] \in ApprovedEdge
    /\ Delivered(c) \subseteq Relations(asked[c])

(***************************************************************************)
(* A client that keeps asking reaches the last page, unless its token      *)
(* expires first or the graph outgrows the limit: ingestion cannot keep a  *)
(* reading going for ever.  A client may abandon a reading for another.    *)
(***************************************************************************)
PagingEnds ==
  \A c \in Client :
    cursor[c] # Absent ~> \/ cursor[c] = Absent
                          \/ now > cursor[c].expiresAt
                          \/ Cardinality(Relations(asked[c])) > RelationLimit

\* All that is known between two records.
Between(i, j) == [start |-> i, target |-> j, direction |-> "both",
                  types |-> RelType, depth |-> 6, proposed |-> FALSE]

(***************************************************************************)
(* Whether there is evidence between two records does not depend on who is *)
(* asked.  In a graph of at most seven records (depth 6), the demo and the *)
(* service give one answer, by searches of their own; the service over     *)
(* Neo4j never claims evidence that they lack, and claims what they have   *)
(* where all records are approved.                                         *)
(***************************************************************************)
BackendsAgree ==
  \A i, j \in Id : i # j =>
    LET r     == Between(i, j)
        here  == Status(r, Relations(r))
        neo4j == Status(r, Rows(r))
    IN  /\ DemoStatus(i, j) = here
        /\ neo4j = "ok" => here = "ok"
        /\ (\A k \in Id : nodes[k] \in ApprovedNode \cup {Absent}) => neo4j = here
=============================================================================
