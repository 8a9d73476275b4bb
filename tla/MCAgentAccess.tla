---------------------------- MODULE MCAgentAccess ----------------------------
(***************************************************************************)
(* Two calls at once, three in all, of two subjects of the tenant: caps of *)
(* one call for a subject and tool and of two for the tenant, whom the two *)
(* subjects can reach with three tools, in a window of two ticks on a      *)
(* clock of two.  One token expires while calls are running, one does not, *)
(* one is of another tenant, and one for a project that is not in the      *)
(* policy.                                                                 *)
(***************************************************************************)
EXTENDS AgentAccess

CONSTANTS k1, k2, u1, u2

MCCaller  == {k1, k2}
MCSubject == {u1, u2}

Token(subject, tenant, inPolicy, scopes, exp) ==
  [sound |-> TRUE, subject |-> subject, tenant |-> tenant, inPolicy |-> inPolicy,
   scopes |-> scopes, exp |-> exp]

Mine      == Token(u1, "home", TRUE, {"read"}, 1)
Yours     == Token(u2, "home", TRUE, {"read", "read-proposed"}, 2)
Foreign   == Token(u1, "other", TRUE, {"read"}, 2)
Outside   == Token(u1, "home", FALSE, {"read"}, 2)
MCBearer  == {Mine, Yours, Foreign, Outside}

Ask(door, tool, bearer, proposed, wellFormed) ==
  [door |-> door, tool |-> tool, bearer |-> bearer, proposed |-> proposed,
   wellFormed |-> wellFormed]

MCArgument ==
  { Ask("mcp", "trace", Mine, FALSE, TRUE), Ask("mcp", "impact", Mine, TRUE, TRUE),
    Ask("mcp", "trace", Foreign, FALSE, TRUE), Ask("mcp", "trace", Outside, FALSE, TRUE),
    Ask("mcp", "get_provenance", Yours, TRUE, TRUE),
    Ask("mcp", "impact", Yours, FALSE, TRUE),
    Ask("mcp", "impact", Mine, FALSE, FALSE),
    Ask("http", "trace", Mine, FALSE, TRUE), Ask("http", "trace", Mine, TRUE, TRUE),
    Ask("http", "trace", Yours, FALSE, FALSE) }
=============================================================================
