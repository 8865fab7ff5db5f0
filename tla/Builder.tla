------------------------------- MODULE Builder -------------------------------
(***************************************************************************)
(* internal/builder: an Execution Manifest from the tools that match the   *)
(* resolved capabilities.  Action "a<i>" is the i-th matching tool in the  *)
(* order of tool ids, so the same action id names different tools in       *)
(* different manifests.                                                    *)
(***************************************************************************)
EXTENDS Registry

CONSTANTS Rank,           \* the position of each tool in the order of tool ids
          DependsOnCaps,  \* Tool.DependsOnCaps
          Hosts,          \* host names
          NoHost,         \* an endpoint without a host
          EndpointHost,   \* the host of Tool.Endpoint, or NoHost
          Egress,         \* Tool.Egress
          RequireApprov   \* Tool.RequireApprov

ASSUME BuilderAssumption ==
    /\ Rank \in [Tools -> Nat]
    /\ \A t, u \in Tools : Rank[t] = Rank[u] => t = u
    /\ DependsOnCaps \in [Tools -> SUBSET Caps]
    /\ NoHost \notin Hosts
    /\ EndpointHost \in [Tools -> Hosts \cup {NoHost}]
    /\ Egress \in [Tools -> SUBSET Hosts]
    /\ RequireApprov \in [Tools -> BOOLEAN]

\* The number of the action that runs t in a manifest of these tools.
ActionId(tools, t) == Cardinality({u \in tools : Rank[u] <= Rank[t]})

DependsOnAnyAction(tools, t) == {u \in tools \ {t} : DependsOnCaps[t] # {}}

\* dependsOnFor: the other actions that have a capability the tool depends on.
DependsOn(tools, t) ==
    {u \in tools \ {t} : DependsOnCaps[t] \cap Range(CapsOf[u]) # {}}

BuildApprovalsZeroBased(caps) ==
    LET tools == Lookup(caps)
    IN  [tools     |-> tools,
         dependsOn |-> [t \in tools |-> DependsOn(tools, t)],
         egress    |-> UNION {Egress[t] : t \in tools},
         requireApproval |-> {ActionId(tools, t) - 1 : t \in {u \in tools : RequireApprov[u]}}]

BuildApprovalsByRegistry(caps) ==
    LET tools == Lookup(caps)
    IN  [tools     |-> tools,
         dependsOn |-> [t \in tools |-> DependsOn(tools, t)],
         egress    |-> UNION {Egress[t] : t \in tools},
         requireApproval |-> {ActionId(Tools, t) : t \in {u \in tools : RequireApprov[u]}}]

\* Build, when something matches: the actions and their dependencies, the union
\* of the egress lists, and the ids of the actions that need approval.
Build(caps) ==
    LET tools == Lookup(caps)
    IN  [tools     |-> tools,
         dependsOn |-> [t \in tools |-> DependsOn(tools, t)],
         egress    |-> UNION {Egress[t] : t \in tools},
         requireApproval |-> {ActionId(tools, t) : t \in {u \in tools : RequireApprov[u]}}]

\* ErrNoMatchingTools
NoMatch(caps) == Lookup(caps) = {}
=============================================================================
