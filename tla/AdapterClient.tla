----------------------------- MODULE AdapterClient -----------------------------
(***************************************************************************)
(* acp-server and the Python adapters that run the manifests it issues.    *)
(***************************************************************************)
EXTENDS AcpServer, AdapterOrder

\* The depends_on of the actions of a manifest, by action id.
DependsOnIds(m) ==
    LET tools == built[m].tools
        toolOf(id) == CHOOSE t \in tools : ActionId(tools, t) = id
    IN  [id \in {ActionId(tools, t) : t \in tools} |->
            {ActionId(tools, u) : u \in built[m].dependsOn[toolOf(id)]}]

\* "The server guarantees the manifest is acyclic", across everything that
\* resolver, registry and builder did: a client orders every issued manifest,
\* each action once and after all it depends on (and raises no CycleError, the
\* order being complete).
IssuedCanBeOrdered ==
    \A m \in Issued :
        LET dependsOn == DependsOnIds(m)
            order == topological_order(dependsOn)
        IN  IsExecution(order, dependsOn)

\* Every action of an issued manifest is reached from START: depends_on never
\* leaves the manifest, so the actions that have one are reached by way of it.
GraphReachesAll ==
    \A m \in Issued :
        LET dependsOn == DependsOnIds(m)
        IN  LeadsToAll(build_graph(dependsOn), START, DOMAIN dependsOn \cup {START, END})
=============================================================================
