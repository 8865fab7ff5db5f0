---------------------------- MODULE BridgeStartup ----------------------------
(***************************************************************************)
(* acp-bridge from its configuration to the end of the process             *)
(* (cmd/acp-bridge/main.go): the sources are imported one after the other, *)
(* each failure is logged and skipped, then the bridge serves.  Children   *)
(* may exit, and a signal may arrive, at any moment in between.            *)
(***************************************************************************)
EXTENDS Naturals, Sequences

CONSTANTS NumSources,   \* number of configured sources
          RawNames,     \* names as they are configured
          Names,        \* names after safeSourceName
          NoName,       \* safeSourceName left nothing
          SafeName,     \* safeSourceName: lower case, other characters to _
          Kinds,        \* sourceType of the sources
          ToolNames,    \* names of MCP tools
          Blank,        \* a tool descriptor without a name
          Descriptors   \* the tools/list results that servers may give

ASSUME StartupAssumption ==
    /\ NumSources \in Nat
    /\ NoName \notin Names /\ SafeName \in [RawNames -> Names \cup {NoName}]
    /\ Kinds \subseteq {"stdio", "http", "unsupported"}
    /\ Blank \notin ToolNames /\ Descriptors \subseteq Seq(ToolNames \cup {Blank})

VARIABLES
    cfg,        \* cfg.Sources
    cur,        \* the source being imported
    pc,         \* where main is
    todo,       \* descriptors RegisterAll has not come to
    child,      \* the process of each stdio source
    clients,    \* Manager.clients: the source whose client has the name, or 0
    reg,        \* MemoryRegistry: the source each tool id was imported from, or 0
    forwarding, \* bridge.Config.Forward is set
    signalled   \* SIGINT or SIGTERM cancelled ctx

vars == <<cfg, cur, pc, todo, child, clients, reg, forwarding, signalled>>
tables == <<clients, reg, forwarding>>

Sources == 1..NumSources
ToolIds == Names \X ToolNames   \* "<source>.<tool>"
Importing == {"next", "initialize", "list", "manager", "tools"}

NameOf(s) == SafeName[cfg[s].name]

Init ==
    /\ cfg \in [Sources -> [name : RawNames, kind : Kinds]]
    /\ cur = 1
    /\ pc = "next"
    /\ todo = <<>>
    /\ child = [s \in Sources |-> "none"]
    /\ clients = [n \in Names |-> 0]
    /\ reg = [t \in ToolIds |-> 0]
    /\ forwarding = FALSE
    /\ signalled = FALSE
-----------------------------------------------------------------------------
(* The import loop *)

AtSource(kind) ==
    /\ pc = "next" /\ cur \in Sources
    /\ NameOf(cur) # NoName /\ cfg[cur].kind = kind

\* continue with the next source.
Continue == cur' = cur + 1 /\ pc' = "next" /\ todo' = <<>>

SkipSourceAndNext ==
    /\ pc = "next" /\ cur \in Sources
    /\ NameOf(cur) = NoName \/ cfg[cur].kind = "unsupported"
    /\ cur' = cur + 2
    /\ UNCHANGED <<cfg, pc, todo, child, tables, signalled>>

\* A source without a usable name, or of a type there is no importer for.
SkipSource ==
    /\ pc = "next" /\ cur \in Sources
    /\ NameOf(cur) = NoName \/ cfg[cur].kind = "unsupported"
    /\ Continue
    /\ UNCHANGED <<cfg, child, tables, signalled>>

\* No command, no such program, or ctx is cancelled already.
SpawnFails ==
    /\ AtSource("stdio")
    /\ Continue
    /\ UNCHANGED <<cfg, child, tables, signalled>>

Spawn ==
    /\ AtSource("stdio") /\ ~signalled
    /\ child' = [child EXCEPT ![cur] = "up"]
    /\ pc' = "initialize"
    /\ UNCHANGED <<cfg, cur, todo, tables, signalled>>

HandshakeFailsWithoutClose ==
    /\ pc \in {"initialize", "list"}
    /\ Continue
    /\ UNCHANGED <<cfg, child, tables, signalled>>

HandshakeFailsRetrying ==
    /\ pc \in {"initialize", "list"}
    /\ child' = [child EXCEPT ![cur] = "closed"]
    /\ pc' = "next"
    /\ UNCHANGED <<cfg, cur, todo, tables, signalled>>

\* Initialize or ListTools fails (see StdioClient): client.Close() kills the
\* process and waits for it.
HandshakeFails ==
    /\ pc \in {"initialize", "list"}
    /\ child' = [child EXCEPT ![cur] = "closed"]
    /\ Continue
    /\ UNCHANGED <<cfg, tables, signalled>>

\* The answer may have been in the pipe before the process ended.
Initialized ==
    /\ pc = "initialize"
    /\ pc' = "list"
    /\ UNCHANGED <<cfg, cur, todo, child, tables, signalled>>

Listed(ds) ==
    /\ pc = "list"
    /\ pc' = "manager"
    /\ todo' = ds
    /\ UNCHANGED <<cfg, cur, child, tables, signalled>>

\* manager.Register replaces whatever client had the name.
RegisterClient ==
    /\ pc = "manager"
    /\ clients' = [clients EXCEPT ![NameOf(cur)] = cur]
    /\ pc' = "tools"
    /\ UNCHANGED <<cfg, cur, todo, child, reg, forwarding, signalled>>

\* ImportSource: bad URL, no connection, a status outside 2xx, a bad body.
FetchFails ==
    /\ AtSource("http")
    /\ Continue
    /\ UNCHANGED <<cfg, child, tables, signalled>>

Fetched(ds) ==
    /\ AtSource("http")
    /\ todo' = ds
    /\ pc' = "tools"
    /\ UNCHANGED <<cfg, cur, child, tables, signalled>>

\* One turn of RegisterAll: convert and Register, which replaces a tool that
\* has the same id.
RegisterTool ==
    /\ pc = "tools" /\ todo # <<>> /\ Head(todo) # Blank
    /\ reg' = [reg EXCEPT ![<<NameOf(cur), Head(todo)>>] = cur]
    /\ todo' = Tail(todo)
    /\ UNCHANGED <<cfg, cur, pc, child, clients, forwarding, signalled>>

RegisterToolFailsClosing ==
    /\ pc = "tools" /\ todo # <<>> /\ Head(todo) = Blank
    /\ clients' = [clients EXCEPT ![NameOf(cur)] = 0]
    /\ child' = [child EXCEPT ![cur] = "closed"]
    /\ Continue
    /\ UNCHANGED <<cfg, reg, forwarding, signalled>>

\* convert refuses a descriptor without a name; what was registered stays.
RegisterToolFails ==
    /\ pc = "tools" /\ todo # <<>> /\ Head(todo) = Blank
    /\ Continue
    /\ UNCHANGED <<cfg, child, tables, signalled>>

SourceImported ==
    /\ pc = "tools" /\ todo = <<>>
    /\ Continue
    /\ UNCHANGED <<cfg, child, tables, signalled>>

\* The registered tools are handed to the bridge, with the manager if it has
\* any client.
StartServing ==
    /\ pc = "next" /\ cur \notin Sources
    /\ forwarding' = \E n \in Names : clients[n] # 0
    /\ pc' = "serving"
    /\ UNCHANGED <<cfg, cur, todo, child, clients, reg, signalled>>

\* End of the host's input: main returns and its deferred manager.Close()
\* closes every registered client.
ServeReturns ==
    /\ pc = "serving"
    /\ pc' = "returned"
    /\ child' = [s \in Sources |-> IF \E n \in Names : clients[n] = s THEN "closed" ELSE child[s]]
    /\ UNCHANGED <<cfg, cur, todo, tables, signalled>>

\* Serve fails: os.Exit(1) runs no deferred call.
ServeFails ==
    /\ pc = "serving"
    /\ pc' = "exited"
    /\ UNCHANGED <<cfg, cur, todo, child, tables, signalled>>
-----------------------------------------------------------------------------
(* The environment *)

Running == pc \in Importing \cup {"serving"}

\* A server process ends by itself.
ChildExits(s) ==
    /\ Running /\ child[s] = "up"
    /\ child' = [child EXCEPT ![s] = "dead"]
    /\ UNCHANGED <<cfg, cur, pc, todo, tables, signalled>>

\* NotifyContext catches the signal: ctx is cancelled, which kills the
\* children (CommandContext); main goes on, and Serve does not look at ctx.
Signal ==
    /\ Running /\ ~signalled
    /\ signalled' = TRUE
    /\ child' = [s \in Sources |-> IF child[s] = "up" THEN "dead" ELSE child[s]]
    /\ UNCHANGED <<cfg, cur, pc, todo, tables>>
-----------------------------------------------------------------------------
ImportStep ==
    \/ SkipSource
    \/ SpawnFails
    \/ Spawn
    \/ HandshakeFails
    \/ Initialized
    \/ \E ds \in Descriptors : Listed(ds) \/ Fetched(ds)
    \/ RegisterClient
    \/ FetchFails
    \/ RegisterTool
    \/ RegisterToolFails
    \/ SourceImported
    \/ StartServing

Ended == pc \in {"returned", "exited"} /\ UNCHANGED vars

Next ==
    \/ ImportStep
    \/ ServeReturns
    \/ ServeFails
    \/ \E s \in Sources : ChildExits(s)
    \/ Signal
    \/ Ended

Spec == Init /\ [][Next]_vars

(***************************************************************************)
(* main runs; Initialize and ListTools return within their 30 seconds      *)
(* (CallReturns of StdioClient), and so does the HTTP client.              *)
(***************************************************************************)
FairSpec == Spec /\ WF_vars(ImportStep)
-----------------------------------------------------------------------------
(* Properties *)

\* Every variable has its type.
TypeOK ==
    /\ cfg \in [Sources -> [name : RawNames, kind : Kinds]]
    /\ cur \in 1..(NumSources + 1)
    /\ pc \in Importing \cup {"serving", "returned", "exited"}
    /\ todo \in Seq(ToolNames \cup {Blank})
    /\ child \in [Sources -> {"none", "up", "dead", "closed"}]
    /\ clients \in [Names -> 0..NumSources]
    /\ reg \in [ToolIds -> 0..NumSources]
    /\ forwarding \in BOOLEAN /\ signalled \in BOOLEAN

Registered == {t \in ToolIds : reg[t] # 0}

\* No other source has the same name after safeSourceName.
Sole(s) == \A u \in Sources \ {s} : NameOf(u) # NameOf(s)

\* "Manager routes bridge calls to source-specific clients": a call of a
\* registered stdio tool goes to the server that offered the tool, for the
\* sources whose names do not collide.  However many imports fail half way and
\* whatever other names collide, a tool that got into the registry has the
\* client of its own server in the manager, and a bridge that serves it has the
\* manager to forward to.
SoleRoutedToProvider ==
    \A t \in Registered :
        cfg[reg[t]].kind = "stdio" /\ Sole(reg[t]) =>
            clients[t[1]] = reg[t] /\ (pc = "serving" => forwarding)

\* Every process that importSource started and did not reap is in the hands
\* of the import under way or of the manager, and is reaped before main
\* returns: no failed import leaves one behind.
SoleChildrenReaped ==
    \A s \in Sources : child[s] \in {"up", "dead"} /\ Sole(s) =>
        /\ pc # "returned"
        /\ \/ pc \in {"initialize", "list", "manager"} /\ s = cur
           \/ clients[NameOf(s)] = s

\* The bridge comes to serve whatever the sources do.
ComesToServe == <>(pc \notin Importing)
-----------------------------------------------------------------------------
(* The inductive invariant *)

\* Past the checks at the top of importSource the source has a usable name,
\* has a process to talk to if it is a stdio source, and its client is in the
\* manager before its tools are registered.
ImportChecked ==
    /\ pc \in Importing \ {"next"} => cur \in Sources /\ NameOf(cur) \in Names
    /\ pc \in {"initialize", "list", "manager"} => cfg[cur].kind = "stdio"
    /\ pc = "tools" /\ cfg[cur].kind = "stdio" => clients[NameOf(cur)] = cur

\* A tool is registered under the name of the source that offered it, a client
\* under the name of its source, and only a source with a usable name has a
\* process.
UsableNames ==
    /\ \A t \in Registered : NameOf(reg[t]) = t[1]
    /\ \A n \in Names : clients[n] # 0 => NameOf(clients[n]) = n
    /\ \A s \in Sources : child[s] # "none" => NameOf(s) \in Names

Inv ==
    /\ TypeOK
    /\ ImportChecked
    /\ UsableNames
    /\ SoleRoutedToProvider
    /\ SoleChildrenReaped
=============================================================================
