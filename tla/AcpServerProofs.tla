--------------------------- MODULE AcpServerProofs ---------------------------
(***************************************************************************)
(* acp-server and the clients that run its manifests: for every registry,  *)
(* any number of requests and either setting of the approval gate and of   *)
(* the token.                                                              *)
(***************************************************************************)
EXTENDS AdapterClient, FiniteSetTheorems, SequenceTheorems, NumberInduction, TLAPS

\* Action ids are positive numbers.
LEMMA ActionIdType ==
    ASSUME NEW tools \in SUBSET Tools, NEW t \in tools
    PROVE  ActionId(tools, t) \in Nat \ {0}
  <1> DEFINE S == {u \in tools : Rank[u] <= Rank[t]}
  <1>1. IsFiniteSet(S)
    BY RegistryAssumption, FS_Subset
  <1>2. t \in S
    BY BuilderAssumption
  <1>3. Cardinality(S) \in Nat /\ Cardinality(S) # 0
    BY <1>1, <1>2, FS_CardinalityType, FS_EmptySet
  <1> QED
    BY <1>3 DEF ActionId

\* What Build returns is a manifest.
LEMMA BuildType ==
    ASSUME NEW caps
    PROVE  IsManifest(Build(caps))
  <1> DEFINE tools == Lookup(caps)
  <1>1. tools \subseteq Tools
    BY DEF Lookup
  <1>2. \A t \in tools : DependsOn(tools, t) \subseteq tools \ {t}
    BY DEF DependsOn
  <1>3. \A t \in tools : Egress[t] \subseteq Hosts
    BY <1>1, BuilderAssumption
  <1>4. \A t \in tools : ActionId(tools, t) \in Nat \ {0}
    BY <1>1, ActionIdType
  <1> HIDE DEF tools
  <1>5. Build(caps) = [tools     |-> tools,
                       dependsOn |-> [t \in tools |-> DependsOn(tools, t)],
                       egress    |-> UNION {Egress[t] : t \in tools},
                       requireApproval |->
                           {ActionId(tools, t) : t \in {u \in tools : RequireApprov[u]}}]
    BY DEF Build, tools
  <1>6. UNION {Egress[t] : t \in tools} \subseteq Hosts
    BY <1>3
  <1>7. {ActionId(tools, t) : t \in {u \in tools : RequireApprov[u]}} \subseteq Nat \ {0}
    BY <1>4
  <1> QED
    BY <1>1, <1>2, <1>5, <1>6, <1>7 DEF IsManifest
-----------------------------------------------------------------------------
LEMMA InitInv == Init => Inv
  <1> SUFFICES ASSUME Init PROVE Inv
    OBVIOUS
  <1>1. TypeOK
    <2>1. IsManifest(NoManifest)
      BY DEF IsManifest, NoManifest
    <2>2. Invalid(FALSE) \in Requests
      BY DEF Invalid, Requests
    <2>3. dirty \in [Reqs -> BOOLEAN]
      BY Zenon DEF Init
    <2>4. DOMAIN built = Reqs /\ \A r \in Reqs : IsManifest(built[r])
      BY <2>1, Zenon DEF Init
    <2>5. req \in [Reqs -> Requests]
      BY <2>2, Zenon DEF Init
    <2>6. /\ pc \in [Reqs -> Places] /\ status \in [Reqs -> Codes]
          /\ touching \in [Reqs -> {"no", "read", "write"}]
          /\ stored \subseteq Reqs /\ count \in Nat
          /\ phase \in {"serving", "draining", "stopped"}
      BY DEF Init, Places, Codes
    <2> QED
      BY <2>3, <2>4, <2>5, <2>6 DEF TypeOK
  <1>2. Routed /\ OnlyMinted /\ Cleared
    BY DEF Init, Routed, OnlyMinted, Cleared, ContextPlaces, ExecPlaces
  <1> QED
    BY <1>1, <1>2 DEF Inv
-----------------------------------------------------------------------------
\* The checks of the proxy read only the request and the manifest it names.
LEMMA ChecksLocal ==
    ASSUME NEW r, req' = req, built' = built
    PROVE  /\ ActionKnown(r)' = ActionKnown(r)
           /\ Permitted(r)' = Permitted(r)
           /\ HostAllowed(r)' = HostAllowed(r)
  BY Zenon DEF ActionKnown, Permitted, HostAllowed, ToolOf, Found, ManifestOf

\* A step of one request that leaves requests and manifests as they are keeps
\* the invariant if the request may be where it goes.
LEMMA MoveKeeps ==
    ASSUME Inv, NEW r \in Reqs, NEW w \in Places \ {"idle", "auth", "put"},
           pc' = [pc EXCEPT ![r] = w], req' = req, built' = built,
           stored' \subseteq stored \/ (pc[r] = "put" /\ stored' \subseteq stored \cup {r}),
           pc[r] \in Places \ {"idle", "done", "cut"},
           w = "context" => pc[r] = "auth",
           w \in ContextPlaces => Authenticated(r) /\ req[r].kind = "context",
           w \in ExecPlaces => Authenticated(r) /\ req[r].kind = "exec",
           w \in {"check", "forward"} => Minted(req[r].manifest),
           w = "forward" => ActionKnown(r) /\ Permitted(r) /\ HostAllowed(r)
    PROVE  Routed' /\ OnlyMinted' /\ Cleared'
  <1>1. \A q \in Reqs : pc'[q] = IF q = r THEN w ELSE pc[q]
    BY DEF Inv, TypeOK
  <1>2. \A q \in Reqs : Authenticated(q)' = Authenticated(q)
    BY Zenon DEF Authenticated
  <1>3. Routed'
    BY <1>1, <1>2 DEF Inv, Routed
  <1>4. ASSUME NEW m \in Reqs, Minted(m)
        PROVE  Minted(m)'
    BY <1>1, <1>4 DEF Minted, Resolved
  <1>5. OnlyMinted'
    <2>1. \A m \in stored' : m \in Reqs /\ Minted(m)
      BY DEF Inv, TypeOK, OnlyMinted
    <2>2. \A q \in Reqs : pc'[q] = "put" => Minted(q)
      BY <1>1 DEF Inv, OnlyMinted
    <2>3. \A q \in Reqs : pc'[q] \in {"check", "forward"} =>
              req[q].manifest \in Reqs /\ Minted(req[q].manifest)
      <3>1. \A q \in Reqs : pc'[q] \in {"check", "forward"} =>
                req[q].kind = "exec" /\ Minted(req[q].manifest)
        BY <1>1 DEF Inv, OnlyMinted, Routed, ExecPlaces
      <3>2. \A q \in Reqs : req[q].kind = "exec" => req[q].manifest \in Reqs
        BY DEF Inv, TypeOK, Requests
      <3> QED
        BY <3>1, <3>2
    <2> QED
      BY <1>4, <2>1, <2>2, <2>3 DEF OnlyMinted
  <1>6. Cleared'
    BY <1>1, ChecksLocal DEF Inv, Cleared
  <1> QED
    BY <1>3, <1>5, <1>6

\* The process ends: open requests are cut off.
LEMMA CutKeeps ==
    ASSUME Inv, req' = req, built' = built, stored' = stored,
           pc' = [r \in Reqs |-> IF r \in Active THEN "cut" ELSE pc[r]]
    PROVE  pc' \in [Reqs -> Places] /\ Routed' /\ OnlyMinted' /\ Cleared'
  <1>1. \A r \in Reqs : pc'[r] \in {"idle", "done", "cut"} /\ (pc'[r] = "idle" => pc[r] = "idle")
    BY DEF Active
  <1>2. \A r \in Reqs : Minted(r) => Minted(r)'
    BY <1>1 DEF Minted, Resolved
  <1>3. OnlyMinted'
    BY <1>1, <1>2 DEF Inv, TypeOK, OnlyMinted
  <1>4. Routed' /\ Cleared'
    BY <1>1 DEF Routed, Cleared, ContextPlaces, ExecPlaces
  <1>5. pc' \in [Reqs -> Places]
    BY DEF Inv, TypeOK, Places
  <1> QED
    BY <1>3, <1>4, <1>5

\* Nothing the invariant relates has changed.
LEMMA SameKeeps ==
    ASSUME Inv, pc' = pc, req' = req, built' = built, stored' = stored
    PROVE  Routed' /\ OnlyMinted' /\ Cleared'
  <1>1. \A r \in Reqs : Authenticated(r)' = Authenticated(r)
    BY Zenon DEF Authenticated
  <1>2. Routed'
    BY <1>1 DEF Inv, Routed
  <1>3. OnlyMinted'
    BY DEF Inv, OnlyMinted, Minted, Resolved
  <1>4. Cleared'
    BY ChecksLocal DEF Inv, Cleared
  <1> QED
    BY <1>2, <1>3, <1>4

\* Every step of every request and of the process keeps the invariant.
LEMMA NextInv == Inv /\ [Next]_vars => Inv'
  <1> SUFFICES ASSUME Inv, [Next]_vars PROVE Inv'
    OBVIOUS
  <1>1. ASSUME NEW r \in Reqs, NEW q \in Requests, Arrive(r, q)
        PROVE  Inv'
    <2>1. TypeOK'
      BY <1>1 DEF Arrive, storeVars, Inv, TypeOK, Places
    <2>2. \A p \in Reqs \ {r} : pc'[p] = pc[p] /\ req'[p] = req[p]
      BY <1>1 DEF Arrive, Inv, TypeOK
    <2>3. pc[r] = "idle" /\ pc'[r] = "auth" /\ built' = built /\ stored' = stored
      BY <1>1 DEF Arrive, storeVars, Inv, TypeOK
    <2>4. \A m \in Reqs : Minted(m) => m # r /\ Minted(m)'
      BY <2>2, <2>3 DEF Minted, Resolved
    <2>5. Routed'
      BY <2>2, <2>3, Zenon DEF Inv, Routed, Authenticated, ContextPlaces, ExecPlaces
    <2>6. OnlyMinted'
      <3>1. \A p \in Reqs : pc'[p] \in {"put", "check", "forward"} => p # r
        BY <2>3
      <3>2. \A p \in Reqs : pc[p] \in {"check", "forward"} => req[p].manifest \in Reqs
        BY DEF Inv, TypeOK, Routed, Requests, ExecPlaces
      <3> QED
        BY <2>2, <2>3, <2>4, <3>1, <3>2 DEF Inv, TypeOK, OnlyMinted
    <2>7. Cleared'
      <3> SUFFICES ASSUME NEW p \in Reqs, pc'[p] = "forward"
                   PROVE  (ActionKnown(p) /\ Permitted(p) /\ HostAllowed(p))'
        BY DEF Cleared
      <3>1. req'[p] = req[p] /\ pc[p] = "forward"
        BY <2>2, <2>3
      <3>2. ActionKnown(p) /\ Permitted(p) /\ HostAllowed(p)
        BY <3>1 DEF Inv, Cleared
      <3> QED
        BY <2>3, <3>1, <3>2, Zenon DEF ActionKnown, Permitted, HostAllowed, ToolOf, Found, ManifestOf
    <2> QED
      BY <2>1, <2>5, <2>6, <2>7 DEF Inv
  <1>2. ASSUME NEW r \in Reqs, RequireAuth(r)
        PROVE  Inv'
    <2>1. TypeOK'
      BY <1>2 DEF RequireAuth, Respond, GoTo, storeVars, Inv, TypeOK, Places, Codes, Requests
    <2>2. Routed' /\ OnlyMinted' /\ Cleared'
      BY <1>2, MoveKeeps DEF RequireAuth, Respond, GoTo, storeVars, Inv, TypeOK, Requests, Places, ContextPlaces, ExecPlaces
    <2> QED
      BY <2>1, <2>2 DEF Inv
  <1>3. ASSUME NEW r \in Reqs, RejectInvalid(r)
        PROVE  Inv'
    <2>1. TypeOK'
      BY <1>3 DEF RejectInvalid, Respond, GoTo, storeVars, Inv, TypeOK, Places, Codes
    <2>2. Routed' /\ OnlyMinted' /\ Cleared'
      BY <1>3, MoveKeeps DEF RejectInvalid, Respond, GoTo, storeVars, Places, ContextPlaces, ExecPlaces
    <2> QED
      BY <2>1, <2>2 DEF Inv
  <1>4. ASSUME NEW r \in Reqs, HandleFeedback(r)
        PROVE  Inv'
    <2>1. TypeOK'
      BY <1>4 DEF HandleFeedback, Respond, GoTo, storeVars, Inv, TypeOK, Places, Codes
    <2>2. Routed' /\ OnlyMinted' /\ Cleared'
      BY <1>4, MoveKeeps DEF HandleFeedback, Respond, GoTo, storeVars, Places, ContextPlaces, ExecPlaces
    <2> QED
      BY <2>1, <2>2 DEF Inv
  <1>5. ASSUME NEW r \in Reqs, EndPut(r)
        PROVE  Inv'
    <2>1. TypeOK'
      BY <1>5 DEF EndPut, Respond, GoTo, storeVars, Inv, TypeOK, Places, Codes
    <2>2. Routed' /\ OnlyMinted' /\ Cleared'
      <3>1. stored' \subseteq stored \cup {r}
        BY <1>5 DEF EndPut
      <3> QED
        BY <1>5, <3>1, MoveKeeps
           DEF EndPut, GoTo, Inv, Routed, Places, ContextPlaces, ExecPlaces
    <2> QED
      BY <2>1, <2>2 DEF Inv
  <1>6. ASSUME NEW r \in Reqs, ReplyContext(r)
        PROVE  Inv'
    <2>1. TypeOK'
      BY <1>6 DEF ReplyContext, Respond, GoTo, storeVars, Inv, TypeOK, Places, Codes
    <2>2. Routed' /\ OnlyMinted' /\ Cleared'
      BY <1>6, MoveKeeps DEF ReplyContext, Respond, GoTo, storeVars, Inv, Routed, Places, ContextPlaces, ExecPlaces
    <2> QED
      BY <2>1, <2>2 DEF Inv
  <1>7. ASSUME NEW r \in Reqs, EndGet(r)
        PROVE  Inv'
    <2>1. TypeOK'
      BY <1>7 DEF EndGet, Respond, GoTo, storeVars, Inv, TypeOK, Places, Codes
    <2>2. Routed' /\ OnlyMinted' /\ Cleared'
      BY <1>7, MoveKeeps DEF EndGet, Respond, GoTo, storeVars, Inv, Routed, OnlyMinted, Places, ContextPlaces, ExecPlaces
    <2> QED
      BY <2>1, <2>2 DEF Inv
  <1>8. ASSUME NEW r \in Reqs, CheckExec(r)
        PROVE  Inv'
    <2>1. TypeOK'
      BY <1>8 DEF CheckExec, Respond, GoTo, storeVars, Inv, TypeOK, Places, Codes
    <2>2. Routed' /\ OnlyMinted' /\ Cleared'
      BY <1>8, MoveKeeps DEF CheckExec, Respond, GoTo, storeVars, Inv, Routed, OnlyMinted, Places, ContextPlaces, ExecPlaces
    <2> QED
      BY <2>1, <2>2 DEF Inv
  <1>9. ASSUME NEW r \in Reqs, UpstreamReturns(r)
        PROVE  Inv'
    <2>1. TypeOK'
      BY <1>9 DEF UpstreamReturns, Respond, GoTo, storeVars, Inv, TypeOK, Places, Codes
    <2>2. Routed' /\ OnlyMinted' /\ Cleared'
      BY <1>9, MoveKeeps DEF UpstreamReturns, Respond, GoTo, storeVars, Places, ContextPlaces, ExecPlaces
    <2> QED
      BY <2>1, <2>2 DEF Inv
  <1>10. ASSUME NEW r \in Reqs, HandleContext(r)
        PROVE  Inv'
    <2>1. CASE Respond(r, 422) /\ UNCHANGED built
      <3>1. TypeOK'
        BY <1>10, <2>1 DEF HandleContext, Respond, storeVars, Inv, TypeOK, Places, Codes
      <3>2. Routed' /\ OnlyMinted' /\ Cleared'
        BY <1>10, <2>1, MoveKeeps DEF HandleContext, Respond, storeVars, Places, ContextPlaces, ExecPlaces
      <3> QED
        BY <3>1, <3>2 DEF Inv
    <2>2. CASE GoTo(r, "put") /\ built' = [built EXCEPT ![r] = Build(Resolved(r))]
      <3>1. pc[r] = "context" /\ req' = req /\ stored' = stored
        BY <1>10 DEF HandleContext, storeVars
      <3>2. \A q \in Reqs : /\ pc'[q] = IF q = r THEN "put" ELSE pc[q]
                            /\ built'[q] = IF q = r THEN Build(Resolved(r)) ELSE built[q]
        BY <2>2 DEF GoTo, Inv, TypeOK
      <3>3. TypeOK'
        <4>1. DOMAIN built' = Reqs /\ \A q \in Reqs : IsManifest(built'[q])
          BY <2>2, <3>2, BuildType DEF Inv, TypeOK
        <4> QED
          BY <1>10, <2>2, <4>1 DEF HandleContext, GoTo, storeVars, Inv, TypeOK, Places
      <3>4. \A m \in Reqs : Minted(m) => m # r /\ Minted(m)'
        BY <3>1, <3>2 DEF Minted, Resolved
      <3>5. Routed'
        <4>1. \A q \in Reqs : Authenticated(q)' = Authenticated(q)
          BY <3>1, Zenon DEF Authenticated
        <4> QED
          BY <3>1, <3>2, <4>1 DEF Inv, Routed, ContextPlaces, ExecPlaces
      <3>6. \A p \in Reqs : pc[p] \in {"check", "forward"} => req[p].manifest \in Reqs
        BY DEF Inv, TypeOK, Routed, Requests, ExecPlaces
      <3>7. Minted(r)'
        BY <3>1, <3>2 DEF Minted, Resolved, Inv, Routed, ContextPlaces
      <3>8. OnlyMinted'
        BY <3>1, <3>2, <3>4, <3>6, <3>7 DEF Inv, TypeOK, OnlyMinted
      <3>9. Cleared'
        <4> SUFFICES ASSUME NEW p \in Reqs, pc'[p] = "forward"
                     PROVE  (ActionKnown(p) /\ Permitted(p) /\ HostAllowed(p))'
          BY DEF Cleared
        <4>1. pc[p] = "forward"
          BY <3>2
        <4>2. ActionKnown(p) /\ Permitted(p) /\ HostAllowed(p)
          BY <4>1 DEF Inv, Cleared
        <4>3. built'[req'[p].manifest] = built[req[p].manifest]
          BY <3>1, <3>2, <3>4, <3>6, <4>1 DEF Inv, OnlyMinted
        <4> QED
          BY <3>1, <4>2, <4>3, Zenon DEF ActionKnown, Permitted, HostAllowed, ToolOf, Found, ManifestOf
      <3> QED
        BY <3>3, <3>5, <3>8, <3>9 DEF Inv
    <2> QED
      BY <1>10, <2>1, <2>2, Zenon DEF HandleContext
  <1>11. ASSUME NEW r \in Reqs, BeginPut(r)
        PROVE  Inv'
    <2>1. dirty' \in [Reqs -> BOOLEAN]
      BY <1>11, Zenon DEF BeginPut, BeginAccess
    <2>2. TypeOK'
      BY <1>11, <2>1 DEF BeginPut, BeginAccess, Inv, TypeOK
    <2>3. Routed' /\ OnlyMinted' /\ Cleared'
      BY <1>11, SameKeeps DEF BeginPut, BeginAccess
    <2> QED
      BY <2>2, <2>3 DEF Inv
  <1>12. ASSUME NEW r \in Reqs, BeginGet(r)
        PROVE  Inv'
    <2>1. dirty' \in [Reqs -> BOOLEAN]
      BY <1>12, Zenon DEF BeginGet, BeginAccess
    <2>2. TypeOK'
      BY <1>12, <2>1 DEF BeginGet, BeginAccess, Inv, TypeOK
    <2>3. Routed' /\ OnlyMinted' /\ Cleared'
      BY <1>12, SameKeeps DEF BeginGet, BeginAccess
    <2> QED
      BY <2>2, <2>3 DEF Inv
  <1>13. ASSUME Signal
        PROVE  Inv'
    <2>1. TypeOK'
      BY <1>13 DEF Signal, storeVars, Inv, TypeOK
    <2>2. Routed' /\ OnlyMinted' /\ Cleared'
      BY <1>13, SameKeeps DEF Signal, storeVars
    <2> QED
      BY <2>1, <2>2 DEF Inv
  <1>14. ASSUME ListenFails
        PROVE  Inv'
    <2>1. TypeOK'
      BY <1>14 DEF ListenFails, storeVars, Inv, TypeOK
    <2>2. Routed' /\ OnlyMinted' /\ Cleared'
      BY <1>14, SameKeeps DEF ListenFails, storeVars
    <2> QED
      BY <2>1, <2>2 DEF Inv
  <1>15. ASSUME NEW r \in Reqs, MapFatal(r)
        PROVE  Inv'
    <2>1. pc' \in [Reqs -> Places] /\ Routed' /\ OnlyMinted' /\ Cleared'
      BY <1>15, CutKeeps DEF MapFatal, storeVars
    <2>2. TypeOK'
      BY <1>15, <2>1 DEF MapFatal, storeVars, Inv, TypeOK
    <2> QED
      BY <2>1, <2>2 DEF Inv
  <1>16. ASSUME ShutdownReturns
        PROVE  Inv'
    <2>1. pc' \in [Reqs -> Places] /\ Routed' /\ OnlyMinted' /\ Cleared'
      BY <1>16, CutKeeps DEF ShutdownReturns, storeVars
    <2>2. TypeOK'
      BY <1>16, <2>1 DEF ShutdownReturns, storeVars, Inv, TypeOK
    <2> QED
      BY <2>1, <2>2 DEF Inv
  <1>17. ASSUME UNCHANGED vars
        PROVE  Inv'
    <2>1. TypeOK'
      BY <1>17 DEF vars, Inv, TypeOK
    <2>2. Routed' /\ OnlyMinted' /\ Cleared'
      BY <1>17, SameKeeps DEF vars
    <2> QED
      BY <2>1, <2>2 DEF Inv
  <1>18. ASSUME NEW r \in Reqs, ArriveExec(r) \/ ArriveOther(r)
        PROVE  Inv'
    <2>1. \A ok \in BOOLEAN, m \in Reqs, a \in Actions : Exec(ok, m, a) \in Requests
      BY DEF Exec, Requests
    <2>2. \A ok \in BOOLEAN, query \in Queries : Context(ok, query) \in Requests
      BY ServerAssumption DEF Context, Requests
    <2>3. \A ok \in BOOLEAN : Feedback(ok) \in Requests /\ Invalid(ok) \in Requests
      BY DEF Feedback, Invalid, Requests
    <2> QED
      BY <1>18, <1>1, <2>1, <2>2, <2>3 DEF ArriveExec, ArriveOther, Issued
  <1> QED
    BY <1>2, <1>3, <1>4, <1>5, <1>6, <1>7, <1>8, <1>9, <1>10, <1>11, <1>12, <1>13, <1>14, <1>15, <1>16, <1>17, <1>18 DEF Next, RequestStep, Stopped
-----------------------------------------------------------------------------
\* The invariant holds throughout the life of the server.
THEOREM Invariance == Spec => []Inv
  BY InitInv, NextInv, PTL DEF Spec

\* Type correctness; in particular dependencies never leave their manifest.
THEOREM TypeCorrect == Spec => []TypeOK
  <1>1. Inv => TypeOK
    BY DEF Inv
  <1> QED
    BY <1>1, Invariance, PTL

\* Whatever the proxy forwards was authenticated, granted, approved and within
\* the egress lists, for every registry and any number of concurrent requests,
\* and however the accesses to the manifest store race.
THEOREM ForwardsAreSanctioned == Spec => []ForwardSanctioned
  <1>1. Inv => ForwardSanctioned
    <2> SUFFICES ASSUME Inv, NEW r \in Reqs, pc[r] = "forward"
                 PROVE  LET caps == Resolved(req[r].manifest)
                            tool == ToolOf(r)
                        IN  /\ AuthRequired => req[r].tokenOK
                            /\ tool \in Lookup(caps)
                            /\ RequireApprov[tool] => AutoApprove
                            /\ \E t \in Lookup(caps) : EndpointHost[tool] \in Egress[t]
      BY DEF ForwardSanctioned
    <2> DEFINE caps == Resolved(req[r].manifest)
               tool == ToolOf(r)
               tools == Lookup(caps)
    <2>1. AuthRequired => req[r].tokenOK
      BY DEF Inv, Routed, Authenticated, ExecPlaces
    <2>2. built[req[r].manifest] = Build(caps)
      BY DEF Inv, OnlyMinted, Minted
    <2>3. ActionKnown(r) /\ Permitted(r) /\ HostAllowed(r)
      BY DEF Inv, Cleared
    <2>4. tool \in Found(r)
      BY <2>3, Zenon DEF ActionKnown, ToolOf
    <2> HIDE DEF caps, tool
    <2>5. /\ Build(caps).tools = tools
          /\ Build(caps).egress = UNION {Egress[t] : t \in tools}
          /\ Build(caps).requireApproval =
                 {ActionId(tools, t) : t \in {u \in tools : RequireApprov[u]}}
      BY DEF Build
    <2>6. tool \in tools /\ ActionId(tools, tool) = req[r].action
      BY <2>2, <2>4, <2>5 DEF Found, ManifestOf
    <2>7. RequireApprov[tool] => AutoApprove
      BY <2>2, <2>3, <2>5, <2>6 DEF Permitted, ManifestOf
    <2>8. EndpointHost[tool] \in Build(caps).egress
      BY <2>2, <2>3 DEF HostAllowed, ManifestOf, tool
    <2>9. \E t \in tools : EndpointHost[tool] \in Egress[t]
      BY <2>5, <2>8
    <2> QED
      BY <2>1, <2>6, <2>7, <2>9 DEF caps, tool
  <1> QED
    BY <1>1, Invariance, PTL

\* Two tools of a manifest never share an action id.
LEMMA ActionIdsDistinct ==
    ASSUME NEW tools \in SUBSET Tools, NEW t \in tools, NEW u \in tools,
           ActionId(tools, t) = ActionId(tools, u)
    PROVE  t = u
  <1> DEFINE UpTo(s) == {v \in tools : Rank[v] <= Rank[s]}
  <1>1. /\ Rank[t] \in Nat /\ Rank[u] \in Nat /\ (Rank[t] = Rank[u] => t = u)
        /\ \A v \in tools : Rank[v] \in Nat
    BY BuilderAssumption
  <1>2. /\ IsFiniteSet(UpTo(t)) /\ IsFiniteSet(UpTo(u))
        /\ Cardinality(UpTo(t)) = Cardinality(UpTo(u))
    BY RegistryAssumption, FS_Subset DEF ActionId
  <1>3. t \in UpTo(t) /\ u \in UpTo(u)
    BY <1>1
  <1>4. CASE Rank[t] <= Rank[u]
    <2>1. UpTo(t) \in SUBSET UpTo(u)
      BY <1>1, <1>4
    <2>2. UpTo(t) = UpTo(u)
      BY <1>2, <2>1, FS_Subset
    <2> QED
      BY <1>1, <1>3, <1>4, <2>2
  <1>5. CASE Rank[u] <= Rank[t]
    <2>1. UpTo(u) \in SUBSET UpTo(t)
      BY <1>1, <1>5
    <2>2. UpTo(t) = UpTo(u)
      BY <1>2, <2>1, FS_Subset
    <2> QED
      BY <1>1, <1>3, <1>5, <2>2
  <1> QED
    BY <1>1, <1>4, <1>5

\* For every registry and order of tool ids, the approval gate is asked for the
\* actions of exactly the tools that need approval.
THEOREM GateIsExact == Spec => []GateExact
  <1>1. Inv => GateExact
    <2> SUFFICES ASSUME Inv, NEW r \in Reqs, pc[r] = "check", NEW t \in Found(r)
                 PROVE  Permitted(r) <=> (RequireApprov[t] => AutoApprove)
      BY DEF GateExact
    <2> DEFINE caps == Resolved(req[r].manifest)
               tools == Lookup(caps)
    <2>1. ManifestOf(r) = Build(caps)
      BY DEF Inv, OnlyMinted, Minted, ManifestOf
    <2>2. tools \in SUBSET Tools
      BY DEF Lookup
    <2> HIDE DEF caps
    <2>3. /\ Build(caps).tools = tools
          /\ Build(caps).requireApproval =
                 {ActionId(tools, u) : u \in {v \in tools : RequireApprov[v]}}
      BY DEF Build
    <2> HIDE DEF tools
    <2>4. t \in tools /\ ActionId(tools, t) = req[r].action
      BY <2>1, <2>3 DEF Found
    <2>5. req[r].action \in ManifestOf(r).requireApproval <=> RequireApprov[t]
      BY <2>1, <2>2, <2>3, <2>4, ActionIdsDistinct
    <2>6. RequireApprov[t] \in BOOLEAN /\ AutoApprove \in BOOLEAN
      BY <2>2, <2>4, BuilderAssumption, ServerAssumption
    <2> QED
      BY <2>5, <2>6 DEF Permitted
  <1> QED
    BY <1>1, Invariance, PTL
-----------------------------------------------------------------------------
\* What a step may do to a request: a handler that is past the resolver keeps
\* its request and its manifest, only a context request that was about to reply
\* gets to hand out a manifest, and an answer is final.
LEMMA StepShape ==
    ASSUME Inv, [Next]_vars, NEW m \in Reqs
    PROVE  /\ pc[m] \notin {"idle", "auth", "context"} =>
                  /\ pc'[m] \notin {"idle", "auth", "context"}
                  /\ req'[m] = req[m] /\ built'[m] = built[m]
           /\ pc'[m] = "reply" => pc[m] \in {"put", "reply"}
           /\ pc[m] # "put" /\ pc'[m] = "put" => built'[m].tools # {}
           /\ pc'[m] # "done" => pc[m] # "done" /\ status'[m] = status[m]
           /\ pc[m] = "done" => status'[m] = status[m]
           /\ pc[m] # "done" /\ pc'[m] = "done" /\ status'[m] = 200 /\ req'[m].kind = "context"
                  => pc[m] = "reply"
  <1> DEFINE Shape ==
           /\ pc[m] \notin {"idle", "auth", "context"} =>
                  /\ pc'[m] \notin {"idle", "auth", "context"}
                  /\ req'[m] = req[m] /\ built'[m] = built[m]
           /\ pc'[m] = "reply" => pc[m] \in {"put", "reply"}
           /\ pc[m] # "put" /\ pc'[m] = "put" => built'[m].tools # {}
           /\ pc'[m] # "done" => pc[m] # "done" /\ status'[m] = status[m]
           /\ pc[m] = "done" => status'[m] = status[m]
           /\ pc[m] # "done" /\ pc'[m] = "done" /\ status'[m] = 200 /\ req'[m].kind = "context"
                  => pc[m] = "reply"
  <1>0. /\ pc \in [Reqs -> Places] /\ status \in [Reqs -> Codes]
        /\ DOMAIN req = Reqs /\ DOMAIN built = Reqs
    BY DEF Inv, TypeOK
  <1>1. ASSUME NEW r \in Reqs, ArriveExec(r) \/ ArriveOther(r)
        PROVE  Shape
    <2>1. pc[r] = "idle" /\ pc' = [pc EXCEPT ![r] = "auth"]
      BY <1>1 DEF ArriveExec, ArriveOther, Arrive
    <2>2. UNCHANGED <<status, built>> /\ (m # r => req'[m] = req[m])
      BY <1>0, <1>1 DEF ArriveExec, ArriveOther, Arrive
    <2> QED
      BY <1>0, <2>1, <2>2
  <1>2. ASSUME NEW r \in Reqs, RequireAuth(r)
        PROVE  Shape
    <2>1. pc[r] = "auth" /\ UNCHANGED <<req, built>>
      BY <1>2 DEF RequireAuth
    <2>2. \/ Respond(r, 401)
          \/ GoTo(r, req[r].kind)
      BY <1>2, Zenon DEF RequireAuth
    <2>3. req[r].kind \in {"context", "exec", "feedback", "invalid"}
      BY DEF Inv, TypeOK, Requests
    <2> QED
      BY <1>0, <2>1, <2>2, <2>3 DEF Respond, GoTo
  <1>3. ASSUME NEW r \in Reqs, RejectInvalid(r)
        PROVE  Shape
    BY <1>0, <1>3 DEF RejectInvalid, Respond
  <1>4. ASSUME NEW r \in Reqs, HandleFeedback(r)
        PROVE  Shape
    BY <1>0, <1>4 DEF HandleFeedback, Respond
  <1>5. ASSUME NEW r \in Reqs, HandleContext(r)
        PROVE  Shape
    <2>1. \A caps : Build(caps).tools = Lookup(caps)
      BY DEF Build
    <2> QED
      BY <1>0, <1>5, <2>1 DEF HandleContext, Respond, GoTo, NoMatch
  <1>6. ASSUME NEW r \in Reqs, BeginPut(r)
        PROVE  Shape
    BY <1>0, <1>6 DEF BeginPut
  <1>7. ASSUME NEW r \in Reqs, EndPut(r)
        PROVE  Shape
    BY <1>0, <1>7 DEF EndPut, GoTo
  <1>8. ASSUME NEW r \in Reqs, ReplyContext(r)
        PROVE  Shape
    BY <1>0, <1>8 DEF ReplyContext, Respond
  <1>9. ASSUME NEW r \in Reqs, BeginGet(r)
        PROVE  Shape
    BY <1>0, <1>9 DEF BeginGet
  <1>10. ASSUME NEW r \in Reqs, EndGet(r)
        PROVE  Shape
    BY <1>0, <1>10 DEF EndGet, Respond, GoTo
  <1>11. ASSUME NEW r \in Reqs, CheckExec(r)
        PROVE  Shape
    BY <1>0, <1>11 DEF CheckExec, Respond, GoTo
  <1>12. ASSUME NEW r \in Reqs, UpstreamReturns(r)
        PROVE  Shape
    BY <1>0, <1>12 DEF UpstreamReturns, Respond, Inv, Routed, ExecPlaces
  <1>13. ASSUME NEW r \in Reqs, MapFatal(r)
        PROVE  Shape
    BY <1>0, <1>13 DEF MapFatal, Active
  <1>14. ASSUME ShutdownReturns
        PROVE  Shape
    BY <1>0, <1>14 DEF ShutdownReturns, Active
  <1>15. ASSUME Signal \/ ListenFails \/ UNCHANGED vars
        PROVE  Shape
    BY <1>15 DEF Signal, ListenFails, vars
  <1> HIDE DEF Shape
  <1>16. Shape
    BY <1>1, <1>2, <1>3, <1>4, <1>5, <1>6, <1>7, <1>8, <1>9, <1>10, <1>11, <1>12, <1>13, <1>14, <1>15 DEF Next, RequestStep, Stopped
  <1> QED
    BY <1>16 DEF Shape

\* What is issued was minted, throughout.
LEMMA IssuedInvariance == Spec => []IssuedMinted
  <1>1. Init => IssuedMinted
    BY DEF Init, IssuedMinted, Issued, Invalid
  <1>2. ASSUME Inv, IssuedMinted, [Next]_vars
        PROVE  IssuedMinted'
    <2>1. \A m \in Reqs : Minted(m) => Minted(m)'
      BY <1>2, StepShape DEF Minted, Resolved
    <2>2. \A r \in Reqs : pc'[r] # "done" => status'[r] = 0
      BY <1>2, StepShape DEF IssuedMinted
    <2>3. \A r \in Reqs : pc'[r] = "reply" => Minted(r)
      BY <1>2, StepShape DEF IssuedMinted, Inv, OnlyMinted
    <2>4. ASSUME NEW r \in Reqs, pc'[r] \in {"put", "reply"}
          PROVE  built'[r].tools # {}
      <3>1. CASE pc[r] \in {"put", "reply"}
        BY <1>2, <3>1, StepShape DEF IssuedMinted
      <3>2. CASE pc[r] \notin {"put", "reply"}
        BY <1>2, <2>4, <3>2, StepShape
      <3> QED
        BY <3>1, <3>2
    <2>5. ASSUME NEW m \in Issued'
          PROVE  Minted(m) /\ built'[m].tools # {}
      <3>1. m \in Reqs /\ req'[m].kind = "context" /\ status'[m] = 200
        BY DEF Issued
      <3>2. pc'[m] = "done"
        BY <2>2, <3>1
      <3>3. CASE pc[m] = "done"
        BY <1>2, <3>1, <3>3, StepShape DEF IssuedMinted, Issued
      <3>4. CASE pc[m] # "done"
        BY <1>2, <3>1, <3>2, <3>4, StepShape DEF IssuedMinted
      <3> QED
        BY <3>3, <3>4
    <2>6. Issued' \subseteq Reqs
      BY DEF Issued
    <2> QED
      BY <2>1, <2>2, <2>3, <2>4, <2>5, <2>6 DEF IssuedMinted
  <1> QED
    BY <1>1, <1>2, Invariance, PTL DEF Spec

\* A hint never costs a client a tool: for every registry and either resolver,
\* a manifest has all tools that the hints name and, if an example is near the
\* intent, all that the intent alone would have got.
THEOREM HintsAddTools == Spec => []HintsOnlyAdd
  <1>1. IssuedMinted => HintsOnlyAdd
    <2> SUFFICES ASSUME IssuedMinted, NEW m \in Issued
                 PROVE  LET query == req[m].query
                        IN  /\ Lookup(query.hints) \subseteq built[m].tools
                            /\ Near(query.intent) # {} =>
                                   Lookup(Resolve(query.intent, {})) \subseteq built[m].tools
      BY DEF HintsOnlyAdd
    <2> DEFINE intent == req[m].query.intent
               hints == req[m].query.hints
    <2>1. built[m].tools = Lookup(Resolve(intent, hints))
      <3>1. built[m] = Build(Resolve(intent, hints))
        BY DEF IssuedMinted, Minted, Resolved
      <3>2. \A caps : Build(caps).tools = Lookup(caps)
        BY DEF Build
      <3> QED
        BY <3>1, <3>2
    <2> HIDE DEF intent, hints
    <2>2. \A V, W : V \subseteq W => Lookup(V) \subseteq Lookup(W)
      BY DEF Lookup
    <2>3. hints \subseteq Resolve(intent, hints)
      BY DEF Resolve, embeddingResolve, keywordResolve
    <2>4. Near(intent) # {} => Resolve(intent, {}) \subseteq Resolve(intent, hints)
      BY DEF Resolve, embeddingResolve, keywordResolve
    <2> QED
      BY <2>1, <2>2, <2>3, <2>4 DEF intent, hints
  <1> QED
    BY <1>1, IssuedInvariance, PTL
-----------------------------------------------------------------------------
\* A step after which no access has raced: none had raced before, nothing was
\* lost from the store, and what starts to reply has been stored.
LEMMA UnracedStep ==
    ASSUME Inv, [Next]_vars, \A q \in Reqs : ~dirty'[q], NEW m \in Reqs
    PROVE  /\ \A q \in Reqs : ~dirty[q]
           /\ stored \subseteq stored'
           /\ pc'[m] = "reply" => pc[m] = "reply" \/ m \in stored'
  <1> DEFINE Kept == /\ \A q \in Reqs : ~dirty[q]
                     /\ stored \subseteq stored'
                     /\ pc'[m] = "reply" => pc[m] = "reply" \/ m \in stored'
  <1>0. pc \in [Reqs -> Places] /\ \A r \in Reqs : req[r].kind \in {"context", "exec", "feedback", "invalid"}
    BY DEF Inv, TypeOK, Requests
  <1>1. ASSUME NEW r \in Reqs, ArriveExec(r) \/ ArriveOther(r)
        PROVE  Kept
    BY <1>0, <1>1 DEF ArriveExec, ArriveOther, Arrive, storeVars
  <1>2. ASSUME NEW r \in Reqs, RequireAuth(r)
        PROVE  Kept
    <2>1. \/ Respond(r, 401)
          \/ GoTo(r, req[r].kind)
      BY <1>2, Zenon DEF RequireAuth
    <2> QED
      BY <1>0, <1>2, <2>1 DEF RequireAuth, Respond, GoTo, storeVars
  <1>3. ASSUME NEW r \in Reqs, RejectInvalid(r)
        PROVE  Kept
    BY <1>0, <1>3 DEF RejectInvalid, Respond, storeVars
  <1>4. ASSUME NEW r \in Reqs, HandleFeedback(r)
        PROVE  Kept
    BY <1>0, <1>4 DEF HandleFeedback, Respond, storeVars
  <1>5. ASSUME NEW r \in Reqs, HandleContext(r)
        PROVE  Kept
    BY <1>0, <1>5 DEF HandleContext, Respond, GoTo, storeVars
  <1>6. ASSUME NEW r \in Reqs, ReplyContext(r)
        PROVE  Kept
    BY <1>0, <1>6 DEF ReplyContext, Respond, storeVars
  <1>7. ASSUME NEW r \in Reqs, CheckExec(r)
        PROVE  Kept
    BY <1>0, <1>7 DEF CheckExec, Respond, GoTo, storeVars
  <1>8. ASSUME NEW r \in Reqs, UpstreamReturns(r)
        PROVE  Kept
    BY <1>0, <1>8 DEF UpstreamReturns, Respond, storeVars
  <1>9. ASSUME NEW r \in Reqs, MapFatal(r)
        PROVE  Kept
    BY <1>0, <1>9 DEF MapFatal, Active, storeVars
  <1>10. ASSUME NEW r \in Reqs, BeginPut(r) \/ BeginGet(r)
        PROVE  Kept
    <2>1. \A q \in Reqs : ~dirty[q]
      BY <1>10, Zenon DEF BeginPut, BeginGet, BeginAccess
    <2> QED
      BY <1>10, <2>1 DEF BeginPut, BeginGet, BeginAccess
  <1>11. ASSUME NEW r \in Reqs, EndPut(r)
        PROVE  Kept
    <2>1. dirty' = dirty /\ ~dirty[r]
      BY <1>11 DEF EndPut
    <2>2. stored' = stored \cup {r}
      BY <1>11, <2>1 DEF EndPut
    <2>3. pc' = [pc EXCEPT ![r] = "reply"]
      BY <1>11 DEF EndPut, GoTo
    <2> QED
      BY <1>0, <2>1, <2>2, <2>3
  <1>12. ASSUME NEW r \in Reqs, EndGet(r)
        PROVE  Kept
    BY <1>0, <1>12 DEF EndGet, Respond, GoTo
  <1>13. ASSUME Signal \/ ListenFails \/ ShutdownReturns \/ UNCHANGED vars
        PROVE  Kept
    BY <1>0, <1>13 DEF Signal, ListenFails, ShutdownReturns, Active, storeVars, vars
  <1> HIDE DEF Kept
  <1>14. Kept
    BY <1>1, <1>2, <1>3, <1>4, <1>5, <1>6, <1>7, <1>8, <1>9, <1>10, <1>11, <1>12, <1>13 DEF Next, RequestStep, Stopped
  <1> QED
    BY <1>14 DEF Kept

\* Without a race what is issued can be found, throughout.
LEMMA StoredInvariance == Spec => []StoredUnlessRaced
  <1>1. Init => StoredUnlessRaced
    BY DEF Init, StoredUnlessRaced, Issued, Invalid
  <1>2. ASSUME Inv, IssuedMinted, StoredUnlessRaced, [Next]_vars
        PROVE  StoredUnlessRaced'
    <2> SUFFICES ASSUME \A q \in Reqs : ~dirty'[q], NEW m \in Reqs, pc'[m] = "reply" \/ m \in Issued'
                 PROVE  m \in stored'
      BY DEF StoredUnlessRaced
    <2>1. pc[m] = "reply" \/ m \in Issued => m \in stored'
      BY <1>2, UnracedStep DEF StoredUnlessRaced
    <2>2. CASE pc'[m] = "reply"
      BY <1>2, <2>1, <2>2, UnracedStep
    <2>3. CASE m \in Issued'
      <3>1. req'[m].kind = "context" /\ status'[m] = 200
        BY <2>3 DEF Issued
      <3>2. pc'[m] = "done"
        BY <1>2, <3>1, StepShape DEF IssuedMinted
      <3>3. CASE pc[m] = "done"
        BY <1>2, <2>1, <3>1, <3>3, StepShape DEF Issued
      <3>4. CASE pc[m] # "done"
        BY <1>2, <2>1, <3>1, <3>2, <3>4, StepShape
      <3> QED
        BY <3>3, <3>4
    <2> QED
      BY <2>2, <2>3
  <1> QED
    BY <1>1, <1>2, Invariance, IssuedInvariance, PTL DEF Spec

\* The only way for the proxy to answer 404 to a client that presents an issued
\* manifest is a race of two accesses to the store.
THEOREM FoundWithoutRace == Spec => FoundUnlessRaced
  <1>1. ASSUME Inv, StoredUnlessRaced, [Next]_vars
        PROVE  \A r \in Reqs :
                   pc[r] = "exec" /\ pc'[r] = "done" /\ req[r].manifest \in Issued
                       => \E q \in Reqs : dirty[q]
    <2> SUFFICES ASSUME NEW r \in Reqs, pc[r] = "exec", pc'[r] = "done", req[r].manifest \in Issued,
                        \A q \in Reqs : ~dirty[q]
                 PROVE  FALSE
      OBVIOUS
    <2>0. pc \in [Reqs -> Places] /\ Issued \subseteq Reqs
      BY <1>1 DEF Inv, TypeOK, Issued
    <2>1. req[r].manifest \in stored
      BY <1>1, <2>0 DEF StoredUnlessRaced
    <2>2. EndGet(r)
      <3>1. ASSUME NEW p \in Reqs, p # r, RequestStep(p), ~MapFatal(p)
            PROVE  pc'[r] = pc[r]
        BY <2>0, <3>1 DEF RequestStep, ArriveExec, ArriveOther, Arrive, RequireAuth, RejectInvalid,
              HandleFeedback, HandleContext, BeginPut, EndPut, ReplyContext, BeginGet, EndGet,
              CheckExec, UpstreamReturns, Respond, GoTo
      <3>2. ASSUME RequestStep(r)
            PROVE  EndGet(r) \/ BeginGet(r) \/ MapFatal(r)
        BY <3>2 DEF RequestStep, ArriveExec, ArriveOther, Arrive, RequireAuth, RejectInvalid,
              HandleFeedback, HandleContext, BeginPut, EndPut, ReplyContext, CheckExec, UpstreamReturns
      <3>3. ASSUME NEW p \in Reqs, MapFatal(p)
            PROVE  FALSE
        BY <2>0, <3>3 DEF MapFatal
      <3>4. ~BeginGet(r)
        BY DEF BeginGet
      <3>5. ASSUME Signal \/ ListenFails \/ ShutdownReturns \/ Stopped \/ UNCHANGED vars
            PROVE  FALSE
        BY <2>0, <3>5 DEF Signal, ListenFails, ShutdownReturns, Stopped, Active, vars
      <3> QED
        BY <1>1, <3>1, <3>2, <3>3, <3>4, <3>5 DEF Next
    <2>3. GoTo(r, "check")
      BY <2>1, <2>2 DEF EndGet
    <2> QED
      BY <2>0, <2>3 DEF GoTo
  <1> QED
    BY <1>1, Invariance, StoredInvariance, PTL DEF FoundUnlessRaced, Spec
-----------------------------------------------------------------------------
\* The only step that refuses a request with 422 is the one in which
\* handleContext finds no tool for it, and it leaves the request alone.
LEMMA RefusalStep ==
    ASSUME Inv, [Next]_vars, NEW m \in Reqs, status[m] # 422, status'[m] = 422
    PROVE  /\ pc[m] = "context" /\ pc'[m] = "done" /\ UNCHANGED req
           /\ NoMatch(Resolved(m))
  <1> DEFINE Refused == /\ pc[m] = "context" /\ pc'[m] = "done" /\ UNCHANGED req
                        /\ NoMatch(Resolved(m))
  <1>0. pc \in [Reqs -> Places] /\ status \in [Reqs -> Codes]
    BY DEF Inv, TypeOK
  <1>1. ASSUME NEW r \in Reqs, HandleContext(r)
        PROVE  Refused
    <2>1. Respond(r, 422) /\ (Resolved(r) = {} \/ NoMatch(Resolved(r)))
      BY <1>1 DEF HandleContext, GoTo
    <2>2. NoMatch({})
      BY DEF NoMatch, Lookup
    <2> QED
      BY <1>0, <1>1, <2>1, <2>2 DEF HandleContext, Respond
  <1>2. ASSUME NEW r \in Reqs, ArriveExec(r) \/ ArriveOther(r)
        PROVE  FALSE
    BY <1>2 DEF ArriveExec, ArriveOther, Arrive
  <1>3. ASSUME NEW r \in Reqs, RequireAuth(r)
        PROVE  FALSE
    <2>1. Respond(r, 401) \/ GoTo(r, req[r].kind)
      BY <1>3, Zenon DEF RequireAuth
    <2> QED
      BY <1>0, <2>1 DEF Respond, GoTo
  <1>4. ASSUME NEW r \in Reqs, RejectInvalid(r)
        PROVE  FALSE
    BY <1>0, <1>4 DEF RejectInvalid, Respond
  <1>5. ASSUME NEW r \in Reqs, HandleFeedback(r)
        PROVE  FALSE
    BY <1>0, <1>5 DEF HandleFeedback, Respond
  <1>6. ASSUME NEW r \in Reqs, BeginPut(r)
        PROVE  FALSE
    BY <1>0, <1>6 DEF BeginPut
  <1>7. ASSUME NEW r \in Reqs, EndPut(r)
        PROVE  FALSE
    BY <1>0, <1>7 DEF EndPut, GoTo
  <1>8. ASSUME NEW r \in Reqs, ReplyContext(r)
        PROVE  FALSE
    BY <1>0, <1>8 DEF ReplyContext, Respond
  <1>9. ASSUME NEW r \in Reqs, BeginGet(r)
        PROVE  FALSE
    BY <1>0, <1>9 DEF BeginGet
  <1>10. ASSUME NEW r \in Reqs, EndGet(r)
        PROVE  FALSE
    BY <1>0, <1>10 DEF EndGet, Respond, GoTo
  <1>11. ASSUME NEW r \in Reqs, CheckExec(r)
        PROVE  FALSE
    BY <1>0, <1>11 DEF CheckExec, Respond, GoTo
  <1>12. ASSUME NEW r \in Reqs, UpstreamReturns(r)
        PROVE  FALSE
    BY <1>0, <1>12 DEF UpstreamReturns, Respond
  <1>13. ASSUME NEW r \in Reqs, MapFatal(r)
        PROVE  FALSE
    BY <1>0, <1>13 DEF MapFatal
  <1>14. ASSUME Signal \/ ListenFails \/ ShutdownReturns \/ UNCHANGED vars
        PROVE  FALSE
    BY <1>14 DEF Signal, ListenFails, ShutdownReturns, vars
  <1> HIDE DEF Refused
  <1>15. Refused
    BY <1>1, <1>2, <1>3, <1>4, <1>5, <1>6, <1>7, <1>8, <1>9, <1>10, <1>11, <1>12, <1>13, <1>14 DEF Next, RequestStep, Stopped
  <1> QED
    BY <1>15 DEF Refused

\* Whatever was refused was resolved to capabilities without a tool, throughout.
LEMMA RefusedInvariance == Spec => []RefusedUnmatched
  <1>1. Init => RefusedUnmatched
    BY DEF Init, RefusedUnmatched
  <1>2. ASSUME Inv, RefusedUnmatched, [Next]_vars
        PROVE  RefusedUnmatched'
    <2> SUFFICES ASSUME NEW r \in Reqs, status'[r] = 422
                 PROVE  pc'[r] = "done" /\ req'[r].kind = "context" /\ NoMatch(Resolved(r))'
      BY DEF RefusedUnmatched
    <2>1. CASE status[r] = 422
      <3>1. pc[r] = "done" /\ req[r].kind = "context" /\ NoMatch(Resolved(r))
        BY <1>2, <2>1 DEF RefusedUnmatched
      <3>2. pc'[r] = "done" /\ req'[r] = req[r]
        BY <1>2, <3>1, StepShape
      <3> QED
        BY <3>1, <3>2 DEF Resolved
    <2>2. CASE status[r] # 422
      <3>1. /\ pc[r] = "context" /\ pc'[r] = "done" /\ UNCHANGED req
            /\ NoMatch(Resolved(r))
        BY <1>2, <2>2, RefusalStep
      <3>2. req[r].kind = "context"
        BY <1>2, <3>1 DEF Inv, Routed, ContextPlaces
      <3> QED
        BY <3>1, <3>2 DEF Resolved
    <2> QED
      BY <2>1, <2>2
  <1> QED
    BY <1>1, <1>2, Invariance, PTL DEF Spec

\* Whatever the registry holds besides the seed, and with either resolver, a
\* request is refused only if neither its hints nor, without hints, any way of
\* resolving its intent would have found it a tool.
THEOREM RefusedOnlyForNothing == Spec => []RefusedForNothing
  <1>1. Inv /\ RefusedUnmatched => RefusedForNothing
    <2> SUFFICES ASSUME Inv, RefusedUnmatched, NEW r \in Reqs, status[r] = 422
                 PROVE  LET query == req[r].query
                        IN  /\ NoMatch(query.hints)
                            /\ query.hints = {} =>
                                   /\ NoMatch(keywordResolve(query.intent, {}))
                                   /\ ResolverKind = "embedding" => NoMatch(Near(query.intent))
      BY DEF RefusedForNothing
    <2> DEFINE intent == req[r].query.intent
               hints == req[r].query.hints
    <2>1. NoMatch(Resolve(intent, hints))
      BY DEF RefusedUnmatched, Resolved
    <2>2. intent \in Intents
      BY DEF Inv, TypeOK, RefusedUnmatched, Requests
    <2> HIDE DEF intent, hints
    <2>3. \A V, W : V \subseteq W /\ NoMatch(W) => NoMatch(V)
      BY DEF NoMatch, Lookup
    <2>4. hints \subseteq Resolve(intent, hints)
      BY DEF Resolve, embeddingResolve, keywordResolve
    <2>5. ASSUME hints = {}
          PROVE  /\ NoMatch(keywordResolve(intent, {}))
                 /\ ResolverKind = "embedding" => NoMatch(Near(intent))
      <3>1. CASE ResolverKind # "embedding"
        BY <2>1, <2>5, <3>1 DEF Resolve
      <3>2. CASE ResolverKind = "embedding" /\ Near(intent) # {}
        <4>1. Resolve(intent, hints) = Near(intent)
          BY <2>5, <3>2 DEF Resolve, embeddingResolve
        <4>2. PICK cap \in Near(intent) : cap \in allCapabilities
          BY <2>2, <3>2, SeedAssumption DEF Near
        <4>3. PICK t \in Tools : cap \in Range(CapsOf[t])
          BY <4>2 DEF allCapabilities
        <4>4. t \in Lookup(Near(intent))
          BY <4>2, <4>3 DEF Lookup
        <4> QED
          BY <2>1, <4>1, <4>4 DEF NoMatch
      <3>3. CASE ResolverKind = "embedding" /\ Near(intent) = {}
        <4>1. Resolve(intent, hints) = keywordResolve(intent, {})
          BY <2>5, <3>3 DEF Resolve, embeddingResolve
        <4>2. NoMatch({})
          BY DEF NoMatch, Lookup
        <4> QED
          BY <2>1, <3>3, <4>1, <4>2
      <3> QED
        BY <3>1, <3>2, <3>3
    <2> QED
      BY <2>1, <2>3, <2>4, <2>5 DEF intent, hints
  <1> QED
    BY <1>1, Invariance, RefusedInvariance, PTL
-----------------------------------------------------------------------------
\* "The server guarantees the manifest is acyclic": it does for every registry
\* whose tools have levels, whatever part of the registry a manifest selects and
\* although a tool may have a capability it depends on itself.
THEOREM DependenciesDescend ==
    ASSUME NEW level, LevelsOf(level)
    PROVE  Spec => []Descends(level)
  <1>1. IssuedMinted => Descends(level)
    <2> SUFFICES ASSUME IssuedMinted, NEW m \in Issued, NEW t \in built[m].tools,
                        NEW u \in built[m].dependsOn[t]
                 PROVE  u \in built[m].tools /\ level[u] < level[t]
      BY DEF Descends
    <2> DEFINE tools == Lookup(Resolved(m))
    <2>1. built[m] = Build(Resolved(m))
      BY DEF IssuedMinted, Minted
    <2>2. /\ built[m].tools = tools
          /\ built[m].dependsOn = [s \in tools |-> DependsOn(tools, s)]
      BY <2>1 DEF Build
    <2>3. tools \subseteq Tools
      BY DEF Lookup
    <2> HIDE DEF tools
    <2>4. u \in tools \ {t} /\ DependsOnCaps[t] \cap Range(CapsOf[u]) # {}
      BY <2>2 DEF DependsOn
    <2> QED
      BY <2>2, <2>3, <2>4 DEF LevelsOf
  <1> QED
    BY <1>1, IssuedInvariance, PTL
-----------------------------------------------------------------------------
(* The order in which the adapters run the actions of a manifest *)

\* A sequence in which nothing stands twice.
Once(s) == \A i, j \in DOMAIN s : s[i] = s[j] => i = j

\* Sorting leaves out nothing and repeats nothing.
LEMMA SortedOnce ==
    ASSUME NEW ids \in SUBSET Int, IsFiniteSet(ids)
    PROVE  /\ Sorted(ids) \in Seq(ids) /\ Range(Sorted(ids)) = ids
           /\ Once(Sorted(ids))
  <1> DEFINE UpTo(x) == {y \in ids : y <= x}
             n == Cardinality(ids)
             s == Sorted(ids)
             place == [x \in ids |-> Cardinality(UpTo(x))]
  <1>1. n \in Nat /\ IsFiniteSet(1..n) /\ Cardinality(1..n) = n
    BY FS_CardinalityType, FS_Interval
  <1>2. \A x \in ids : IsFiniteSet(UpTo(x)) /\ UpTo(x) # {} /\ place[x] \in 1..n
    <2> SUFFICES ASSUME NEW x \in ids
                 PROVE  IsFiniteSet(UpTo(x)) /\ UpTo(x) # {} /\ place[x] \in 1..n
      OBVIOUS
    <2>1. UpTo(x) \in SUBSET ids /\ x \in UpTo(x)
      OBVIOUS
    <2>2. IsFiniteSet(UpTo(x)) /\ Cardinality(UpTo(x)) <= n /\ Cardinality(UpTo(x)) \in Nat
      BY <2>1, FS_Subset, FS_CardinalityType
    <2>3. Cardinality(UpTo(x)) # 0
      BY <2>1, <2>2, FS_EmptySet
    <2> QED
      BY <1>1, <2>1, <2>2, <2>3
  <1>3. \A x, y \in ids : place[x] = place[y] => x = y
    <2>1. ASSUME NEW x \in ids, NEW y \in ids, place[x] = place[y], x <= y
          PROVE  x = y
      <3>1. UpTo(x) \in SUBSET UpTo(y)
        <4>1. \A z \in ids : z <= x => z <= y
          BY <2>1
        <4> QED
          BY <4>1
      <3>2. UpTo(x) = UpTo(y)
        BY <1>2, <2>1, <3>1, FS_Subset
      <3> QED
        BY <2>1, <3>2
    <2> QED
      BY <2>1
  <1>4. \A i \in 1..n : \E x \in ids : place[x] = i
    <2>1. place \in Injection(ids, 1..n)
      BY <1>2, <1>3 DEF Injection, IsInjective
    <2>2. place \in Surjection(ids, 1..n)
      BY <1>1, <2>1, FS_Injection
    <2> QED
      BY <2>2 DEF Surjection
  <1>5. \A i \in 1..n : s[i] \in ids /\ place[s[i]] = i
    BY <1>4 DEF Sorted
  <1>6. s \in [1..n -> ids] /\ DOMAIN s = 1..n
    BY <1>5 DEF Sorted
  <1> HIDE DEF s
  <1>7. s \in Seq(ids)
    BY <1>1, <1>6
  <1>8. \A i, j \in 1..n : s[i] = s[j] => i = j
    BY <1>5
  <1>9. \A x \in ids : s[place[x]] = x
    BY <1>2, <1>3, <1>5
  <1>10. Range(s) = ids
    BY <1>2, <1>6, <1>9, Zenon DEF Range
  <1> QED
    BY <1>6, <1>7, <1>8, <1>10 DEF Once, s

\* Taking the head out of a queue, putting something behind it.
LEMMA OnceTail ==
    ASSUME NEW S, NEW s \in Seq(S), s # <<>>, Once(s)
    PROVE  /\ Head(s) \in S /\ Head(s) \in Range(s) /\ Tail(s) \in Seq(S) /\ Once(Tail(s))
           /\ Range(Tail(s)) = Range(s) \ {Head(s)}
  <1>1. /\ Head(s) = s[1] /\ Head(s) \in S /\ Tail(s) \in Seq(S)
        /\ Len(s) \in Nat \ {0} /\ DOMAIN s = 1..Len(s) /\ DOMAIN Tail(s) = 1..(Len(s) - 1)
        /\ \A i \in 1..(Len(s) - 1) : Tail(s)[i] = s[i + 1]
    BY HeadTailProperties
  <1> DEFINE t == Tail(s)
  <1>2. DOMAIN t = 1..(Len(s) - 1) /\ \A i \in 1..(Len(s) - 1) : t[i] = s[i + 1]
    BY <1>1
  <1> HIDE DEF t
  <1>3. Once(t)
    BY <1>1, <1>2 DEF Once
  <1>4. Range(t) = Range(s) \ {Head(s)}
    <2>1. ASSUME NEW x \in Range(s), x # Head(s)
          PROVE  x \in Range(t)
      <3>1. PICK i \in 1..Len(s) : s[i] = x
        BY <1>1, <2>1 DEF Range
      <3>2. i - 1 \in 1..(Len(s) - 1) /\ t[i - 1] = x
        BY <1>1, <1>2, <2>1, <3>1
      <3> QED
        BY <1>2, <3>2 DEF Range
    <2>2. ASSUME NEW x \in Range(t)
          PROVE  x \in Range(s) /\ x # Head(s)
      <3>1. PICK i \in 1..(Len(s) - 1) : t[i] = x
        BY <1>2 DEF Range
      <3>2. i + 1 \in DOMAIN s /\ s[i + 1] = x /\ 1 \in DOMAIN s /\ i + 1 # 1
        BY <1>1, <1>2, <3>1
      <3> QED
        BY <1>1, <3>2 DEF Once, Range
    <2> QED
      BY <2>1, <2>2
  <1>5. Head(s) \in Range(s)
    BY <1>1 DEF Range
  <1> QED
    BY <1>1, <1>3, <1>4, <1>5 DEF t

LEMMA OnceConcat ==
    ASSUME NEW S, NEW s \in Seq(S), NEW t \in Seq(S), Once(s), Once(t), Range(s) \cap Range(t) = {}
    PROVE  s \o t \in Seq(S) /\ Once(s \o t) /\ Range(s \o t) = Range(s) \cup Range(t)
  <1> DEFINE u == s \o t
  <1>1. /\ u \in Seq(S) /\ Len(u) = Len(s) + Len(t) /\ Len(s) \in Nat /\ Len(t) \in Nat
        /\ DOMAIN u = 1..(Len(s) + Len(t)) /\ DOMAIN s = 1..Len(s) /\ DOMAIN t = 1..Len(t)
    BY ConcatProperties
  <1>2. /\ \A i \in 1..Len(s) : u[i] = s[i]
        /\ \A i \in 1..Len(t) : u[Len(s) + i] = t[i]
    BY ConcatProperties, <1>1
  <1> HIDE DEF u
  <1>3. \A i \in DOMAIN u : i \in DOMAIN s \/ \E j \in DOMAIN t : i = Len(s) + j
    <2> SUFFICES ASSUME NEW i \in DOMAIN u, i \notin DOMAIN s
                 PROVE  \E j \in DOMAIN t : i = Len(s) + j
      OBVIOUS
    <2>1. i - Len(s) \in DOMAIN t /\ i = Len(s) + (i - Len(s))
      BY <1>1
    <2> QED
      BY <2>1
  <1>4. \A i \in DOMAIN s, j \in DOMAIN t : s[i] # t[j]
    BY DEF Range
  <1>5. Once(u)
    <2> SUFFICES ASSUME NEW i \in DOMAIN u, NEW j \in DOMAIN u, u[i] = u[j]
                 PROVE  i = j
      BY DEF Once
    <2>1. CASE i \in DOMAIN s /\ j \in DOMAIN s
      BY <1>1, <1>2, <2>1 DEF Once
    <2>2. CASE i \in DOMAIN s /\ j \notin DOMAIN s
      BY <1>1, <1>2, <1>3, <1>4, <2>2
    <2>3. CASE i \notin DOMAIN s /\ j \in DOMAIN s
      BY <1>1, <1>2, <1>3, <1>4, <2>3
    <2>4. CASE i \notin DOMAIN s /\ j \notin DOMAIN s
      <3>1. PICK a \in DOMAIN t : i = Len(s) + a
        BY <1>3, <2>4
      <3>2. PICK b \in DOMAIN t : j = Len(s) + b
        BY <1>3, <2>4
      <3>3. t[a] = t[b]
        BY <1>1, <1>2, <3>1, <3>2
      <3> QED
        BY <3>1, <3>2, <3>3 DEF Once
    <2> QED
      BY <2>1, <2>2, <2>3, <2>4
  <1>6. Range(u) = Range(s) \cup Range(t)
    <2>1. \A x \in Range(u) : x \in Range(s) \/ x \in Range(t)
      <3> SUFFICES ASSUME NEW i \in DOMAIN u PROVE u[i] \in Range(s) \/ u[i] \in Range(t)
        BY DEF Range
      <3> QED
        BY <1>1, <1>2, <1>3 DEF Range
    <2>2. \A i \in DOMAIN s : s[i] \in Range(u)
      <3> SUFFICES ASSUME NEW i \in DOMAIN s PROVE s[i] \in Range(u)
        OBVIOUS
      <3>1. i \in DOMAIN u /\ u[i] = s[i]
        BY <1>1, <1>2
      <3> QED
        BY <3>1 DEF Range
    <2>3. \A i \in DOMAIN t : t[i] \in Range(u)
      <3> SUFFICES ASSUME NEW i \in DOMAIN t PROVE t[i] \in Range(u)
        OBVIOUS
      <3>1. Len(s) + i \in DOMAIN u /\ u[Len(s) + i] = t[i]
        BY <1>1, <1>2
      <3> QED
        BY <3>1 DEF Range
    <2> QED
      BY <2>1, <2>2, <2>3 DEF Range
  <1> QED
    BY <1>1, <1>5, <1>6 DEF u

\* As long as a sequence without repetitions that has all of a finite set.
LEMMA OnceLen ==
    ASSUME NEW S, IsFiniteSet(S), NEW s \in Seq(S), Once(s)
    PROVE  /\ Len(s) \in Nat /\ Len(s) <= Cardinality(S)
           /\ Len(s) = Cardinality(S) <=> Range(s) = S
  <1>1. Len(s) \in Nat /\ DOMAIN s = 1..Len(s) /\ s \in [1..Len(s) -> S]
    BY LenProperties
  <1>2. s \in Injection(1..Len(s), S)
    BY <1>1 DEF Once, Injection, IsInjective
  <1>3. Cardinality(1..Len(s)) = Len(s)
    <2>1. 1 \in Int /\ Len(s) \in Int /\ (1 > Len(s) => Len(s) = 0) /\ Len(s) - 1 + 1 = Len(s)
      BY <1>1
    <2> QED
      BY <2>1, FS_Interval
  <1>4. Len(s) <= Cardinality(S) /\ (Len(s) = Cardinality(S) <=> s \in Surjection(1..Len(s), S))
    BY <1>2, <1>3, FS_Injection
  <1>5. s \in Surjection(1..Len(s), S) <=> Range(s) = S
    BY <1>1 DEF Surjection, Range
  <1> QED
    BY <1>1, <1>4, <1>5

\* The states of the loop.
LoopStates(dependsOn) ==
    LET ids == DOMAIN dependsOn
    IN  [ready : Seq(ids), indeg : [ids -> Int], out : Seq(ids)]

\* Between two turns: nothing is ready or out twice, an action is one or the other
\* exactly if all it depends on is out, and what is out came after that.
LoopInv(dependsOn, s) ==
    LET ids == DOMAIN dependsOn
        done == Range(s.out)
    IN  /\ s \in LoopStates(dependsOn)
        /\ s.indeg = [id \in ids |-> Cardinality(Inside(dependsOn, id) \ done)]
        /\ Once(s.ready) /\ Once(s.out) /\ done \cap Range(s.ready) = {}
        /\ done \cup Range(s.ready) = {id \in ids : Inside(dependsOn, id) \subseteq done}
        /\ \A i \in DOMAIN s.out : \A d \in Inside(dependsOn, s.out[i]) :
               \E j \in 1..(i - 1) : s.out[j] = d

LEMMA StartedType ==
    ASSUME NEW D, DOMAIN D \in SUBSET Int, IsFiniteSet(DOMAIN D)
    PROVE  Started(D) \in LoopStates(D) /\ LoopInv(D, Started(D))
  <1> DEFINE ids == DOMAIN D
             indeg == [id \in ids |-> Cardinality(Inside(D, id))]
             none == {id \in ids : indeg[id] = 0}
             ready == Sorted(none)
  <1>1. \A id \in ids : IsFiniteSet(Inside(D, id)) /\ indeg[id] \in Nat
                        /\ (indeg[id] = 0 <=> Inside(D, id) = {})
    <2> SUFFICES ASSUME NEW id \in ids
                 PROVE  IsFiniteSet(Inside(D, id)) /\ indeg[id] \in Nat
                        /\ (indeg[id] = 0 <=> Inside(D, id) = {})
      OBVIOUS
    <2>1. Inside(D, id) \in SUBSET ids
      BY DEF Inside
    <2> QED
      BY <2>1, FS_Subset, FS_CardinalityType, FS_EmptySet
  <1>2. ready \in Seq(none) /\ Range(ready) = none /\ Once(ready)
    <2>1. none \in SUBSET Int /\ IsFiniteSet(none)
      BY FS_Subset
    <2> HIDE DEF none
    <2> QED
      BY <2>1, SortedOnce DEF Once
  <1>3. ready \in Seq(ids)
    <2> HIDE DEF ready
    <2>1. none \subseteq ids
      OBVIOUS
    <2> HIDE DEF none
    <2> QED
      BY <1>2, <2>1
  <1>4. Started(D) = [ready |-> ready, indeg |-> indeg, out |-> <<>>]
    BY DEF Started
  <1>5. Range(<<>>) = {} /\ <<>> \in Seq(ids) /\ DOMAIN <<>> = {}
    BY DEF Range
  <1>6. \A id \in ids : Inside(D, id) \ {} = Inside(D, id) /\ (indeg[id] = 0 <=> Inside(D, id) \subseteq {})
    BY <1>1
  <1>7. indeg \in [ids -> Int] /\ indeg = [id \in ids |-> Cardinality(Inside(D, id) \ {})]
    BY <1>1, <1>6
  <1>8. none = {id \in ids : Inside(D, id) \subseteq {}}
    BY <1>6
  <1> HIDE DEF indeg, ready, none
  <1>9. Started(D) \in LoopStates(D)
    BY <1>3, <1>4, <1>5, <1>7 DEF LoopStates
  <1> QED
    <2> DEFINE s == Started(D)
    <2>1. s.ready = ready /\ s.indeg = indeg /\ s.out = <<>> /\ s \in LoopStates(D)
      BY <1>4, <1>9
    <2>2. Once(<<>>)
      BY DEF Once
    <2> HIDE DEF s
    <2>3. LoopInv(D, s)
      BY <1>2, <1>5, <1>7, <1>8, <2>1, <2>2 DEF LoopInv
    <2> QED
      BY <2>1, <2>3 DEF s

\* A turn leads from state to state.
LEMMA TurnType ==
    ASSUME NEW D, DOMAIN D \in SUBSET Int, IsFiniteSet(DOMAIN D),
           NEW s \in LoopStates(D), s.ready # <<>>
    PROVE  Turn(D, s) \in LoopStates(D)
  <1> DEFINE ids == DOMAIN D
             children == Children(D, Head(s.ready))
             left == [id \in DOMAIN s.indeg |->
                         IF id \in children THEN s.indeg[id] - 1 ELSE s.indeg[id]]
             next == {c \in children : left[c] = 0}
  <1>1. s.ready \in Seq(ids) /\ s.out \in Seq(ids) /\ s.indeg \in [ids -> Int]
    BY DEF LoopStates
  <1>2. left \in [ids -> Int]
    BY <1>1
  <1>3. Sorted(next) \in Seq(ids)
    <2>1. next \in SUBSET ids /\ next \in SUBSET Int /\ IsFiniteSet(next)
      BY FS_Subset DEF Children
    <2> HIDE DEF next
    <2>2. Sorted(next) \in Seq(next)
      BY <2>1, SortedOnce
    <2> QED
      BY <2>1, <2>2
  <1>4. Tail(s.ready) \in Seq(ids) /\ Head(s.ready) \in ids
    BY <1>1, HeadTailProperties
  <1>5. Turn(D, s) = [ready |-> Tail(s.ready) \o Sorted(next), indeg |-> left,
                      out |-> Append(s.out, Head(s.ready))]
    BY DEF Turn
  <1> HIDE DEF left, next
  <1>6. Tail(s.ready) \o Sorted(next) \in Seq(ids)
    BY <1>3, <1>4
  <1>7. Append(s.out, Head(s.ready)) \in Seq(ids)
    BY <1>1, <1>4
  <1> QED
    BY <1>2, <1>5, <1>6, <1>7 DEF LoopStates

LEMMA TurnInv ==
    ASSUME NEW D, DOMAIN D \in SUBSET Int, IsFiniteSet(DOMAIN D),
           NEW s, LoopInv(D, s), s.ready # <<>>
    PROVE  LoopInv(D, Turn(D, s)) /\ Len(Turn(D, s).out) = Len(s.out) + 1
  <1> DEFINE ids == DOMAIN D
             head == Head(s.ready)
             children == Children(D, head)
             left == [id \in DOMAIN s.indeg |->
                         IF id \in children THEN s.indeg[id] - 1 ELSE s.indeg[id]]
             next == {c \in children : left[c] = 0}
             done == Range(s.out)
             out == Append(s.out, head)
             ready == Tail(s.ready) \o Sorted(next)
  <1>1. /\ s \in LoopStates(D)
        /\ s.ready \in Seq(ids) /\ s.out \in Seq(ids)
        /\ s.indeg = [id \in ids |-> Cardinality(Inside(D, id) \ done)]
        /\ Once(s.ready) /\ Once(s.out) /\ done \cap Range(s.ready) = {}
        /\ done \cup Range(s.ready) = {id \in ids : Inside(D, id) \subseteq done}
    BY DEF LoopInv, LoopStates
  <1>2. /\ head \in ids /\ head \in Range(s.ready) /\ Tail(s.ready) \in Seq(ids)
        /\ Once(Tail(s.ready)) /\ Range(Tail(s.ready)) = Range(s.ready) \ {head}
    BY <1>1, OnceTail
  <1>3. head \notin done /\ Inside(D, head) \subseteq done
    BY <1>1, <1>2
  <1>4. Turn(D, s) = [ready |-> ready, indeg |-> left, out |-> out]
    BY DEF Turn
  <1>5. /\ out \in Seq(ids) /\ Len(s.out) \in Nat /\ Len(out) = Len(s.out) + 1
        /\ DOMAIN s.out = 1..Len(s.out) /\ DOMAIN out = 1..(Len(s.out) + 1)
        /\ \A i \in 1..Len(s.out) : out[i] = s.out[i]
        /\ out[Len(s.out) + 1] = head
    BY <1>1, <1>2
  <1> HIDE DEF head, out
  <1>6. Range(out) = done \cup {head}
    <2>1. \A i \in DOMAIN out : out[i] \in done \cup {head}
      BY <1>5 DEF Range
    <2>2. \A i \in DOMAIN s.out : i \in DOMAIN out /\ out[i] = s.out[i]
      BY <1>5
    <2>3. Len(s.out) + 1 \in DOMAIN out
      BY <1>5
    <2> QED
      BY <1>5, <2>1, <2>2, <2>3 DEF Range
  <1>7. Once(out)
    <2>1. \A i \in DOMAIN s.out : s.out[i] # head
      BY <1>3 DEF Range
    <2>2. \A i, j \in DOMAIN s.out : s.out[i] = s.out[j] => i = j
      BY <1>1 DEF Once
    <2>3. \A i \in DOMAIN out : i \in DOMAIN s.out \/ i = Len(s.out) + 1
      BY <1>5
    <2> QED
      BY <1>5, <2>1, <2>2, <2>3 DEF Once
  <1>8. ASSUME NEW i \in DOMAIN out, NEW d \in Inside(D, out[i])
        PROVE  \E j \in 1..(i - 1) : out[j] = d
    <2>1. CASE i \in 1..Len(s.out)
      <3>1. PICK j \in 1..(i - 1) : s.out[j] = d
        BY <1>5, <1>8, <2>1 DEF LoopInv
      <3>2. j \in 1..Len(s.out)
        BY <1>5, <2>1, <3>1
      <3>3. out[j] = d
        BY <1>5, <3>1, <3>2
      <3> QED
        BY <3>3
    <2>2. CASE i = Len(s.out) + 1
      <3>1. d \in done
        BY <1>3, <1>5, <1>8, <2>2
      <3>2. PICK j \in 1..Len(s.out) : s.out[j] = d
        BY <1>5, <3>1 DEF Range
      <3> QED
        BY <1>5, <2>2, <3>2
    <2> QED
      BY <1>5, <1>8, <2>1, <2>2
  <1>9. ASSUME NEW id \in ids
        PROVE  /\ left[id] = Cardinality(Inside(D, id) \ (done \cup {head}))
               /\ left[id] = 0 <=> Inside(D, id) \subseteq done \cup {head}
    <2> DEFINE wait == Inside(D, id) \ done
    <2>1. IsFiniteSet(wait)
      <3>1. wait \in SUBSET ids
        BY DEF Inside
      <3> QED
        BY <3>1, FS_Subset
    <2>2. id \in children <=> head \in wait
      BY <1>2, <1>3 DEF Children, Inside
    <2>3. left[id] = IF head \in wait THEN Cardinality(wait) - 1 ELSE Cardinality(wait)
      BY <1>1, <2>2
    <2>4. wait \ {head} = Inside(D, id) \ (done \cup {head})
      OBVIOUS
    <2> HIDE DEF wait, left
    <2>5. IsFiniteSet(wait \ {head}) /\ left[id] = Cardinality(wait \ {head})
      BY <2>1, <2>3, FS_RemoveElement
    <2>6. left[id] = 0 <=> wait \ {head} = {}
      BY <2>5, FS_EmptySet
    <2> QED
      BY <2>4, <2>5, <2>6
  <1>10. left = [id \in ids |-> Cardinality(Inside(D, id) \ (done \cup {head}))]
    <2>1. DOMAIN left = ids
      BY <1>1
    <2>2. left = [id \in ids |-> left[id]]
      BY <2>1
    <2> HIDE DEF left
    <2> QED
      BY <1>9, <2>2
  <1>11. /\ next \subseteq ids /\ next \cap (done \cup Range(s.ready)) = {}
         /\ next = {id \in ids : head \in Inside(D, id) /\ Inside(D, id) \subseteq done \cup {head}}
    <2> HIDE DEF left
    <2>1. next = {id \in ids : head \in Inside(D, id) /\ Inside(D, id) \subseteq done \cup {head}}
      BY <1>2, <1>9 DEF Children, Inside
    <2> HIDE DEF next
    <2> QED
      BY <1>1, <1>3, <2>1
  <1>12. Sorted(next) \in Seq(ids) /\ Range(Sorted(next)) = next /\ Once(Sorted(next))
    <2>1. next \in SUBSET Int /\ IsFiniteSet(next)
      <3> HIDE DEF next
      <3> QED
        BY <1>11, FS_Subset
    <2> HIDE DEF next
    <2>2. Sorted(next) \in Seq(next) /\ Range(Sorted(next)) = next /\ Once(Sorted(next))
      BY <2>1, SortedOnce
    <2> QED
      BY <1>11, <2>2
  <1>13. ready \in Seq(ids) /\ Once(ready) /\ Range(ready) = (Range(s.ready) \ {head}) \cup next
    <2> HIDE DEF next
    <2>1. Range(Tail(s.ready)) \cap Range(Sorted(next)) = {}
      BY <1>2, <1>11, <1>12
    <2> QED
      BY <1>2, <1>12, <2>1, OnceConcat
  <1> HIDE DEF ready, left, next
  <1>14. (done \cup {head}) \cap Range(ready) = {}
    BY <1>1, <1>11, <1>13, <1>2
  <1>15. (done \cup {head}) \cup Range(ready)
            = {id \in ids : Inside(D, id) \subseteq done \cup {head}}
    <2>1. ASSUME NEW id \in ids, Inside(D, id) \subseteq done \cup {head}
          PROVE  id \in done \cup {head} \cup Range(ready)
      <3>1. CASE head \in Inside(D, id)
        BY <1>11, <1>13, <2>1, <3>1
      <3>2. CASE head \notin Inside(D, id)
        BY <1>1, <1>13, <2>1, <3>2
      <3> QED
        BY <3>1, <3>2
    <2>2. ASSUME NEW id \in done \cup {head} \cup Range(ready)
          PROVE  id \in ids /\ Inside(D, id) \subseteq done \cup {head}
      BY <1>1, <1>2, <1>3, <1>11, <1>13
    <2> QED
      BY <2>1, <2>2
  <1>16. Turn(D, s) \in LoopStates(D)
    BY <1>1, TurnType
  <1> DEFINE t == Turn(D, s)
  <1>17. t.ready = ready /\ t.indeg = left /\ t.out = out /\ t \in LoopStates(D)
    BY <1>4, <1>16
  <1> HIDE DEF t
  <1>18. LoopInv(D, t)
    <2>1. t.indeg = [id \in ids |-> Cardinality(Inside(D, id) \ Range(t.out))]
      BY <1>6, <1>10, <1>17
    <2>2. Once(t.ready) /\ Once(t.out) /\ Range(t.out) \cap Range(t.ready) = {}
      BY <1>6, <1>7, <1>13, <1>14, <1>17
    <2>3. Range(t.out) \cup Range(t.ready) = {id \in ids : Inside(D, id) \subseteq Range(t.out)}
      BY <1>6, <1>15, <1>17
    <2>4. \A i \in DOMAIN t.out : \A d \in Inside(D, t.out[i]) : \E j \in 1..(i - 1) : t.out[j] = d
      BY <1>8, <1>17
    <2> QED
      BY <1>17, <2>1, <2>2, <2>3, <2>4, Zenon DEF LoopInv
  <1> QED
    BY <1>5, <1>17, <1>18 DEF t

\* The loop goes from state to state by turns, until nothing is ready.
LEMMA LoopTurns ==
    ASSUME NEW D, DOMAIN D \in SUBSET Int, IsFiniteSet(DOMAIN D)
    PROVE  /\ Cardinality(DOMAIN D) \in Nat
           /\ Loop(D)[0] = Started(D)
           /\ \A n \in 1..Cardinality(DOMAIN D) :
                  Loop(D)[n] = IF Loop(D)[n - 1].ready = <<>> THEN Loop(D)[n - 1]
                               ELSE Turn(D, Loop(D)[n - 1])
  <1> DEFINE N == Cardinality(DOMAIN D)
             turn(s) == IF s.ready = <<>> THEN s ELSE Turn(D, s)
             Recurs(f) == f = [n \in 0..N |-> IF n = 0 THEN Started(D) ELSE turn(f[n - 1])]
  <1>1. N \in Nat
    BY FS_CardinalityType
  <1> HIDE DEF N
  <1>2. PICK f : Recurs(f)
    <2> SUFFICES ASSUME NEW S, S = LoopStates(D) PROVE \E f : Recurs(f)
      OBVIOUS
    <2> DEFINE step == [n \in 1..N |-> [s \in S |-> turn(s)]]
    <2>1. Started(D) \in S
      BY StartedType
    <2>2. \A s \in S : turn(s) \in S
      BY TurnType
    <2>3. step \in [1..N -> [S -> S]]
      <3> HIDE DEF turn
      <3> QED
        BY <2>2
    <2> HIDE DEF step
    <2>4. PICK f \in [0..N -> S] : f[0] = Started(D) /\ \A n \in 1..N : f[n] = step[n][f[n - 1]]
      <3>1. Runs(S, N, Started(D), step) # {}
        BY <1>1, <2>1, <2>3, Recursion
      <3> QED
        BY <3>1 DEF Runs
    <2>5. ASSUME NEW n \in 0..N
          PROVE  f[n] = IF n = 0 THEN Started(D) ELSE turn(f[n - 1])
      <3>1. CASE n = 0
        BY <2>4, <3>1
      <3>2. CASE n # 0
        <4>1. n \in 1..N /\ f[n - 1] \in S
          BY <1>1, <2>4, <3>2
        <4>2. f[n] = step[n][f[n - 1]]
          BY <2>4, <4>1
        <4> HIDE DEF turn
        <4> QED
          BY <3>2, <4>1, <4>2 DEF step
      <3> QED
        BY <3>1, <3>2
    <2>6. f = [n \in 0..N |-> f[n]]
      BY <2>4
    <2> HIDE DEF turn
    <2>7. Recurs(f)
      BY <2>5, <2>6
    <2> QED
      BY <2>7
  <1>3. Loop(D) = CHOOSE g : Recurs(g)
    BY DEF Loop, N
  <1>4. Recurs(Loop(D))
    <2> HIDE DEF Recurs
    <2> QED
      BY <1>2, <1>3
  <1> DEFINE g == Loop(D)
  <1>5. g = [n \in 0..N |-> IF n = 0 THEN Started(D) ELSE turn(g[n - 1])]
    BY <1>4
  <1> HIDE DEF g, turn
  <1>6. g[0] = Started(D)
    BY <1>1, <1>5
  <1>7. \A n \in 1..N : g[n] = turn(g[n - 1])
    BY <1>1, <1>5
  <1> QED
    BY <1>1, <1>6, <1>7 DEF g, turn, N

\* After n turns the invariant holds and n actions are out, or nothing is ready.
LEMMA LoopSound ==
    ASSUME NEW D, DOMAIN D \in SUBSET Int, IsFiniteSet(DOMAIN D), NEW n \in 0..Cardinality(DOMAIN D)
    PROVE  LoopInv(D, Loop(D)[n]) /\ (Loop(D)[n].ready = <<>> \/ Len(Loop(D)[n].out) = n)
  <1> DEFINE N == Cardinality(DOMAIN D)
             s(i) == Loop(D)[i]
             Holds(i) == LoopInv(D, s(i)) /\ (s(i).ready = <<>> \/ Len(s(i).out) = i)
             T == {i \in Nat : i <= N => Holds(i)}
  <1>1. 0 \in T
    <2>1. s(0) = Started(D) /\ LoopInv(D, Started(D))
      BY LoopTurns, StartedType
    <2>2. Started(D).out = <<>>
      BY DEF Started
    <2> QED
      BY <2>1, <2>2
  <1>2. ASSUME NEW i \in Nat, i \in T
        PROVE  i + 1 \in T
    <2> SUFFICES ASSUME i + 1 <= N PROVE Holds(i + 1)
      OBVIOUS
    <2>1. N \in Nat /\ i + 1 \in 1..N /\ (i + 1) - 1 = i
      BY LoopTurns
    <2>2. LoopInv(D, s(i)) /\ (s(i).ready = <<>> \/ Len(s(i).out) = i)
      BY <1>2, <2>1
    <2>3. s(i + 1) = IF s(i).ready = <<>> THEN s(i) ELSE Turn(D, s(i))
      BY <2>1, LoopTurns
    <2> HIDE DEF s
    <2>4. CASE s(i).ready = <<>>
      BY <2>2, <2>3, <2>4
    <2>5. CASE s(i).ready # <<>>
      <3>1. s(i + 1) = Turn(D, s(i)) /\ Len(s(i).out) = i
        BY <2>2, <2>3, <2>5
      <3>2. LoopInv(D, Turn(D, s(i))) /\ Len(Turn(D, s(i)).out) = Len(s(i).out) + 1
        BY <2>2, <2>5, TurnInv
      <3> QED
        BY <3>1, <3>2
    <2> QED
      BY <2>4, <2>5
  <1>3. Nat \subseteq T
    <2> HIDE DEF T
    <2> QED
      BY <1>1, <1>2, Induction
  <1>4. N \in Nat
    BY LoopTurns
  <1> QED
    BY <1>3, <1>4

\* What topological_order puts out: each action at most once, after all it depends
\* on, and none is left out unless it waits for one that is.
LEMMA OrderPutOut ==
    ASSUME NEW D, DOMAIN D \in SUBSET Int, IsFiniteSet(DOMAIN D),
           NEW order, order = topological_order(D)
    PROVE  /\ order \in Seq(DOMAIN D) /\ Once(order)
           /\ \A i \in DOMAIN order : \A d \in Inside(D, order[i]) :
                  \E j \in 1..(i - 1) : order[j] = d
           /\ \A id \in DOMAIN D : Inside(D, id) \subseteq Range(order) => id \in Range(order)
  <1> DEFINE ids == DOMAIN D
             n == Cardinality(ids)
             s == Loop(D)[n]
  <1>1. n \in Nat /\ n \in 0..n
    BY FS_CardinalityType
  <1>2. LoopInv(D, s) /\ (s.ready = <<>> \/ Len(s.out) = n) /\ topological_order(D) = s.out
    BY <1>1, LoopSound DEF topological_order
  <1> HIDE DEF s
  <1>3. /\ s.ready \in Seq(ids) /\ s.out \in Seq(ids) /\ Once(s.out)
        /\ Range(s.out) \cap Range(s.ready) = {}
        /\ Range(s.out) \cup Range(s.ready) = {id \in ids : Inside(D, id) \subseteq Range(s.out)}
    BY <1>2 DEF LoopInv, LoopStates
  <1>4. s.ready = <<>>
    <2> SUFFICES ASSUME s.ready # <<>> PROVE FALSE
      OBVIOUS
    <2>1. Range(s.out) = ids
      BY <1>2, <1>3, OnceLen
    <2>2. Head(s.ready) \in ids /\ 1 \in DOMAIN s.ready /\ Head(s.ready) = s.ready[1]
      BY <1>3
    <2>3. s.ready[1] \in Range(s.ready)
      BY <2>2 DEF Range
    <2> QED
      BY <1>3, <2>1, <2>2, <2>3
  <1>5. Range(s.ready) = {}
    BY <1>4 DEF Range
  <1>6. \A id \in ids : Inside(D, id) \subseteq Range(s.out) => id \in Range(s.out)
    BY <1>3, <1>5
  <1> QED
    BY <1>2, <1>3, <1>6 DEF LoopInv

\* level puts every action above those it depends on: there is no cycle.
Levels(dependsOn) ==
    {level \in [DOMAIN dependsOn -> Nat] :
        \A id \in DOMAIN dependsOn : \A d \in Inside(dependsOn, id) : level[d] < level[id]}

\* topological_order puts the actions of a manifest without cycles into an order
\* in which they can run.
THEOREM AcyclicIsOrdered ==
    ASSUME NEW D, DOMAIN D \in SUBSET Int, IsFiniteSet(DOMAIN D), Levels(D) # {}
    PROVE  ~CycleError(D) /\ IsExecution(topological_order(D), D)
  <1> DEFINE ids == DOMAIN D
  <1> SUFFICES ASSUME NEW order, order = topological_order(D)
               PROVE  ~CycleError(D) /\ IsExecution(topological_order(D), D)
    OBVIOUS
  <1>1. /\ order \in Seq(ids) /\ Once(order)
        /\ \A i \in DOMAIN order : \A d \in Inside(D, order[i]) :
               \E j \in 1..(i - 1) : order[j] = d
        /\ \A id \in ids : Inside(D, id) \subseteq Range(order) => id \in Range(order)
    BY OrderPutOut
  <1>2. PICK level \in [ids -> Nat] :
            \A id \in ids : \A d \in Inside(D, id) : level[d] < level[id]
    BY DEF Levels
  <1>3. Range(order) \subseteq ids
    BY <1>1 DEF Range
  <1>4. ids \subseteq Range(order)
    <2> DEFINE left == {n \in Nat : \E id \in ids \ Range(order) : level[id] = n}
    <2> SUFFICES ASSUME left # {} PROVE FALSE
      BY <1>2
    <2>1. PICK n \in left : \A m \in left : n <= m
      BY Least
    <2>2. PICK id \in ids \ Range(order) : level[id] = n
      BY <2>1
    <2>3. PICK d \in Inside(D, id) : d \notin Range(order)
      BY <1>1, <2>2
    <2>4. d \in ids /\ level[d] < level[id] /\ level[d] \in Nat /\ level[id] \in Nat
      BY <1>2, <2>2, <2>3 DEF Inside
    <2>5. level[d] \in left
      BY <2>3, <2>4
    <2> QED
      BY <2>1, <2>2, <2>4, <2>5
  <1>5. Range(order) = ids /\ Len(order) = Cardinality(ids)
    BY <1>1, <1>3, <1>4, OnceLen
  <1> QED
    BY <1>1, <1>5 DEF CycleError, IsExecution

\* CycleError is raised for cycles only, and for each.
THEOREM CycleErrorExact ==
    ASSUME NEW D, DOMAIN D \in SUBSET Int, IsFiniteSet(DOMAIN D)
    PROVE  CycleError(D) <=> Levels(D) = {}
  <1> DEFINE ids == DOMAIN D
  <1> SUFFICES ASSUME ~CycleError(D) PROVE Levels(D) # {}
    BY AcyclicIsOrdered
  <1> SUFFICES ASSUME NEW order, order = topological_order(D) PROVE Levels(D) # {}
    OBVIOUS
  <1>1. /\ order \in Seq(ids) /\ Once(order) /\ DOMAIN order \subseteq Nat
        /\ \A i \in DOMAIN order : \A d \in Inside(D, order[i]) :
               \E j \in 1..(i - 1) : order[j] = d
    BY OrderPutOut
  <1>2. Range(order) = ids
    BY <1>1, OnceLen DEF CycleError
  <1> DEFINE level == [id \in ids |-> CHOOSE i \in DOMAIN order : order[i] = id]
  <1>3. \A id \in ids : level[id] \in DOMAIN order /\ order[level[id]] = id
    BY <1>2 DEF Range
  <1>4. level \in [ids -> Nat]
    BY <1>1, <1>3
  <1>5. ASSUME NEW id \in ids, NEW d \in Inside(D, id)
        PROVE  level[d] < level[id]
    <2>1. d \in ids
      BY <1>5 DEF Inside
    <2> HIDE DEF level
    <2>2. level[id] \in 1..Len(order) /\ level[d] \in 1..Len(order) /\ DOMAIN order = 1..Len(order)
          /\ Len(order) \in Nat
      BY <1>1, <1>3, <2>1
    <2>3. PICK j \in 1..(level[id] - 1) : order[j] = d
      <3>1. level[id] \in DOMAIN order /\ d \in Inside(D, order[level[id]])
        BY <1>3, <1>5
      <3> QED
        BY <1>1, <3>1
    <2>4. j \in DOMAIN order /\ j < level[id]
      BY <2>2, <2>3
    <2>5. j = level[d]
      BY <1>1, <1>3, <2>1, <2>3, <2>4 DEF Once
    <2> QED
      BY <2>4, <2>5
  <1>6. level \in Levels(D)
    <2> HIDE DEF level
    <2> QED
      BY <1>4, <1>5 DEF Levels
  <1> QED
    BY <1>6

\* In a manifest without cycles some action has no child: the last in the order.
LEMMA LastHasNoChildren ==
    ASSUME NEW D, DOMAIN D \in SUBSET Int, IsFiniteSet(DOMAIN D), DOMAIN D # {}, Levels(D) # {}
    PROVE  \E id \in DOMAIN D : Children(D, id) = {}
  <1> DEFINE ids == DOMAIN D
  <1> SUFFICES ASSUME NEW order, order = topological_order(D)
               PROVE  \E id \in ids : Children(D, id) = {}
    OBVIOUS
  <1>1. /\ order \in Seq(ids) /\ Once(order)
        /\ \A i \in DOMAIN order : \A d \in Inside(D, order[i]) :
               \E j \in 1..(i - 1) : order[j] = d
    BY OrderPutOut
  <1>2. Range(order) = ids
    BY AcyclicIsOrdered DEF IsExecution
  <1>3. Len(order) \in Nat /\ DOMAIN order = 1..Len(order) /\ Len(order) # 0
    BY <1>1, <1>2 DEF Range
  <1> DEFINE last == order[Len(order)]
  <1>4. last \in ids
    BY <1>1, <1>3
  <1>5. ASSUME NEW c \in Children(D, last)
        PROVE  FALSE
    <2>1. c \in ids /\ last \in Inside(D, c)
      BY <1>4 DEF Children, Inside
    <2>2. PICK i \in DOMAIN order : order[i] = c
      BY <1>2, <2>1 DEF Range
    <2>3. PICK j \in 1..(i - 1) : order[j] = last
      BY <1>1, <2>1, <2>2
    <2>4. j \in DOMAIN order /\ Len(order) \in DOMAIN order /\ j # Len(order)
      <3>1. i \in 1..Len(order) /\ Len(order) \in Nat /\ Len(order) # 0
        BY <1>3
      <3>2. j \in 1..Len(order) /\ Len(order) \in 1..Len(order) /\ j # Len(order)
        BY <3>1
      <3> QED
        BY <1>3, <3>2
    <2> QED
      BY <1>1, <2>3, <2>4 DEF Once
  <1> QED
    BY <1>4, <1>5

\* The graph of a manifest without cycles whose depends_on stays within it leads
\* from START to every action and to END.
LEMMA GraphLeadsToAll ==
    ASSUME NEW D, DOMAIN D \in SUBSET (Nat \ {0}), IsFiniteSet(DOMAIN D), DOMAIN D # {},
           \A id \in DOMAIN D : D[id] \subseteq DOMAIN D, Levels(D) # {}
    PROVE  LeadsToAll(build_graph(D), START, DOMAIN D \cup {START, END})
  <1> DEFINE ids == DOMAIN D
             nodes == ids \cup {START, END}
  <1>1. ids \in SUBSET Int
    OBVIOUS
  <1> SUFFICES ASSUME NEW set \in SUBSET nodes, START \notin set, set # {}
               PROVE  \E e \in build_graph(D) : e[1] \notin set /\ e[2] \in set
    BY DEF LeadsToAll
  <1>2. CASE set \cap ids # {}
    <2>1. PICK level \in [ids -> Nat] :
              \A id \in ids : \A d \in Inside(D, id) : level[d] < level[id]
      BY DEF Levels
    <2> DEFINE inside == {n \in Nat : \E id \in set \cap ids : level[id] = n}
    <2>2. PICK n \in inside : \A m \in inside : n <= m
      <3>1. inside # {}
        BY <1>2, <2>1
      <3> HIDE DEF inside
      <3> QED
        BY <3>1, Least DEF inside
    <2>3. PICK id \in set \cap ids : level[id] = n
      BY <2>2
    <2>4. CASE D[id] = {}
      <3>1. <<START, id>> \in build_graph(D)
        BY <2>4 DEF build_graph
      <3> QED
        BY <3>1
    <2>5. CASE D[id] # {}
      <3>1. PICK d \in ids : d \in D[id]
        BY <2>5
      <3>2. d \in Inside(D, id) /\ level[d] \in Nat /\ level[id] \in Nat
        BY <2>1, <3>1 DEF Inside
      <3>3. level[d] < level[id]
        BY <2>1, <3>2
      <3>4. d \notin set
        BY <2>2, <2>3, <3>2, <3>3
      <3>5. <<d, id>> \in Edges(D)
        BY <3>1 DEF Edges
      <3>6. <<d, id>> \in build_graph(D)
        BY <3>5 DEF build_graph
      <3> QED
        BY <3>4, <3>6
    <2> QED
      BY <2>4, <2>5
  <1>3. CASE set \cap ids = {}
    <2>1. END \in set
      BY <1>3
    <2>2. PICK id \in ids : Children(D, id) = {}
      BY <1>1, LastHasNoChildren
    <2>3. <<id, END>> \in build_graph(D)
      BY <2>2 DEF build_graph
    <2> QED
      BY <1>3, <2>1, <2>2, <2>3
  <1> QED
    BY <1>2, <1>3
-----------------------------------------------------------------------------
(* The manifests that acp-server issues *)

\* The dependencies of an issued manifest, by action id, stay within it and have
\* no cycle if the tools have levels.
LEMMA IssuedDependencies ==
    ASSUME NEW level, LevelsOf(level), IssuedMinted, NEW m \in Issued,
           NEW D, D = DependsOnIds(m)
    PROVE  /\ DOMAIN D \in SUBSET (Nat \ {0}) /\ IsFiniteSet(DOMAIN D) /\ DOMAIN D # {}
           /\ \A id \in DOMAIN D : D[id] \subseteq DOMAIN D
           /\ Levels(D) # {}
  <1> DEFINE tools == Lookup(Resolved(m))
             number == [t \in tools |-> ActionId(tools, t)]
             toolOf(id) == CHOOSE t \in tools : ActionId(tools, t) = id
             ids == {ActionId(tools, t) : t \in tools}
  <1>1. built[m] = Build(Resolved(m)) /\ built[m].tools # {}
    BY DEF IssuedMinted, Minted
  <1>2. /\ built[m].tools = tools /\ tools # {} /\ tools \in SUBSET Tools
        /\ built[m].dependsOn = [t \in tools |-> DependsOn(tools, t)]
    BY <1>1 DEF Build, Lookup
  <1> HIDE DEF tools
  <1>3. D = [id \in ids |-> {ActionId(tools, u) : u \in built[m].dependsOn[toolOf(id)]}]
    BY <1>2 DEF DependsOnIds
  <1>4. \A t \in tools : toolOf(ActionId(tools, t)) = t
    BY <1>2, ActionIdsDistinct
  <1>5. \A id \in ids : toolOf(id) \in tools /\ ActionId(tools, toolOf(id)) = id
    OBVIOUS
  <1> HIDE DEF toolOf
  <1>6. \A id \in ids : D[id] = {ActionId(tools, u) : u \in DependsOn(tools, toolOf(id))}
    BY <1>2, <1>3, <1>5
  <1>7. DOMAIN D = ids
    BY <1>3
  <1>8. ids \in SUBSET (Nat \ {0}) /\ ids # {}
    BY <1>2, ActionIdType
  <1>9. IsFiniteSet(ids)
    <2>1. number \in Surjection(tools, ids)
      BY DEF Surjection
    <2>2. IsFiniteSet(tools)
      BY <1>2, RegistryAssumption, FS_Subset
    <2> HIDE DEF number, ids
    <2> QED
      BY <2>1, <2>2, FS_Surjection
  <1>10. \A id \in ids : D[id] \subseteq ids
    <2>1. \A t \in tools : DependsOn(tools, t) \subseteq tools
      BY DEF DependsOn
    <2> QED
      BY <1>5, <1>6, <2>1
  <1> DEFINE height == [id \in ids |-> level[toolOf(id)]]
  <1>11. height \in [ids -> Nat]
    <2>1. \A id \in ids : toolOf(id) \in Tools
      BY <1>2, <1>5
    <2> HIDE DEF ids
    <2> QED
      BY <2>1 DEF LevelsOf
  <1>12. ASSUME NEW id \in ids, NEW d \in Inside(D, id)
         PROVE  height[d] < height[id]
    <2>1. d \in D[id]
      BY DEF Inside
    <2>2. PICK u \in DependsOn(tools, toolOf(id)) : d = ActionId(tools, u)
      BY <1>6, <2>1
    <2>3. /\ u \in tools /\ u # toolOf(id)
          /\ DependsOnCaps[toolOf(id)] \cap Range(CapsOf[u]) # {}
      BY <2>2 DEF DependsOn
    <2>4. toolOf(d) = u /\ d \in ids
      BY <1>4, <2>2, <2>3
    <2>5. u \in Tools /\ toolOf(id) \in Tools
      BY <1>2, <1>5, <2>3
    <2>6. level[u] < level[toolOf(id)]
      BY <2>3, <2>5 DEF LevelsOf
    <2>7. height[d] = level[u] /\ height[id] = level[toolOf(id)]
      BY <2>4
    <2> QED
      BY <2>6, <2>7
  <1>13. height \in Levels(D)
    <2> HIDE DEF height, ids
    <2> QED
      BY <1>7, <1>11, <1>12 DEF Levels
  <1> QED
    BY <1>7, <1>8, <1>9, <1>10, <1>13

\* For every registry whose tools have levels: a client of the Python adapters
\* orders every issued manifest, each action once and after all it depends on.
THEOREM IssuedManifestsRun ==
    ASSUME NEW level, LevelsOf(level)
    PROVE  Spec => []IssuedCanBeOrdered
  <1>1. IssuedMinted => IssuedCanBeOrdered
    <2> SUFFICES ASSUME IssuedMinted, NEW m \in Issued, NEW D, D = DependsOnIds(m)
                 PROVE  IsExecution(topological_order(D), D)
      BY DEF IssuedCanBeOrdered
    <2>1. DOMAIN D \in SUBSET (Nat \ {0}) /\ IsFiniteSet(DOMAIN D) /\ Levels(D) # {}
      BY IssuedDependencies
    <2>2. DOMAIN D \in SUBSET Int
      BY <2>1
    <2> QED
      BY <2>1, <2>2, AcyclicIsOrdered
  <1> QED
    BY <1>1, IssuedInvariance, PTL

\* For every registry whose tools have levels: LangGraph gets a graph that leads
\* from START to every action of an issued manifest and to END.
THEOREM IssuedGraphsConnected ==
    ASSUME NEW level, LevelsOf(level)
    PROVE  Spec => []GraphReachesAll
  <1>1. IssuedMinted => GraphReachesAll
    <2> SUFFICES ASSUME IssuedMinted, NEW m \in Issued, NEW D, D = DependsOnIds(m)
                 PROVE  LeadsToAll(build_graph(D), START, DOMAIN D \cup {START, END})
      BY DEF GraphReachesAll
    <2>1. /\ DOMAIN D \in SUBSET (Nat \ {0}) /\ IsFiniteSet(DOMAIN D) /\ DOMAIN D # {}
          /\ \A id \in DOMAIN D : D[id] \subseteq DOMAIN D
          /\ Levels(D) # {}
      BY IssuedDependencies
    <2> QED
      BY <2>1, GraphLeadsToAll
  <1> QED
    BY <1>1, IssuedInvariance, PTL
=============================================================================
