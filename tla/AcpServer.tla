------------------------------ MODULE AcpServer ------------------------------
(***************************************************************************)
(* acp-server: net/http runs one goroutine per request through requireAuth *)
(* and then handleContext, handleFeedback or the exec proxy.  handleContext*)
(* puts the manifest it built into MemoryStore, from which the proxy gets  *)
(* it.  MemoryStore is a plain map without a lock, so an access during     *)
(* another one's write is a data race: the runtime may detect it and end   *)
(* the process, or else a read may miss and a write may lose entries.      *)
(*                                                                         *)
(* A member of Reqs is one HTTP request.  A manifest is named by the       *)
(* request that minted it (NewID draws a fresh id).                        *)
(***************************************************************************)
EXTENDS Builder, IntentResolver

CONSTANTS Reqs,          \* the HTTP requests
          Queries,       \* what is asked: an intent and the hints given with it
          AuthRequired,  \* -auth-token is set
          AutoApprove    \* -auto-approve: AlwaysApprove instead of AlwaysDeny

ASSUME ServerAssumption ==
    /\ Queries \subseteq [intent : Intents, hints : SUBSET Caps]
    /\ AuthRequired \in BOOLEAN /\ AutoApprove \in BOOLEAN

\* main always calls Seed, which registers a tool for every capability that
\* DefaultExamples has an example of; the two tables are kept apart.
ASSUME SeedAssumption ==
    \A intent \in Intents : DOMAIN Similarity[intent] \subseteq allCapabilities

VARIABLES
    pc,         \* where each request is
    req,        \* what was asked
    status,     \* the HTTP status sent, 0 before
    built,      \* the manifest a context request built
    stored,     \* MemoryStore: the manifests that can be found
    touching,   \* the store access a request is in the middle of
    dirty,      \* the access overlapped with another request's write
    count,      \* LoggingFeedbackSink.count
    phase       \* of the process: "serving", "draining", "stopped"

vars == <<pc, req, status, built, stored, touching, dirty, count, phase>>
storeVars == <<stored, touching, dirty>>

\* Action ids that a path may name, one of which no manifest has.
Actions == 1..(Cardinality(Tools) + 1)
NoManifest == [tools |-> {}, dependsOn |-> <<>>, egress |-> {}, requireApproval |-> {}]

\* A request: its token, and the body or path the handlers look at.
Context(ok, query) == [kind |-> "context", tokenOK |-> ok, query |-> query]
Exec(ok, m, a) == [kind |-> "exec", tokenOK |-> ok, manifest |-> m, action |-> a]
Feedback(ok) == [kind |-> "feedback", tokenOK |-> ok]
Invalid(ok) == [kind |-> "invalid", tokenOK |-> ok]

\* The capabilities that a context request is resolved to.
Resolved(r) == Resolve(req[r].query.intent, req[r].query.hints)

Active == {r \in Reqs : pc[r] \notin {"idle", "done", "cut"}}

\* The manifests that clients were given.
Issued == {m \in Reqs : req[m].kind = "context" /\ status[m] = 200}
-----------------------------------------------------------------------------
Init ==
    /\ pc = [r \in Reqs |-> "idle"]
    /\ req = [r \in Reqs |-> Invalid(FALSE)]
    /\ status = [r \in Reqs |-> 0]
    /\ built = [r \in Reqs |-> NoManifest]
    /\ stored = {}
    /\ touching = [r \in Reqs |-> "no"]
    /\ dirty = [r \in Reqs |-> FALSE]
    /\ count = 0
    /\ phase = "serving"

Arrive(r, q) ==
    /\ phase = "serving" /\ pc[r] = "idle"
    /\ pc' = [pc EXCEPT ![r] = "auth"]
    /\ req' = [req EXCEPT ![r] = q]
    /\ UNCHANGED <<status, built, storeVars, count, phase>>

Respond(r, s) ==
    /\ pc' = [pc EXCEPT ![r] = "done"]
    /\ status' = [status EXCEPT ![r] = s]

GoTo(r, where) == pc' = [pc EXCEPT ![r] = where] /\ UNCHANGED status

Authenticated(r) == ~AuthRequired \/ req[r].tokenOK

\* requireAuth, then the handler of the route.
RequireAuth(r) ==
    /\ pc[r] = "auth"
    /\ IF Authenticated(r) THEN GoTo(r, req[r].kind) ELSE Respond(r, 401)
    /\ UNCHANGED <<req, built, storeVars, count, phase>>

\* Wrong method, malformed JSON, missing fields, a path that is no exec path.
RejectInvalid(r) ==
    /\ pc[r] = "invalid"
    /\ Respond(r, 400)
    /\ UNCHANGED <<req, built, storeVars, count, phase>>

HandleFeedback(r) ==
    /\ pc[r] = "feedback"
    /\ count' = count + 1
    /\ Respond(r, 202)
    /\ UNCHANGED <<req, built, storeVars, phase>>

\* handleContext up to the manifest: resolve, build.
HandleContext(r) ==
    /\ pc[r] = "context"
    /\ IF Resolved(r) = {} \/ NoMatch(Resolved(r))
       THEN Respond(r, 422) /\ UNCHANGED built
       ELSE GoTo(r, "put") /\ built' = [built EXCEPT ![r] = Build(Resolved(r))]
    /\ UNCHANGED <<req, storeVars, count, phase>>

\* An access of kind k begins.  It overlaps with the writes under way; if it
\* is a write, every access under way overlaps with it.
BeginAccess(r, k) ==
    /\ touching' = [touching EXCEPT ![r] = k]
    /\ dirty' = [q \in Reqs |->
                    \/ dirty[q]
                    \/ q = r /\ \E p \in Reqs : touching[p] = "write"
                    \/ q # r /\ touching[q] # "no" /\ k = "write"]
    /\ UNCHANGED stored

BeginPut(r) ==
    /\ pc[r] = "put" /\ touching[r] = "no"
    /\ BeginAccess(r, "write")
    /\ UNCHANGED <<pc, req, status, built, count, phase>>

EndPutAfterResponse(r) ==
    /\ pc[r] = "put" /\ touching[r] = "write"
    /\ touching' = [touching EXCEPT ![r] = "no"]
    /\ UNCHANGED <<stored, dirty>>
    /\ GoTo(r, "reply")
    /\ UNCHANGED <<req, built, count, phase>>

\* s.manifests[id] = mf; when two writes overlap entries may be lost.
EndPut(r) ==
    /\ pc[r] = "put" /\ touching[r] = "write"
    /\ touching' = [touching EXCEPT ![r] = "no"]
    /\ stored' \in IF dirty[r] THEN SUBSET (stored \cup {r}) ELSE {stored \cup {r}}
    /\ GoTo(r, "reply")
    /\ UNCHANGED <<dirty, req, built, count, phase>>

ReplyContext(r) ==
    /\ pc[r] = "reply"
    /\ Respond(r, 200)
    /\ UNCHANGED <<req, built, storeVars, count, phase>>

BeginGet(r) ==
    /\ pc[r] = "exec" /\ touching[r] = "no"
    /\ BeginAccess(r, "read")
    /\ UNCHANGED <<pc, req, status, built, count, phase>>

\* s.manifests[id]; while a write overlaps the entry may be missed.
EndGet(r) ==
    /\ pc[r] = "exec" /\ touching[r] = "read"
    /\ touching' = [touching EXCEPT ![r] = "no"]
    /\ \/ req[r].manifest \in stored /\ GoTo(r, "check")
       \/ (req[r].manifest \notin stored \/ dirty[r]) /\ Respond(r, 404)
    /\ UNCHANGED <<stored, dirty, req, built, count, phase>>

\* The process ends with "concurrent map read and map write" or "concurrent
\* map writes"; open requests get no response.
MapFatal(r) ==
    /\ r \in Active /\ touching[r] # "no" /\ dirty[r]
    /\ phase' = "stopped"
    /\ pc' = [q \in Reqs |-> IF q \in Active THEN "cut" ELSE pc[q]]
    /\ UNCHANGED <<req, status, built, storeVars, count>>

ManifestOf(r) == built[req[r].manifest]

\* findAction
Found(r) == {t \in ManifestOf(r).tools : ActionId(ManifestOf(r).tools, t) = req[r].action}
ActionKnown(r) == Found(r) # {}
ToolOf(r) == CHOOSE t \in Found(r) : TRUE

PermittedUngated(r) == TRUE

\* requiresApproval and the approval gate.
Permitted(r) == req[r].action \notin ManifestOf(r).requireApproval \/ AutoApprove

\* egressAllowed: against the union of the egress lists of the manifest.
HostAllowed(r) == EndpointHost[ToolOf(r)] \in ManifestOf(r).egress

\* The checks of the proxy in their order: action, approval, endpoint, egress,
\* credentials (the injector may fail).
CheckExec(r) ==
    /\ pc[r] = "check"
    /\ \/ ~ActionKnown(r) /\ Respond(r, 404)
       \/ ActionKnown(r) /\ ~Permitted(r) /\ Respond(r, 403)
       \/ ActionKnown(r) /\ Permitted(r) /\ EndpointHost[ToolOf(r)] = NoHost /\ Respond(r, 502)
       \/ /\ ActionKnown(r) /\ Permitted(r) /\ EndpointHost[ToolOf(r)] # NoHost
          /\ ~HostAllowed(r)
          /\ Respond(r, 403)
       \/ /\ ActionKnown(r) /\ Permitted(r) /\ EndpointHost[ToolOf(r)] # NoHost
          /\ HostAllowed(r)
          /\ Respond(r, 502) \/ GoTo(r, "forward")
    /\ UNCHANGED <<req, built, storeVars, count, phase>>

\* The upstream answers or the reverse proxy reports an error.
UpstreamReturns(r) ==
    /\ pc[r] = "forward"
    /\ Respond(r, 200) \/ Respond(r, 502)
    /\ UNCHANGED <<req, built, storeVars, count, phase>>
-----------------------------------------------------------------------------
(* ListenAndServe *)

\* SIGINT or SIGTERM: srv.Shutdown stops accepting and waits for open requests.
Signal ==
    /\ phase = "serving"
    /\ phase' = "draining"
    /\ UNCHANGED <<pc, req, status, built, storeVars, count>>

\* Shutdown returns: every request finished, or five seconds have passed and
\* main exits under the ones still open.
ShutdownReturns ==
    /\ phase = "draining"
    /\ phase' = "stopped"
    /\ pc' = [r \in Reqs |-> IF r \in Active THEN "cut" ELSE pc[r]]
    /\ UNCHANGED <<req, status, built, storeVars, count>>

\* Listening failed: the error is returned at once.
ListenFails ==
    /\ phase = "serving" /\ \A r \in Reqs : pc[r] = "idle"
    /\ phase' = "stopped"
    /\ UNCHANGED <<pc, req, status, built, storeVars, count>>
-----------------------------------------------------------------------------
\* A client names a manifest it was given, or one that does not exist (the
\* request's own name, under which nothing is ever minted).
ArriveExec(r) ==
    \E ok \in BOOLEAN, m \in Issued \cup {r}, a \in Actions : Arrive(r, Exec(ok, m, a))

ArriveOther(r) ==
    \E ok \in BOOLEAN :
        \/ \E query \in Queries : Arrive(r, Context(ok, query))
        \/ Arrive(r, Feedback(ok))
        \/ Arrive(r, Invalid(ok))

RequestStep(r) ==
    \/ ArriveExec(r)
    \/ ArriveOther(r)
    \/ RequireAuth(r)
    \/ RejectInvalid(r)
    \/ HandleFeedback(r)
    \/ HandleContext(r)
    \/ BeginPut(r)
    \/ EndPut(r)
    \/ ReplyContext(r)
    \/ BeginGet(r)
    \/ EndGet(r)
    \/ CheckExec(r)
    \/ UpstreamReturns(r)
    \/ MapFatal(r)

Stopped == phase = "stopped" /\ UNCHANGED vars

Next ==
    \/ \E r \in Reqs : RequestStep(r)
    \/ Signal
    \/ ShutdownReturns
    \/ ListenFails
    \/ Stopped

Spec == Init /\ [][Next]_vars
-----------------------------------------------------------------------------
(* Properties *)

Requests ==
    [kind : {"context"}, tokenOK : BOOLEAN, query : [intent : Intents, hints : SUBSET Caps]]
      \cup [kind : {"exec"}, tokenOK : BOOLEAN, manifest : Reqs, action : Actions]
      \cup [kind : {"feedback", "invalid"}, tokenOK : BOOLEAN]

IsManifest(m) ==
    /\ m.tools \subseteq Tools
    /\ DOMAIN m.dependsOn = m.tools
    /\ \A t \in m.tools : m.dependsOn[t] \subseteq m.tools \ {t}
    /\ m.egress \subseteq Hosts
    /\ m.requireApproval \subseteq Nat \ {0}

Places == {"idle", "auth", "invalid", "feedback", "context", "put", "reply",
           "exec", "check", "forward", "done", "cut"}
Codes == {0, 200, 202, 400, 401, 403, 404, 422, 502}

\* Every variable has its type; the dependencies of a manifest stay within it.
TypeOK ==
    /\ pc \in [Reqs -> Places]
    /\ req \in [Reqs -> Requests]
    /\ status \in [Reqs -> Codes]
    /\ DOMAIN built = Reqs /\ \A r \in Reqs : IsManifest(built[r])
    /\ stored \subseteq Reqs
    /\ touching \in [Reqs -> {"no", "read", "write"}]
    /\ dirty \in [Reqs -> BOOLEAN]
    /\ count \in Nat
    /\ phase \in {"serving", "draining", "stopped"}

\* What the proxy sends upstream was sanctioned end to end: the caller passed
\* requireAuth, the tool is one the registry has for the capabilities that the
\* manifest was resolved to, a tool that needs approval was approved by the
\* gate, and some tool of that manifest lists the host.  It holds across
\* data races of the store and although action ids are positions that mean
\* different tools in different manifests.
ForwardSanctioned ==
    \A r \in Reqs : pc[r] = "forward" =>
        LET caps == Resolved(req[r].manifest)
            tool == ToolOf(r)
        IN  /\ AuthRequired => req[r].tokenOK
            /\ tool \in Lookup(caps)
            /\ RequireApprov[tool] => AutoApprove
            /\ \E t \in Lookup(caps) : EndpointHost[tool] \in Egress[t]

\* The approval list of a manifest has action ids, which are positions, and yet
\* the gate asks about exactly the tools that need approval: it is asked for
\* the action of such a tool and for no other, in every manifest in which the
\* tool may stand at another position.
GateExact ==
    \A r \in Reqs : pc[r] = "check" =>
        \A t \in Found(r) : Permitted(r) <=> (RequireApprov[t] => AutoApprove)

\* Put happens before the manifest is sent, so a client that presents an
\* issued manifest is never told "manifest not found" unless accesses to the
\* unsynchronised map have raced.
FoundUnlessRaced ==
    [][\A r \in Reqs :
        pc[r] = "exec" /\ pc'[r] = "done" /\ req[r].manifest \in Issued
            => \E q \in Reqs : dirty[q]]_vars

\* Config.Persister is there to "store every emitted manifest (e.g. for the
\* proxy)": an issued manifest can be found in the store.
IssuedIsStored == Issued \subseteq stored

\* "Capability hints provided by the agent are always honored", and add to
\* what the intent asks for: the manifest has every tool that a hint names and,
\* if an example phrase is near the intent, every tool the intent alone would
\* have got.
HintsOnlyAdd ==
    \A m \in Issued :
        LET query == req[m].query
        IN  /\ Lookup(query.hints) \subseteq built[m].tools
            /\ Near(query.intent) # {} =>
                   Lookup(Resolve(query.intent, {})) \subseteq built[m].tools

\* A request without hints is refused only if no way of resolving its intent
\* that the resolver has finds a tool; one with hints, only if no tool has one
\* of them.
RefusedForNothing ==
    \A r \in Reqs : status[r] = 422 =>
        LET query == req[r].query
        IN  /\ NoMatch(query.hints)
            /\ query.hints = {} =>
                   /\ NoMatch(keywordResolve(query.intent, {}))
                   /\ ResolverKind = "embedding" => NoMatch(Near(query.intent))
-----------------------------------------------------------------------------
(* The inductive invariant behind ForwardSanctioned *)

ContextPlaces == {"context", "put", "reply"}
ExecPlaces == {"exec", "check", "forward"}

\* Handlers only run behind requireAuth, each on requests of its own kind.
Routed ==
    \A r \in Reqs :
        /\ pc[r] \in ContextPlaces \cup ExecPlaces => Authenticated(r)
        /\ pc[r] \in ContextPlaces => req[r].kind = "context"
        /\ pc[r] \in ExecPlaces => req[r].kind = "exec"

\* Request m has built the manifest for what it asked, for good.
Minted(m) ==
    /\ pc[m] \notin {"idle", "auth", "context"}
    /\ req[m].kind = "context"
    /\ built[m] = Build(Resolved(m))

\* What is stored, or was found in the store, was minted.  Entries may be lost
\* between the lookup and the checks, so the second part does not follow from
\* the first.
OnlyMinted ==
    /\ \A m \in stored : Minted(m)
    /\ \A r \in Reqs : pc[r] = "put" => Minted(r)
    /\ \A r \in Reqs : pc[r] \in {"check", "forward"} => Minted(req[r].manifest)

\* A forwarded request has passed the checks of the proxy.
Cleared ==
    \A r \in Reqs : pc[r] = "forward" => ActionKnown(r) /\ Permitted(r) /\ HostAllowed(r)

Inv == TypeOK /\ Routed /\ OnlyMinted /\ Cleared

\* A request without an answer has no status, and what is issued, or about to
\* be, was minted and has an action.
IssuedMinted ==
    /\ \A r \in Reqs : pc[r] # "done" => status[r] = 0
    /\ \A r \in Reqs : pc[r] = "reply" => Minted(r)
    /\ \A r \in Reqs : pc[r] \in {"put", "reply"} => built[r].tools # {}
    /\ \A m \in Issued : Minted(m) /\ built[m].tools # {}

\* A request that was refused has got its answer and was resolved to
\* capabilities that no tool has.
RefusedUnmatched ==
    \A r \in Reqs : status[r] = 422 =>
        pc[r] = "done" /\ req[r].kind = "context" /\ NoMatch(Resolved(r))

\* Without a race what is issued, or about to be, can be found.
StoredUnlessRaced ==
    (\A q \in Reqs : ~dirty[q]) => \A m \in Reqs : pc[m] = "reply" \/ m \in Issued => m \in stored
-----------------------------------------------------------------------------
(* Cycles *)

\* The level of a tool is above those of the other tools whose capabilities it
\* depends on.
LevelsOf(level) ==
    /\ level \in [Tools -> Nat]
    /\ \A t, u \in Tools :
           t # u /\ DependsOnCaps[t] \cap Range(CapsOf[u]) # {} => level[u] < level[t]

\* In no issued manifest does depends_on lead back to where it started: every
\* edge of it leads within the manifest and to a lower level.
Descends(level) ==
    \A m \in Issued : \A t \in built[m].tools : \A u \in built[m].dependsOn[t] :
        u \in built[m].tools /\ level[u] < level[t]
=============================================================================
