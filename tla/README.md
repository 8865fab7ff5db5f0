# ACP in TLA+

A TLA+ development of the Agent Context Protocol implementation in this
repository: models of `acp-bridge` (the MCP bridge an IDE starts), `acp-server`
(the HTTP server with its execution proxy, and the Python clients that run what
it issues) and `anf-mcp` (the MCP server of the Agent Native Format), TLC
configurations that check them on small instances, and TLAPS proofs of the
results that hold for every instance.

## 1. The system

Two programs share most of the packages under `src/internal/`; a third, `anf-mcp`,
uses those under `src/pkg/` and `src/translators/`.

**acp-bridge** sits between an MCP host (an IDE) and several downstream MCP
servers. It imports the tools of its configured sources, lists all of them at
first, and narrows the list to what the session turns out to need. Calls are
forwarded to the server that offered the tool.

**acp-server** turns a request for a context (an intent or capabilities) into an
Execution Manifest: actions, their dependencies, the hosts they may reach and
the ones that need approval. Its proxy later executes single actions of a
manifest with injected credentials.

**anf-mcp** is an MCP server with two tools. `anf_encode` turns any JSON value
into indented lines; `anf_encode_kubernetes` turns a view of a namespace into
entities with a health marker, alerts and the actions an agent may take.

| Component | State | Operations | Interacts with | What is hard | What makes it correct |
|---|---|---|---|---|---|
| stdio client (`mcpclient/stdio.go`) | mutex, next id, one reader goroutine and channel per readLine, the child and its pipes | Initialize, ListTools, CallTool, Close | child process; many callers | a reader outlives the call that timed out and shares a `bufio.Reader` with the next; late answers; child death; full pipes | a call gets its own answer or an error, always returns, loses no answer |
| Manager (same file) | name to client | Register, Count, Call, Close | startup, bridge | names that collide | calls go to the server that offered the tool |
| deferred resolver (`resolver/deferred.go`) | window of observed tags | Observe, Reset, Resolve | bridge | window copied under a lock, decided after it; window at its limit | an answer is right at one moment of the call, never empty |
| registry (`registry/`) | tools by id | Register, Lookup, All | importers, bridge, builder | replacement of an id | |
| bridge loop (`bridge/bridge.go`) | tool map, size of the last list | one handler per JSON-RPC method | host (pipelined), resolver, forwarder | the host acts on an old list; notifications between responses; observation, notification, forward in one handler | one response per request; the tool in use is listed; the host learns of changes |
| bridge startup (`cmd/acp-bridge/main.go`) | sources, children, manager, registry | import loop, serve, end | all of the above | any step of any import fails; children die; signals | every child is reaped, every listed stdio tool has its own client, the bridge comes to serve |
| builder (`builder/builder.go`) | none | Build | registry, server | dependencies from tags; positional action ids | acyclic, within the manifest |
| server (`server/server.go`) | feedback count, phase | context, feedback, exec, shutdown | builder, store | concurrent handlers, shutdown under them | authenticated; a manifest is stored before it is sent |
| proxy and MemoryStore (`proxy/proxy.go`) | plain map of manifests | Put, Get, execute | server, upstream | unsynchronised map; the same action id means another tool in another manifest | only sanctioned actions are forwarded |
| keyword and embedding resolvers (`resolver/`) | tables | Resolve | server | two ways of resolving, and a fallback between them that depends on the hints | hints are honored, and cost nothing where an example decides; a request is refused only if nothing fits |
| MCP source (`sources/mcp`), schema expansion (`bridge.go`, `acp_common`) | none | compact, expand | registry, host, MCP server | a schema becomes text and is read back by two programs | a call that fits what is offered is accepted; nothing acceptable is forbidden |
| ANF server (`pkg/anfmcp`, `cmd/anf-mcp`, `pkg/anftools`) | tool and resource tables, the scanner, the encoder with its remembered error | JSON-RPC loop | client (pipelined), signals | a failing writer, a client that stops reading, cancellation while blocked, a line above the limit | answers in order without a gap; it stops |
| ANF encoder and translators (`pkg/anf`, `translators/`) | none | Translate, Encode | ANF server | depth limit; lines of the same shape; statuses, alerts and actions from separate passes | no scalar is lost; the passes agree |
| Python adapters | none | topological order, graph, schemas | acp-server | order of dependent actions, cycles, unreachable nodes | every issued manifest can be ordered and reached |
| Kubernetes source, VS Code import | none | import | registry | | |
| Go client, observability, demo, benchmark, scripts | | | | | |

`PROJECT.json` lists each of them with its status, and every hazard at its line.

## 2. Modules

| Module | Models | State and actions |
|---|---|---|
| `StdioClient` | `mcpclient/stdio.go` | One caller program counter per call (`lock`, `write`, `read`, `nlock`, `nwrite`), the mutex, `nextID`, one reader and channel per call (a call starts its next reader only when the last delivered), two bounded pipes, the server's pending requests. `Begin`, `Lock`, `WriteOK`, `CtxDone`, `RecvAnswer`, ... are the steps of `request`, `notify` and `readLine`; `CloseKill`/`CloseWait` of `Close`. The server is external. |
| `Exchange` | what the callers of the stdio client may rely on | how far each call is and whether the server is there: `Ask`, `Serve`, `Take`, `GiveUp`, `ReadError`, ... say which outcome a call may have when; no ids, pipes, readers or mutex |
| `Registry`, `DeferredWindow` | `registry.go`, the computations of `deferred.go` | operators only: `Lookup`, `Push`, `Narrowed`, `ResolveFrom` |
| `DeferredResolver` | `deferred.go` under concurrency | `Observe`, `Reset`; `CallResolve`, `Copy` (under the lock), `Return` (after it) |
| `Bridge` | `bridge.go` and a host | one action per handler; `tools/call` is three steps (observe each tag, decide on list_changed, forward) since the host runs meanwhile; two queues; the host's list and open requests; messages without an id |
| `BridgeStartup` | `cmd/acp-bridge/main.go`, `Manager`, `source.go` | the import loop step by step with the failure of each step, children, manager, registry, signal, the two ways main ends |
| `Builder` | `builder.go` | operators: `ActionId`, `DependsOn`, `Build` |
| `IntentResolver` | `resolver.go`, `embedding.go`, `pickResolver` | operators: `keywordResolve`, `Near`, `embeddingResolve`, `Resolve` |
| `AcpServer` | `server.go`, `proxy.go`, `cmd/acp-server/main.go` | each request is a goroutine with a program counter; the store's accesses have a beginning and an end, so that they overlap; shutdown |
| `AdapterOrder` | `acp_common`, `acp_langgraph` (Python) | operators: `Started` and `Turn` (the loop of `topological_order`), `CycleError`, `build_graph` |
| `AdapterClient` | `AcpServer` with those clients | the properties of issued manifests as their clients see them |
| `ToolSchema` | `source.go` (compaction), `bridge.go` and `acp_common` (expansion) | one parameter: `RegisterTool` compacts and stores it, `ListTools` and `BindTool` expand it, `Call` is a host's call and the server's verdict on it |
| `AnfServer` | `anfmcp/server.go`, `cmd/anf-mcp/main.go` | the serve loop (`Scan`, `ScanEOF`, `CtxDone`, `SkipLine`, `Respond`, `Write`), the lines a client has sent, the responses written, a write that hangs, cancellation, the encoder's remembered error |
| `GenericDepth` | the depth limit of `translators/generic` | operators: `visited`, `exceeds`, `TranslateFails`; the levels of a value |
| `GenericTranslator` | `translators/generic`, `anf/encoder.go` | operators: from a JSON value to a tree to text, and what the text keeps |
| `K8sTranslator` | `translators/kubernetes` | operators: `deploymentStatus`, `deriveAlerts`, `deriveActions`, `TranslateView` |
| `AnfKubernetes` | `AnfServer` with `anf_encode_kubernetes` of `pkg/anftools` | the handler of the tool; what a client may rely on in the documents it got |
| `AnfEncode` | `AnfServer` with `anf_encode` of `pkg/anftools` | when the tool fails; which values a client sees refused |
| `AnfMcp` | `AnfServer` with `pkg/anftools` | both tools as the `Outcome` of calls; what a client may rely on in the answers of `anf_encode` |
| `MC*` | | constants of the TLC instances |
| `*Proofs` | | theorems about the module of that name; `AcpServerProofs` is about `AdapterClient` and `AdapterOrder` as well, `AnfProofs` about `AnfServer`, `AnfKubernetes` and `AnfEncode` |
| `NumberInduction` | | the lemmas about induction and recursion that three of them share |

`Bridge` and `DeferredResolver` extend `DeferredWindow`; `AcpServer` extends
`Builder` and `IntentResolver`; all rest on `Registry`. `AdapterClient` composes
`AcpServer` with `AdapterOrder`, and `AnfMcp` the ANF server with both
translators (`AnfKubernetes` and `AnfEncode` are modules of their own, and the depth
limit is apart from the rest of the generic translator, because the trees and lines
of the latter are defined by RECURSIVE operators, which keeps a proof from extending
it). `StdioClient` instantiates `Exchange` with a refinement mapping, and the outcomes
of `ForwardReturns` in `Bridge` stand for those of an exchange.

Definitions such as `AnswersAnyId` or `PushKeepingOldest` that no next-state
relation uses are deliberate mistakes; `PROJECT.json` names the property that
each of them breaks when it replaces the definition that follows it.

### Abstractions

* Tools, tags, hosts and names are values; schemas, results, log lines and
  manifest ids are left out. A tool keeps the order of its tags, because the
  window does.
* A JSON-RPC line is what the receiver can tell apart: does it parse, its id, its
  kind. The call it answers is carried along for the properties only.
* Data races are choices over what the build can do. Two goroutines in one
  `bufio.Reader`: the line goes whole to one of them, is torn, leaves stray
  bytes, or the process panics. A torn line is taken not to parse as an answer
  with the very id that is awaited. Two goroutines in the plain map of
  `MemoryStore`: a write may be lost, and Go's check for concurrent map access
  may end the process (`MapFatal`).
* `safeSourceName` is a function constant; the instance folds two names into one
  and empties a fourth.
* An intent is the set of its words. The similarities of the embedding resolver
  are floating point; they are constants in thousandths, computed from
  `DefaultExamples` with the formula of `embedding.go` for the intents of the
  instance.
* A compact type is a sequence of tokens (`enum:`, words, `|`, `[]`, `?`, a run of
  white space), so that the characters an enum value may hold are told apart from
  those of the mini-language only where the code does so.
* A JSON value is a record that holds its elements; the set of values has those
  inside its members as well.
* A JSON scalar is its text and its type. The text of a generic ANF document is a
  sequence of words, blanks and newlines, written as `encoder.go` does, without
  escaping: a key or value that holds blanks or newlines (the constant `Spaced`) goes
  into it piece by piece, so that `{"a b": "x"}` and `{"a": "b x"}` have one text in
  the model as well. Of a Kubernetes document the model has entities, statuses, alerts
  and actions, not the formatted usage and ages.
* The host of `Bridge` numbers its requests. Messages without an id are the constant
  `Unnumbered`: in the instance a notification, an over-long line and a call, which
  `bridge.go` answers with a response that has no id. A `tools/list` without an id is
  left out: its answer would set `prevToolCount` behind the back of a host that cannot
  tell what it answers.
* Any write of `anf-mcp` may find the pipe full and block until the client reads again,
  or exits, at which SIGPIPE ends the process. A write that fails and leaves the process
  alive is one to something else than a pipe.

## 3. Runs

| Run | Shows | Instance |
|---|---|---|
| `stdio_client` | No call gets the answer to another; before any deadline has fired no answer is lost; requests go out in id order; the client implements `Exchange`, so that no end of the process or the pipe hides an answer that was given; every call returns. | two calls, pipes of one line, one unsolicited line |
| `stdio_lost_answer` | (violated) An answer can be lost after a timeout. | as above |
| `resolver_shared` | Concurrent `Resolve` is linearizable and never empty. | two resolving goroutines, five updates, window 3, threshold 2 |
| `bridge_session` | One response per request, and in the end each; the tool being called is listed; the host's list has the right size when nothing is under way; a narrowed list gets back only tools that share a tag with the tool being called. | four requests plus refetches, four tools over four tags, one with more tags than the window holds |
| `bridge_same_size` | (violated) The host's list may be wrong although nothing is under way. | as `bridge_session` |
| `server_seed` | Only sanctioned actions are forwarded; approval is asked for exactly the tools that need it; hints are honored and take away no tool that the intent alone gets by an example; a request is refused only if nothing fits; a client can order every issued manifest, and its graph reaches every action; a manifest that was sent is found unless accesses raced. | three requests at a time, the seed tools and an imported one, the embedding resolver, four queries: unknown, by keyword only, and two with hints |
| `server_race` | (violated) A manifest that was sent may not be stored. | the same |
| `startup` | A source with a name of its own is served by its own process, which is reaped; the bridge comes to serve. | three sources of all kinds, four names that fold to two, lists with a refused descriptor in the middle |
| `schema` | A call that fits the offered schema is accepted, and whatever the server accepts may be sent. | basic types, enums of one and two values that hold `\|`, `?`, `[]`, white space at the end or nothing, arrays of arrays, odd schemas |
| `schema_inverse` | (violated) A parameter is offered as it was described. | an enum of two plain strings, required or optional |
| `anf_mcp` | Answers come in order without a gap; the text of `anf_encode` has every scalar, also those of several lines, and tells objects of single-word keys and single-line values apart, and the depth limit lies where it is said to; a Kubernetes document does not contradict itself; every request gets its answer in the end, and `Serve` returns, unless a write fails or hangs. | two lines of every kind, JSON values of up to four levels with a limit of two, views at both sides of every threshold, a key and a value with a blank, a value that goes on like another field after a newline |
| `anf_cancel` | (violated) `Serve` returns when it is cancelled. | the same lines with few values |

The bounds (`MaxNoise`, `PipeCap`, `MaxRequests`, `MaxUpdates`, the sets of calls
and requests) are constants. They are enough for the interleavings the properties
are about: an orphaned reader needs two calls, and two of them three; the window
overflows after three tags and moves on within four calls; a lost write takes two
context requests and the lookup a third request; a collision takes two sources
and a third one tells whether others are disturbed. Two lines of an ANF session
are enough for a gap, for a pair of texts to compare and for a signal between
them; the depth limit of 512 is a constant and small here. The properties that
`AnfMcp` states of single documents hold for each value and view of the instance;
`AnfProofs` has those of views, and that of the depth limit, for all.

### Fairness

* `StdioClient`: Go runs runnable goroutines, deadlines fire, the mutex is not
  starved, and the server drains its standard input. It need not answer. The last
  assumption is needed: `write` is not bounded by the context, so a server that
  stops reading holds the caller and everyone behind its mutex.
* `Bridge`: the loop runs, the forwarder returns (which is `CallReturns`), the
  host reads and refetches after list_changed.
* `AnfServer`: the serve loop runs when it can. The client need not send anything,
  close its end or read, and no signal need come. `AllAnswered` and `StopsWhenWoken`
  except a client that leaves its output unread: `write` then blocks (`pc = "blocked"`),
  and with it `Serve`, where neither the end of the input nor a signal reaches it.
* `BridgeStartup`: main runs; each handshake and fetch ends (30 s limits).

### Where the code differs from what is said about it

Checked by the runs marked (violated), with a finding each in `PROJECT.json`:

1. `stdio.go:204`: a reader left behind by a timeout takes the next call's answer.
2. `bridge.go:298`: list_changed compares sizes, not tools.
3. `proxy.go:235`: `MemoryStore` is shared by handlers without a lock.
4. `anfmcp/server.go:193`: the context is looked at only after `Scan` has returned
   a line; a signal does not end `anf-mcp` while its client is silent.
5. `acp_common/__init__.py:205`: `enum:` is looked for before the `?`, so the last
   value of an optional enum is offered with a `?`.

Seen while modelling, in the models as the code has it, and without a run:

* `stdio.go:170` takes any line with the awaited id for the answer: a request of the
  server (sampling, roots, ping) that is numbered like the call under way is returned
  as an empty result. `Exchange` has a step for it (`Mistake`).
* `stdio.go:283`: sources whose names become equal in `safeSourceName` replace each
  other's client. Calls of the first go to the second process, and the first process
  is never closed. `SoleRoutedToProvider` and `SoleChildrenReaped` exempt those two.
* `bridge.go:247` observes each tag of a call, so `NarrowThreshold` (three by
  default) is reached by one call of a tool with three tags;
  `cmd/acp-bridge/main.go:58` speaks of tool-call observations.
* `bridge.go:288` passes no hints; SPEC.md 4.8 says that hints in tool-call
  arguments are always honored.
* `proxy.go:144` never compares a manifest's ttl with the clock; SPEC.md:305 says
  "Expire contracts at `ttl`".
* `builder.go:160` accepts tools that depend on each other's capabilities;
  `paper/acp.md:201` says that the server guarantees an acyclic manifest. The
  seed registry keeps it (`IssuedCanBeOrdered`).
* `cmd/acp-bridge/main.go:271` registers the tools of http sources, for which
  there is no client to forward a call to.
* `embedding.go:202` falls back to the keywords only if there are no hints either,
  while the comment above `Resolve` says "Falls back to the configured fallback
  resolver when no centroid passes"; `embedding.go:62` says "nil disables fallback",
  and a nil fallback becomes the default keyword resolver. So a hint may lose the
  tools that the keywords would have found: `HintsOnlyAdd` says that hints add to
  what the intent gets only for intents that an example is near to.
* `bridge.go:335` calls `compactToJSONSchema` "the inverse of the MCP source
  compaction". It is not for an array of enums (`enum:a|b[]` is read as an enum with
  the value `b[]`), for enums of numbers (which become strings), and for enum values
  that hold a `|` or end in a `?`. `acp_common` also strips the white space at the end
  of a required enum, and so of its last value. `Expressible` leaves these out.
* An ANF text does not tell a blank in a key from the one that ends the key, nor a
  newline in a value from the end of the line (`translate.go:9` says so of the
  latter), nor `{}`, `[]` and `""` apart under a key, nor an array of scalars from
  objects of the shape it is written in; `TextTellsObjectsApart` is about objects
  without them. `NoFactDropped` is about all values: what is in a scalar is written
  out in full after its key, but only with keys of one word and values of one line
  does it stand under the lines of the keys that lead to it. The empty object gives
  no entity at all, and FORMAT.md asks for at least one.
* `acp_langgraph/__init__.py:120` makes an edge of each dependency. Whether LangGraph
  runs an action once, after all of them, or once per edge is up to LangGraph; in the
  seed registry `email.send` has dependencies at different depths.

## 4. Proofs

Every theorem holds for all values of the constants that satisfy the named
`ASSUME`s (which TLC evaluates on the instances). The invariants a proof is by
induction on were checked by TLC on the same instances first.

* **`StdioClientProofs`** — `TypeCorrect`, `EveryAnswerIsOwn` (`OwnAnswer`),
  `InIdOrder` (`RequestsInIdOrder`), `NothingLostBeforeTimeout`
  (`NoLossBeforeTimeout`) and `Implementation` (`ImplementsExchange`). `OwnAnswer`
  alone is not inductive: nothing in it keeps a wrong answer from being under way.
  The invariant `Inv` adds `IdsFresh` (no two calls share an id, no id is above
  `nextID`) and `WireFaithful` (requests and responses keep the pairing of call and
  id in both pipes, at the server and in every channel, orphaned ones included). An
  answer that passes the id comparison is then the caller's own. The refinement maps
  a call to how far the server came with it: a request that is neither in the pipe
  nor pending is answered. `ExchangeInv` has what that takes: `AnswersOnlyAsked`
  (requests and responses on their way are those of calls that wrote one), `EofLast`
  (the end of the pipe is reported after its last line, which is why a dying server
  hides no answer) and `OutcomeKnown`. With `ReadersInTurn` and
  `NoLossBeforeTimeout`, a call that ends with the error of the pipe was not
  answered, unless some call has timed out or `Close` threw the pipe away. The order
  of ids takes `MutexHeld` besides: between drawing an id and writing the request
  nobody else draws or writes. `NoLossBeforeTimeout` takes `ReadersInTurn`: as long
  as no call has timed out, the only reader is that of the call that waits (lemma
  `NoRace`), so that a line leaves the pipe for the channel of that call, and an
  answer that is taken from the channel ends the wait (lemma `DeliveredOnce`). This
  is the guarantee that finding 1 shows to end with the first timeout.
* **`DeferredResolverProofs`** — `ResolveLinearizable` (`Linearizable`) and
  `ResolveNeverFails` (`NeverEmpty`, once a tool is registered), for any number of
  goroutines and updates. `StillRight` is what makes them inductive: until a
  `Resolve` copies, what it would answer now is among the answers that were right
  during the call; once it has copied, what it will answer is, whatever becomes of
  the window. `AlwaysSome` adds that no window resolves to nothing.
* **`BridgeProofs`** — `TypeCorrect`, `CalledToolAlwaysListed` (`CalledToolListed`),
  `WideningIsForTheCall` (`WidensOnlyForCall`), `OneResponse` (`OneResponseEach`) and
  `ViewSizeRight` (`ViewSizeInStep`), for every registry, window size and threshold
  and sessions of any length. `LastObserved` is the strengthening for the first:
  while a call is handled, the newest entry of the window is one of the tool's tags;
  the newest entry survives `Push`, and `Lookup` of a set that has it contains the
  tool. `WideningIsForTheCall` rests on the lemmas `WindowStep` (only `ObserveTag`
  changes the window) and `PushTags`: the window has the tags it had and the one
  observed, and stays narrowed since it does not shrink. Calls may well bring back
  every tool, one after the other, or at once if the tool called shares a tag with
  each. `OneResponse` counts the places a response can come from; the lemmas
  `PlacesAppend` and `PlacesTail` say what the two queue operations do to such a
  count, and `IdsSent` that ids in use were drawn, so that a new request owes nothing
  yet. `ViewSizeRight` follows from two invariants: `CountOfNewestList`
  (`prevToolCount` is the size of the newest list written, on its way or at the host)
  and `ChangeAnnounced` (if the surface has another size, a list_changed, the host's
  intention to act on it or its request is under way).
* **`BridgeStartupProofs`** — `TypeCorrect`, `RoutedToProvider`
  (`SoleRoutedToProvider`) and `ChildrenReaped` (`SoleChildrenReaped`), for any
  number of sources, names, ways in which names fold, and failing steps. The
  invariant adds `ImportChecked` (what the steps of `importSource` have established
  by the time the next one runs) and `UsableNames` (registry and manager hold a source
  under its own name, so that only a source of the same name can replace it).
* **`AcpServerProofs`** — `TypeCorrect`, `ForwardsAreSanctioned` (`ForwardSanctioned`),
  `GateIsExact` (`GateExact`), `FoundWithoutRace` (`FoundUnlessRaced`), `HintsAddTools`
  (`HintsOnlyAdd`) and `RefusedOnlyForNothing` (`RefusedForNothing`), for every
  registry, keyword table and similarity and any number of concurrent requests. The
  parts of `Inv`: `Routed` (a request in a handler was authenticated and is of its
  kind), `OnlyMinted` (what is in the store, or was read from it, was built from that
  request's query, and stays as it was built) and `Cleared` (a request that is forwarded
  has passed the three checks). `GateIsExact` rests on the lemma `ActionIdsDistinct`:
  ids are the sizes of nested sets of tools, which differ if the sets do. Losing entries
  only makes the store smaller, which is why races do not matter here and do for
  `IssuedIsStored`. `IssuedMinted` adds that what a client was given was minted, from
  which `HintsAddTools` follows; `StoredUnlessRaced`, that it is in the store as long as
  no access has overlapped with a write, from which `FoundWithoutRace` follows;
  `RefusedUnmatched`, that what was refused was resolved to capabilities without a tool.
  The last step from there to `RefusedForNothing` needs `SeedAssumption`: if an example
  is near the intent the keywords are not tried, which costs nothing only because each
  capability of `DefaultExamples` is one that a tool of `Seed` has. A registry without
  such a tool would be refused requests that its keywords could serve; `cmd/acp-server`
  always seeds. `DependenciesDescend`: if the tools of the registry have levels that
  fall along the capabilities they depend on (those of the seed do, `SeedHasLevels`),
  so do the dependencies of every manifest. A tool that has a capability it depends on
  itself does not matter, since `dependsOnFor` leaves the action itself out.

  The clients. `AcyclicIsOrdered`: the loop of `topological_order` puts out each action
  once, after all it depends on, if the dependencies have levels. `CycleErrorExact`
  says that this condition is exact: a manifest is refused as cyclic if and only if its
  dependencies have no levels. The invariant of the loop relates its three data
  structures: an action waits for as many dependencies as are not yet put out; it is
  ready if it waits for none and is not put out; nothing is in the queue or the output
  twice. A loop that stops early leaves actions that wait for each other, and the one
  of the lowest level would wait for one below it. `IssuedManifestsRun`
  (`IssuedCanBeOrdered`) and `IssuedGraphsConnected` (`GraphReachesAll`) put this together
  with `IssuedMinted` and `DependenciesDescend`, for every registry with levels. Without
  them the statement is false: `builder.go` checks for no cycles.
* **`AnfProofs`** — `TypeCorrect`, `ResponsesInOrder` (`OrderedWithoutGap`) and
  `HandledInvariance`, for any tools, resources, handlers and number of lines.
  `OrderedWithoutGap` says nothing of the response that is about to be written.
  `RespondsToLast` adds that it
  answers the line read last, which is unanswered, and `CaughtUp` that, as long as
  no write has failed, no line before it is. After a failed write nothing is appended
  any more, so that the gap this leaves is never seen. `HandledInvariance`
  (`AnswersHandled`) says that a response carries what the handler made of the request
  that it is for.

  `HealthAgrees` and `LinesAreGrounded`, for every
  namespace view with unique names: the thresholds of `deploymentStatus` and of
  `deriveAlerts` are those of one predicate, and an alert about a deployment or pod
  of that name comes from that deployment. With `HandledInvariance` they become
  statements about the answers in every session: `HealthIsToldAlways` (`HealthIsTold`)
  and `ReferencesAlwaysResolve` (`ReferencesResolve`). `KubernetesAssumption` says what
  `Register` does: calls of that name go to `kubernetesHandler`.

  `DepthLimit`, for every limit and every set of JSON values that has what is inside its
  members: `Translate` refuses no value whose containers nest within the limit, and
  every one that exceeds it by more than the root. The lemma `OneLevelDown` keeps two
  descents in step, that of the calls of `entityFromValue` and that of the containers: at
  each depth the containers among the calls are those of that level. Scalars in
  arrays are visited without being containers, which is why the limit lies one level
  off for some values. `AlwaysRefusedByDepth` (`RefusedByDepth`) is the statement about
  sessions; `EncodeAssumption` says that `encodeHandler` fails exactly if `Translate` does.
* **`ToolSchemaProofs`** — `TypesOK` (`TypeOK`), `ExpressedAsDescribed`
  (`ExpressedReturns`), `FittingCallsAccepted` (`FittingCallAccepted`) and
  `NothingIsForbidden` (`NothingForbidden`), for every set of parameters and
  arguments, enum texts of any length and arrays of any depth. The invariant `IInv`
  is `Chain` (what is stored is what the source compacts, what is offered is what the
  consumer expands of that) and `Refusals` (a call that fits what was offered is
  refused only if the schema changed on the way). What carries the argument is that
  the two halves of the mini-language undo each other where it can express the
  parameter, so that nothing changes: `SplitJoin` (strings.Split of a joined list
  gives the list back, if no text holds a `|`), `EnumReturns` (the trimming of `?`
  and of white space takes nothing else away) and `OfferExact` (the array suffixes
  come off as often as they were put on). `OfferSound` shows that what is offered is
  a schema, if not the one described, for the other parameters too.
* **`NumberInduction`** — the prover has no induction over operators, so the lemmas
  `Induction` and `Recursion` are stated with sets and functions: a set that
  holds 0 and with each number the next one holds them all, and the function that a
  start and a step per number define exists. The loops of the models (the turns of
  `topological_order`, the joins and splits of the mini-language, the levels of a JSON
  value) are recursive functions over the numbers into a set, and unfold by
  them.

Only model-checked:

* the liveness properties `CallReturns`, `EveryRequestAnswered`, `ComesToServe`,
  `AllAnswered` and `StopsWhenWoken`, since fairness is out of the prover's reach;
* `NoFactDropped` and `TextTellsObjectsApart` of `AnfMcp`: they are about trees, the
  text that writing them out recursively gives, and the paths read back from its
  lines. The RECURSIVE operators that define them are beyond the prover.

## 5. Not modelled

* Observability, the Go client, the manifest types, the demo, the benchmark and the
  scripts hold no state that the rest depends on. The VS Code import is part of the
  arbitrary configuration of `BridgeStartup`.
* The Kubernetes source is imported by no program of the repository and parses one
  annotated Service at a time.
* `inferCapabilities` of the MCP source splits a tool name into words; its result is
  the constant `CapsOf`.
* The floating-point arithmetic of the embedding resolver (see the abstractions).
* The text of Kubernetes documents beyond what the properties are about, and headers.
* What LangGraph, OpenAI and CrewAI do with what the adapters hand them.
* The five seconds of `ListenAndServe` and the ttl of a manifest: no model has a clock.
  Every open request may be cut at shutdown.

## 6. Plan

1. **Done:** `StdioClient` with `Exchange`, `DeferredResolver`, `Bridge`,
   `BridgeStartup`; `AcpServer` with `Builder`, `IntentResolver` and the clients'
   `AdapterOrder`; `ToolSchema`; `AnfServer` with both translators.
2. **Done:** a theorem for every safety invariant, action property and refinement
   that a run checks, except the two that section 4 lists as only model-checked.
3. **Models that would add something:** the composition of `Bridge` with
   `StdioClient` through `Manager.Call` (what the loss of an answer means for a
   session), should the bounds allow it.
