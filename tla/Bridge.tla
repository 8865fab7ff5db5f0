-------------------------------- MODULE Bridge --------------------------------
(***************************************************************************)
(* acp-bridge while it serves: the single-threaded JSON-RPC loop of        *)
(* internal/bridge/bridge.go between an MCP host and the downstream        *)
(* servers.  A call passes through observation, the list_changed decision  *)
(* and forwarding; the host sends requests without waiting and reads what  *)
(* the bridge writes in order, but later.                                  *)
(***************************************************************************)
EXTENDS DeferredWindow

CONSTANTS UnknownTool,  \* a name that is not in b.tools
          HasForwarder, \* main had at least one stdio client to forward to
          Unnumbered,   \* the messages that the host sends without an id
          MaxRequests   \* bound: requests the host sends on its own account

ASSUME BridgeAssumption ==
    /\ UnknownTool \notin Tools
    /\ HasForwarder \in BOOLEAN
    /\ MaxRequests \in Nat

VARIABLES
    window,         \* DeferredResolver.window
    prevToolCount,  \* Bridge.prevToolCount
    pc,             \* where handleToolsCall is; "idle" between messages
    cur,            \* the tools/call being handled
    pos,            \* index of the next tag to observe
    inbox,          \* host to bridge (os.Stdin)
    outbox,         \* bridge to host (os.Stdout)
    view,           \* the host: the tools of the last tools/list it received
    refetch,        \* the host: a list_changed it has not acted on
    sent,           \* the host: number of requests sent, which is the last id
    asked,          \* the host: requests counted against MaxRequests
    waiting,        \* the host: ids without a response yet
    open            \* the host has not closed the bridge's standard input

bridgeVars == <<window, prevToolCount, pc, cur, pos>>
hostVars == <<view, refetch, sent, asked, waiting, open>>
vars == <<bridgeVars, inbox, outbox, hostVars>>
-----------------------------------------------------------------------------
(* Messages *)

\* What the host sends.  "other" stands for initialize and ping, which are
\* answered without touching any state; "invalid" for an unknown method with an
\* id and a tools/call whose params do not parse; "ignored" for a line that does
\* not parse, the initialized notification and an unknown method without an id;
\* "oversized" for a line longer than the 10 MB that the scanner takes.
\* id 0: the message has no id.
Request == [kind : {"list", "call", "other", "invalid", "ignored", "oversized"},
            id : Nat, tool : Tools \cup {UnknownTool}]

Plain(k, i) == [kind |-> k, id |-> i, tool |-> UnknownTool]
CallOf(t, i) == [kind |-> "call", id |-> i, tool |-> t]

ASSUME UnnumberedAssumption ==
    Unnumbered \subseteq {r \in Request : r.id = 0 /\ r.kind # "list"}

\* What the bridge sends.  id 0: a notification, or the response to a message
\* that had no id, which a known method gets all the same.
Message == [kind : {"tools", "result", "isError", "placeholder", "error", "unknownTool", "list_changed"},
            id : Nat, tools : SUBSET Tools, tool : Tools \cup {UnknownTool}]

Reply(k, r) == [kind |-> k, id |-> r.id, tools |-> {}, tool |-> r.tool]
ToolsReply(r, ts) == [kind |-> "tools", id |-> r.id, tools |-> ts, tool |-> UnknownTool]
ListChanged == [kind |-> "list_changed", id |-> 0, tools |-> {}, tool |-> UnknownTool]

NoRequest == Plain("ignored", 0)

\* Lines that nobody answers.
Unanswerable == {"ignored", "oversized"}

\* The tools tools/list returns now.
Surface == Lookup(Resolve(window))
-----------------------------------------------------------------------------
Init ==
    /\ window = <<>>
    /\ prevToolCount = 0
    /\ pc = "idle"
    /\ cur = NoRequest
    /\ pos = 1
    /\ inbox = <<>>
    /\ outbox = <<>>
    /\ view = {}
    /\ refetch = FALSE
    /\ sent = 0
    /\ asked = 0
    /\ waiting = {}
    /\ open = TRUE

(* The bridge *)

\* Serve takes the next line; the kind decides the handler.
Take(k) ==
    /\ pc = "idle"
    /\ inbox # <<>> /\ Head(inbox).kind \in k
    /\ inbox' = Tail(inbox)

Send(m) == outbox' = Append(outbox, m)

\* Lines that do not parse, and messages of unknown methods without an id.
Ignore ==
    /\ Take({"ignored"})
    /\ UNCHANGED <<bridgeVars, outbox, hostVars>>

\* initialize, ping: a fixed result, with or without an id.
HandleOther ==
    /\ Take({"other"})
    /\ Send(Reply("result", Head(inbox)))
    /\ UNCHANGED <<bridgeVars, hostVars>>

HandleInvalidSilently ==
    /\ Take({"invalid"})
    /\ UNCHANGED <<bridgeVars, outbox, hostVars>>

\* An unknown method, or params of tools/call that do not parse.
HandleInvalid ==
    /\ Take({"invalid"})
    /\ Send(Reply("error", Head(inbox)))
    /\ UNCHANGED <<bridgeVars, hostVars>>

\* handleToolsList: nothing resolved gives an empty list and leaves
\* prevToolCount as it was.
HandleToolsList ==
    /\ Take({"list"})
    /\ IF Resolve(window) = {}
       THEN Send(ToolsReply(Head(inbox), {})) /\ UNCHANGED prevToolCount
       ELSE Send(ToolsReply(Head(inbox), Surface)) /\ prevToolCount' = Cardinality(Surface)
    /\ UNCHANGED <<window, pc, cur, pos, hostVars>>

\* A name that was never registered: a JSON-RPC error.
HandleUnknownTool ==
    /\ Take({"call"})
    /\ Head(inbox).tool \notin Tools
    /\ Send(Reply("unknownTool", Head(inbox)))
    /\ UNCHANGED <<bridgeVars, hostVars>>

\* handleToolsCall finds the tool in b.tools, listed at the moment or not.
BeginToolsCall ==
    /\ Take({"call"})
    /\ Head(inbox).tool \in Tools
    /\ cur' = Head(inbox)
    /\ pc' = "observe"
    /\ pos' = 1
    /\ UNCHANGED <<window, prevToolCount, outbox, hostVars>>

\* One turn of the loop over the tool's tags.  The arguments of the call are not
\* looked at.
ObserveTag ==
    /\ pc = "observe"
    /\ pos <= Len(CapsOf[cur.tool])
    /\ window' = Push(window, CapsOf[cur.tool][pos])
    /\ pos' = pos + 1
    /\ UNCHANGED <<prevToolCount, pc, cur, inbox, outbox, hostVars>>

SurfaceGrew == Cardinality(Surface) > prevToolCount /\ prevToolCount > 0

\* maybeNotifyListChanged compares sizes only, and only once a list was sent.
SurfaceChanged == Cardinality(Surface) # prevToolCount /\ prevToolCount > 0

MaybeNotifyListChanged ==
    /\ pc = "observe"
    /\ pos > Len(CapsOf[cur.tool])
    /\ IF Resolve(window) # {} /\ SurfaceChanged THEN Send(ListChanged) ELSE UNCHANGED outbox
    /\ pc' = "forward"
    /\ UNCHANGED <<window, prevToolCount, cur, pos, inbox, hostVars>>

\* The answer of the downstream server (external, see Exchange): its result, or
\* the error of a call that failed or timed out as an isError result.  Without
\* a forwarder a placeholder is returned.
ForwardOutcomes == IF HasForwarder THEN {"result", "isError"} ELSE {"placeholder"}

ForwardReturns ==
    /\ pc = "forward"
    /\ \E o \in ForwardOutcomes : Send(Reply(o, cur))
    /\ pc' = "idle"
    /\ cur' = NoRequest
    /\ UNCHANGED <<window, prevToolCount, pos, inbox, hostVars>>

ServeReturnsAtClose ==
    /\ pc = "idle" /\ ~open
    /\ pc' = "stopped"
    /\ UNCHANGED <<window, prevToolCount, cur, pos, inbox, outbox, hostVars>>

\* End of input: the scanner has handed out every line, Serve and main return.
ServeReturns ==
    /\ pc = "idle" /\ inbox = <<>> /\ ~open
    /\ pc' = "stopped"
    /\ UNCHANGED <<window, prevToolCount, cur, pos, inbox, outbox, hostVars>>

\* The scanner gives up: Serve returns its error and main exits, leaving what
\* is still in the pipe.
ServeFails ==
    /\ Take({"oversized"})
    /\ pc' = "failed"
    /\ UNCHANGED <<window, prevToolCount, cur, pos, outbox, hostVars>>
-----------------------------------------------------------------------------
(* The MCP host, external: it may send any request at any time, and fetches *)
(* the list again after every list_changed.  Anything but a request for the *)
(* list, whose answer it goes by, may come without an id.                   *)

HostSend(r) ==
    /\ open
    /\ inbox' = Append(inbox, r)
    /\ sent' = IF r.id = 0 THEN sent ELSE r.id
    /\ waiting' = IF r.kind \in Unanswerable \/ r.id = 0 THEN waiting ELSE waiting \cup {r.id}
    /\ UNCHANGED <<bridgeVars, outbox, view, open>>

HostAsks(r) ==
    /\ asked < MaxRequests
    /\ asked' = asked + 1
    /\ HostSend(r)
    /\ UNCHANGED refetch

HostRefetches ==
    /\ refetch
    /\ refetch' = FALSE
    /\ HostSend(Plain("list", sent + 1))
    /\ UNCHANGED asked

HostReceives ==
    /\ outbox # <<>>
    /\ outbox' = Tail(outbox)
    /\ view' = IF Head(outbox).kind = "tools" THEN Head(outbox).tools ELSE view
    /\ refetch' = (refetch \/ Head(outbox).kind = "list_changed")
    /\ waiting' = waiting \ {Head(outbox).id}
    /\ UNCHANGED <<bridgeVars, inbox, sent, asked, open>>

HostCloses ==
    /\ open
    /\ open' = FALSE
    /\ UNCHANGED <<bridgeVars, inbox, outbox, view, refetch, sent, asked, waiting>>
-----------------------------------------------------------------------------
Finished == pc \in {"stopped", "failed"} /\ outbox = <<>>

BridgeStep ==
    \/ Ignore
    \/ HandleOther
    \/ HandleInvalid
    \/ HandleToolsList
    \/ HandleUnknownTool
    \/ BeginToolsCall
    \/ ObserveTag
    \/ MaybeNotifyListChanged
    \/ ForwardReturns
    \/ ServeReturns
    \/ ServeFails

HostStep ==
    \/ \E k \in {"list", "other", "invalid"} : HostAsks(Plain(k, sent + 1))
    \/ \E t \in Tools \cup {UnknownTool} : HostAsks(CallOf(t, sent + 1))
    \/ \E r \in Unnumbered : HostAsks(r)
    \/ HostRefetches
    \/ HostReceives
    \/ HostCloses

Next ==
    \/ BridgeStep
    \/ HostStep
    \/ Finished /\ UNCHANGED vars

Spec == Init /\ [][Next]_vars

(***************************************************************************)
(* The serve loop runs; the forwarder returns (CallReturns of StdioClient);*)
(* the host reads its input and follows up on list_changed.  The host need *)
(* not send anything else, and need not close the session.                 *)
(***************************************************************************)
FairSpec == Spec /\ WF_vars(BridgeStep) /\ WF_vars(HostRefetches) /\ WF_vars(HostReceives)
-----------------------------------------------------------------------------
(* Properties *)

\* Every variable keeps its type, and the window never outgrows its size.
TypeOK ==
    /\ window \in Seq(Caps) /\ Len(window) <= windowSize
    /\ prevToolCount \in Nat
    /\ pc \in {"idle", "observe", "forward", "stopped", "failed"}
    /\ cur \in Request
    /\ pos \in Nat \ {0}
    /\ inbox \in Seq(Request)
    /\ outbox \in Seq(Message)
    /\ view \in SUBSET Tools
    /\ refetch \in BOOLEAN
    /\ sent \in Nat /\ asked \in Nat
    /\ waiting \in SUBSET Nat
    /\ open \in BOOLEAN

\* Once the observations of a call are made, the tool that was called is in the
\* list a tools/list would return: narrowing never hides the tool in use, even
\* when the tool has more tags than the window has room for.
CalledToolListed ==
    pc = "forward" => cur.tool \in Surface

\* Nothing is on its way between the host and the bridge.
InStep == inbox = <<>> /\ outbox = <<>> /\ ~refetch

\* A host that fetches the list again after each list_changed has a list of the
\* right size whenever nothing is under way, also while a call is being
\* forwarded (maybeNotifyListChanged runs before the forwarder is called).
ViewSizeInStep ==
    InStep /\ view # {} /\ pc # "observe" => Cardinality(view) = Cardinality(Surface)

\* "When narrowing changes the tool surface, emits list_changed so the MCP
\* client re-fetches": in the same states the host's list is the right one.
ViewInStep ==
    InStep /\ view # {} /\ pc # "observe" => view = Surface

\* The number of places the response to request i can come from.
Owed(i) ==
    Cardinality({k \in 1..Len(inbox) : inbox[k].id = i /\ inbox[k].kind \notin Unanswerable})
      + Cardinality({k \in 1..Len(outbox) : outbox[k].id = i})
      + (IF pc \in {"observe", "forward"} /\ cur.id = i THEN 1 ELSE 0)

\* Each request gets exactly one response: whatever the handler does, an
\* unanswered id is in exactly one place and an answered one in none.
OneResponseEach ==
    \A i \in 1..sent : Owed(i) = IF i \in waiting THEN 1 ELSE 0

\* Once the surface is narrowed, tools come back to it only in the course of a
\* call, and only tools that share a tag with the tool being called: neither the
\* whole surface nor tools that have nothing to do with the call return.
WidensOnlyForCall ==
    [][Narrowed(window) =>
           \A t \in Surface' \ Surface : Range(CapsOf[t]) \cap Range(CapsOf[cur.tool]) # {}]_vars

\* Every request is answered in the end, also by a session that is being
\* closed, unless an oversized line made Serve give up.
EveryRequestAnswered == <>[](waiting = {} \/ pc = "failed")
-----------------------------------------------------------------------------
(* The inductive invariant behind CalledToolListed *)

\* The call being handled names a registered tool, and once one of its tags has
\* been observed the newest entry of the window is one of its tags.
LastObserved ==
    /\ pc \in {"observe", "forward"} => cur.tool \in Tools
    /\ pc = "forward" \/ (pc = "observe" /\ pos > 1) =>
          window # <<>> /\ window[Len(window)] \in Range(CapsOf[cur.tool])

Inv == TypeOK /\ LastObserved
-----------------------------------------------------------------------------
(* What OneResponseEach and ViewSizeInStep need besides *)

\* The host numbers its requests, the bridge answers under the number of the
\* request, and a notification carries none.
IdsSent ==
    /\ \A k \in 1..Len(inbox) : inbox[k].id \in 0..sent
    /\ \A k \in 1..Len(outbox) : outbox[k].id \in 0..sent
    /\ cur.id \in 0..sent
    /\ waiting \subseteq 1..sent

\* No later list follows the k-th message on its way to the host.
NewestList(k) ==
    outbox[k].kind = "tools" /\ \A j \in (k + 1)..Len(outbox) : outbox[j].kind # "tools"

\* prevToolCount is the size of the newest list the bridge has written, be it
\* still on its way or the one the host goes by, unless that list was empty.
CountOfNewestList ==
    /\ prevToolCount > 0 => Tools # {}
    /\ \A k \in 1..Len(outbox) :
          NewestList(k) /\ outbox[k].tools # {} => prevToolCount = Cardinality(outbox[k].tools)
    /\ view # {} /\ (\A k \in 1..Len(outbox) : outbox[k].kind # "tools") =>
          prevToolCount = Cardinality(view)

\* A list_changed, the host's intention to act on it, or its request for a new
\* list is on its way.
RefreshUnderWay ==
    \/ refetch
    \/ \E k \in 1..Len(outbox) : outbox[k].kind = "list_changed"
    \/ \E k \in 1..Len(inbox) : inbox[k].kind = "list"

\* Whenever the surface has another size than the newest list, a refresh is
\* under way, or the call that changed it has not come to
\* maybeNotifyListChanged.
ChangeAnnounced ==
    prevToolCount > 0 /\ pc # "observe" /\ Cardinality(Surface) # prevToolCount => RefreshUnderWay
=============================================================================
