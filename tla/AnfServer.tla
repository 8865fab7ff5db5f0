------------------------------ MODULE AnfServer ------------------------------
(***************************************************************************)
(* pkg/anfmcp: an MCP server over stdio.  Serve is one loop in one         *)
(* goroutine: scan a line, look whether the context is cancelled, handle   *)
(* the request, write the response.  The client pipelines lines, closes    *)
(* its end, stays silent, or stops reading; a signal cancels the context   *)
(* at any time.                                                            *)
(*                                                                         *)
(* json.Encoder remembers the first error of its writer: every later       *)
(* Encode returns that error without writing.                              *)
(***************************************************************************)
EXTENDS Naturals, Sequences, Functions

CONSTANTS Tools,      \* names of the registered tools
          Resources,  \* URIs of the registered resources
          Calls,      \* the tools/calls a client makes: a tool and its "arguments"
          Outcome,    \* what the handler of the tool makes of each
          ReadFails,  \* the resources whose reader returns an error
          MaxLines    \* bound on the lines of a session

\* What a response says, and arguments that are left out.
Text(kind) == [kind |-> kind]
NoArgs == [kind |-> "none"]

\* Params that do not decode or name nothing, and a name that is not registered.
BadNames == {"invalid", "unknown"}

ASSUME AnfAssumption ==
    /\ \A call \in Calls : call = <<call[1], call[2]>> /\ call[1] \in Tools
    /\ \A call \in Calls : Outcome[call].isError \in BOOLEAN
    /\ ReadFails \subseteq Resources
    /\ BadNames \cap Tools = {}
    /\ MaxLines \in Nat

VARIABLES
    sent,       \* the lines the client has written
    closed,     \* the client has closed its end
    cancelled,  \* ctx is done
    pc,         \* of Serve: "scan", "line", "write", "blocked" in a write, "returned"
    scanned,    \* the number of lines that Scan has returned
    resp,       \* the response to write
    out,        \* the responses written
    broken,     \* json.Encoder remembers an error
    result      \* the exit status of the process

vars == <<sent, closed, cancelled, pc, scanned, resp, out, broken, result>>

\* A line that is longer than 16 MiB, is empty, is no JSON-RPC request, or has
\* no id.
Simple(form) == [form |-> form]
Request(method) == [form |-> "request", method |-> method]
ToolsCall(name, args) ==
    [form |-> "request", method |-> "tools/call", name |-> name, args |-> args]
ResourcesRead(uri) == [form |-> "request", method |-> "resources/read", uri |-> uri]

PlainMethods == {"server/discover", "initialize", "ping", "tools/list", "resources/list"}

Lines ==
    {Simple(form) : form \in {"long", "blank", "junk", "notification"}}
      \cup {Request(m) : m \in PlainMethods \cup {"other"}}
      \cup {ToolsCall(call[1], call[2]) : call \in Calls}
      \cup {ToolsCall(t, NoArgs) : t \in BadNames}
      \cup {ResourcesRead(u) : u \in Resources \cup BadNames}
-----------------------------------------------------------------------------
(* handle *)

\* A response to line n: a result, one that reports a tool error, or a
\* JSON-RPC error with its code.
Ok(n, text) == [of |-> n, code |-> "ok", text |-> text]
ToolError(n) == [of |-> n, code |-> "isError", text |-> Text("error")]
Fail(n, code) == [of |-> n, code |-> code, text |-> Text("error")]

toolsCall(n) ==
    LET call == <<sent[n].name, sent[n].args>>
    IN  IF sent[n].name \notin Tools THEN Fail(n, "invalidParams")
        ELSE IF Outcome[call].isError THEN ToolError(n)
        ELSE Ok(n, Outcome[call].text)

resourcesRead(n) ==
    LET uri == sent[n].uri
    IN  IF uri \notin Resources THEN Fail(n, "invalidParams")
        ELSE IF uri \in ReadFails THEN Fail(n, "internalError")
        ELSE Ok(n, Text(uri))

handle(n) ==
    LET method == sent[n].method
    IN  CASE method \in PlainMethods    -> Ok(n, Text(method))
          [] method = "tools/call"      -> toolsCall(n)
          [] method = "resources/read"  -> resourcesRead(n)
          [] OTHER                      -> Fail(n, "methodNotFound")
-----------------------------------------------------------------------------
(* Serve *)

Init ==
    /\ sent = <<>> /\ closed = FALSE
    /\ cancelled = FALSE
    /\ pc = "scan" /\ scanned = 0
    /\ resp = Fail(0, "none")
    /\ out = <<>> /\ broken = FALSE
    /\ result = "none"

\* Serve returns an error or nil and main exits: an error counts only if no
\* signal has come.
Return(err) ==
    /\ pc' = "returned"
    /\ result' = IF err # "nil" /\ ~cancelled THEN "exit1" ELSE "exit0"

ScanBlockwise ==
    /\ pc = "scan" /\ (scanned + 1 < Len(sent) \/ (closed /\ scanned < Len(sent)))
    /\ scanned' = scanned + 1
    /\ \/ sent[scanned + 1].form = "long" /\ Return("readError")
       \/ sent[scanned + 1].form # "long" /\ pc' = "line" /\ UNCHANGED result
    /\ UNCHANGED <<sent, closed, cancelled, resp, out, broken>>

\* scanner.Scan() returns a line, or false because the line is too long.
Scan ==
    /\ pc = "scan" /\ scanned < Len(sent)
    /\ scanned' = scanned + 1
    /\ \/ /\ sent[scanned + 1].form = "long"
          /\ Return("readError")
       \/ /\ sent[scanned + 1].form # "long"
          /\ pc' = "line" /\ UNCHANGED result
    /\ UNCHANGED <<sent, closed, cancelled, resp, out, broken>>

ScanEOFAsLine ==
    /\ pc = "scan" /\ scanned = Len(sent) /\ closed
    /\ scanned' = scanned + 1
    /\ Return("nil")
    /\ UNCHANGED <<sent, closed, cancelled, resp, out, broken>>

\* scanner.Scan() returns false at the end of the input.
ScanEOF ==
    /\ pc = "scan" /\ scanned = Len(sent) /\ closed
    /\ Return("nil")
    /\ UNCHANGED <<sent, closed, cancelled, scanned, resp, out, broken>>

CtxDoneContinuing ==
    /\ pc = "line" /\ cancelled
    /\ pc' = "scan"
    /\ UNCHANGED <<sent, closed, cancelled, scanned, resp, out, broken, result>>

\* case <-ctx.Done(): the line just read is dropped.
CtxDone ==
    /\ pc = "line" /\ cancelled
    /\ Return("cancelled")
    /\ UNCHANGED <<sent, closed, cancelled, scanned, resp, out, broken>>

\* An empty line, or a notification, for which handle has no response.
SkipLine ==
    /\ pc = "line" /\ ~cancelled
    /\ sent[scanned].form \in {"blank", "notification"}
    /\ pc' = "scan"
    /\ UNCHANGED <<sent, closed, cancelled, scanned, resp, out, broken, result>>

\* A parse error, with a null id, or the response of handle.
Respond ==
    /\ pc = "line" /\ ~cancelled
    /\ sent[scanned].form \in {"junk", "request"}
    /\ pc' = "write"
    /\ resp' = IF sent[scanned].form = "junk" THEN Fail(scanned, "parseError")
               ELSE handle(scanned)
    /\ UNCHANGED <<sent, closed, cancelled, scanned, out, broken, result>>

WriteRetrying ==
    /\ pc = "write"
    /\ \/ out' = Append(out, resp) /\ UNCHANGED broken
       \/ broken' = TRUE /\ UNCHANGED out
    /\ pc' = "scan" /\ UNCHANGED result
    /\ UNCHANGED <<sent, closed, cancelled, scanned, resp>>

\* write: a failure is logged and the loop goes on.  A client that reads no more
\* fills the pipe, and the write does not return; SIGPIPE ends the process if
\* nobody is left to read its standard output.
Write ==
    /\ pc = "write"
    /\ \/ /\ ~broken
          /\ out' = Append(out, resp)
          /\ pc' = "scan" /\ UNCHANGED <<broken, result>>
       \/ /\ broken' = TRUE
          /\ pc' = "scan" /\ UNCHANGED <<out, result>>
       \/ /\ ~broken
          /\ \/ pc' = "blocked" /\ UNCHANGED result
             \/ pc' = "returned" /\ result' = "killed"
          /\ UNCHANGED <<out, broken>>
    /\ UNCHANGED <<sent, closed, cancelled, scanned, resp>>

ServeStep ==
    Scan \/ ScanEOF \/ CtxDone \/ SkipLine \/ Respond \/ Write

Serving == pc # "returned"

ClientSends ==
    /\ ~closed /\ Serving /\ Len(sent) < MaxLines
    /\ \E line \in Lines : sent' = Append(sent, line)
    /\ UNCHANGED <<closed, cancelled, pc, scanned, resp, out, broken, result>>

ClientCloses ==
    /\ ~closed /\ Serving
    /\ closed' = TRUE
    /\ UNCHANGED <<sent, cancelled, pc, scanned, resp, out, broken, result>>

\* SIGINT or SIGTERM; signal.NotifyContext keeps it from ending the process.
Signal ==
    /\ ~cancelled /\ Serving
    /\ cancelled' = TRUE
    /\ UNCHANGED <<sent, closed, pc, scanned, resp, out, broken, result>>

\* The client whose pipe is full reads again, and the write ends.
ClientReads ==
    /\ pc = "blocked"
    /\ out' = Append(out, resp)
    /\ pc' = "scan"
    /\ UNCHANGED <<sent, closed, cancelled, scanned, resp, broken, result>>

\* Or it exits.
ClientExits ==
    /\ pc = "blocked"
    /\ pc' = "returned" /\ result' = "killed"
    /\ UNCHANGED <<sent, closed, cancelled, scanned, resp, out, broken>>

Returned == pc = "returned" /\ UNCHANGED vars

Next ==
    \/ ServeStep
    \/ ClientSends \/ ClientCloses \/ ClientReads \/ ClientExits \/ Signal
    \/ Returned

Spec == Init /\ [][Next]_vars

\* The serve loop runs when it can; the client and the signal owe nothing, and
\* a client that leaves what is written unread may hold it in a write for good.
FairSpec == Spec /\ WF_vars(ServeStep)
-----------------------------------------------------------------------------
(* Properties *)

Codes == {"ok", "isError", "none", "parseError", "methodNotFound", "invalidParams",
          "internalError"}

Responses ==
    [of : Nat, code : Codes,
     text : {Text(kind) : kind \in PlainMethods \cup Resources \cup {"error"}}
              \cup {Outcome[call].text : call \in Calls}]

\* Every variable has its type, and nothing is scanned that was not sent.
TypeOK ==
    /\ sent \in Seq(Lines) /\ Len(sent) <= MaxLines
    /\ closed \in BOOLEAN /\ cancelled \in BOOLEAN /\ broken \in BOOLEAN
    /\ pc \in {"scan", "line", "write", "blocked", "returned"}
    /\ scanned \in 0..Len(sent)
    /\ pc \in {"line", "write", "blocked"} => scanned > 0
    /\ resp \in Responses /\ out \in Seq(Responses)
    /\ result \in {"none", "exit0", "exit1", "killed"}

\* The lines that have to be answered.
Answerable(n) == sent[n].form \in {"junk", "request"}

\* "keeps output ordered": responses come in the order of their requests, and
\* what was written before a write failed, or Serve returned, has no gap: a
\* client that gets the answer to one request has got those to all before.
OrderedWithoutGap ==
    \A i \in DOMAIN out :
        /\ out[i].of \in 1..scanned /\ Answerable(out[i].of)
        /\ \A n \in 1..(out[i].of - 1) :
               Answerable(n) => \E j \in 1..(i - 1) : out[j].of = n
        /\ \A j \in 1..(i - 1) : out[j].of < out[i].of

Answered(n) == \E i \in DOMAIN out : out[i].of = n

\* In the end every request of a session has its answer, unless a write failed
\* or never returns, or Serve returned.
AllAnswered ==
    <>[](broken \/ pc = "blocked" \/ ~Serving \/ \A n \in DOMAIN sent : Answerable(n) => Answered(n))

\* Serve returns and the process exits once the input has ended, or the client
\* says something after a signal, unless the loop hangs in a write to a pipe that
\* nobody empties.
StopsWhenWoken ==
    (closed \/ (cancelled /\ scanned < Len(sent))) ~> (~Serving \/ pc = "blocked")

\* "Serve reads newline-delimited JSON-RPC requests from in and writes
\* responses to out until in reaches EOF or ctx is cancelled."
StopsOnCancel == cancelled ~> ~Serving
-----------------------------------------------------------------------------
(* What the properties of the tools are about *)

\* The answers to calls of a tool that came with arguments of this kind.
AnswersTo(tool, kind) ==
    {r \in Range(out) :
        /\ sent[r.of].form = "request" /\ sent[r.of].method = "tools/call"
        /\ sent[r.of].name = tool /\ sent[r.of].args.kind = kind}
-----------------------------------------------------------------------------
(* The inductive invariant behind OrderedWithoutGap *)

\* What is about to be written answers the line read last, which is not yet
\* answered.
RespondsToLast ==
    /\ pc \in {"write", "blocked"} => resp.of = scanned /\ Answerable(scanned)
    /\ pc \in {"line", "write", "blocked"} => ~Answered(scanned)
    /\ pc = "blocked" => ~broken

\* As long as no write has failed, every line is answered before the next one
\* is read.
CaughtUp ==
    ~broken => \A n \in 1..scanned : Answerable(n) => Answered(n) \/ (n = scanned /\ pc # "scan")

Inv == TypeOK /\ OrderedWithoutGap /\ RespondsToLast /\ CaughtUp

\* A response says what handle makes of the request it is for.
Handled(r) == sent[r.of].form = "request" => r = handle(r.of)

\* That is so of all responses written, and of the one to write.
AnswersHandled == (pc \in {"write", "blocked"} => Handled(resp)) /\ \A i \in DOMAIN out : Handled(out[i])
=============================================================================
