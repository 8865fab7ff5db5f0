----------------------------- MODULE StdioClient -----------------------------
(***************************************************************************)
(* The downstream MCP client of acp-bridge: one child process spoken to    *)
(* over two pipes by internal/mcpclient/stdio.go, and the per-call         *)
(* deadline Manager.Call puts on every request.                            *)
(*                                                                         *)
(* A member of Calls is one call of Initialize, ListTools or CallTool; any *)
(* number of them may overlap, as the mutex of the client allows.  Every   *)
(* readLine starts a goroutine that reads the shared bufio.Reader and      *)
(* hands its line to a channel of its own; a caller whose deadline fires   *)
(* leaves that goroutine behind.  Since a call starts its next reader only *)
(* after the previous one delivered, rdr[c] and ch[c] describe the one     *)
(* goroutine and channel a call can have.                                  *)
(*                                                                         *)
(* Two goroutines inside bufio.Reader.ReadBytes race on its buffer and     *)
(* indices.  The outcomes kept: the line arrives whole at one of them; the *)
(* bytes land at a stale offset and the reader keeps waiting; a fragment   *)
(* is returned; bytes that belong to no line (junk) stay in the buffer;    *)
(* an index runs out of bounds and the process panics.                     *)
(***************************************************************************)
EXTENDS Naturals, Sequences

CONSTANTS Calls,     \* the calls made on the client
          NoCall,    \* mu is free; the line belongs to no call
          PipeCap,   \* lines a pipe holds before its writer blocks
          MaxNoise   \* bound: lines the server sends that answer no request

ASSUME CallsAssumption == NoCall \notin Calls
ASSUME BoundsAssumption == PipeCap \in Nat \ {0} /\ MaxNoise \in Nat

VARIABLES
    mu,        \* c.mu: the call holding the client's mutex, or NoCall
    nextID,    \* c.nextID
    pc,        \* where each call is in request / notify
    meth,      \* "initialize" is followed by a notification, "request" is not
    id,        \* the JSON-RPC id request() drew, 0 before
    expired,   \* ctx.Done() of the call is closed
    rdr,       \* the call's reader goroutine is inside ReadBytes
    ch,        \* the buffered channel of the call's latest readLine
    out,       \* what the call returned
    stdin,     \* pipe to the server
    pending,   \* requests the server has read and not answered
    stdout,    \* pipe from the server
    junk,      \* stray bytes in the bufio.Reader after a race
    life,      \* the child process: "up", "exited", "closed" (waited for)
    closing,   \* Close has been called
    noise      \* lines sent so far that answer no request

clientVars == <<mu, nextID, pc, meth, id, expired, out>>
readerVars == <<rdr, ch, junk>>
serverVars == <<stdin, pending, stdout, life, closing, noise>>
vars == <<clientVars, readerVars, serverVars>>

-----------------------------------------------------------------------------
(* Messages *)

Ids == Nat

\* A request on the wire; id 0 stands for a notification (no id).
Msg == [id : Ids, call : Calls]

\* What the client can tell apart in a line: whether it parses ("garbage" does
\* not), its id (0: none), and for the properties only, the call it answers.
Line == [type : {"response", "request", "notification", "garbage"},
         id : Ids, call : Calls \cup {NoCall}, ok : BOOLEAN]

Response(m, ok) == [type |-> "response", id |-> m.id, call |-> m.call, ok |-> ok]
Unsolicited(t, i) == [type |-> t, id |-> i, call |-> NoCall, ok |-> TRUE]
Garbage == Unsolicited("garbage", 0)

NoLine == [type |-> "none"]
Eof == [type |-> "eof"]

\* Outcomes of a call that carry no line.
Failures == {[type |-> "none"], [type |-> "timeout"], [type |-> "readErr"], [type |-> "writeErr"]}
Failed(why) == [type |-> why]

MsgOf(c) == [id |-> id[c], call |-> c]

AnswersAnyId(l, i) == l.type # "garbage" /\ l.id # 0

AnswersIfOk(l, i) == l.type # "garbage" /\ l.id = i /\ l.ok

\* The test request() makes of a line: it parses and its id is the one sent.
\* Neither the presence of a result nor the absence of a method is looked at.
Answers(l, i) == l.type # "garbage" /\ l.id = i
-----------------------------------------------------------------------------
Init ==
    /\ mu = NoCall
    /\ nextID = 0
    /\ pc = [c \in Calls |-> "idle"]
    /\ meth = [c \in Calls |-> "request"]
    /\ id = [c \in Calls |-> 0]
    /\ expired = [c \in Calls |-> FALSE]
    /\ rdr = [c \in Calls |-> FALSE]
    /\ ch = [c \in Calls |-> NoLine]
    /\ out = [c \in Calls |-> Failed("none")]
    /\ stdin = <<>>
    /\ pending = {}
    /\ stdout = <<>>
    /\ junk = FALSE
    /\ life = "up"
    /\ closing = FALSE
    /\ noise = 0

(* The calling goroutine *)

\* Initialize, ListTools, CallTool (through Manager.Call): the deadline runs
\* from here, before the mutex is asked for.
Begin(c, m) ==
    /\ pc[c] = "idle"
    /\ pc' = [pc EXCEPT ![c] = "lock"]
    /\ meth' = [meth EXCEPT ![c] = m]
    /\ UNCHANGED <<mu, nextID, id, expired, out, readerVars, serverVars>>

Expire(c) ==
    /\ pc[c] \notin {"idle", "done", "crashed"}
    /\ ~expired[c]
    /\ expired' = [expired EXCEPT ![c] = TRUE]
    /\ UNCHANGED <<mu, nextID, pc, meth, id, out, readerVars, serverVars>>

LockWithoutMutex(c) ==
    /\ pc[c] = "lock"
    /\ mu' = c
    /\ nextID' = nextID + 1
    /\ id' = [id EXCEPT ![c] = nextID + 1]
    /\ pc' = [pc EXCEPT ![c] = "write"]
    /\ UNCHANGED <<meth, expired, out, readerVars, serverVars>>

\* c.mu.Lock(), which no deadline interrupts, and the id of the request.
Lock(c) ==
    /\ pc[c] = "lock"
    /\ mu = NoCall
    /\ mu' = c
    /\ nextID' = nextID + 1
    /\ id' = [id EXCEPT ![c] = nextID + 1]
    /\ pc' = [pc EXCEPT ![c] = "write"]
    /\ UNCHANGED <<meth, expired, out, readerVars, serverVars>>

\* The request is written; readLine starts its goroutine.  A full pipe blocks
\* the writer whatever its deadline says.
WriteOK(c) ==
    /\ pc[c] = "write"
    /\ life = "up" /\ Len(stdin) < PipeCap
    /\ stdin' = Append(stdin, MsgOf(c))
    /\ pc' = [pc EXCEPT ![c] = "read"]
    /\ rdr' = [rdr EXCEPT ![c] = TRUE]
    /\ UNCHANGED <<mu, nextID, meth, id, expired, out, ch, junk,
                   pending, stdout, life, closing, noise>>

\* return with the deferred c.mu.Unlock().
Return(c, o) ==
    /\ pc' = [pc EXCEPT ![c] = "done"]
    /\ mu' = NoCall
    /\ out' = [out EXCEPT ![c] = o]
    /\ UNCHANGED <<nextID, meth, id, expired>>

\* The pipe's other end is gone: the write fails, in request or in notify.
WriteFail(c) ==
    /\ pc[c] \in {"write", "nwrite"}
    /\ life # "up"
    /\ Return(c, Failed("writeErr"))
    /\ UNCHANGED <<readerVars, serverVars>>

CtxDoneBetweenLines(c) ==
    /\ pc[c] = "read"
    /\ expired[c] /\ ~rdr[c]
    /\ Return(c, Failed("timeout"))
    /\ UNCHANGED <<readerVars, serverVars>>

\* select: ctx.Done().  The reader goroutine is left as it is.
CtxDone(c) ==
    /\ pc[c] = "read"
    /\ expired[c]
    /\ Return(c, Failed("timeout"))
    /\ UNCHANGED <<readerVars, serverVars>>

\* select: the channel has an error.
RecvErr(c) ==
    /\ pc[c] = "read"
    /\ ch[c] = Eof
    /\ Return(c, Failed("readErr"))
    /\ UNCHANGED <<readerVars, serverVars>>

\* select: a line that is not the answer; the loop reads again.
RecvSkip(c) ==
    /\ pc[c] = "read"
    /\ ch[c] \in Line /\ ~Answers(ch[c], id[c])
    /\ rdr' = [rdr EXCEPT ![c] = TRUE]
    /\ ch' = [ch EXCEPT ![c] = NoLine]
    /\ UNCHANGED <<clientVars, junk, serverVars>>

\* select: the answer, a result or an error object.  A successful Initialize
\* goes on to notify; everything else returns.
RecvAnswer(c) ==
    /\ pc[c] = "read"
    /\ ch[c] \in Line /\ Answers(ch[c], id[c])
    /\ mu' = NoCall
    /\ out' = [out EXCEPT ![c] = ch[c]]
    /\ pc' = [pc EXCEPT ![c] = IF meth[c] = "initialize" /\ ch[c].ok THEN "nlock" ELSE "done"]
    /\ UNCHANGED <<nextID, meth, id, expired, readerVars, serverVars>>

\* notify: its own Lock, a write without an id, Unlock; no deadline applies.
NotifyLock(c) ==
    /\ pc[c] = "nlock"
    /\ mu = NoCall
    /\ mu' = c
    /\ pc' = [pc EXCEPT ![c] = "nwrite"]
    /\ UNCHANGED <<nextID, meth, id, expired, out, readerVars, serverVars>>

NotifyWrite(c) ==
    /\ pc[c] = "nwrite"
    /\ life = "up" /\ Len(stdin) < PipeCap
    /\ stdin' = Append(stdin, [id |-> 0, call |-> c])
    /\ Return(c, out[c])
    /\ UNCHANGED <<readerVars, pending, stdout, life, closing, noise>>
-----------------------------------------------------------------------------
(* The reader goroutines, of running calls and of calls that timed out *)

Racing(r) == \E d \in Calls \ {r} : rdr[d]

Deliver(r, l) ==
    /\ rdr' = [rdr EXCEPT ![r] = FALSE]
    /\ ch' = [ch EXCEPT ![r] = l]

\* ReadBytes returns the next line.
ReadWhole(r) ==
    /\ rdr[r] /\ stdout # <<>> /\ ~junk
    /\ Deliver(r, Head(stdout))
    /\ stdout' = Tail(stdout)
    /\ junk' \in IF Racing(r) THEN BOOLEAN ELSE {FALSE}
    /\ UNCHANGED <<clientVars, stdin, pending, life, closing, noise>>

\* Stray bytes come back, alone or glued to the next line.
ReadJunk(r) ==
    /\ rdr[r] /\ junk
    /\ Deliver(r, Garbage)
    /\ \/ UNCHANGED stdout
       \/ stdout # <<>> /\ stdout' = Tail(stdout)
    /\ junk' = FALSE
    /\ UNCHANGED <<clientVars, stdin, pending, life, closing, noise>>

\* Two readers: the line is written over a stale offset.  Its reader returns a
\* fragment of it, or finds no newline and goes on reading.
ReadTorn(r) ==
    /\ rdr[r] /\ stdout # <<>> /\ Racing(r)
    /\ stdout' = Tail(stdout)
    /\ \/ Deliver(r, Garbage) /\ junk' \in BOOLEAN
       \/ junk' = TRUE /\ UNCHANGED <<rdr, ch>>
    /\ UNCHANGED <<clientVars, stdin, pending, life, closing, noise>>

\* Two readers: slice bounds out of range inside bufio end the process.
ReadPanic(r) ==
    /\ rdr[r] /\ stdout # <<>> /\ Racing(r)
    /\ pc' = [c \in Calls |-> IF pc[c] = "done" THEN "done" ELSE "crashed"]
    /\ rdr' = [c \in Calls |-> FALSE]
    /\ UNCHANGED <<mu, nextID, meth, id, expired, out, ch, junk, serverVars>>

ReadEOFWithPartialLine(r) ==
    /\ rdr[r] /\ stdout = <<>> /\ life # "up"
    /\ Deliver(r, [type |-> "partial"])
    /\ UNCHANGED <<clientVars, junk, serverVars>>

ReadEOFAtExit(r) ==
    /\ rdr[r] /\ life # "up"
    /\ Deliver(r, Eof)
    /\ UNCHANGED <<clientVars, junk, serverVars>>

\* The pipe is drained and its writer is gone.
ReadEOF(r) ==
    /\ rdr[r] /\ stdout = <<>> /\ life # "up"
    /\ Deliver(r, Eof)
    /\ UNCHANGED <<clientVars, junk, serverVars>>
-----------------------------------------------------------------------------
(* Close *)

\* The bridge process has not panicked.
Alive == \A c \in Calls : pc[c] # "crashed"

\* closer.Close() and Process.Kill(); no mutex is taken.
CloseKill ==
    /\ ~closing /\ Alive
    /\ closing' = TRUE
    /\ life' = IF life = "up" THEN "exited" ELSE life
    /\ UNCHANGED <<clientVars, readerVars, stdin, pending, stdout, noise>>

\* cmd.Wait() closes the read end: what was still in the pipe is gone, and only
\* lines that the bufio.Reader had taken in already can still be read.
CloseWait ==
    /\ Alive /\ closing /\ life = "exited"
    /\ life' = "closed"
    /\ \E buffered \in 0..Len(stdout) : stdout' = SubSeq(stdout, 1, buffered)
    /\ UNCHANGED <<clientVars, readerVars, stdin, pending, closing, noise>>
-----------------------------------------------------------------------------
(* The server process, external: it answers in any order, late, with an    *)
(* error or never, and may send notifications, requests and log lines.     *)

ServerRead ==
    /\ life = "up" /\ stdin # <<>>
    /\ pending' = IF Head(stdin).id = 0 THEN pending ELSE pending \cup {Head(stdin)}
    /\ stdin' = Tail(stdin)
    /\ UNCHANGED <<clientVars, readerVars, stdout, life, closing, noise>>

ServerReply(m, ok) ==
    /\ life = "up" /\ Len(stdout) < PipeCap
    /\ m \in pending
    /\ pending' = pending \ {m}
    /\ stdout' = Append(stdout, Response(m, ok))
    /\ UNCHANGED <<clientVars, readerVars, stdin, life, closing, noise>>

\* Server-initiated requests carry ids of the server's own numbering.
ServerSend(l) ==
    /\ life = "up" /\ Len(stdout) < PipeCap
    /\ noise < MaxNoise
    /\ noise' = noise + 1
    /\ stdout' = Append(stdout, l)
    /\ UNCHANGED <<clientVars, readerVars, stdin, pending, life, closing>>

\* The child exits by itself, or CommandContext kills it on SIGTERM.
ServerExit ==
    /\ life = "up"
    /\ life' = "exited"
    /\ UNCHANGED <<clientVars, readerVars, stdin, pending, stdout, closing, noise>>

NoiseLines == {Unsolicited("notification", 0), Garbage}
                \cup {Unsolicited("request", i) : i \in 1..(nextID + 1)}
-----------------------------------------------------------------------------
Terminated == \A c \in Calls : pc[c] \in {"done", "crashed"}

CallerStep(c) ==
    \/ \E m \in {"initialize", "request"} : Begin(c, m)
    \/ Expire(c)
    \/ Lock(c)
    \/ WriteOK(c)
    \/ WriteFail(c)
    \/ CtxDone(c)
    \/ RecvErr(c)
    \/ RecvSkip(c)
    \/ RecvAnswer(c)
    \/ NotifyLock(c)
    \/ NotifyWrite(c)

ReaderStep(r) ==
    \/ ReadWhole(r)
    \/ ReadJunk(r)
    \/ ReadTorn(r)
    \/ ReadPanic(r)
    \/ ReadEOF(r)

ServerStep ==
    \/ ServerRead
    \/ \E m \in pending, ok \in BOOLEAN : ServerReply(m, ok)
    \/ \E l \in NoiseLines : ServerSend(l)
    \/ ServerExit

Next ==
    \/ \E c \in Calls : CallerStep(c)
    \/ \E r \in Calls : ReaderStep(r)
    \/ ServerStep
    \/ CloseKill
    \/ CloseWait
    \/ Terminated /\ UNCHANGED vars

Spec == Init /\ [][Next]_vars

(***************************************************************************)
(* Go runs every runnable goroutine, deadlines fire, and a Mutex is not    *)
(* starved.  The server is only assumed to drain its standard input; it    *)
(* need not answer, and it need not exit.                                  *)
(***************************************************************************)
RunCall(c) ==
    \/ Lock(c) \/ WriteOK(c) \/ WriteFail(c)
    \/ RecvErr(c) \/ RecvSkip(c) \/ RecvAnswer(c) \/ NotifyLock(c) \/ NotifyWrite(c)

Fairness ==
    /\ \A c \in Calls : /\ WF_vars(RunCall(c))
                        /\ WF_vars(Expire(c))
                        /\ WF_vars(CtxDone(c))
                        /\ WF_vars(ReaderStep(c))
    /\ WF_vars(ServerRead)

FairSpec == Spec /\ Fairness
-----------------------------------------------------------------------------
(* Properties *)

\* Every variable keeps its type: program counters, ids, pipes and the lines in
\* the channels of readLine are what stdio.go declares.
TypeOK ==
    /\ mu \in Calls \cup {NoCall}
    /\ nextID \in Ids
    /\ pc \in [Calls -> {"idle", "lock", "write", "read", "nlock", "nwrite", "done", "crashed"}]
    /\ meth \in [Calls -> {"initialize", "request"}]
    /\ id \in [Calls -> Ids]
    /\ expired \in [Calls -> BOOLEAN]
    /\ rdr \in [Calls -> BOOLEAN]
    /\ ch \in [Calls -> Line \cup {NoLine, Eof}]
    /\ out \in [Calls -> Line \cup Failures]
    /\ stdin \in Seq(Msg)
    /\ pending \in SUBSET Msg
    /\ stdout \in Seq(Line)
    /\ junk \in BOOLEAN
    /\ life \in {"up", "exited", "closed"}
    /\ closing \in BOOLEAN
    /\ noise \in Nat

\* A response a call returns is the response to that very call: a late answer
\* to a call that timed out, or one meant for an overlapping call, is never
\* handed to somebody else (request: mutex, fresh id, id comparison).
OwnAnswer ==
    \A c \in Calls : out[c].type = "response" => out[c].call = c

\* The server has answered call c.
Answered(c) ==
    /\ MsgOf(c) \notin pending
    /\ \A k \in 1..Len(stdin) : stdin[k] # MsgOf(c)

\* The answer is still on its way to call c.
AnswerUnderway(c) ==
    \/ ch[c].type = "response" /\ ch[c].call = c
    \/ \E k \in 1..Len(stdout) : stdout[k].type = "response" /\ stdout[k].call = c

\* While a call waits in readLine and the process is not being torn down, the
\* answer the server gave is in the pipe or in the call's own channel.
NoAnswerLost ==
    \A c \in Calls : pc[c] = "read" /\ Answered(c) /\ life # "closed" => AnswerUnderway(c)

NoTimeoutYet == \A c \in Calls : out[c].type # "timeout"

\* As long as no call has timed out, a waiting call's answer is never lost,
\* whatever noise, errors, exits and interleavings there were.
NoLossBeforeTimeout == NoTimeoutYet => NoAnswerLost

\* Requests reach the server in the order of their ids (request holds c.mu
\* from drawing the id until the answer), also behind calls that timed out: a
\* request still to be written is newer than every one in the pipe, and those
\* are newer, in order, than the ones the server has read.
RequestsInIdOrder ==
    /\ \A c \in Calls : pc[c] = "write" =>
           /\ \A k \in DOMAIN stdin : stdin[k].id < id[c]
           /\ \A m \in pending : m.id < id[c]
    /\ \A k \in DOMAIN stdin : stdin[k].id # 0 =>
           /\ \A j \in 1..(k - 1) : stdin[j].id < stdin[k].id
           /\ \A m \in pending : m.id < stdin[k].id

\* Every call returns, even if the server never answers, answers with noise or
\* dies, and even behind calls that time out (unless the process panicked).
CallReturns ==
    \A c \in Calls : (pc[c] # "idle") ~> (pc[c] \in {"done", "crashed"})
-----------------------------------------------------------------------------
(* The client as an implementation of Exchange *)

\* What call c has returned with, o.  An answer is the server's response, its
\* error object included; a line that merely passes for one is "empty".
Outcome(c, o) ==
    IF o \in Failures THEN o.type
    ELSE IF o.type # "response" THEN "empty"
    ELSE IF o.call = c THEN "answered" ELSE "misdelivered"

\* How a call looks from outside.
Status(c) ==
    CASE pc[c] = "idle" -> "idle"
      [] pc[c] \in {"lock", "write"} -> "waiting"
      [] pc[c] = "read" -> IF Answered(c) THEN "replied" ELSE "asked"
      [] pc[c] \in {"nlock", "nwrite"} -> "notifying"
      [] pc[c] = "done" -> Outcome(c, out[c])
      [] pc[c] = "crashed" -> "dead"

Statuses == [c \in Calls |-> Status(c)]

Server == CASE life = "up" -> "up" [] life = "exited" -> "gone" [] life = "closed" -> "closed"

E == INSTANCE Exchange WITH Calls <- Calls, status <- Statuses, server <- Server

\* What a call returns fits how far the server came with it: no end of the
\* process, no pipe and no deadline turns an answer that was given into an
\* error before some call has timed out (readLine drains the pipe first), and
\* one call at a time is with the server.
ImplementsExchange == E!Spec
-----------------------------------------------------------------------------
(* The inductive invariant behind OwnAnswer *)

\* A call that has not locked has no id; ids are never above nextID and no two
\* calls share one.
IdsFresh ==
    /\ \A c \in Calls : id[c] <= nextID
    /\ \A c \in Calls : pc[c] \in {"idle", "lock"} => id[c] = 0
    /\ \A c, d \in Calls : id[c] = id[d] /\ id[c] # 0 => c = d

\* A response names the id that the call it answers drew.
Faithful(l) == l.type = "response" => l.id # 0 /\ l.call \in Calls /\ id[l.call] = l.id

\* Requests and responses keep the pairing of call and id everywhere they can
\* be: both pipes, the server, and the channels, orphaned ones included.
WireFaithful ==
    /\ \A k \in 1..Len(stdin) : stdin[k].id # 0 => id[stdin[k].call] = stdin[k].id
    /\ \A m \in pending : m.id # 0 /\ id[m.call] = m.id
    /\ \A k \in 1..Len(stdout) : Faithful(stdout[k])
    /\ \A c \in Calls : Faithful(ch[c])

Inv == TypeOK /\ IdsFresh /\ WireFaithful /\ OwnAnswer
-----------------------------------------------------------------------------
(* What RequestsInIdOrder and NoLossBeforeTimeout need besides *)

\* request and notify hold the mutex from the id to the answer.
MutexHeld == \A c \in Calls : pc[c] \in {"write", "read", "nwrite"} => mu = c

\* readLine starts one reader at a time, on an empty channel; until a call times
\* out only the call that waits has one, so that none of them race.
ReadersInTurn ==
    /\ \A c \in Calls :
          /\ pc[c] \in {"write", "read"} => id[c] # 0
          /\ pc[c] \in {"idle", "lock", "write"} => ~rdr[c] /\ ch[c] = NoLine
          /\ rdr[c] => ch[c] = NoLine
          /\ out[c].type = "timeout" => pc[c] = "done"
    /\ NoTimeoutYet => ~junk /\ \A c \in Calls : rdr[c] => pc[c] = "read"

OrderInv == MutexHeld /\ RequestsInIdOrder
LossInv == ReadersInTurn /\ NoLossBeforeTimeout
-----------------------------------------------------------------------------
(* What ImplementsExchange needs besides *)

\* The calls that have written their requests, and those of them whose request
\* is no longer on its way: the server has answered it.
Asking == {c \in Calls : pc[c] \notin {"idle", "lock", "write"}}
Settled == {c \in Asking : Answered(c)}

\* The server gets requests from calls that wrote them and answers each once.
AnswersOnlyAsked ==
    /\ \A k \in 1..Len(stdin) : stdin[k].id # 0 => stdin[k].call \in Asking
    /\ \A m \in pending : m.call \in Asking
    /\ \A k \in 1..Len(stdout) : stdout[k].type = "response" => stdout[k].call \in Settled
    /\ \A c \in Calls : ch[c].type = "response" => ch[c].call \in Settled

\* The end of the pipe is reported after its last line.
EofLast == \A c \in Calls : ch[c] = Eof => life # "up" /\ stdout = <<>>

\* A call notifies after it has its answer, and does not return without an outcome.
OutcomeKnown ==
    \A c \in Calls : /\ pc[c] \in {"nlock", "nwrite"} => out[c] \in Line
                     /\ pc[c] = "done" => out[c] # Failed("none")

ExchangeInv == AnswersOnlyAsked /\ EofLast /\ OutcomeKnown
=============================================================================
