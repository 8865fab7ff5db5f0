------------------------------- MODULE Exchange -------------------------------
(***************************************************************************)
(* What a caller of the stdio client may rely on (forward.Call of          *)
(* bridge.go, the import of a server): the exchange with the server seen   *)
(* from outside, without ids, pipes, readers or the mutex.                 *)
(*                                                                         *)
(* One call at a time is with the server, calls that gave up aside.  What  *)
(* a call returns is tied to how far the server came: only an answered     *)
(* call gets an answer, a deadline ends only a call whose request was      *)
(* written, a failed write means that the server is gone, and so does a    *)
(* failed read, which moreover never hides an answer the server gave,      *)
(* unless a call gave up before or Close threw the pipe away.              *)
(***************************************************************************)

CONSTANT Calls

VARIABLES
    status,  \* how far each call is
    server   \* "up", "gone" (exited or killed), "closed" (waited for by Close)

vars == <<status, server>>

\* "asked": the request is written; "replied": the server has answered it;
\* "notifying": a successful Initialize has its notification to send.
Unfinished == {"idle", "waiting", "asked", "replied", "notifying"}

WithServer == {"asked", "replied"}

Init ==
    /\ status = [c \in Calls |-> "idle"]
    /\ server = "up"

Move(c, from, to) ==
    /\ status[c] \in from
    /\ \E s \in to : status' = [status EXCEPT ![c] = s]
    /\ UNCHANGED server

Start(c) == Move(c, {"idle"}, {"waiting"})

Ask(c) ==
    /\ server = "up"
    /\ \A d \in Calls : status[d] \notin WithServer
    /\ Move(c, {"waiting"}, {"asked"})

Serve(c) ==
    /\ server = "up"
    /\ Move(c, {"asked"}, {"replied"})

Take(c) == Move(c, {"replied"}, {"answered", "notifying"})

\* A request of the server's own that bears the id of the call passes for an
\* answer (stdio.go does not look at the method).
Mistake(c) == Move(c, WithServer, {"empty", "notifying"})

Notify(c) ==
    /\ server = "up"
    /\ Move(c, {"notifying"}, {"answered", "empty"})

GiveUp(c) == Move(c, WithServer, {"timeout"})

WriteError(c) ==
    /\ server # "up"
    /\ Move(c, {"waiting", "notifying"}, {"writeErr"})

ReadError(c) ==
    /\ server # "up"
    /\ status[c] = "replied" => server = "closed" \/ \E d \in Calls : status[d] = "timeout"
    /\ Move(c, WithServer, {"readErr"})

ServerGone ==
    /\ server = "up"
    /\ server' = "gone"
    /\ UNCHANGED status

Close ==
    /\ server = "gone"
    /\ server' = "closed"
    /\ UNCHANGED status

\* The process of the callers dies: calls that had not ended never will.
Die ==
    /\ status' = [c \in Calls |-> IF status[c] \in Unfinished THEN "dead" ELSE status[c]]
    /\ UNCHANGED server

CallStep(c) ==
    \/ Start(c)
    \/ Ask(c)
    \/ Serve(c)
    \/ Take(c)
    \/ Mistake(c)
    \/ Notify(c)
    \/ GiveUp(c)
    \/ WriteError(c)
    \/ ReadError(c)

Next == (\E c \in Calls : CallStep(c)) \/ ServerGone \/ Close \/ Die

Spec == Init /\ [][Next]_vars
=============================================================================
