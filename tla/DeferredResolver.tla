--------------------------- MODULE DeferredResolver ---------------------------
(***************************************************************************)
(* DeferredResolver as a shared object: Observe and Reset run under the    *)
(* write lock, Resolve copies the observation count and the observed tags  *)
(* under one read lock and works on the copies after releasing it, so      *)
(* other goroutines may observe or reset in between.                       *)
(***************************************************************************)
EXTENDS DeferredWindow

CONSTANTS Resolvers,      \* goroutines that call Resolve
          FallbackSets,   \* what the fallback resolver may make of an intent
          HintSets,       \* capability hints passed to Resolve
          MaxUpdates      \* bound: number of Observe and Reset calls

ASSUME ResolverAssumption ==
    /\ FallbackSets \in SUBSET (SUBSET Caps)
    /\ HintSets \in SUBSET (SUBSET Caps)
    /\ MaxUpdates \in Nat

VARIABLES
    window,    \* d.window, the tags only
    pc,        \* where each Resolve is
    args,      \* its hints and the tags its intent resolves to
    obsCount,  \* local copy of len(d.window)
    observed,  \* local copy of observedCaps()
    answer,    \* the tags it returned; {} is ErrNoCapabilities
    possible,  \* answers that were right at some moment since it was called
    updates    \* Observe and Reset calls made so far

locals == <<pc, args, obsCount, observed, answer>>
vars == <<window, locals, possible, updates>>

\* What Resolve would return if it ran without interruption now.
RightFor(w, p) == ResolveFrom(Len(w), Range(w), args[p].fallback, args[p].hints)

Init ==
    /\ window = <<>>
    /\ pc = [p \in Resolvers |-> "idle"]
    /\ args = [p \in Resolvers |-> [fallback |-> {}, hints |-> {}]]
    /\ obsCount = [p \in Resolvers |-> 0]
    /\ observed = [p \in Resolvers |-> {}]
    /\ answer = [p \in Resolvers |-> {}]
    /\ possible = [p \in Resolvers |-> {}]
    /\ updates = 0

\* The window changes while some goroutines are inside Resolve.
Update(w) ==
    /\ updates < MaxUpdates
    /\ updates' = updates + 1
    /\ window' = w
    /\ possible' = [p \in Resolvers |->
                      IF pc[p] \in {"called", "copied"} THEN possible[p] \cup {RightFor(w, p)}
                                                        ELSE possible[p]]
    /\ UNCHANGED locals

\* A tag that is not blank; blank ones are ignored.
Observe(c) == Update(Push(window, c))

Reset == Update(<<>>)

CallResolve(p, f, h) ==
    /\ pc[p] = "idle"
    /\ pc' = [pc EXCEPT ![p] = "called"]
    /\ args' = [args EXCEPT ![p] = [fallback |-> f, hints |-> h]]
    /\ possible' = [possible EXCEPT ![p] = {ResolveFrom(Len(window), Range(window), f, h)}]
    /\ UNCHANGED <<window, obsCount, observed, answer, updates>>

\* The read-locked section.
Copy(p) ==
    /\ pc[p] = "called"
    /\ pc' = [pc EXCEPT ![p] = "copied"]
    /\ obsCount' = [obsCount EXCEPT ![p] = Len(window)]
    /\ observed' = [observed EXCEPT ![p] = Range(window)]
    /\ UNCHANGED <<window, args, answer, possible, updates>>

ReturnRereading(p) ==
    /\ pc[p] = "copied"
    /\ pc' = [pc EXCEPT ![p] = "done"]
    /\ answer' = [answer EXCEPT ![p] =
                    ResolveFrom(obsCount[p], Range(window), args[p].fallback, args[p].hints)]
    /\ UNCHANGED <<window, args, obsCount, observed, possible, updates>>

\* The rest of Resolve, on the copies.
Return(p) ==
    /\ pc[p] = "copied"
    /\ pc' = [pc EXCEPT ![p] = "done"]
    /\ answer' = [answer EXCEPT ![p] =
                    ResolveFrom(obsCount[p], observed[p], args[p].fallback, args[p].hints)]
    /\ UNCHANGED <<window, args, obsCount, observed, possible, updates>>

\* The goroutine is free to call again.
Again(p) ==
    /\ pc[p] = "done"
    /\ pc' = [pc EXCEPT ![p] = "idle"]
    /\ args' = [args EXCEPT ![p] = [fallback |-> {}, hints |-> {}]]
    /\ obsCount' = [obsCount EXCEPT ![p] = 0]
    /\ observed' = [observed EXCEPT ![p] = {}]
    /\ answer' = [answer EXCEPT ![p] = {}]
    /\ possible' = [possible EXCEPT ![p] = {}]
    /\ UNCHANGED <<window, updates>>

Next ==
    \/ \E c \in Caps : Observe(c)
    \/ Reset
    \/ \E p \in Resolvers :
          \/ \E f \in FallbackSets, h \in HintSets : CallResolve(p, f, h)
          \/ Copy(p)
          \/ Return(p)
          \/ Again(p)

Spec == Init /\ [][Next]_vars
-----------------------------------------------------------------------------
\* Resolve is atomic although it computes outside the lock: it returns what an
\* uninterrupted Resolve would have returned at some moment during the call.
Linearizable ==
    \A p \in Resolvers : pc[p] = "done" => answer[p] \in possible[p]

\* Resolve never fails with ErrNoCapabilities once tools are registered, even
\* when Reset empties the window between its two halves.
NeverEmpty ==
    \A p \in Resolvers : pc[p] = "done" => answer[p] # {}
-----------------------------------------------------------------------------
(* The inductive invariant *)

\* Every variable has its type.
TypeOK ==
    /\ window \in Seq(Caps)
    /\ pc \in [Resolvers -> {"idle", "called", "copied", "done"}]
    /\ args \in [Resolvers -> [fallback : SUBSET Caps, hints : SUBSET Caps]]
    /\ obsCount \in [Resolvers -> Nat]
    /\ observed \in [Resolvers -> SUBSET Caps]
    /\ answer \in [Resolvers -> SUBSET Caps]
    /\ possible \in [Resolvers -> SUBSET SUBSET Caps]
    /\ updates \in 0..MaxUpdates

\* What the goroutine makes of its copies.
Copied(p) == ResolveFrom(obsCount[p], observed[p], args[p].fallback, args[p].hints)

\* What Resolve would return now is possible before it copies; what it will
\* return is possible, whatever became of the window, once it has copied.
StillRight ==
    \A p \in Resolvers :
        /\ pc[p] = "called" => RightFor(window, p) \in possible[p]
        /\ pc[p] = "copied" => Copied(p) \in possible[p]

\* With a tool registered no window, not even the empty one, resolves to
\* ErrNoCapabilities.
AlwaysSome == Tools # {} => \A p \in Resolvers : {} \notin possible[p]

Inv == TypeOK /\ StillRight /\ AlwaysSome /\ Linearizable
=============================================================================
