---------------------------- MODULE DeferredWindow ----------------------------
(***************************************************************************)
(* The computations of internal/resolver/deferred.go: the sliding window   *)
(* of observed capability tags and what Resolve makes of it.               *)
(***************************************************************************)
EXTENDS Registry, Integers

CONSTANTS OptWindowSize,      \* DeferredOptions.WindowSize
          OptNarrowThreshold  \* DeferredOptions.NarrowThreshold

ASSUME OptionsAssumption == OptWindowSize \in Int /\ OptNarrowThreshold \in Int

\* NewDeferredResolver replaces options that are not positive by its defaults.
windowSize == IF OptWindowSize <= 0 THEN 10 ELSE OptWindowSize
narrowThreshold == IF OptNarrowThreshold <= 0 THEN 3 ELSE OptNarrowThreshold

PushUnbounded(w, c) == Append(w, c)

PushStartingAfresh(w, c) == IF Len(w) >= windowSize THEN <<c>> ELSE Append(w, c)

PushKeepingOldest(w, c) == IF Len(w) >= windowSize THEN w ELSE Append(w, c)

\* Observe appends the tag and keeps the newest windowSize of them.
Push(w, c) ==
    LET longer == Append(w, c)
        n == Len(longer)
    IN  IF n > windowSize THEN SubSeq(longer, n - windowSize + 1, n) ELSE longer

\* Enough observations to narrow.
Narrowed(w) == Len(w) >= narrowThreshold

ResolveFromWithoutColdStart(count, observed, fallback, hints) ==
    hints \cup observed \cup fallback

\* Resolve, from the number of observations, the observed tags, what the
\* fallback resolver makes of the intent, and the hints.  The empty set stands
\* for ErrNoCapabilities.
ResolveFrom(count, observed, fallback, hints) ==
    hints \cup (IF count < narrowThreshold THEN allCapabilities ELSE observed \cup fallback)

\* Resolve("", nil) on a window at rest, as the bridge calls it.
Resolve(w) == ResolveFrom(Len(w), Range(w), {}, {})
=============================================================================
