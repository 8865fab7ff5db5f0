----------------------------- MODULE BridgeProofs -----------------------------
(* Proofs about Bridge, for every registry, window size, threshold and host. *)
EXTENDS Bridge, SequenceTheorems, FiniteSetTheorems, TLAPS
-----------------------------------------------------------------------------
(* The window *)

\* The effective options are positive whatever the configuration says.
LEMMA OptionsPositive == windowSize \in Nat \ {0} /\ narrowThreshold \in Nat \ {0}
  BY OptionsAssumption DEF windowSize, narrowThreshold

\* The newest m entries of a sequence.
LEMMA SuffixProperties ==
    ASSUME NEW S, NEW s \in Seq(S), NEW m \in 1..Len(s),
           NEW p, p = SubSeq(s, Len(s) - m + 1, Len(s))
    PROVE  p \in Seq(S) /\ Len(p) = m /\ p # <<>> /\ p[m] = s[Len(s)]
  <1>1. p \in Seq(S)
    BY SMT
  <1>2. Len(p) = m
    BY SMT
  <1>3. p[m] = s[Len(s)]
    <2>1. /\ Len(s) - m + 1 \in Int /\ Len(s) \in Int
          /\ \A i \in (Len(s) - m + 1)..Len(s) : s[i] \in S
      OBVIOUS
    <2>2. \A i \in 1..(Len(s) - (Len(s) - m + 1) + 1) : p[i] = s[(Len(s) - m + 1) + i - 1]
      BY <2>1, SubSeqProperties
    <2>3. m \in 1..(Len(s) - (Len(s) - m + 1) + 1) /\ (Len(s) - m + 1) + m - 1 = Len(s)
      OBVIOUS
    <2> QED
      BY <2>2, <2>3
  <1>4. p # <<>>
    <2>1. Len(<<>>) = 0 /\ m # 0
      OBVIOUS
    <2> QED
      BY <1>2, <2>1, Zenon
  <1> QED
    BY <1>1, <1>2, <1>3, <1>4

\* Observe keeps the window within its size, ends it with the new tag and never
\* shortens it.
LEMMA PushProperties ==
    ASSUME NEW w \in Seq(Caps), NEW c \in Caps, NEW p, p = Push(w, c)
    PROVE  p \in Seq(Caps) /\ Len(p) <= windowSize /\ p # <<>> /\ p[Len(p)] = c
             /\ (Len(w) <= windowSize => Len(w) <= Len(p))
  <1>1. PICK l : l = Append(w, c)
    OBVIOUS
  <1>2. l \in Seq(Caps) /\ Len(l) = Len(w) + 1 /\ l[Len(l)] = c /\ l # <<>>
    BY <1>1
  <1>3. CASE Len(l) > windowSize
    <2>1. windowSize \in 1..Len(l)
      BY <1>2, <1>3, OptionsPositive
    <2>2. p = SubSeq(l, Len(l) - windowSize + 1, Len(l))
      BY <1>1, <1>3, Zenon DEF Push
    <2>3. p \in Seq(Caps) /\ Len(p) = windowSize /\ p # <<>> /\ p[windowSize] = l[Len(l)]
      BY <1>2, <2>1, <2>2, SuffixProperties
    <2> QED
      BY <1>2, <2>3, OptionsPositive
  <1>4. CASE ~(Len(l) > windowSize)
    BY <1>1, <1>2, <1>4, OptionsPositive DEF Push
  <1> QED
    BY <1>3, <1>4

\* The observed tags are tags, and there are some as soon as there is an
\* observation.
LEMMA ObservedTags ==
    ASSUME NEW w \in Seq(Caps)
    PROVE  /\ Len(w) \in Nat /\ Range(w) \in SUBSET Caps
           /\ Len(w) # 0 => Range(w) # {}
  <1>1. Len(w) \in Nat /\ \A i \in DOMAIN w : w[i] \in Caps
    OBVIOUS
  <1>2. Range(w) \in SUBSET Caps
    BY <1>1, Zenon DEF Range
  <1>3. ASSUME Len(w) # 0 PROVE Range(w) # {}
    <2>1. 1 \in DOMAIN w
      BY <1>3
    <2> QED
      BY <2>1, Zenon DEF Range
  <1> QED
    BY <1>1, <1>2, <1>3

\* A registry with a tool has a capability tag.
LEMMA SomeCapability == Tools # {} => allCapabilities # {}
  <1> SUFFICES ASSUME NEW t \in Tools PROVE allCapabilities # {}
    OBVIOUS
  <1>1. CapsOf[t] \in Seq(Caps) /\ Len(CapsOf[t]) # 0
    BY RegistryAssumption
  <1>2. Range(CapsOf[t]) # {}
    BY <1>1, ObservedTags
  <1> QED
    BY <1>2, Zenon DEF allCapabilities

\* With a tool registered a Resolve that nothing interrupts never fails,
\* whatever the window: below the threshold it offers everything, at or above
\* it there is an observed tag.
LEMMA ResolveSome ==
    ASSUME NEW w \in Seq(Caps), NEW f, NEW h, Tools # {}
    PROVE  ResolveFrom(Len(w), Range(w), f, h) # {}
  <1>1. CASE Len(w) < narrowThreshold
    BY <1>1, SomeCapability DEF ResolveFrom
  <1>2. CASE ~(Len(w) < narrowThreshold)
    <2>1. Len(w) # 0
      BY <1>2, OptionsPositive
    <2>2. Range(w) # {}
      BY <2>1, ObservedTags
    <2> QED
      BY <1>2, <2>2 DEF ResolveFrom
  <1> QED
    BY <1>1, <1>2
-----------------------------------------------------------------------------
\* The number of listed tools is a natural number.
LEMMA SurfaceSize == Cardinality(Surface) \in Nat
  <1>1. Surface \subseteq Tools /\ IsFiniteSet(Tools)
    BY RegistryAssumption DEF Surface, Lookup
  <1> QED
    BY <1>1, FS_Subset, FS_CardinalityType

\* A tool one of whose tags ends the window is on the surface, narrowed or not.
LEMMA LastTagListed ==
    ASSUME NEW t \in Tools, window \in Seq(Caps), window # <<>>,
           window[Len(window)] \in Range(CapsOf[t])
    PROVE  t \in Surface
  <1> DEFINE x == window[Len(window)]
  <1>1. x \in Range(window)
    <2>1. Len(window) \in DOMAIN window
      OBVIOUS
    <2> QED
      BY <2>1, Zenon DEF Range
  <1>2. x \in allCapabilities
    BY Zenon DEF allCapabilities
  <1>3. x \in Resolve(window)
    BY <1>1, <1>2 DEF Resolve, ResolveFrom
  <1> QED
    BY <1>3 DEF Surface, Lookup

\* What the bridge writes are messages.
LEMMA ReplyTypes ==
    /\ \A r \in Request : \A k \in {"result", "isError", "placeholder", "error", "unknownTool"} :
          Reply(k, r) \in Message
    /\ \A r \in Request : ToolsReply(r, {}) \in Message /\ ToolsReply(r, Surface) \in Message
    /\ ListChanged \in Message
    /\ NoRequest \in Request
  BY DEF Reply, ToolsReply, ListChanged, NoRequest, Plain, Message, Request, Surface, Lookup
-----------------------------------------------------------------------------
\* The session starts with an empty window and nothing in progress.
LEMMA InitInv == Init => Inv
  <1> SUFFICES ASSUME Init PROVE Inv
    OBVIOUS
  <1>1. TypeOK
    <2>1. /\ refetch \in BOOLEAN /\ open \in BOOLEAN
          /\ pc \in {"idle", "observe", "forward", "stopped", "failed"}
      BY Zenon DEF Init
    <2>2. /\ window \in Seq(Caps) /\ Len(window) <= windowSize
          /\ inbox \in Seq(Request) /\ outbox \in Seq(Message)
          /\ prevToolCount \in Nat /\ pos \in Nat \ {0} /\ sent \in Nat /\ asked \in Nat
          /\ view \in SUBSET Tools /\ waiting \in SUBSET Nat /\ cur \in Request
      BY OptionsPositive, ReplyTypes DEF Init
    <2> QED
      BY <2>1, <2>2 DEF TypeOK
  <1>2. LastObserved
    BY DEF Init, LastObserved
  <1> QED
    BY <1>1, <1>2 DEF Inv

\* Every step of the serve loop and of the host keeps the invariant.
LEMMA NextInv == Inv /\ [Next]_vars => Inv'
  <1> SUFFICES ASSUME Inv, [Next]_vars PROVE Inv'
    OBVIOUS
  <1>1. ASSUME Ignore
        PROVE  Inv'
    <2>1. TypeOK'
      BY <1>1 DEF Ignore, Take, Inv, TypeOK, bridgeVars, hostVars
    <2>2. LastObserved'
      BY <1>1 DEF Ignore, Take, Inv, TypeOK, LastObserved, bridgeVars, hostVars
    <2> QED
      BY <2>1, <2>2 DEF Inv
  <1>2. ASSUME HandleOther
        PROVE  Inv'
    <2>1. TypeOK'
      BY <1>2, ReplyTypes DEF HandleOther, Take, Send, Inv, TypeOK, bridgeVars, hostVars
    <2>2. LastObserved'
      BY <1>2 DEF HandleOther, Take, Send, Inv, TypeOK, LastObserved, bridgeVars, hostVars
    <2> QED
      BY <2>1, <2>2 DEF Inv
  <1>3. ASSUME HandleInvalid
        PROVE  Inv'
    <2>1. TypeOK'
      BY <1>3, ReplyTypes DEF HandleInvalid, Take, Send, Inv, TypeOK, bridgeVars, hostVars
    <2>2. LastObserved'
      BY <1>3 DEF HandleInvalid, Take, Send, Inv, TypeOK, LastObserved, bridgeVars, hostVars
    <2> QED
      BY <2>1, <2>2 DEF Inv
  <1>4. ASSUME HandleToolsList
        PROVE  Inv'
    <2>1. TypeOK'
      <3>1. Head(inbox) \in Request /\ inbox' \in Seq(Request)
        BY <1>4 DEF HandleToolsList, Take, Inv, TypeOK
      <3>2. outbox' \in Seq(Message) /\ prevToolCount' \in Nat
        <4>1. CASE Resolve(window) = {}
          <5>1. outbox' = Append(outbox, ToolsReply(Head(inbox), {})) /\ prevToolCount' = prevToolCount
            BY <1>4, <4>1, Zenon DEF HandleToolsList, Send
          <5> QED
            BY <3>1, <5>1, ReplyTypes DEF Inv, TypeOK
        <4>2. CASE Resolve(window) # {}
          <5>1. outbox' = Append(outbox, ToolsReply(Head(inbox), Surface))
                  /\ prevToolCount' = Cardinality(Surface)
            BY <1>4, <4>2, Zenon DEF HandleToolsList, Send
          <5> QED
            BY <3>1, <5>1, ReplyTypes, SurfaceSize DEF Inv, TypeOK
        <4> QED
          BY <4>1, <4>2
      <3> QED
        BY <1>4, <3>1, <3>2 DEF HandleToolsList, Inv, TypeOK, hostVars
    <2>2. LastObserved'
      BY <1>4 DEF HandleToolsList, Take, Send, Inv, TypeOK, LastObserved, bridgeVars, hostVars
    <2> QED
      BY <2>1, <2>2 DEF Inv
  <1>5. ASSUME HandleUnknownTool
        PROVE  Inv'
    <2>1. TypeOK'
      BY <1>5, ReplyTypes DEF HandleUnknownTool, Take, Send, Inv, TypeOK, bridgeVars, hostVars
    <2>2. LastObserved'
      BY <1>5 DEF HandleUnknownTool, Take, Send, Inv, TypeOK, LastObserved, bridgeVars, hostVars
    <2> QED
      BY <2>1, <2>2 DEF Inv
  <1>6. ASSUME BeginToolsCall
        PROVE  Inv'
    <2>1. TypeOK'
      BY <1>6 DEF BeginToolsCall, Take, Inv, TypeOK, bridgeVars, hostVars
    <2>2. LastObserved'
      BY <1>6 DEF BeginToolsCall, Take, Inv, TypeOK, LastObserved, bridgeVars, hostVars
    <2> QED
      BY <2>1, <2>2 DEF Inv
  <1>7. ASSUME ObserveTag
        PROVE  Inv'
    <2> DEFINE x == CapsOf[cur.tool][pos]
    <2>1. cur.tool \in Tools /\ CapsOf[cur.tool] \in Seq(Caps) /\ pos \in 1..Len(CapsOf[cur.tool])
      BY <1>7, RegistryAssumption DEF ObserveTag, Inv, TypeOK, LastObserved
    <2>2. x \in Caps /\ x \in Range(CapsOf[cur.tool])
      BY <2>1 DEF Range
    <2>3. window' = Push(window, x) /\ window \in Seq(Caps)
      BY <1>7 DEF ObserveTag, Inv, TypeOK
    <2> HIDE DEF x
    <2>4. TypeOK'
      <3>1. window' \in Seq(Caps) /\ Len(window') <= windowSize /\ pos' \in Nat \ {0}
        BY <1>7, <2>2, <2>3, PushProperties DEF ObserveTag, Inv, TypeOK
      <3> QED
        BY <1>7, <3>1 DEF ObserveTag, Inv, TypeOK, hostVars
    <2>5. LastObserved'
      BY <1>7, <2>1, <2>2, <2>3, PushProperties DEF ObserveTag, LastObserved
    <2> QED
      BY <2>4, <2>5 DEF Inv
  <1>8. ASSUME MaybeNotifyListChanged
        PROVE  Inv'
    <2>1. TypeOK'
      <3>1. outbox' = outbox \/ outbox' = Append(outbox, ListChanged)
        BY <1>8, Zenon DEF MaybeNotifyListChanged, Send
      <3>2. outbox' \in Seq(Message)
        BY <3>1, ReplyTypes DEF Inv, TypeOK
      <3> QED
        BY <1>8, <3>2 DEF MaybeNotifyListChanged, Inv, TypeOK, hostVars
    <2>2. LastObserved'
      BY <1>8, RegistryAssumption DEF MaybeNotifyListChanged, Send, Inv, TypeOK, LastObserved, bridgeVars, hostVars
    <2> QED
      BY <2>1, <2>2 DEF Inv
  <1>9. ASSUME ForwardReturns
        PROVE  Inv'
    <2>1. TypeOK'
      BY <1>9, ReplyTypes DEF ForwardReturns, Send, Inv, TypeOK, bridgeVars, hostVars, ForwardOutcomes
    <2>2. LastObserved'
      BY <1>9 DEF ForwardReturns, Send, Inv, TypeOK, LastObserved, bridgeVars, hostVars
    <2> QED
      BY <2>1, <2>2 DEF Inv
  <1>10. ASSUME ServeReturns
        PROVE  Inv'
    <2>1. TypeOK'
      BY <1>10 DEF ServeReturns, Inv, TypeOK, bridgeVars, hostVars
    <2>2. LastObserved'
      BY <1>10 DEF ServeReturns, Inv, TypeOK, LastObserved, bridgeVars, hostVars
    <2> QED
      BY <2>1, <2>2 DEF Inv
  <1>11. ASSUME NEW r \in Request, HostAsks(r)
        PROVE  Inv'
    <2>1. TypeOK'
      <3>1. inbox' \in Seq(Request) /\ sent' \in Nat /\ asked' \in Nat
        <4>1. r.id \in Nat
          BY DEF Request
        <4> QED
          BY <1>11, <4>1 DEF HostAsks, HostSend, Inv, TypeOK
      <3>2. waiting' \in SUBSET Nat
        BY <1>11 DEF HostAsks, HostSend, Inv, TypeOK, Request
      <3> QED
        BY <1>11, <3>1, <3>2 DEF HostAsks, HostSend, Inv, TypeOK, bridgeVars
    <2>2. LastObserved'
      BY <1>11 DEF HostAsks, HostSend, Inv, TypeOK, LastObserved, bridgeVars, hostVars
    <2> QED
      BY <2>1, <2>2 DEF Inv
  <1>12. ASSUME HostRefetches
        PROVE  Inv'
    <2>1. TypeOK'
      <3>1. Plain("list", sent + 1) \in Request
        BY DEF Plain, Request, Inv, TypeOK
      <3>2. inbox' \in Seq(Request) /\ sent' \in Nat
        <4>1. Plain("list", sent + 1).id \in Nat
          BY <3>1 DEF Request
        <4> QED
          BY <1>12, <3>1, <4>1 DEF HostRefetches, HostSend, Inv, TypeOK
      <3>3. waiting' \in SUBSET Nat
        BY <1>12 DEF HostRefetches, HostSend, Plain, Unanswerable, Inv, TypeOK
      <3>4. refetch' \in BOOLEAN
        BY <1>12, Zenon DEF HostRefetches
      <3> QED
        BY <1>12, <3>2, <3>3, <3>4 DEF HostRefetches, HostSend, Inv, TypeOK, bridgeVars
    <2>2. LastObserved'
      BY <1>12 DEF HostRefetches, HostSend, Inv, TypeOK, LastObserved, bridgeVars, hostVars
    <2> QED
      BY <2>1, <2>2 DEF Inv
  <1>13. ASSUME HostReceives
        PROVE  Inv'
    <2>1. TypeOK'
      <3>1. Head(outbox) \in Message /\ outbox' \in Seq(Message)
        BY <1>13 DEF HostReceives, Inv, TypeOK
      <3>2. view' \in SUBSET Tools /\ waiting' \in SUBSET Nat
        BY <1>13, <3>1 DEF HostReceives, Inv, TypeOK, Message
      <3>3. refetch' \in BOOLEAN
        BY <1>13, Zenon DEF HostReceives
      <3> QED
        BY <1>13, <3>1, <3>2, <3>3 DEF HostReceives, Inv, TypeOK, bridgeVars
    <2>2. LastObserved'
      BY <1>13 DEF HostReceives, Inv, TypeOK, LastObserved, bridgeVars, hostVars
    <2> QED
      BY <2>1, <2>2 DEF Inv
  <1>14. ASSUME HostCloses
        PROVE  Inv'
    <2>1. TypeOK'
      BY <1>14 DEF HostCloses, Inv, TypeOK, bridgeVars, hostVars
    <2>2. LastObserved'
      BY <1>14 DEF HostCloses, Inv, TypeOK, LastObserved, bridgeVars, hostVars
    <2> QED
      BY <2>1, <2>2 DEF Inv
  <1>15. ASSUME UNCHANGED vars
        PROVE  Inv'
    <2>1. TypeOK'
      BY <1>15 DEF vars, Inv, TypeOK, bridgeVars, hostVars
    <2>2. LastObserved'
      BY <1>15 DEF vars, Inv, TypeOK, LastObserved, bridgeVars, hostVars
    <2> QED
      BY <2>1, <2>2 DEF Inv
  <1>16. ASSUME NEW k \in {"list", "other", "invalid"}
         PROVE  Plain(k, sent + 1) \in Request
    BY DEF Plain, Request, Inv, TypeOK
  <1>17. ASSUME NEW t \in Tools \cup {UnknownTool}
         PROVE  CallOf(t, sent + 1) \in Request
    BY BridgeAssumption DEF CallOf, Request, Inv, TypeOK
  <1>18. ASSUME ServeFails
        PROVE  Inv'
    <2>1. TypeOK'
      BY <1>18 DEF ServeFails, Take, Inv, TypeOK, bridgeVars, hostVars
    <2>2. LastObserved'
      BY <1>18 DEF ServeFails, Take, Inv, TypeOK, LastObserved, bridgeVars, hostVars
    <2> QED
      BY <2>1, <2>2 DEF Inv
  <1>19. CASE BridgeStep
    BY <1>1, <1>2, <1>3, <1>4, <1>5, <1>6, <1>7, <1>8, <1>9, <1>10, <1>18, <1>19 DEF BridgeStep
  <1>20. CASE HostStep
    BY <1>11, <1>12, <1>13, <1>14, <1>16, <1>17, <1>20, UnnumberedAssumption DEF HostStep
  <1> QED
    BY <1>15, <1>19, <1>20 DEF Next
-----------------------------------------------------------------------------
\* The invariant holds throughout every session.
THEOREM Invariance == Spec => []Inv
  BY InitInv, NextInv, PTL DEF Spec

\* Type correctness; in particular the window never outgrows its size.
THEOREM TypeCorrect == Spec => []TypeOK
  <1>1. Inv => TypeOK
    BY DEF Inv
  <1> QED
    BY <1>1, Invariance, PTL

\* Narrowing never hides the tool a call is being forwarded to, for every
\* registry, window size and threshold, defaults included.
THEOREM CalledToolAlwaysListed == Spec => []CalledToolListed
  <1>1. Inv => CalledToolListed
    BY LastTagListed DEF Inv, TypeOK, LastObserved, CalledToolListed
  <1> QED
    BY <1>1, Invariance, PTL

\* Only ObserveTag changes the window.
LEMMA WindowStep ==
    ASSUME Inv, [Next]_vars
    PROVE  window' = window \/ ObserveTag
  <1>1. CASE BridgeStep
    BY <1>1 DEF BridgeStep, Ignore, HandleOther, HandleInvalid, HandleToolsList, HandleUnknownTool,
                BeginToolsCall, MaybeNotifyListChanged, ForwardReturns, ServeReturns, ServeFails,
                bridgeVars
  <1>2. CASE HostStep
    BY <1>2 DEF HostStep, HostAsks, HostRefetches, HostReceives, HostCloses, HostSend, bridgeVars
  <1>3. CASE UNCHANGED vars
    BY <1>3 DEF vars, bridgeVars
  <1> QED
    BY <1>1, <1>2, <1>3 DEF Next

\* The tags of a window after Observe are those it had and the observed one.
LEMMA PushTags ==
    ASSUME NEW w \in Seq(Caps), NEW c \in Caps, NEW p, p = Push(w, c)
    PROVE  Range(p) \subseteq Range(w) \cup {c}
  <1>1. PICK l : l = Append(w, c)
    OBVIOUS
  <1>2. l \in Seq(Caps) /\ \A i \in 1..Len(l) : l[i] \in Range(w) \cup {c}
    BY <1>1 DEF Range
  <1>3. CASE Len(l) > windowSize
    <2> DEFINE m == Len(l) - windowSize + 1
    <2>1. p = SubSeq(l, m, Len(l))
      BY <1>1, <1>3, Zenon DEF Push
    <2>2. m \in 1..Len(l)
      BY <1>2, <1>3, OptionsPositive
    <2>3. \A i \in DOMAIN p : \E j \in 1..Len(l) : p[i] = l[j]
      BY <1>2, <2>1, <2>2
    <2> QED
      BY <1>2, <2>3 DEF Range
  <1>4. CASE ~(Len(l) > windowSize)
    <2>1. p = l
      BY <1>1, <1>4, Zenon DEF Push
    <2> QED
      BY <1>2, <2>1 DEF Range
  <1> QED
    BY <1>3, <1>4

\* Once narrowed, only tools that share a tag with the tool being called come
\* back to the surface, for every registry, window size and threshold.
THEOREM WideningIsForTheCall == Spec => WidensOnlyForCall
  <1>1. Inv /\ [Next]_vars =>
          [Narrowed(window) =>
              \A t \in Surface' \ Surface : Range(CapsOf[t]) \cap Range(CapsOf[cur.tool]) # {}]_vars
    <2> SUFFICES ASSUME Inv, [Next]_vars, Narrowed(window), NEW t \in Surface' \ Surface
                 PROVE  Range(CapsOf[t]) \cap Range(CapsOf[cur.tool]) # {}
      OBVIOUS
    <2>1. window' # window
      BY DEF Surface
    <2>2. ObserveTag
      BY <2>1, WindowStep
    <2> DEFINE x == CapsOf[cur.tool][pos]
    <2>3. /\ x \in Caps /\ x \in Range(CapsOf[cur.tool]) /\ window' = Push(window, x)
          /\ window \in Seq(Caps) /\ Len(window) <= windowSize
      <3>1. CapsOf[cur.tool] \in Seq(Caps) /\ pos \in DOMAIN CapsOf[cur.tool]
        BY <2>2, RegistryAssumption DEF ObserveTag, Inv, TypeOK, LastObserved
      <3>2. x \in Range(CapsOf[cur.tool])
        BY <3>1, Zenon DEF Range
      <3> QED
        BY <2>2, <3>1, <3>2 DEF ObserveTag, Inv, TypeOK
    <2> HIDE DEF x
    <2>4. window' \in Seq(Caps) /\ Len(window) <= Len(window') /\ Range(window') \subseteq Range(window) \cup {x}
      BY <2>3, PushProperties, PushTags
    <2>5. Resolve(window) = Range(window) /\ Resolve(window') = Range(window')
      BY <2>3, <2>4, OptionsPositive DEF Narrowed, Resolve, ResolveFrom
    <2>6. PICK y \in Range(CapsOf[t]) : y \in Range(window') /\ y \notin Range(window)
      BY <2>5 DEF Surface, Lookup
    <2>7. y = x
      BY <2>4, <2>6
    <2> QED
      BY <2>3, <2>6, <2>7
  <1> QED
    BY <1>1, Invariance, PTL DEF Spec, WidensOnlyForCall
-----------------------------------------------------------------------------
(* Counting the places of a queue that hold an element of a set *)

Places(s, T) == {k \in 1..Len(s) : s[k] \in T}

\* There are finitely many of them.
LEMMA PlacesFinite ==
    ASSUME NEW S, NEW s \in Seq(S), NEW T
    PROVE  IsFiniteSet(Places(s, T)) /\ Cardinality(Places(s, T)) \in Nat
  <1>1. Len(s) \in Int /\ IsFiniteSet(1..Len(s))
    BY FS_Interval
  <1>2. Places(s, T) \in SUBSET (1..Len(s))
    BY DEF Places
  <1> QED
    BY <1>1, <1>2, FS_Subset, FS_CardinalityType

\* A message that is written takes one more place, at the end.
LEMMA PlacesAppend ==
    ASSUME NEW S, NEW s \in Seq(S), NEW e \in S, NEW T
    PROVE  Cardinality(Places(Append(s, e), T)) = Cardinality(Places(s, T)) + (IF e \in T THEN 1 ELSE 0)
  <1>1. Len(s) + 1 \notin Places(s, T)
    BY DEF Places
  <1>2. CASE e \in T
    <2>1. Places(Append(s, e), T) = Places(s, T) \cup {Len(s) + 1}
      BY <1>2 DEF Places
    <2> QED
      BY <1>1, <1>2, <2>1, PlacesFinite, FS_AddElement
  <1>3. CASE e \notin T
    <2>1. Places(Append(s, e), T) = Places(s, T)
      BY <1>3 DEF Places
    <2> QED
      BY <1>3, <2>1, PlacesFinite
  <1> QED
    BY <1>2, <1>3

\* A message that is read gives up one place, the first.
LEMMA PlacesTail ==
    ASSUME NEW S, NEW s \in Seq(S), s # <<>>, NEW T
    PROVE  Cardinality(Places(Tail(s), T)) = Cardinality(Places(s, T)) - (IF Head(s) \in T THEN 1 ELSE 0)
  <1> DEFINE later == {k \in 2..Len(s) : s[k] \in T}
             f == [k \in Places(Tail(s), T) |-> k + 1]
  <1>1. Tail(s) \in Seq(S) /\ Len(Tail(s)) = Len(s) - 1 /\ Head(s) = s[1] /\ Len(s) \in Nat \ {0}
          /\ \A k \in 1..(Len(s) - 1) : Tail(s)[k] = s[k + 1]
    OBVIOUS
  <1>2. f \in Bijection(Places(Tail(s), T), later)
    <2>1. f \in [Places(Tail(s), T) -> later]
      BY <1>1 DEF Places
    <2>2. \A a, b \in Places(Tail(s), T) : f[a] = f[b] => a = b
      BY <1>1 DEF Places
    <2>3. ASSUME NEW k \in later
          PROVE  \E a \in Places(Tail(s), T) : f[a] = k
      <3>1. k - 1 \in Places(Tail(s), T) /\ f[k - 1] = k
        BY <1>1 DEF Places
      <3> QED
        BY <3>1
    <2> QED
      BY <2>1, <2>2, <2>3 DEF Bijection, Injection, Surjection, IsInjective
  <1>3. IsFiniteSet(later) /\ Cardinality(later) = Cardinality(Places(Tail(s), T))
    <2>1. ExistsBijection(Places(Tail(s), T), later)
      BY <1>2, Zenon DEF ExistsBijection
    <2>2. IsFiniteSet(Places(Tail(s), T))
      BY <1>1, PlacesFinite
    <2> HIDE DEF later
    <2> QED
      BY <2>1, <2>2, FS_Bijection
  <1>4. Cardinality(Places(Tail(s), T)) \in Nat /\ Cardinality(Places(s, T)) \in Nat
    <2> HIDE DEF later, f
    <2> QED
      BY <1>1, PlacesFinite
  <1>5. 1 \notin later
    OBVIOUS
  <1>6. CASE Head(s) \in T
    <2>1. Places(s, T) = later \cup {1}
      BY <1>1, <1>6 DEF Places
    <2> HIDE DEF later
    <2>2. Cardinality(Places(s, T)) = Cardinality(later) + 1
      BY <1>3, <1>5, <2>1, FS_AddElement
    <2> QED
      BY <1>3, <1>4, <1>6, <2>2
  <1>7. CASE Head(s) \notin T
    <2>1. Places(s, T) = later
      BY <1>1, <1>7 DEF Places
    <2> HIDE DEF later
    <2> QED
      BY <1>3, <1>4, <1>7, <2>1
  <1> QED
    BY <1>6, <1>7
-----------------------------------------------------------------------------
(* Each request gets exactly one response *)

\* What the host sends is a request with the next number or without one, which
\* a request for the list has.
LEMMA HostSends ==
    ASSUME TypeOK
    PROVE  /\ \A k \in {"list", "other", "invalid"} :
                 Plain(k, sent + 1) \in Request /\ Plain(k, sent + 1).id = sent + 1
           /\ \A t \in Tools \cup {UnknownTool} :
                 CallOf(t, sent + 1) \in Request /\ CallOf(t, sent + 1).id = sent + 1
           /\ \A r \in Unnumbered : r \in Request /\ r.id = 0
  BY UnnumberedAssumption DEF Plain, CallOf, Request, TypeOK

\* A step of the host other than reading and closing sends a request.
LEMMA HostStepKinds ==
    ASSUME TypeOK, HostStep
    PROVE  \/ HostReceives \/ HostCloses
           \/ \E r \in Request : r.id \in {0, sent + 1} /\ HostSend(r)
  BY HostSends DEF HostStep, HostAsks, HostRefetches

\* Every step keeps the ids in their ranges.
LEMMA NextIds ==
    ASSUME Inv, IdsSent, [Next]_vars
    PROVE  IdsSent'
  <1> USE DEF Inv, TypeOK, IdsSent
  <1>1. ASSUME Ignore
        PROVE  IdsSent'
    BY <1>1 DEF Ignore, Take, bridgeVars, hostVars
  <1>2. ASSUME HandleOther
        PROVE  IdsSent'
    BY <1>2 DEF HandleOther, Take, Send, Reply, bridgeVars, hostVars
  <1>3. ASSUME HandleInvalid
        PROVE  IdsSent'
    BY <1>3 DEF HandleInvalid, Take, Send, Reply, bridgeVars, hostVars
  <1>4. ASSUME HandleToolsList
        PROVE  IdsSent'
    <2>1. PICK ts : outbox' = Append(outbox, ToolsReply(Head(inbox), ts))
      BY <1>4, Zenon DEF HandleToolsList, Send
    <2> QED
      BY <1>4, <2>1 DEF HandleToolsList, Take, ToolsReply, hostVars
  <1>5. ASSUME HandleUnknownTool
        PROVE  IdsSent'
    BY <1>5 DEF HandleUnknownTool, Take, Send, Reply, bridgeVars, hostVars
  <1>6. ASSUME BeginToolsCall
        PROVE  IdsSent'
    BY <1>6 DEF BeginToolsCall, Take, hostVars
  <1>7. ASSUME ObserveTag
        PROVE  IdsSent'
    BY <1>7 DEF ObserveTag, hostVars
  <1>8. ASSUME MaybeNotifyListChanged
        PROVE  IdsSent'
    <2>1. outbox' = outbox \/ outbox' = Append(outbox, ListChanged)
      BY <1>8, Zenon DEF MaybeNotifyListChanged, Send
    <2>2. \A k \in 1..Len(outbox') : outbox'[k].id \in 0..sent
      <3>1. CASE outbox' = outbox
        BY <3>1
      <3>2. CASE outbox' = Append(outbox, ListChanged)
        <4>1. ListChanged \in Message /\ ListChanged.id = 0
          BY ReplyTypes DEF ListChanged
        <4> QED
          BY <3>2, <4>1
      <3> QED
        BY <2>1, <3>1, <3>2
    <2> QED
      BY <1>8, <2>2 DEF MaybeNotifyListChanged, hostVars
  <1>9. ASSUME ForwardReturns
        PROVE  IdsSent'
    BY <1>9 DEF ForwardReturns, Send, Reply, NoRequest, Plain, hostVars
  <1>10. ASSUME ServeReturns
         PROVE  IdsSent'
    BY <1>10 DEF ServeReturns, hostVars
  <1>11. ASSUME ServeFails
         PROVE  IdsSent'
    BY <1>11 DEF ServeFails, Take, hostVars
  <1>12. ASSUME NEW r \in Request, r.id \in {0, sent + 1}, HostSend(r)
         PROVE  IdsSent'
    <2>1. /\ sent' \in {sent, sent + 1} /\ r.id \in 0..sent'
          /\ UNCHANGED <<outbox, pc, cur>> /\ inbox' = Append(inbox, r)
      <3>1. sent' = IF r.id = 0 THEN sent ELSE r.id
        BY <1>12 DEF HostSend
      <3>2. UNCHANGED <<outbox, pc, cur>> /\ inbox' = Append(inbox, r)
        BY <1>12 DEF HostSend, bridgeVars
      <3> QED
        BY <1>12, <3>1, <3>2
    <2>2. waiting' \subseteq 1..sent'
      <3>1. CASE r.id = 0
        BY <1>12, <3>1, SMT DEF HostSend
      <3>2. CASE r.id # 0
        <4>1. r.id = sent + 1 /\ sent' = r.id /\ waiting' \subseteq waiting \cup {r.id}
          BY <1>12, <3>2, Zenon DEF HostSend
        <4>2. sent \in Nat /\ waiting \subseteq 1..sent
          OBVIOUS
        <4> QED
          BY <4>1, <4>2
      <3> QED
        BY <3>1, <3>2
    <2>3. \A k \in 1..Len(inbox') : inbox'[k].id \in 0..sent'
      BY <1>12, <2>1
    <2> QED
      BY <2>1, <2>2, <2>3
  <1>13. ASSUME HostReceives
         PROVE  IdsSent'
    <2>1. /\ outbox # <<>> /\ outbox' = Tail(outbox) /\ waiting' \subseteq waiting
          /\ UNCHANGED <<pc, cur, inbox, sent>>
      BY <1>13, Zenon DEF HostReceives, bridgeVars
    <2> QED
      BY <2>1
  <1>14. ASSUME HostCloses
         PROVE  IdsSent'
    BY <1>14 DEF HostCloses, bridgeVars
  <1>15. ASSUME UNCHANGED vars
         PROVE  IdsSent'
    BY <1>15 DEF vars, bridgeVars, hostVars
  <1>16. CASE BridgeStep
    BY <1>1, <1>2, <1>3, <1>4, <1>5, <1>6, <1>7, <1>8, <1>9, <1>10, <1>11, <1>16 DEF BridgeStep
  <1>17. CASE HostStep
    BY <1>12, <1>13, <1>14, <1>17, HostStepKinds
  <1> QED
    BY <1>15, <1>16, <1>17 DEF Next

(* Where the response to request i can come from, as Owed counts it *)

Awaiting(i) == {r \in Request : r.id = i /\ r.kind \notin Unanswerable}
Answering(i) == {m \in Message : m.id = i}

Asked(i) == Cardinality(Places(inbox, Awaiting(i)))
Answered(i) == Cardinality(Places(outbox, Answering(i)))
InHand(i) == IF pc \in {"observe", "forward"} /\ cur.id = i THEN 1 ELSE 0

\* The sets that Owed counts, by what is in the places.
LEMMA OwedPlaces ==
    ASSUME NEW ib \in Seq(Request), NEW ob \in Seq(Message), NEW i
    PROVE  /\ {k \in 1..Len(ib) : ib[k].id = i /\ ib[k].kind \notin Unanswerable} = Places(ib, Awaiting(i))
           /\ {k \in 1..Len(ob) : ob[k].id = i} = Places(ob, Answering(i))
  BY DEF Places, Awaiting, Answering

\* Owed is the sum of the three, before and after a step.
LEMMA OwedSum ==
    ASSUME TypeOK, TypeOK', NEW i
    PROVE  /\ Owed(i) = Asked(i) + Answered(i) + InHand(i)
           /\ Owed(i)' = Asked(i)' + Answered(i)' + InHand(i)'
           /\ Asked(i) \in Nat /\ Answered(i) \in Nat
           /\ Asked(i)' \in Nat /\ Answered(i)' \in Nat
  <1>1. /\ inbox \in Seq(Request) /\ inbox' \in Seq(Request)
        /\ outbox \in Seq(Message) /\ outbox' \in Seq(Message)
    BY DEF TypeOK
  <1>2. /\ Owed(i) = Asked(i) + Answered(i) + InHand(i)
        /\ Owed(i)' = Asked(i)' + Answered(i)' + InHand(i)'
    BY <1>1, OwedPlaces DEF Owed, Asked, Answered, InHand
  <1>3. /\ Asked(i) \in Nat /\ Answered(i) \in Nat
        /\ Asked(i)' \in Nat /\ Answered(i)' \in Nat
    BY <1>1, PlacesFinite DEF Asked, Answered
  <1> QED
    BY <1>2, <1>3

\* Serve takes a line: whoever waits for its answer no longer has it queued.
LEMMA TakenEffect ==
    ASSUME TypeOK, inbox # <<>>, inbox' = Tail(inbox), NEW i
    PROVE  Asked(i)' = Asked(i) - (IF Head(inbox).id = i /\ Head(inbox).kind \notin Unanswerable THEN 1 ELSE 0)
  <1>1. Head(inbox) \in Request /\ inbox \in Seq(Request)
    BY DEF TypeOK
  <1>2. Head(inbox) \in Awaiting(i) <=> Head(inbox).id = i /\ Head(inbox).kind \notin Unanswerable
    BY <1>1 DEF Awaiting
  <1>3. Asked(i)' = Asked(i) - (IF Head(inbox) \in Awaiting(i) THEN 1 ELSE 0)
    BY <1>1, PlacesTail, Zenon DEF Asked
  <1> QED
    BY <1>2, <1>3

\* The host sends a line.
LEMMA AskedEffect ==
    ASSUME TypeOK, NEW r \in Request, inbox' = Append(inbox, r), NEW i
    PROVE  Asked(i)' = Asked(i) + (IF r.id = i /\ r.kind \notin Unanswerable THEN 1 ELSE 0)
  <1>1. inbox \in Seq(Request)
    BY DEF TypeOK
  <1>2. r \in Awaiting(i) <=> r.id = i /\ r.kind \notin Unanswerable
    BY DEF Awaiting
  <1>3. Asked(i)' = Asked(i) + (IF r \in Awaiting(i) THEN 1 ELSE 0)
    BY <1>1, PlacesAppend, Zenon DEF Asked
  <1> QED
    BY <1>2, <1>3

\* The bridge writes a message.
LEMMA SentEffect ==
    ASSUME TypeOK, NEW m \in Message, outbox' = Append(outbox, m), NEW i
    PROVE  Answered(i)' = Answered(i) + (IF m.id = i THEN 1 ELSE 0)
  <1>1. outbox \in Seq(Message)
    BY DEF TypeOK
  <1>2. m \in Answering(i) <=> m.id = i
    BY DEF Answering
  <1>3. Answered(i)' = Answered(i) + (IF m \in Answering(i) THEN 1 ELSE 0)
    BY <1>1, PlacesAppend, Zenon DEF Answered
  <1> QED
    BY <1>2, <1>3

\* The host reads one.
LEMMA ReceivedEffect ==
    ASSUME TypeOK, outbox # <<>>, outbox' = Tail(outbox), NEW i
    PROVE  Answered(i)' = Answered(i) - (IF Head(outbox).id = i THEN 1 ELSE 0)
  <1>1. outbox \in Seq(Message) /\ Head(outbox) \in Message
    BY DEF TypeOK
  <1>2. Head(outbox) \in Answering(i) <=> Head(outbox).id = i
    BY <1>1 DEF Answering
  <1>3. Answered(i)' = Answered(i) - (IF Head(outbox) \in Answering(i) THEN 1 ELSE 0)
    BY <1>1, PlacesTail, Zenon DEF Answered
  <1> QED
    BY <1>2, <1>3

\* A handler that takes a request and answers it at once owes as much as before.
LEMMA AnsweredAtOnce ==
    ASSUME TypeOK, TypeOK', NEW i, NEW m \in Message,
           pc = "idle", inbox # <<>>, inbox' = Tail(inbox), Head(inbox).kind \notin Unanswerable,
           outbox' = Append(outbox, m), m.id = Head(inbox).id, UNCHANGED <<pc, cur>>
    PROVE  Owed(i)' = Owed(i)
  <1> DEFINE d == IF Head(inbox).id = i THEN 1 ELSE 0
  <1>1. Asked(i)' = Asked(i) - d
    BY TakenEffect
  <1>2. Answered(i)' = Answered(i) + d
    BY SentEffect
  <1>3. InHand(i) = 0 /\ InHand(i)' = 0
    BY DEF InHand
  <1> QED
    BY <1>1, <1>2, <1>3, OwedSum

\* No step of the serve loop changes what is owed.
LEMMA BridgeOwes ==
    ASSUME Inv, Inv', IdsSent, BridgeStep, NEW i \in 1..sent
    PROVE  Owed(i)' = Owed(i)
  <1> USE DEF Inv
  <1>1. ASSUME NEW k \in {"result", "error", "unknownTool"}, NEW K \in SUBSET {"other", "invalid", "call"},
               Take(K), Send(Reply(k, Head(inbox))), UNCHANGED bridgeVars
        PROVE  Owed(i)' = Owed(i)
    <2>1. Head(inbox) \in Request /\ inbox # <<>> /\ inbox' = Tail(inbox) /\ pc = "idle"
            /\ Head(inbox).kind \notin Unanswerable /\ UNCHANGED <<pc, cur>>
      BY <1>1 DEF Take, TypeOK, Unanswerable, bridgeVars
    <2>2. Reply(k, Head(inbox)) \in Message /\ Reply(k, Head(inbox)).id = Head(inbox).id
      BY <2>1, ReplyTypes DEF Reply
    <2> QED
      BY <1>1, <2>1, <2>2, AnsweredAtOnce DEF Send
  <1>2. CASE Ignore
    <2>1. inbox # <<>> /\ inbox' = Tail(inbox) /\ Head(inbox).kind \in Unanswerable
            /\ UNCHANGED <<pc, cur, outbox>>
      BY <1>2 DEF Ignore, Take, Unanswerable, bridgeVars
    <2> QED
      BY <2>1, OwedSum, TakenEffect DEF InHand, Answered
  <1>3. CASE HandleOther \/ HandleInvalid \/ HandleUnknownTool
    BY <1>1, <1>3 DEF HandleOther, HandleInvalid, HandleUnknownTool
  <1>4. CASE HandleToolsList
    <2>1. Head(inbox) \in Request /\ inbox # <<>> /\ inbox' = Tail(inbox) /\ pc = "idle"
            /\ Head(inbox).kind \notin Unanswerable /\ UNCHANGED <<pc, cur>>
      BY <1>4 DEF HandleToolsList, Take, TypeOK, Unanswerable
    <2>2. PICK ts \in {{}, Surface} : outbox' = Append(outbox, ToolsReply(Head(inbox), ts))
      BY <1>4, Zenon DEF HandleToolsList, Send
    <2>3. ToolsReply(Head(inbox), ts) \in Message /\ ToolsReply(Head(inbox), ts).id = Head(inbox).id
      BY <2>1, ReplyTypes DEF ToolsReply
    <2> QED
      BY <2>1, <2>2, <2>3, AnsweredAtOnce
  <1>5. CASE BeginToolsCall
    <2>1. inbox # <<>> /\ inbox' = Tail(inbox) /\ Head(inbox).kind \notin Unanswerable
            /\ pc = "idle" /\ pc' = "observe" /\ cur' = Head(inbox) /\ outbox' = outbox
      BY <1>5 DEF BeginToolsCall, Take, Unanswerable
    <2> QED
      BY <2>1, OwedSum, TakenEffect DEF InHand, Answered
  <1>6. CASE ObserveTag \/ ServeReturns
    <2>1. UNCHANGED <<inbox, outbox, cur>> /\ (pc' = pc \/ {pc, pc'} \subseteq {"idle", "stopped"})
      BY <1>6 DEF ObserveTag, ServeReturns
    <2> QED
      BY <2>1, OwedSum DEF InHand, Asked, Answered
  <1>7. CASE MaybeNotifyListChanged
    <2>1. UNCHANGED <<inbox, cur>> /\ pc = "observe" /\ pc' = "forward"
      BY <1>7 DEF MaybeNotifyListChanged
    <2>2. outbox' = outbox \/ outbox' = Append(outbox, ListChanged)
      BY <1>7, Zenon DEF MaybeNotifyListChanged, Send
    <2>3. ListChanged \in Message /\ ListChanged.id # i
      BY ReplyTypes DEF ListChanged
    <2>4. Answered(i)' = Answered(i)
      <3>1. CASE outbox' = outbox
        BY <3>1 DEF Answered
      <3>2. CASE outbox' = Append(outbox, ListChanged)
        BY <2>3, <3>2, OwedSum, SentEffect
      <3> QED
        BY <2>2, <3>1, <3>2
    <2> QED
      BY <2>1, <2>4, OwedSum DEF InHand, Asked
  <1>8. CASE ForwardReturns
    <2>1. UNCHANGED inbox /\ pc = "forward" /\ pc' = "idle"
      BY <1>8 DEF ForwardReturns
    <2>2. PICK o \in ForwardOutcomes : outbox' = Append(outbox, Reply(o, cur))
      BY <1>8 DEF ForwardReturns, Send
    <2>3. Reply(o, cur) \in Message /\ Reply(o, cur).id = cur.id
      BY ReplyTypes DEF ForwardOutcomes, Reply, TypeOK
    <2> QED
      BY <2>1, <2>2, <2>3, OwedSum, SentEffect DEF InHand, Asked
  <1>9. CASE ServeFails
    <2>1. inbox # <<>> /\ inbox' = Tail(inbox) /\ Head(inbox).kind \in Unanswerable
            /\ pc = "idle" /\ pc' = "failed" /\ UNCHANGED <<cur, outbox>>
      BY <1>9 DEF ServeFails, Take, Unanswerable
    <2> QED
      BY <2>1, OwedSum, TakenEffect DEF InHand, Answered
  <1> QED
    BY <1>2, <1>3, <1>4, <1>5, <1>6, <1>7, <1>8, <1>9 DEF BridgeStep

\* Nothing is owed for a number that was not given out yet.
LEMMA NothingOwedYet ==
    ASSUME TypeOK, IdsSent
    PROVE  Asked(sent + 1) = 0 /\ Answered(sent + 1) = 0 /\ InHand(sent + 1) = 0
  <1>1. Places(inbox, Awaiting(sent + 1)) = {}
    BY DEF Places, Awaiting, TypeOK, IdsSent
  <1>2. Places(outbox, Answering(sent + 1)) = {}
    BY DEF Places, Answering, TypeOK, IdsSent
  <1>3. InHand(sent + 1) = 0
    BY DEF InHand, TypeOK, IdsSent
  <1> QED
    BY <1>1, <1>2, <1>3, FS_EmptySet DEF Asked, Answered

\* Every step keeps one response per request.
LEMMA NextOneResponse ==
    ASSUME Inv, Inv', IdsSent, IdsSent', OneResponseEach, [Next]_vars
    PROVE  OneResponseEach'
  <1> USE DEF Inv
  <1>1. CASE BridgeStep
    <2>1. UNCHANGED <<sent, waiting>>
      BY <1>1 DEF BridgeStep, Ignore, HandleOther, HandleInvalid, HandleToolsList, HandleUnknownTool,
                  BeginToolsCall, ObserveTag, MaybeNotifyListChanged, ForwardReturns, ServeReturns,
                  ServeFails, hostVars
    <2> QED
      BY <1>1, <2>1, BridgeOwes DEF OneResponseEach
  <1>2. ASSUME NEW r \in Request, r.id \in {0, sent + 1}, HostSend(r)
        PROVE  OneResponseEach'
    <2> SUFFICES ASSUME NEW i \in 1..sent'
                 PROVE  Owed(i)' = IF i \in waiting' THEN 1 ELSE 0
      BY DEF OneResponseEach
    <2>1. /\ inbox' = Append(inbox, r) /\ UNCHANGED <<outbox, pc, cur>>
          /\ sent' = IF r.id = 0 THEN sent ELSE r.id
          /\ waiting' = IF r.kind \in Unanswerable \/ r.id = 0 THEN waiting ELSE waiting \cup {r.id}
      BY <1>2 DEF HostSend, bridgeVars
    <2>2. Answered(i)' = Answered(i) /\ InHand(i)' = InHand(i)
      BY <2>1 DEF Answered, InHand
    <2>3. sent \in Nat /\ waiting \subseteq 1..sent
      BY DEF TypeOK, IdsSent
    <2>4. Asked(i)' = Asked(i) + (IF r.id = i /\ r.kind \notin Unanswerable THEN 1 ELSE 0)
      BY <1>2, <2>1, AskedEffect
    <2>5. CASE i = sent + 1
      <3>1. r.id = i
        BY <1>2, <2>1, <2>3, <2>5
      <3>2. Owed(i)' = IF r.kind \notin Unanswerable THEN 1 ELSE 0
        BY <2>2, <2>4, <2>5, <3>1, NothingOwedYet, OwedSum
      <3>3. i \in waiting' <=> r.kind \notin Unanswerable
        BY <2>1, <2>3, <2>5, <3>1
      <3> QED
        BY <3>2, <3>3
    <2>6. CASE i # sent + 1
      <3>1. i \in 1..sent /\ r.id # i
        BY <1>2, <2>1, <2>3, <2>6
      <3>2. Owed(i)' = Owed(i)
        BY <2>2, <2>4, <3>1, OwedSum
      <3>3. i \in waiting' <=> i \in waiting
        BY <2>1, <3>1
      <3> QED
        BY <3>1, <3>2, <3>3 DEF OneResponseEach
    <2> QED
      BY <2>5, <2>6
  <1>3. CASE HostReceives
    <2> SUFFICES ASSUME NEW i \in 1..sent
                 PROVE  Owed(i)' = IF i \in waiting' THEN 1 ELSE 0
      BY <1>3 DEF OneResponseEach, HostReceives
    <2>1. /\ outbox # <<>> /\ outbox' = Tail(outbox) /\ UNCHANGED <<inbox, pc, cur>>
          /\ waiting' = waiting \ {Head(outbox).id}
      BY <1>3, Zenon DEF HostReceives, bridgeVars
    <2>2. Asked(i)' = Asked(i) /\ InHand(i)' = InHand(i) /\ InHand(i) \in Nat
      BY <2>1 DEF Asked, InHand
    <2>3. Answered(i)' = Answered(i) - (IF Head(outbox).id = i THEN 1 ELSE 0)
      BY <2>1, ReceivedEffect
    <2>4. Owed(i) = IF i \in waiting THEN 1 ELSE 0
      BY DEF OneResponseEach
    <2>5. Owed(i)' = Owed(i) - (IF Head(outbox).id = i THEN 1 ELSE 0) /\ Owed(i)' >= 0
      BY <2>2, <2>3, OwedSum
    <2> QED
      BY <2>1, <2>4, <2>5
  <1>4. CASE HostCloses \/ UNCHANGED vars
    <2>1. UNCHANGED <<inbox, outbox, pc, cur, sent, waiting>>
      BY <1>4 DEF HostCloses, vars, bridgeVars, hostVars
    <2> QED
      BY <2>1 DEF OneResponseEach, Owed
  <1> QED
    BY <1>1, <1>2, <1>3, <1>4, HostStepKinds DEF Next

\* Each request of a session gets exactly one response, however the requests are
\* pipelined and whatever the handlers answer.
THEOREM OneResponse == Spec => []OneResponseEach
  <1>1. Init => IdsSent /\ OneResponseEach
    BY DEF Init, IdsSent, OneResponseEach, NoRequest, Plain
  <1>2. Inv /\ Inv' /\ IdsSent /\ OneResponseEach /\ [Next]_vars => (IdsSent /\ OneResponseEach)'
    BY NextIds, NextOneResponse
  <1> QED
    BY <1>1, <1>2, Invariance, PTL DEF Spec
-----------------------------------------------------------------------------
(* The host's list has the right size whenever nothing is under way *)

\* Every step keeps prevToolCount at the size of the newest list.
LEMMA NextCount ==
    ASSUME Inv, Inv', CountOfNewestList, [Next]_vars
    PROVE  CountOfNewestList'
  <1> USE DEF Inv
  <1>1. ASSUME NEW m \in Message, outbox' = Append(outbox, m), m.kind # "tools",
               UNCHANGED <<prevToolCount, view>>
        PROVE  CountOfNewestList'
    <2>1. outbox \in Seq(Message)
      BY DEF TypeOK
    <2>2. /\ Len(outbox') = Len(outbox) + 1 /\ Len(outbox) \in Nat /\ outbox'[Len(outbox) + 1] = m
          /\ \A k \in 1..Len(outbox) : outbox'[k] = outbox[k]
      BY <1>1, <2>1
    <2>3. ASSUME NEW k \in 1..Len(outbox'), NewestList(k)'
          PROVE  k \in 1..Len(outbox) /\ NewestList(k) /\ outbox'[k] = outbox[k]
      BY <1>1, <2>2, <2>3 DEF NewestList
    <2> QED
      BY <1>1, <2>2, <2>3 DEF CountOfNewestList
  <1>2. ASSUME UNCHANGED <<outbox, prevToolCount, view>>
        PROVE  CountOfNewestList'
    BY <1>2 DEF CountOfNewestList, NewestList
  <1>3. CASE HandleOther \/ HandleInvalid \/ HandleUnknownTool
    <2>1. PICK k \in {"result", "error", "unknownTool"} : outbox' = Append(outbox, Reply(k, Head(inbox)))
      BY <1>3 DEF HandleOther, HandleInvalid, HandleUnknownTool, Send
    <2>2. Head(inbox) \in Request /\ UNCHANGED <<prevToolCount, view>>
      BY <1>3 DEF HandleOther, HandleInvalid, HandleUnknownTool, Take, TypeOK, bridgeVars, hostVars
    <2>3. Reply(k, Head(inbox)) \in Message /\ Reply(k, Head(inbox)).kind # "tools"
      BY <2>2, ReplyTypes DEF Reply
    <2> QED
      BY <1>1, <2>1, <2>2, <2>3
  <1>4. CASE HandleToolsList
    <2>1. PICK ts \in {{}, Surface} :
             /\ outbox' = Append(outbox, ToolsReply(Head(inbox), ts))
             /\ \/ ts = {} /\ prevToolCount' = prevToolCount
                \/ ts = Surface /\ prevToolCount' = Cardinality(ts)
      <3>1. CASE Resolve(window) = {}
        <4>1. outbox' = Append(outbox, ToolsReply(Head(inbox), {})) /\ prevToolCount' = prevToolCount
          BY <1>4, <3>1, Zenon DEF HandleToolsList, Send
        <4> WITNESS {} \in {{}, Surface}
        <4> QED
          BY <4>1
      <3>2. CASE Resolve(window) # {}
        <4>1. outbox' = Append(outbox, ToolsReply(Head(inbox), Surface))
                /\ prevToolCount' = Cardinality(Surface)
          BY <1>4, <3>2, Zenon DEF HandleToolsList, Send
        <4> WITNESS Surface \in {{}, Surface}
        <4> QED
          BY <4>1
      <3> QED
        BY <3>1, <3>2
    <2>2. Head(inbox) \in Request /\ view' = view /\ outbox \in Seq(Message)
      BY <1>4 DEF HandleToolsList, Take, TypeOK, hostVars
    <2>3. /\ ToolsReply(Head(inbox), ts) \in Message
          /\ ToolsReply(Head(inbox), ts).kind = "tools" /\ ToolsReply(Head(inbox), ts).tools = ts
      BY <2>2, ReplyTypes DEF ToolsReply
    <2>4. /\ Len(outbox') = Len(outbox) + 1 /\ Len(outbox) \in Nat
          /\ outbox'[Len(outbox) + 1].kind = "tools" /\ outbox'[Len(outbox) + 1].tools = ts
      BY <2>1, <2>2, <2>3
    <2>5. ASSUME NEW k \in 1..Len(outbox'), NewestList(k)'
          PROVE  k = Len(outbox) + 1
      BY <2>4, <2>5 DEF NewestList
    <2>6. prevToolCount' > 0 => Tools # {}
      <3>1. CASE ts = {} /\ prevToolCount' = prevToolCount
        BY <3>1 DEF CountOfNewestList
      <3>2. CASE prevToolCount' = Cardinality(ts) /\ ts = Surface
        <4>1. Tools = {} => ts = {}
          BY <3>2 DEF Surface, Lookup
        <4> QED
          BY <3>2, <4>1, FS_EmptySet
      <3> QED
        BY <2>1, <3>1, <3>2
    <2> QED
      BY <2>1, <2>4, <2>5, <2>6 DEF CountOfNewestList
  <1>5. CASE MaybeNotifyListChanged
    <2>1. outbox' = outbox \/ outbox' = Append(outbox, ListChanged)
      BY <1>5, Zenon DEF MaybeNotifyListChanged, Send
    <2>2. UNCHANGED <<prevToolCount, view>>
      BY <1>5 DEF MaybeNotifyListChanged, hostVars
    <2>3. ListChanged \in Message /\ ListChanged.kind # "tools"
      BY ReplyTypes DEF ListChanged
    <2> QED
      BY <1>1, <1>2, <2>1, <2>2, <2>3
  <1>6. CASE ForwardReturns
    <2>1. PICK o \in ForwardOutcomes : outbox' = Append(outbox, Reply(o, cur))
      BY <1>6 DEF ForwardReturns, Send
    <2>2. UNCHANGED <<prevToolCount, view>>
      BY <1>6 DEF ForwardReturns, hostVars
    <2>3. Reply(o, cur) \in Message /\ Reply(o, cur).kind # "tools"
      BY ReplyTypes DEF ForwardOutcomes, Reply, TypeOK
    <2> QED
      BY <1>1, <2>1, <2>2, <2>3
  <1>7. CASE HostReceives
    <2>1. /\ outbox # <<>> /\ outbox' = Tail(outbox) /\ prevToolCount' = prevToolCount
          /\ view' = IF Head(outbox).kind = "tools" THEN Head(outbox).tools ELSE view
      BY <1>7, Zenon DEF HostReceives, bridgeVars
    <2>2. /\ Len(outbox') = Len(outbox) - 1 /\ Len(outbox) \in Nat \ {0} /\ Head(outbox) = outbox[1]
          /\ \A k \in 1..Len(outbox') : outbox'[k] = outbox[k + 1]
      BY <2>1 DEF TypeOK
    <2>3. ASSUME NEW k \in 1..Len(outbox'), NewestList(k)'
          PROVE  k + 1 \in 1..Len(outbox) /\ NewestList(k + 1)
      <3>1. k + 1 \in 1..Len(outbox) /\ outbox[k + 1].kind = "tools"
        BY <2>2, <2>3 DEF NewestList
      <3>2. ASSUME NEW j \in (k + 2)..Len(outbox)
            PROVE  outbox[j].kind # "tools"
        <4>1. j - 1 \in (k + 1)..Len(outbox') /\ outbox'[j - 1] = outbox[j]
          BY <2>2
        <4> QED
          BY <2>3, <4>1 DEF NewestList
      <3> QED
        BY <3>1, <3>2 DEF NewestList
    <2>4. ASSUME \A k \in 1..Len(outbox') : outbox'[k].kind # "tools", view' # {}
          PROVE  prevToolCount = Cardinality(view')
      <3>1. \A k \in 2..Len(outbox) : outbox[k].kind # "tools"
        <4> SUFFICES ASSUME NEW k \in 2..Len(outbox) PROVE outbox[k].kind # "tools"
          OBVIOUS
        <4>1. k - 1 \in 1..Len(outbox') /\ outbox'[k - 1] = outbox[k]
          BY <2>2
        <4> QED
          BY <2>4, <4>1
      <3>2. CASE outbox[1].kind = "tools"
        <4>1. 1 \in 1..Len(outbox) /\ NewestList(1)
          BY <2>2, <3>1, <3>2 DEF NewestList
        <4> QED
          BY <2>1, <2>2, <2>4, <3>2, <4>1 DEF CountOfNewestList
      <3>3. CASE outbox[1].kind # "tools"
        <4>1. \A k \in 1..Len(outbox) : outbox[k].kind # "tools"
          BY <2>2, <3>1, <3>3
        <4> QED
          BY <2>1, <2>2, <2>4, <3>3, <4>1 DEF CountOfNewestList
      <3> QED
        BY <3>2, <3>3
    <2> QED
      BY <2>1, <2>2, <2>3, <2>4 DEF CountOfNewestList
  <1>8. CASE BridgeStep
    BY <1>2, <1>3, <1>4, <1>5, <1>6, <1>8
       DEF BridgeStep, Ignore, BeginToolsCall, ObserveTag, ServeReturns, ServeFails, bridgeVars, hostVars
  <1>9. CASE HostStep
    BY <1>2, <1>7, <1>9, HostStepKinds DEF HostSend, HostCloses, bridgeVars
  <1> QED
    BY <1>2, <1>8, <1>9 DEF Next, vars, bridgeVars, hostVars

\* A change of size that no refresh is under way for was announced by nobody:
\* every step keeps that from happening.
LEMMA NextAnnounced ==
    ASSUME Inv, Inv', CountOfNewestList, ChangeAnnounced, [Next]_vars
    PROVE  ChangeAnnounced'
  <1> USE DEF Inv
  <1>1. window' = window => Surface' = Surface
    BY DEF Surface
  <1>2. outbox \in Seq(Message) /\ inbox \in Seq(Request)
    BY DEF TypeOK
  <1>3. ASSUME UNCHANGED <<window, prevToolCount>>, pc # "observe", RefreshUnderWay => RefreshUnderWay'
        PROVE  ChangeAnnounced'
    BY <1>1, <1>3 DEF ChangeAnnounced
  <1>4. ASSUME NEW m \in Message, outbox' = outbox \/ outbox' = Append(outbox, m),
               inbox' = inbox \/ (inbox # <<>> /\ inbox' = Tail(inbox) /\ Head(inbox).kind # "list"),
               UNCHANGED refetch, RefreshUnderWay
        PROVE  RefreshUnderWay'
    <2>1. CASE refetch
      BY <1>4, <2>1, Zenon DEF RefreshUnderWay
    <2>2. ASSUME NEW k \in 1..Len(outbox), outbox[k].kind = "list_changed"
          PROVE  RefreshUnderWay'
      <3>1. k \in 1..Len(outbox') /\ outbox'[k] = outbox[k]
        BY <1>2, <1>4
      <3> QED
        BY <2>2, <3>1, Zenon DEF RefreshUnderWay
    <2>3. ASSUME NEW k \in 1..Len(inbox), inbox[k].kind = "list"
          PROVE  RefreshUnderWay'
      <3>1. CASE inbox' = inbox
        BY <2>3, <3>1, Zenon DEF RefreshUnderWay
      <3>2. CASE inbox # <<>> /\ inbox' = Tail(inbox) /\ Head(inbox).kind # "list"
        <4>1. k - 1 \in 1..Len(inbox') /\ inbox'[k - 1] = inbox[k]
          BY <1>2, <2>3, <3>2
        <4> QED
          BY <2>3, <4>1, Zenon DEF RefreshUnderWay
      <3> QED
        BY <1>4, <3>1, <3>2
    <2> QED
      BY <1>4, <2>1, <2>2, <2>3, Zenon DEF RefreshUnderWay
  <1>5. CASE Ignore \/ HandleOther \/ HandleInvalid \/ HandleUnknownTool
    <2>1. /\ inbox # <<>> /\ inbox' = Tail(inbox) /\ Head(inbox).kind # "list"
          /\ UNCHANGED <<window, prevToolCount, refetch>> /\ pc # "observe" /\ Head(inbox) \in Request
      BY <1>5 DEF Ignore, HandleOther, HandleInvalid, HandleUnknownTool, Take, bridgeVars, hostVars, TypeOK
    <2>2. PICK m \in Message : outbox' = outbox \/ outbox' = Append(outbox, m)
      BY <1>5, <2>1, ReplyTypes DEF Ignore, HandleOther, HandleInvalid, HandleUnknownTool, Send
    <2> QED
      BY <1>3, <1>4, <2>1, <2>2
  <1>6. CASE HandleToolsList
    <2>1. CASE Resolve(window) = {}
      <3>1. prevToolCount' = prevToolCount /\ Tools = {}
        BY <1>6, <2>1, ResolveSome, Zenon DEF HandleToolsList, TypeOK, Resolve
      <3> QED
        BY <3>1 DEF CountOfNewestList, ChangeAnnounced
    <2>2. CASE Resolve(window) # {}
      <3>1. prevToolCount' = Cardinality(Surface) /\ window' = window
        BY <1>6, <2>2, Zenon DEF HandleToolsList
      <3> QED
        BY <1>1, <3>1 DEF ChangeAnnounced
    <2> QED
      BY <2>1, <2>2
  <1>7. CASE BeginToolsCall \/ ObserveTag
    BY <1>7 DEF BeginToolsCall, ObserveTag, ChangeAnnounced
  <1>8. CASE MaybeNotifyListChanged
    <2>1. Resolve(window) # {}
      <3>1. cur.tool \in Surface
        BY <1>8, LastTagListed, RegistryAssumption DEF MaybeNotifyListChanged, LastObserved, TypeOK
      <3> QED
        BY <3>1 DEF Surface, Lookup
    <2>2. CASE SurfaceChanged
      <3>1. outbox' = Append(outbox, ListChanged)
        BY <1>8, <2>1, <2>2, Zenon DEF MaybeNotifyListChanged, Send
      <3>2. ListChanged \in Message /\ ListChanged.kind = "list_changed"
        BY ReplyTypes DEF ListChanged
      <3>3. Len(outbox) + 1 \in 1..Len(outbox') /\ outbox'[Len(outbox) + 1].kind = "list_changed"
        BY <1>2, <3>1, <3>2
      <3> QED
        BY <3>3, Zenon DEF ChangeAnnounced, RefreshUnderWay
    <2>3. CASE ~SurfaceChanged
      BY <1>1, <1>8, <2>3 DEF MaybeNotifyListChanged, SurfaceChanged, ChangeAnnounced
    <2> QED
      BY <2>2, <2>3
  <1>9. CASE ForwardReturns
    <2>1. PICK o \in ForwardOutcomes : outbox' = Append(outbox, Reply(o, cur))
      BY <1>9 DEF ForwardReturns, Send
    <2>2. Reply(o, cur) \in Message
      BY ReplyTypes DEF ForwardOutcomes, TypeOK
    <2>3. UNCHANGED <<window, prevToolCount, inbox, refetch>> /\ pc # "observe"
      BY <1>9 DEF ForwardReturns, hostVars
    <2> QED
      BY <1>3, <1>4, <2>1, <2>2, <2>3
  <1>10. CASE ServeReturns
    BY <1>1, <1>10 DEF ServeReturns, hostVars, ChangeAnnounced, RefreshUnderWay
  <1>11. CASE ServeFails
    <2>1. /\ inbox # <<>> /\ inbox' = Tail(inbox) /\ Head(inbox).kind # "list"
          /\ UNCHANGED <<window, prevToolCount, refetch, outbox>> /\ pc # "observe"
      BY <1>11 DEF ServeFails, Take, hostVars
    <2>2. ListChanged \in Message
      BY ReplyTypes
    <2> QED
      BY <1>3, <1>4, <2>1, <2>2
  <1>12. CASE HostReceives
    <2>1. /\ outbox # <<>> /\ outbox' = Tail(outbox)
          /\ refetch' = (refetch \/ Head(outbox).kind = "list_changed")
          /\ UNCHANGED <<window, prevToolCount, pc, inbox>>
      BY <1>12, Zenon DEF HostReceives, bridgeVars
    <2>2. ASSUME NEW k \in 1..Len(outbox), outbox[k].kind = "list_changed"
          PROVE  RefreshUnderWay'
      <3>1. CASE k = 1
        <4>1. Head(outbox).kind = "list_changed"
          BY <1>2, <2>1, <2>2, <3>1
        <4> QED
          BY <2>1, <4>1, Zenon DEF RefreshUnderWay
      <3>2. CASE k # 1
        <4>1. k - 1 \in 1..Len(outbox') /\ outbox'[k - 1] = outbox[k]
          BY <1>2, <2>1, <3>2
        <4> QED
          BY <2>2, <4>1, Zenon DEF RefreshUnderWay
      <3> QED
        BY <3>1, <3>2
    <2>3. RefreshUnderWay => RefreshUnderWay'
      BY <2>1, <2>2, Zenon DEF RefreshUnderWay
    <2> QED
      BY <1>1, <2>1, <2>3 DEF ChangeAnnounced
  <1>13. CASE HostRefetches
    <2>1. inbox' = Append(inbox, Plain("list", sent + 1)) /\ Plain("list", sent + 1).kind = "list"
      BY <1>13 DEF HostRefetches, HostSend, Plain
    <2>2. Len(inbox) + 1 \in 1..Len(inbox') /\ inbox'[Len(inbox) + 1].kind = "list"
      BY <1>2, <2>1
    <2> QED
      BY <2>2, Zenon DEF ChangeAnnounced, RefreshUnderWay
  <1>14. ASSUME NEW r \in Request, HostAsks(r)
         PROVE  ChangeAnnounced'
    <2>1. inbox' = Append(inbox, r) /\ UNCHANGED <<window, prevToolCount, pc, outbox, refetch>>
      BY <1>14 DEF HostAsks, HostSend, bridgeVars
    <2>2. \A k \in 1..Len(inbox) : k \in 1..Len(inbox') /\ inbox'[k] = inbox[k]
      BY <1>2, <2>1
    <2>3. RefreshUnderWay => RefreshUnderWay'
      BY <2>1, <2>2, Zenon DEF RefreshUnderWay
    <2> QED
      BY <1>1, <2>1, <2>3 DEF ChangeAnnounced
  <1>15. CASE HostCloses \/ UNCHANGED vars
    <2>1. UNCHANGED <<window, prevToolCount, pc, inbox, outbox, refetch>>
      BY <1>15 DEF HostCloses, vars, bridgeVars, hostVars
    <2>2. RefreshUnderWay => RefreshUnderWay'
      BY <2>1, Zenon DEF RefreshUnderWay
    <2> QED
      BY <1>1, <2>1, <2>2 DEF ChangeAnnounced
  <1>16. CASE BridgeStep
    BY <1>5, <1>6, <1>7, <1>8, <1>9, <1>10, <1>11, <1>16 DEF BridgeStep
  <1>17. CASE HostStep
    BY <1>12, <1>13, <1>14, <1>15, <1>17, HostSends DEF HostStep
  <1> QED
    BY <1>15, <1>16, <1>17 DEF Next

\* A host that acts on list_changed has a list of the right size whenever
\* nothing is under way, for every registry, window, threshold and session.
THEOREM ViewSizeRight == Spec => []ViewSizeInStep
  <1>1. Init => CountOfNewestList /\ ChangeAnnounced
    BY DEF Init, CountOfNewestList, ChangeAnnounced
  <1>2. Inv /\ Inv' /\ CountOfNewestList /\ ChangeAnnounced /\ [Next]_vars
          => (CountOfNewestList /\ ChangeAnnounced)'
    BY NextCount, NextAnnounced
  <1>3. Inv /\ CountOfNewestList /\ ChangeAnnounced => ViewSizeInStep
    <2> SUFFICES ASSUME Inv, CountOfNewestList, ChangeAnnounced, InStep, view # {}, pc # "observe"
                 PROVE  Cardinality(view) = Cardinality(Surface)
      BY DEF ViewSizeInStep
    <2>1. Len(outbox) = 0 /\ Len(inbox) = 0
      BY DEF InStep
    <2>2. prevToolCount = Cardinality(view)
      BY <2>1 DEF CountOfNewestList
    <2>3. IsFiniteSet(view)
      BY RegistryAssumption, FS_Subset DEF Inv, TypeOK
    <2>4. prevToolCount > 0
      BY <2>2, <2>3, FS_EmptySet, FS_CardinalityType
    <2>5. ~RefreshUnderWay
      <3>1. ~refetch
        BY Zenon DEF InStep
      <3>2. ~(\E k \in 1..Len(outbox) : outbox[k].kind = "list_changed")
              /\ ~(\E k \in 1..Len(inbox) : inbox[k].kind = "list")
        BY <2>1
      <3> QED
        BY <3>1, <3>2, Zenon DEF RefreshUnderWay
    <2> QED
      BY <2>2, <2>4, <2>5 DEF ChangeAnnounced
  <1> QED
    BY <1>1, <1>2, <1>3, Invariance, PTL DEF Spec
=============================================================================
