------------------------ MODULE DeferredResolverProofs ------------------------
(* Proofs about DeferredResolver, for every registry, window size, threshold *)
(* and number of goroutines.                                                 *)
EXTENDS DeferredResolver, SequenceTheorems, TLAPS
-----------------------------------------------------------------------------
(* The window *)

\* The effective options are positive whatever the configuration says.
LEMMA OptionsPositive == windowSize \in Nat \ {0} /\ narrowThreshold \in Nat \ {0}
  BY OptionsAssumption DEF windowSize, narrowThreshold

\* Observe appends a tag and keeps a suffix.
LEMMA PushType ==
    ASSUME NEW w \in Seq(Caps), NEW c \in Caps
    PROVE  Push(w, c) \in Seq(Caps)
  <1>1. PICK l : l = Append(w, c)
    OBVIOUS
  <1>2. l \in Seq(Caps) /\ Len(l) \in Nat
    BY <1>1
  <1>3. ASSUME Len(l) > windowSize
        PROVE  SubSeq(l, Len(l) - windowSize + 1, Len(l)) \in Seq(Caps)
    <2>1. Len(l) - windowSize + 1 \in 1..Len(l)
      BY <1>2, <1>3, OptionsPositive
    <2>2. \A i \in 1..Len(l) : SubSeq(l, i, Len(l)) \in Seq(Caps)
      BY <1>2
    <2> QED
      BY <2>1, <2>2
  <1> QED
    BY <1>1, <1>2, <1>3, Zenon DEF Push

\* The observed tags are tags, and there are some as soon as there is an
\* observation.
LEMMA ObservedTags ==
    ASSUME NEW w \in Seq(Caps)
    PROVE  /\ Len(w) \in Nat /\ Range(w) \in SUBSET Caps
           /\ Len(w) # 0 => Range(w) # {}
  <1>1. Len(w) \in Nat /\ \A i \in DOMAIN w : w[i] \in Caps
    OBVIOUS
  <1>2. Range(w) \in SUBSET Caps
    BY <1>1, Zenon DEF Range
  <1>3. ASSUME Len(w) # 0 PROVE Range(w) # {}
    <2>1. 1 \in DOMAIN w
      BY <1>3
    <2> QED
      BY <2>1, Zenon DEF Range
  <1> QED
    BY <1>1, <1>2, <1>3

\* Resolve returns tags.
LEMMA ResolveType ==
    ASSUME NEW n, NEW o \in SUBSET Caps, NEW f \in SUBSET Caps, NEW h \in SUBSET Caps
    PROVE  ResolveFrom(n, o, f, h) \in SUBSET Caps
  <1>1. \A t \in Tools : Range(CapsOf[t]) \in SUBSET Caps
    BY RegistryAssumption, ObservedTags
  <1>2. allCapabilities \in SUBSET Caps
    BY <1>1, Zenon DEF allCapabilities
  <1> QED
    BY <1>2, Zenon DEF ResolveFrom

\* A registry with a tool has a capability tag.
LEMMA SomeCapability == Tools # {} => allCapabilities # {}
  <1> SUFFICES ASSUME NEW t \in Tools PROVE allCapabilities # {}
    OBVIOUS
  <1>1. CapsOf[t] \in Seq(Caps) /\ Len(CapsOf[t]) # 0
    BY RegistryAssumption
  <1>2. Range(CapsOf[t]) # {}
    BY <1>1, ObservedTags
  <1> QED
    BY <1>2, Zenon DEF allCapabilities

\* With a tool registered a Resolve that nothing interrupts never fails,
\* whatever the window: below the threshold it offers everything, at or above
\* it there is an observed tag.
LEMMA ResolveSome ==
    ASSUME NEW w \in Seq(Caps), NEW f, NEW h, Tools # {}
    PROVE  ResolveFrom(Len(w), Range(w), f, h) # {}
  <1>1. CASE Len(w) < narrowThreshold
    BY <1>1, SomeCapability DEF ResolveFrom
  <1>2. CASE ~(Len(w) < narrowThreshold)
    <2>1. Len(w) # 0
      BY <1>2, OptionsPositive
    <2>2. Range(w) # {}
      BY <2>1, ObservedTags
    <2> QED
      BY <1>2, <2>2 DEF ResolveFrom
  <1> QED
    BY <1>1, <1>2
-----------------------------------------------------------------------------
-----------------------------------------------------------------------------
\* The invariant holds before the first Observe and the first Resolve.
LEMMA InitInv == Init => Inv
  <1> SUFFICES ASSUME Init PROVE Inv
    OBVIOUS
  <1>1. TypeOK
    BY ResolverAssumption DEF Init, TypeOK
  <1>2. StillRight /\ AlwaysSome /\ Linearizable
    BY DEF Init, StillRight, AlwaysSome, Linearizable
  <1> QED
    BY <1>1, <1>2 DEF Inv

\* A change of the window keeps the invariant: every Resolve under way gets one
\* more possible answer and loses none.
LEMMA UpdateInv ==
    ASSUME Inv, NEW w \in Seq(Caps), Update(w)
    PROVE  Inv'
  <1> USE DEF Inv
  <1>1. \A p \in Resolvers : RightFor(w, p) \in SUBSET Caps /\ (Tools # {} => RightFor(w, p) # {})
    BY ObservedTags, ResolveType, ResolveSome DEF RightFor, TypeOK
  <1>2. \A p \in Resolvers : RightFor(w, p)' = RightFor(w, p)
    BY DEF RightFor, Update, locals
  <1>3. TypeOK'
    BY <1>1, ResolverAssumption DEF TypeOK, Update, locals
  <1>4. StillRight'
    BY <1>2 DEF StillRight, Copied, TypeOK, Update, locals, RightFor
  <1>5. AlwaysSome'
    BY <1>1 DEF AlwaysSome, TypeOK, Update, locals
  <1>6. Linearizable'
    BY DEF Linearizable, TypeOK, Update, locals
  <1> QED
    BY <1>3, <1>4, <1>5, <1>6

\* Every step of Observe, Reset and Resolve keeps it.
LEMMA NextInv == Inv /\ [Next]_vars => Inv'
  <1> SUFFICES ASSUME Inv, [Next]_vars PROVE Inv'
    OBVIOUS
  <1> USE DEF Inv
  <1>1. ASSUME NEW c \in Caps, Observe(c)
        PROVE  Inv'
    <2>1. Push(window, c) \in Seq(Caps)
      BY PushType DEF TypeOK
    <2>2. Update(Push(window, c))
      BY <1>1 DEF Observe
    <2> QED
      BY <2>1, <2>2, UpdateInv
  <1>2. CASE Reset
    <2>1. <<>> \in Seq(Caps)
      OBVIOUS
    <2> QED
      BY <1>2, <2>1, UpdateInv, Zenon DEF Reset
  <1>3. ASSUME NEW p \in Resolvers, NEW f \in FallbackSets, NEW h \in HintSets, CallResolve(p, f, h)
        PROVE  Inv'
    <2> DEFINE r == ResolveFrom(Len(window), Range(window), f, h)
    <2>1. f \in SUBSET Caps /\ h \in SUBSET Caps
      BY ResolverAssumption
    <2>2. r \in SUBSET Caps /\ (Tools # {} => r # {})
      BY <2>1, ObservedTags, ResolveType, ResolveSome DEF TypeOK
    <2> HIDE DEF r
    <2>3. TypeOK'
      BY <1>3, <2>1, <2>2 DEF TypeOK, CallResolve, r
    <2>4. StillRight'
      BY <1>3 DEF StillRight, Copied, RightFor, TypeOK, CallResolve
    <2>5. AlwaysSome' /\ Linearizable'
      BY <1>3, <2>2 DEF AlwaysSome, Linearizable, TypeOK, CallResolve, r
    <2> QED
      BY <2>3, <2>4, <2>5
  <1>4. ASSUME NEW p \in Resolvers, Copy(p)
        PROVE  Inv'
    <2>1. TypeOK'
      BY <1>4, ObservedTags DEF TypeOK, Copy
    <2>2. StillRight'
      BY <1>4 DEF StillRight, Copied, RightFor, TypeOK, Copy
    <2>3. AlwaysSome' /\ Linearizable'
      BY <1>4 DEF AlwaysSome, Linearizable, TypeOK, Copy
    <2> QED
      BY <2>1, <2>2, <2>3
  <1>5. ASSUME NEW p \in Resolvers, Return(p)
        PROVE  Inv'
    <2> DEFINE r == ResolveFrom(obsCount[p], observed[p], args[p].fallback, args[p].hints)
    <2>1. r \in SUBSET Caps /\ r \in possible[p]
      BY <1>5, ResolveType DEF StillRight, Copied, TypeOK, Return
    <2>2. answer' = [answer EXCEPT ![p] = r]
      BY <1>5 DEF Return
    <2> HIDE DEF r
    <2>3. TypeOK'
      BY <1>5, <2>1, <2>2 DEF TypeOK, Return
    <2>4. StillRight'
      BY <1>5 DEF StillRight, Copied, RightFor, TypeOK, Return
    <2>5. AlwaysSome' /\ Linearizable'
      BY <1>5, <2>1, <2>2 DEF AlwaysSome, Linearizable, TypeOK, Return
    <2> QED
      BY <2>3, <2>4, <2>5
  <1>6. ASSUME NEW p \in Resolvers, Again(p)
        PROVE  Inv'
    <2>1. TypeOK'
      BY <1>6 DEF TypeOK, Again
    <2>2. StillRight'
      BY <1>6 DEF StillRight, Copied, RightFor, TypeOK, Again
    <2>3. AlwaysSome' /\ Linearizable'
      BY <1>6 DEF AlwaysSome, Linearizable, TypeOK, Again
    <2> QED
      BY <2>1, <2>2, <2>3
  <1>7. CASE UNCHANGED vars
    BY <1>7 DEF vars, locals, TypeOK, StillRight, Copied, RightFor, AlwaysSome, Linearizable
  <1> QED
    BY <1>1, <1>2, <1>3, <1>4, <1>5, <1>6, <1>7 DEF Next
-----------------------------------------------------------------------------
\* The inductive invariant holds in every state of the shared resolver.
THEOREM Invariance == Spec => []Inv
  BY InitInv, NextInv, PTL DEF Spec

\* Resolve is linearizable although it computes outside the lock, for any
\* number of goroutines and any interleaving with Observe and Reset.
THEOREM ResolveLinearizable == Spec => []Linearizable
  <1>1. Inv => Linearizable
    BY DEF Inv
  <1> QED
    BY <1>1, Invariance, PTL

\* Once a tool is registered Resolve never fails with ErrNoCapabilities: its
\* answer was right at some moment of the call, and no window resolves to
\* nothing.
THEOREM ResolveNeverFails == Tools # {} /\ Spec => []NeverEmpty
  <1> SUFFICES ASSUME Tools # {} PROVE Spec => []NeverEmpty
    OBVIOUS
  <1>1. Inv => NeverEmpty
    BY DEF Inv, AlwaysSome, Linearizable, NeverEmpty
  <1> QED
    BY <1>1, Invariance, PTL
=============================================================================
