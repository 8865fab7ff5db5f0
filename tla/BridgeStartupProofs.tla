-------------------------- MODULE BridgeStartupProofs -------------------------
(* Proofs about BridgeStartup, for every number of sources, every set of    *)
(* names and every way safeSourceName folds them.                           *)
EXTENDS BridgeStartup, TLAPS

\* safeSourceName gives a name, or nothing that is one.
LEMMA NameType ==
    ASSUME TypeOK, NEW s \in Sources
    PROVE  NameOf(s) \in Names \cup {NoName} /\ (NameOf(s) # NoName => NameOf(s) \in Names)
  BY StartupAssumption DEF TypeOK, NameOf

\* What is left of a list of descriptors is a list of descriptors.
LEMMA DescriptorTypes ==
    ASSUME NEW S, NEW q \in Seq(S), q # <<>>
    PROVE  Head(q) \in S /\ Tail(q) \in Seq(S)
  OBVIOUS

\* Names do not change: Sole and NameOf mean the same after every step.
LEMMA SameNames ==
    ASSUME cfg' = cfg
    PROVE  /\ \A s \in Sources : NameOf(s)' = NameOf(s)
           /\ \A s \in Sources : Sole(s)' <=> Sole(s)
  BY DEF NameOf, Sole

\* Before the first source is imported the invariant holds.
LEMMA InitInv == Init => Inv
  <1> SUFFICES ASSUME Init PROVE Inv
    OBVIOUS
  <1>1. TypeOK
    <2>1. forwarding \in BOOLEAN /\ signalled \in BOOLEAN
      BY Zenon DEF Init
    <2> QED
      BY <2>1, StartupAssumption DEF Init, TypeOK, Importing
  <1>2. ImportChecked /\ UsableNames
    BY DEF Init, ImportChecked, UsableNames, Registered
  <1>3. SoleRoutedToProvider /\ SoleChildrenReaped
    BY DEF Init, SoleRoutedToProvider, SoleChildrenReaped, Registered
  <1> QED
    BY <1>1, <1>2, <1>3 DEF Inv
-----------------------------------------------------------------------------
\* Every step of the import loop, of Serve, of a child and of the signal keeps it.
LEMMA NextInv == Inv /\ [Next]_vars => Inv'
  <1> SUFFICES ASSUME Inv, [Next]_vars PROVE Inv'
    OBVIOUS
  <1> USE StartupAssumption DEF Inv
  <1>1. ASSUME SkipSource
        PROVE  Inv'
    <2>1. TypeOK'
      BY <1>1 DEF SkipSource, Continue, TypeOK, Sources, tables
    <2>2. ImportChecked'
      BY <1>1 DEF SkipSource, Continue, ImportChecked
    <2>3. UsableNames'
      BY <1>1, SameNames DEF SkipSource, TypeOK, UsableNames, Registered, Sources, tables
    <2>4. SoleRoutedToProvider'
      BY <1>1, SameNames DEF SkipSource, Continue, TypeOK, SoleRoutedToProvider, Registered, Sources, tables
    <2>5. SoleChildrenReaped'
      BY <1>1, SameNames DEF SkipSource, Continue, SoleChildrenReaped, tables
    <2> QED
      BY <2>1, <2>2, <2>3, <2>4, <2>5
  <1>2. ASSUME SpawnFails
        PROVE  Inv'
    <2>1. TypeOK'
      BY <1>2 DEF SpawnFails, AtSource, Continue, TypeOK, Sources, tables
    <2>2. ImportChecked'
      BY <1>2 DEF SpawnFails, Continue, ImportChecked
    <2>3. UsableNames'
      BY <1>2, SameNames DEF SpawnFails, TypeOK, UsableNames, Registered, Sources, tables
    <2>4. SoleRoutedToProvider'
      BY <1>2, SameNames DEF SpawnFails, Continue, TypeOK, SoleRoutedToProvider, Registered, Sources, tables
    <2>5. SoleChildrenReaped'
      BY <1>2, SameNames DEF SpawnFails, AtSource, Continue, SoleChildrenReaped, tables
    <2> QED
      BY <2>1, <2>2, <2>3, <2>4, <2>5
  <1>3. ASSUME Spawn
        PROVE  Inv'
    <2>1. TypeOK'
      BY <1>3 DEF Spawn, TypeOK, Importing, tables
    <2>2. ImportChecked'
      BY <1>3, NameType, SameNames DEF Spawn, AtSource, ImportChecked
    <2>3. UsableNames'
      <3>1. /\ cur \in Sources /\ NameOf(cur) \in Names
            /\ child' = [child EXCEPT ![cur] = "up"] /\ UNCHANGED <<cfg, clients, reg>>
        BY <1>3, NameType DEF Spawn, AtSource, tables
      <3>2. \A s : NameOf(s)' = NameOf(s)
        BY <3>1 DEF NameOf
      <3> QED
        BY <3>1, <3>2 DEF TypeOK, UsableNames, Registered
    <2>4. SoleRoutedToProvider'
      BY <1>3, SameNames DEF Spawn, TypeOK, SoleRoutedToProvider, Registered, Sources, tables
    <2>5. SoleChildrenReaped'
      BY <1>3, SameNames DEF Spawn, SoleChildrenReaped, tables
    <2> QED
      BY <2>1, <2>2, <2>3, <2>4, <2>5
  <1>4. ASSUME HandshakeFails
        PROVE  Inv'
    <2>1. TypeOK'
      BY <1>4 DEF HandshakeFails, Continue, TypeOK, ImportChecked, Importing, Sources, tables
    <2>2. ImportChecked'
      BY <1>4 DEF HandshakeFails, Continue, ImportChecked
    <2>3. UsableNames'
      BY <1>4, SameNames DEF HandshakeFails, TypeOK, ImportChecked, UsableNames, Registered, Sources, tables
    <2>4. SoleRoutedToProvider'
      BY <1>4, SameNames DEF HandshakeFails, Continue, TypeOK, SoleRoutedToProvider, Registered,
         Sources, tables
    <2>5. SoleChildrenReaped'
      BY <1>4, SameNames DEF HandshakeFails, Continue, TypeOK, SoleChildrenReaped, tables
    <2> QED
      BY <2>1, <2>2, <2>3, <2>4, <2>5
  <1>5. ASSUME Initialized
        PROVE  Inv'
    <2>1. TypeOK'
      BY <1>5 DEF Initialized, TypeOK, Importing, tables
    <2>2. ImportChecked'
      BY <1>5, SameNames DEF Initialized, TypeOK, ImportChecked
    <2>3. UsableNames'
      BY <1>5, SameNames DEF Initialized, TypeOK, UsableNames, Registered, Sources, tables
    <2>4. SoleRoutedToProvider'
      BY <1>5, SameNames DEF Initialized, TypeOK, SoleRoutedToProvider, Registered, Sources, tables
    <2>5. SoleChildrenReaped'
      BY <1>5, SameNames DEF Initialized, SoleChildrenReaped, tables
    <2> QED
      BY <2>1, <2>2, <2>3, <2>4, <2>5
  <1>6. ASSUME NEW ds \in Descriptors, Listed(ds)
        PROVE  Inv'
    <2>1. TypeOK'
      BY <1>6 DEF Listed, TypeOK, Importing, tables
    <2>2. ImportChecked'
      BY <1>6, SameNames DEF Listed, TypeOK, ImportChecked
    <2>3. UsableNames'
      BY <1>6, SameNames DEF Listed, TypeOK, UsableNames, Registered, Sources, tables
    <2>4. SoleRoutedToProvider'
      BY <1>6, SameNames DEF Listed, TypeOK, SoleRoutedToProvider, Registered, Sources, tables
    <2>5. SoleChildrenReaped'
      BY <1>6, SameNames DEF Listed, SoleChildrenReaped, tables
    <2> QED
      BY <2>1, <2>2, <2>3, <2>4, <2>5
  <1>7. ASSUME NEW ds \in Descriptors, Fetched(ds)
        PROVE  Inv'
    <2>1. TypeOK'
      BY <1>7 DEF Fetched, TypeOK, Importing, tables
    <2>2. ImportChecked'
      BY <1>7, NameType, SameNames DEF Fetched, AtSource, ImportChecked
    <2>3. UsableNames'
      BY <1>7, SameNames DEF Fetched, TypeOK, UsableNames, Registered, Sources, tables
    <2>4. SoleRoutedToProvider'
      BY <1>7, SameNames DEF Fetched, TypeOK, SoleRoutedToProvider, Registered, Sources, tables
    <2>5. SoleChildrenReaped'
      BY <1>7, SameNames DEF Fetched, AtSource, SoleChildrenReaped, tables
    <2> QED
      BY <2>1, <2>2, <2>3, <2>4, <2>5
  <1>8. ASSUME RegisterClient
        PROVE  Inv'
    <2>1. TypeOK'
      BY <1>8 DEF RegisterClient, TypeOK, ImportChecked, Importing, Sources
    <2>2. ImportChecked'
      BY <1>8, SameNames DEF RegisterClient, TypeOK, ImportChecked
    <2>3. UsableNames'
      BY <1>8, SameNames DEF RegisterClient, TypeOK, ImportChecked, UsableNames, Registered, Sources
    <2>4. SoleRoutedToProvider'
      <3> SUFFICES ASSUME NEW t \in Registered, cfg[reg[t]].kind = "stdio", Sole(reg[t])
                   PROVE  clients'[t[1]] = reg[t] /\ (pc' = "serving" => forwarding')
        BY <1>8, SameNames DEF RegisterClient, SoleRoutedToProvider, Registered, TypeOK, Sources
      <3>1. reg[t] \in Sources /\ t[1] \in Names /\ NameOf(reg[t]) = t[1] /\ clients[t[1]] = reg[t]
        BY DEF UsableNames, SoleRoutedToProvider, Registered, TypeOK, ToolIds, Sources
      <3>2. reg[t] # cur => t[1] # NameOf(cur)
        BY <1>8, <3>1 DEF Sole, RegisterClient, ImportChecked, Importing
      <3> QED
        BY <1>8, <3>1, <3>2 DEF RegisterClient
    <2>5. SoleChildrenReaped'
      BY <1>8, NameType, SameNames DEF RegisterClient, TypeOK, ImportChecked, SoleChildrenReaped,
         Sole, Importing
    <2> QED
      BY <2>1, <2>2, <2>3, <2>4, <2>5
  <1>9. ASSUME FetchFails
        PROVE  Inv'
    <2>1. TypeOK'
      BY <1>9 DEF FetchFails, AtSource, Continue, TypeOK, Sources, tables
    <2>2. ImportChecked'
      BY <1>9 DEF FetchFails, Continue, ImportChecked
    <2>3. UsableNames'
      BY <1>9, SameNames DEF FetchFails, TypeOK, UsableNames, Registered, Sources, tables
    <2>4. SoleRoutedToProvider'
      BY <1>9, SameNames DEF FetchFails, Continue, TypeOK, SoleRoutedToProvider, Registered, Sources, tables
    <2>5. SoleChildrenReaped'
      BY <1>9, SameNames DEF FetchFails, AtSource, Continue, SoleChildrenReaped, tables
    <2> QED
      BY <2>1, <2>2, <2>3, <2>4, <2>5
  <1>10. ASSUME RegisterTool
        PROVE  Inv'
    <2>1. TypeOK'
      BY <1>10 DEF RegisterTool, TypeOK, ImportChecked, Sources, ToolIds
    <2>2. ImportChecked'
      BY <1>10, SameNames DEF RegisterTool, TypeOK, ImportChecked
    <2>3. UsableNames'
      BY <1>10, SameNames DEF RegisterTool, TypeOK, ImportChecked, UsableNames, Registered, Sources
    <2>4. SoleRoutedToProvider'
      BY <1>10, SameNames DEF RegisterTool, TypeOK, ImportChecked, SoleRoutedToProvider, Registered, Sources
    <2>5. SoleChildrenReaped'
      BY <1>10, SameNames DEF RegisterTool, SoleChildrenReaped
    <2> QED
      BY <2>1, <2>2, <2>3, <2>4, <2>5
  <1>11. ASSUME RegisterToolFails
        PROVE  Inv'
    <2>0. cfg' = cfg
      BY <1>11 DEF RegisterToolFails
    <2>1. TypeOK'
      BY <1>11 DEF RegisterToolFails, Continue, TypeOK, ImportChecked, Importing, Sources, tables
    <2>2. ImportChecked'
      BY <1>11 DEF RegisterToolFails, Continue, ImportChecked
    <2>3. UsableNames'
      BY <1>11, <2>0, SameNames DEF RegisterToolFails, TypeOK, UsableNames, Registered, Sources, tables
    <2>4. SoleRoutedToProvider'
      BY <1>11, SameNames DEF RegisterToolFails, Continue, TypeOK, SoleRoutedToProvider, Registered,
         Sources, tables
    <2>5. SoleChildrenReaped'
      BY <1>11, SameNames DEF RegisterToolFails, Continue, SoleChildrenReaped, tables
    <2> QED
      BY <2>1, <2>2, <2>3, <2>4, <2>5
  <1>12. ASSUME SourceImported
        PROVE  Inv'
    <2>1. TypeOK'
      BY <1>12 DEF SourceImported, Continue, TypeOK, ImportChecked, Importing, Sources, tables
    <2>2. ImportChecked'
      BY <1>12 DEF SourceImported, Continue, ImportChecked
    <2>3. UsableNames'
      BY <1>12, SameNames DEF SourceImported, TypeOK, UsableNames, Registered, Sources, tables
    <2>4. SoleRoutedToProvider'
      BY <1>12, SameNames DEF SourceImported, Continue, TypeOK, SoleRoutedToProvider, Registered,
         Sources, tables
    <2>5. SoleChildrenReaped'
      BY <1>12, SameNames DEF SourceImported, Continue, SoleChildrenReaped, tables
    <2> QED
      BY <2>1, <2>2, <2>3, <2>4, <2>5
  <1>13. ASSUME StartServing
        PROVE  Inv'
    <2>0. cfg' = cfg
      BY <1>13 DEF StartServing
    <2>1. TypeOK'
      BY <1>13 DEF StartServing, TypeOK
    <2>2. ImportChecked'
      BY <1>13 DEF StartServing, ImportChecked, Importing
    <2>3. UsableNames'
      BY <1>13, <2>0, SameNames DEF StartServing, TypeOK, UsableNames, Registered, Sources
    <2>4. SoleRoutedToProvider'
      <3> SUFFICES ASSUME NEW t \in Registered, cfg[reg[t]].kind = "stdio", Sole(reg[t])
                   PROVE  clients[t[1]] = reg[t] /\ forwarding'
        BY <1>13, SameNames DEF StartServing, SoleRoutedToProvider, Registered, TypeOK, Sources
      <3>1. t[1] \in Names /\ reg[t] # 0 /\ clients[t[1]] = reg[t]
        BY DEF SoleRoutedToProvider, Registered, ToolIds
      <3>2. forwarding'
        BY <1>13, <3>1, Zenon DEF StartServing
      <3> QED
        BY <3>1, <3>2
    <2>5. SoleChildrenReaped'
      BY <1>13, SameNames DEF StartServing, SoleChildrenReaped
    <2> QED
      BY <2>1, <2>2, <2>3, <2>4, <2>5
  <1>14. ASSUME ServeReturns
        PROVE  Inv'
    <2>1. TypeOK'
      BY <1>14 DEF ServeReturns, TypeOK, tables
    <2>2. ImportChecked'
      BY <1>14 DEF ServeReturns, ImportChecked, Importing
    <2>3. UsableNames'
      <3>1. ASSUME NEW s \in Sources, child'[s] # "none"
            PROVE  NameOf(s) \in Names
        <4>1. CASE \E n \in Names : clients[n] = s
          BY <4>1 DEF UsableNames, Sources
        <4>2. CASE ~ \E n \in Names : clients[n] = s
          BY <1>14, <3>1 DEF ServeReturns, UsableNames
        <4> QED
          BY <4>1, <4>2
      <3> QED
        BY <1>14, <3>1, SameNames DEF ServeReturns, TypeOK, UsableNames, Registered, Sources, tables
    <2>4. SoleRoutedToProvider'
      BY <1>14, SameNames DEF ServeReturns, TypeOK, SoleRoutedToProvider, Registered, Sources, tables
    <2>5. SoleChildrenReaped'
      BY <1>14, SameNames DEF ServeReturns, UsableNames, SoleChildrenReaped
    <2> QED
      BY <2>1, <2>2, <2>3, <2>4, <2>5
  <1>15. ASSUME ServeFails
        PROVE  Inv'
    <2>1. TypeOK'
      BY <1>15 DEF ServeFails, TypeOK, tables
    <2>2. ImportChecked'
      BY <1>15 DEF ServeFails, ImportChecked, Importing
    <2>3. UsableNames'
      BY <1>15, SameNames DEF ServeFails, TypeOK, UsableNames, Registered, Sources, tables
    <2>4. SoleRoutedToProvider'
      BY <1>15, SameNames DEF ServeFails, TypeOK, SoleRoutedToProvider, Registered, Sources, tables
    <2>5. SoleChildrenReaped'
      BY <1>15, SameNames DEF ServeFails, SoleChildrenReaped, tables
    <2> QED
      BY <2>1, <2>2, <2>3, <2>4, <2>5
  <1>16. ASSUME NEW s \in Sources, ChildExits(s)
        PROVE  Inv'
    <2>1. TypeOK'
      BY <1>16 DEF ChildExits, TypeOK, tables
    <2>2. ImportChecked'
      BY <1>16, SameNames DEF ChildExits, Running, ImportChecked, tables
    <2>3. UsableNames'
      BY <1>16, SameNames DEF ChildExits, TypeOK, UsableNames, Registered, Sources, tables
    <2>4. SoleRoutedToProvider'
      BY <1>16, SameNames DEF ChildExits, TypeOK, SoleRoutedToProvider, Registered, Sources, tables
    <2>5. SoleChildrenReaped'
      BY <1>16, SameNames DEF ChildExits, SoleChildrenReaped, tables
    <2> QED
      BY <2>1, <2>2, <2>3, <2>4, <2>5
  <1>17. ASSUME Signal
        PROVE  Inv'
    <2>1. TypeOK'
      BY <1>17 DEF Signal, TypeOK, tables
    <2>2. ImportChecked'
      BY <1>17, SameNames DEF Signal, Running, ImportChecked, tables
    <2>3. UsableNames'
      BY <1>17, SameNames DEF Signal, TypeOK, UsableNames, Registered, Sources, tables
    <2>4. SoleRoutedToProvider'
      BY <1>17, SameNames DEF Signal, TypeOK, SoleRoutedToProvider, Registered, Sources, tables
    <2>5. SoleChildrenReaped'
      BY <1>17, SameNames DEF Signal, SoleChildrenReaped, tables
    <2> QED
      BY <2>1, <2>2, <2>3, <2>4, <2>5
  <1>18. CASE UNCHANGED vars
    BY <1>18 DEF vars, TypeOK, ImportChecked, UsableNames, SoleRoutedToProvider, SoleChildrenReaped,
       Registered, Sole, NameOf
  <1> QED
    BY <1>1, <1>2, <1>3, <1>4, <1>5, <1>6, <1>7, <1>8, <1>9, <1>10, <1>11, <1>12, <1>13, <1>14, <1>15,
       <1>16, <1>17, <1>18 DEF Next, ImportStep, Ended
-----------------------------------------------------------------------------
\* The inductive invariant holds in every state of acp-bridge's main.
THEOREM Invariance == Spec => []Inv
  BY InitInv, NextInv, PTL DEF Spec

\* main never leaves the types of its variables: the import loop, which every
\* failure continues, does not run past the last source.
THEOREM TypeCorrect == Spec => []TypeOK
  <1>1. Inv => TypeOK
    BY DEF Inv
  <1> QED
    BY <1>1, Invariance, PTL

\* A registered tool of a stdio source whose name no other source has is
\* forwarded to the server that offered it, whatever failed or collided before.
THEOREM RoutedToProvider == Spec => []SoleRoutedToProvider
  <1>1. Inv => SoleRoutedToProvider
    BY DEF Inv
  <1> QED
    BY <1>1, Invariance, PTL

\* No import leaves a process behind: what was started is in the hands of the
\* import or of the manager, and reaped when main returns.
THEOREM ChildrenReaped == Spec => []SoleChildrenReaped
  <1>1. Inv => SoleChildrenReaped
    BY DEF Inv
  <1> QED
    BY <1>1, Invariance, PTL
=============================================================================
