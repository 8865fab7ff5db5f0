------------------------------- MODULE Registry -------------------------------
(***************************************************************************)
(* internal/registry: the tools a process knows and the capability tags    *)
(* they carry.  The bridge fills it at startup and only looks things up    *)
(* afterwards, so it is constant here.  Tags stand for their normalised    *)
(* (trimmed, lower-case) form, which every importer stores.                *)
(***************************************************************************)
EXTENDS Naturals, Sequences, FiniteSets, Functions

CONSTANTS Tools,   \* ids of the registered tools
          Caps,    \* capability tags
          CapsOf   \* Tool.Capabilities: the tags of each tool, in order

\* Register refuses a tool without capability tags.
ASSUME RegistryAssumption ==
    /\ IsFiniteSet(Tools)
    /\ CapsOf \in [Tools -> Seq(Caps)]
    /\ \A t \in Tools : CapsOf[t] # <<>>

\* Lookup: the tools with at least one of the wanted tags.  The order of the
\* result (by id) is fixed by the set.
Lookup(want) == {t \in Tools : Range(CapsOf[t]) \cap want # {}}

\* The tags main collects from All() and hands to the resolver.
allCapabilities == UNION {Range(CapsOf[t]) : t \in Tools}
=============================================================================
