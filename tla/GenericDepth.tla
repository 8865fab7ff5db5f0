----------------------------- MODULE GenericDepth -----------------------------
(***************************************************************************)
(* translators/generic: which JSON values Translate refuses because they   *)
(* nest too deeply.  A value is a record with its kind and, as the kind    *)
(* may be, its fields (a function from the keys) or its elems.             *)
(***************************************************************************)
EXTENDS Integers, Functions

CONSTANTS JsonValues,  \* the JSON values that clients encode, and all inside them
          MaxDepth     \* maxDepth

isContainer(v) == v.kind \in {"object", "array"}

Elements(v) ==
    IF v.kind = "array" THEN Range(v.elems)
    ELSE IF v.kind = "object" THEN Range(v.fields)
    ELSE {}

ASSUME DepthAssumption ==
    MaxDepth \in Nat /\ \A v \in JsonValues : Elements(v) \subseteq JsonValues

\* The values that entityFromValue is called for on behalf of v: the scalars of
\* an array are among them, those of an object are not.
visited == [v \in JsonValues |-> {w \in Elements(v) : v.kind = "array" \/ isContainer(w)}]

\* The values that are n steps below the first ones, as far as matters.
Generations(first, next) ==
    LET generation[n \in 0..(MaxDepth + 1)] ==
            IF n = 0 THEN first ELSE UNION {next[v] : v \in generation[n - 1]}
    IN  generation

exceedsAtEntry(depth) == depth >= MaxDepth

\* entityFromValue returns "input nesting exceeds %d levels".
exceeds(depth) == depth > MaxDepth

\* Translate returns an error, as soon as one call does.  It treats the root
\* itself, at depth 0, and does not check it.
TranslateFails(v) ==
    \E depth \in 1..(MaxDepth + 1) :
        exceeds(depth) /\ Generations({v}, visited)[depth] # {}
-----------------------------------------------------------------------------
(* The levels of a value *)

Containers(set) == {v \in set : isContainer(v)}

inside == [v \in JsonValues |-> Containers(Elements(v))]

\* As many containers are inside each other, the value itself included.
NestsTo(levels, v) == Generations(Containers({v}), inside)[levels - 1] # {}
=============================================================================
