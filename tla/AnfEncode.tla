------------------------------- MODULE AnfEncode -------------------------------
(***************************************************************************)
(* anf_encode: the tool of pkg/anftools that answers any JSON value with   *)
(* its ANF document, behind the serve loop of AnfServer, whatever other    *)
(* tools there are.                                                        *)
(***************************************************************************)
EXTENDS AnfServer, GenericDepth

\* The "data" argument.
Data(value) == [kind |-> "data", value |-> value]

\* Register gives the tool a handler that fails if Translate does.
ASSUME EncodeAssumption ==
    \A call \in Calls : call[1] = "anf_encode" /\ call[2].kind = "data" =>
        /\ call[2].value \in JsonValues
        /\ Outcome[call].isError <=> TranslateFails(call[2].value)
-----------------------------------------------------------------------------
\* "returns an error if the input nests deeper than maxDepth": a value within
\* the limit is never refused, and one that exceeds it by more than the root,
\* which is not counted, always is.
RefusedByDepth ==
    \A r \in AnswersTo("anf_encode", "data") :
        LET v == sent[r.of].args.value
        IN  /\ ~NestsTo(MaxDepth + 1, v) => r.code = "ok"
            /\ NestsTo(MaxDepth + 2, v) => r.code = "isError"
=============================================================================
