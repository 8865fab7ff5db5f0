-------------------------------- MODULE AnfMcp --------------------------------
(***************************************************************************)
(* cmd/anf-mcp: the server of AnfServer with the tools of pkg/anftools,    *)
(* anf_encode for any JSON value and anf_encode_kubernetes for a namespace *)
(* view, and the format specification as its one resource.  A              *)
(* configuration gives Tools, Resources, Calls and Outcome the values      *)
(* AnfTools, AnfResources, AnfCalls and AnfOutcome.                        *)
(***************************************************************************)
EXTENDS AnfKubernetes, AnfEncode, GenericTranslator

CONSTANT Views  \* the namespace views that clients encode

\* The calls: without arguments, with a value, with a view or what is none.
AnfCalls ==
    ({"anf_encode"} \X ({NoArgs} \cup {Data(v) : v \in JsonValues}))
      \cup ({"anf_encode_kubernetes"} \X ({NoArgs, Undecodable} \cup {View(v) : v \in Views}))

\* With the default scope, which is empty.
encodeHandler(args) ==
    IF args.kind # "data" THEN HandlerError
    ELSE IF TranslateFails(args.value) THEN HandlerError
    ELSE [isError |-> FALSE,
          text    |-> [kind |-> "anf", words |-> Encode(Translate(args.value, ""))]]

\* Register, buildServer
AnfTools == {"anf_encode", "anf_encode_kubernetes"}
AnfResources == {"anf://spec/format"}
AnfOutcome ==
    [call \in AnfCalls |->
        IF call[1] = "anf_encode" THEN encodeHandler(call[2]) ELSE kubernetesHandler(call[2])]
-----------------------------------------------------------------------------
(* Properties: what a client may rely on in the answers it got *)

\* "no fields are dropped": the text that anf_encode answers has every scalar
\* of the value, verbatim and after its key, also if it has several lines.
NoFactDropped ==
    \A r \in AnswersTo("anf_encode", "data") :
        r.code = "ok" => FactsKept(sent[r.of].args.value, r.text.words)

\* "The facts are preserved": two objects whose texts are the same differ at
\* most in the types of their scalars.  It takes objects whose keys are single
\* words and whose values are single lines ("the exact framing of a multi-line
\* value is not" preserved), without arrays, empty containers and empty strings,
\* which the text does not tell apart.
TextTellsObjectsApart ==
    \A r, q \in AnswersTo("anf_encode", "data") :
        LET v == sent[r.of].args.value
            w == sent[q.of].args.value
        IN  /\ r.code = "ok" /\ q.code = "ok" /\ r.text = q.text
            /\ \A u \in {v, w} : u.kind = "object" /\ Plain(u) /\ Framed(u)
            => Untyped(v) = Untyped(w)
=============================================================================
