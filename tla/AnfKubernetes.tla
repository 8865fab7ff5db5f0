----------------------------- MODULE AnfKubernetes -----------------------------
(***************************************************************************)
(* anf_encode_kubernetes: the tool of pkg/anftools that answers a          *)
(* namespace view with its ANF document, behind the serve loop of          *)
(* AnfServer, whatever other tools there are.                              *)
(***************************************************************************)
EXTENDS AnfServer, K8sTranslator

\* The arguments: a view, or a "view" that does not decode into NamespaceView.
View(view) == [kind |-> "view", view |-> view]
Undecodable == [kind |-> "undecodable"]

HandlerError == [isError |-> TRUE, text |-> Text("error")]

kubernetesHandler(args) ==
    IF args.kind # "view" THEN HandlerError
    ELSE [isError |-> FALSE, text |-> [kind |-> "document", doc |-> TranslateView(args.view)]]

\* Register gives the tool this handler, and clients send views of namespaces.
ASSUME KubernetesAssumption ==
    \A call \in Calls : call[1] = "anf_encode_kubernetes" =>
        /\ Outcome[call] = kubernetesHandler(call[2])
        /\ call[2].kind = "view" => IsView(call[2].view)
-----------------------------------------------------------------------------
(* Properties: what a client may rely on in the answers it got *)

\* Every document that anf_encode_kubernetes answers marks a deployment as
\* healthy exactly if none of its critical and warning alerts is about it.
HealthIsTold ==
    \A r \in AnswersTo("anf_encode_kubernetes", "view") : HealthMatchesAlerts(r.text.doc)

\* Every alert and action of such a document refers to an entity of it.
ReferencesResolve ==
    \A r \in AnswersTo("anf_encode_kubernetes", "view") : LinesGrounded(r.text.doc)
=============================================================================
