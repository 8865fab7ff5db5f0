---------------------------- MODULE IntentResolver ----------------------------
(***************************************************************************)
(* internal/resolver: from the intent of a request and its capability      *)
(* hints to capability tags, by keywords or by the similarity of the       *)
(* intent to example phrases.                                              *)
(*                                                                         *)
(* An intent is the set of its words (tokenize).  The similarities are     *)
(* constants, in thousandths: what the hashed TF-IDF vectors of an intent  *)
(* and of the examples of a capability come to.                            *)
(***************************************************************************)
EXTENDS Registry

CONSTANTS ResolverKind,  \* -resolver
          Intents,       \* the intents of requests, sets of words
          Keywords,      \* DefaultKeywordTable: words to capabilities
          Similarity,    \* of each intent to the centroids of capabilities
          Threshold      \* the similarity from which a capability counts

ASSUME ResolverAssumption ==
    /\ Keywords \in [DOMAIN Keywords -> SUBSET Caps]
    /\ \A intent \in Intents : DOMAIN Similarity[intent] \subseteq Caps

keywordResolve(intent, hints) ==
    hints \cup UNION {Keywords[word] : word \in intent \cap DOMAIN Keywords}

\* The capabilities whose centroid is near enough; none for an empty intent.
Near(intent) ==
    {cap \in DOMAIN Similarity[intent] : intent # {} /\ Similarity[intent][cap] >= Threshold}

embeddingResolveUnlessNear(intent, hints) ==
    IF Near(intent) # {} THEN Near(intent) ELSE keywordResolve(intent, hints)

embeddingResolveAlone(intent, hints) == hints \cup Near(intent)

\* The keywords are the fallback only if there are no hints either.
embeddingResolve(intent, hints) ==
    IF hints \cup Near(intent) = {} THEN keywordResolve(intent, hints)
    ELSE hints \cup Near(intent)

\* pickResolver; {} is ErrNoCapabilities.
Resolve(intent, hints) ==
    IF ResolverKind = "embedding" THEN embeddingResolve(intent, hints)
    ELSE keywordResolve(intent, hints)
=============================================================================
