----------------------------- MODULE MCAcpServer -----------------------------
EXTENDS AdapterClient, TLC

CONSTANTS r1, r2, r3

RequestNames == {r1, r2, r3}
Symmetry == Permutations(RequestNames)

\* The registry that Seed fills and acp-server serves, and a tool that the MCP
\* source imported from a stdio server: it lists no host for the proxy.
KnownOrder == <<"audit.log_event", "db.query", "email.send", "files.read",
               "slack.send_message", "template.render">>
KnownTools == Range(KnownOrder)
KnownRank == AntiFunction(KnownOrder)
KnownCaps == {"sql", "database", "template", "email", "messaging", "slack", "audit", "files"}
KnownCapsOf ==
    [t \in KnownTools |->
        CASE t = "audit.log_event" -> <<"audit">>
          [] t = "db.query" -> <<"sql", "database">>
          [] t = "email.send" -> <<"email">>
          [] t = "files.read" -> <<"files">>
          [] t = "slack.send_message" -> <<"messaging", "slack">>
          [] t = "template.render" -> <<"template">>]
KnownDependsOnCaps ==
    [t \in KnownTools |->
        CASE t = "email.send" -> {"template", "sql"}
          [] t = "template.render" -> {"sql"}
          [] OTHER -> {}]
KnownHosts == {"audit.svc", "db-proxy.svc", "email-gw.svc", "files", "slack-gw.svc", "template-svc.svc"}
KnownEndpointHost ==
    [t \in KnownTools |->
        CASE t = "audit.log_event" -> "audit.svc"
          [] t = "db.query" -> "db-proxy.svc"
          [] t = "email.send" -> "email-gw.svc"
          [] t = "files.read" -> "files"
          [] t = "slack.send_message" -> "slack-gw.svc"
          [] t = "template.render" -> "template-svc.svc"]
KnownEgress == [t \in KnownTools |-> IF t = "files.read" THEN {} ELSE {KnownEndpointHost[t]}]
KnownRequireApprov == [t \in KnownTools |-> t = "email.send"]

\* The seed has no cyclic dependencies.
KnownLevel ==
    [t \in KnownTools |-> CASE t = "email.send" -> 2 [] t = "template.render" -> 1 [] OTHER -> 0]
ASSUME SeedHasLevels == LevelsOf(KnownLevel)

\* Intents, and what DefaultKeywordTable and the centroids of DefaultExamples
\* make of them.
SendTheTeam == {"send", "the", "team"}
CustomerData == {"query", "customer", "data"}
KnownIntents == {{"invoice"}, {"db"}, SendTheTeam, CustomerData}
KnownKeywords ==
    [word \in {"query", "customer", "db", "send", "team"} |->
        CASE word = "db" -> {"sql", "database"}
          [] word = "send" -> {"email", "messaging"}
          [] word = "team" -> {"email"}
          [] OTHER -> {"sql"}]
Centroids == {"sql", "audit", "template", "email", "messaging", "slack"}
KnownSimilarity ==
    [intent \in KnownIntents |->
        IF intent = SendTheTeam
        THEN [sql |-> 48, audit |-> 31, template |-> 125, email |-> 412, messaging |-> 309, slack |-> 0]
        ELSE IF intent = CustomerData
        THEN [sql |-> 489, audit |-> 0, template |-> 271, email |-> 0, messaging |-> 0, slack |-> 0]
        ELSE [cap \in Centroids |-> 0]]
Query(intent, hints) == [intent |-> intent, hints |-> hints]
KnownQueries == {Query({"invoice"}, {}), Query({"db"}, {}), Query(SendTheTeam, {"files"}),
                 Query(CustomerData, {"email"})}
==============================================================================
