------------------------------- MODULE MCAnfMcp -------------------------------
EXTENDS AnfMcp

\* JSON values with up to four levels of containers; one key is "name".  One
\* key and one value have a blank, which gives two objects the same text; one
\* value goes on like another field after a newline.
MCKeyOrder == <<"a", "a b", "name">>
x == Scalar("string", "x")
one == Scalar("number", "1")
none == Scalar("string", "")
bx == Scalar("string", "b x")
twoLines == Scalar("string", "x\n  name x")
MCSpaced ==
    ("a b" :> <<"a", " ", "b">>) @@ (bx.text :> <<"b", " ", "x">>)
      @@ (twoLines.text :> <<"x", "\n", " ", " ", "name", " ", "x">>)
Flat == {Object([a |-> x]), Object([a |-> one]), Object([name |-> x]), Object([a |-> x, name |-> x]),
         Object([name |-> one]), Object([a |-> none]), Object(<<>>),
         Array(<<>>), Array(<<x>>), Array(<<one, x>>)}
Spacious == {Object("a b" :> x), Object([a |-> bx]), Object([a |-> twoLines])}
Nested == {Object([a |-> v]) : v \in Flat \cup Spacious} \cup {Array(<<Object(<<>>), x>>)}
            \cup {Object([a |-> v, name |-> x]) : v \in {Object([a |-> one]), Array(<<x>>)}}
Deeper == {Object([a |-> Object([a |-> v])]) : v \in {Object([name |-> x]), Array(<<x>>), Array(<<>>)}}
Deepest == {Object([a |-> v]) : v \in Deeper}
MCJsonValues == {x, one, none, bx, twoLines} \cup Flat \cup Spacious \cup Nested \cup Deeper \cup Deepest

\* Views at both sides of every threshold.
Pods(names, phases) ==
    {[name |-> n, phase |-> p, mem |-> m, restarts24h |-> r] :
        n \in names, p \in phases, m \in {90, 91}, r \in {2, 3}}
Deployment(name, ready, mem, cpu, latest, pods) ==
    [name |-> name, replicas |-> 2, ready |-> ready, image |-> "v1", latestImage |-> latest,
     cpu |-> cpu, mem |-> mem, pods |-> pods]
Namespace(deployments, permissions) ==
    [deployments |-> deployments, services |-> {"web"}, cronJobs |-> {"nightly"},
     jobs |-> {[name |-> "migrate", completed |-> TRUE, succeeded |-> FALSE]},
     permissions |-> permissions]
Sound == Deployment("web", 2, 80, 80, "", {})
MCViews ==
    {Namespace({}, {"scale"})}
      \cup {Namespace({Deployment("api", ready, mem, cpu, "v1", {})}, {"rollout", "scale"}) :
              ready \in 0..2, mem \in {80, 81}, cpu \in {80, 81}}
      \cup {Namespace({Sound, Deployment("api", ready, 80, 80, "v2", {p})}, {"logs", "rollout"}) :
              ready \in {1, 3}, p \in Pods({"api-1"}, {"failed"})}
      \cup {Namespace({Deployment("api", 2, 80, 80, "", {p, q})}, {"restart", "exec"}) :
              p \in Pods({"api-1"}, {"running"}),
              q \in {r \in Pods({"api-2"}, {"pending"}) : r.mem = 90 /\ r.restarts24h = 2}}

\* A few of each, for the run about the loop alone.
FewValues == {x, Object([a |-> x])}
FewViews == {Namespace({Sound}, {"logs"})}
=============================================================================
