---------------------------- MODULE K8sTranslator ----------------------------
(***************************************************************************)
(* translators/kubernetes: a namespace view becomes an ANF document.  The  *)
(* status of an entity, the alerts and the actions are computed by three   *)
(* separate passes over the same view (deploymentStatus, deriveAlerts,     *)
(* deriveActions), and nothing but the code of the passes keeps them in    *)
(* step.                                                                   *)
(*                                                                         *)
(* A view and a document hold sets: the lists of the view keep their order *)
(* in the document and no pass depends on it.  Of an entity the model has  *)
(* what an agent decides by (type, name, status, children), not the        *)
(* formatted usage and age.  A pod's phase is taken without letter case,   *)
(* as podStatus lower-cases it.                                            *)
(***************************************************************************)
EXTENDS Integers

\* Permissions.  CanExec and CanDescribe are read by no pass.
Permissions == {"scale", "rollout", "restart", "logs", "exec", "describe"}

NoImage == ""

\* The shapes of NamespaceView.
IsPod(p) ==
    /\ p = [name |-> p.name, phase |-> p.phase, mem |-> p.mem, restarts24h |-> p.restarts24h]
    /\ p.mem \in Int /\ p.restarts24h \in Int

IsDeployment(d) ==
    /\ d = [name |-> d.name, replicas |-> d.replicas, ready |-> d.ready, image |-> d.image,
            latestImage |-> d.latestImage, cpu |-> d.cpu, mem |-> d.mem, pods |-> d.pods]
    /\ d.replicas \in Int /\ d.ready \in Int /\ d.cpu \in Int /\ d.mem \in Int
    /\ \A p \in d.pods : IsPod(p)

\* Kubernetes names are unique per kind in a namespace.
IsView(view) ==
    /\ \A d \in view.deployments : IsDeployment(d)
    /\ \A d, e \in view.deployments : d.name = e.name => d = e
    /\ \A d, e \in view.deployments : \A p \in d.pods, q \in e.pods :
           p.name = q.name => d = e /\ p = q
    /\ view.permissions \subseteq Permissions
-----------------------------------------------------------------------------
Entity(type, name, status, children) ==
    [type |-> type, name |-> name, status |-> status, children |-> children]
Alert(severity, type, name, about) ==
    [severity |-> severity, type |-> type, name |-> name, about |-> about]
Action(verb, type, name) == [verb |-> verb, type |-> type, name |-> name]

When(condition, set) == IF condition THEN set ELSE {}

podStatus(pod) ==
    CASE pod.phase = "running"   -> "running"
      [] pod.phase = "pending"   -> "pending"
      [] pod.phase = "failed"    -> "failing"
      [] pod.phase = "succeeded" -> "completed"
      [] OTHER                   -> "unknown"

deploymentStatusIgnoringPods(dep) ==
    IF dep.ready = 0 /\ dep.replicas > 0 THEN "failing"
    ELSE IF dep.ready < dep.replicas \/ dep.mem > 80 \/ dep.cpu > 80 THEN "degraded"
    ELSE "healthy"

deploymentStatus(dep) ==
    IF dep.ready = 0 /\ dep.replicas > 0 THEN "failing"
    ELSE IF \/ dep.ready < dep.replicas
            \/ dep.mem > 80 \/ dep.cpu > 80
            \/ \E pod \in dep.pods : pod.restarts24h > 2 \/ pod.mem > 90
         THEN "degraded"
    ELSE "healthy"

translatePod(pod) == Entity("pod", pod.name, podStatus(pod), {})

translateDeployment(dep) ==
    Entity("deployment", dep.name, deploymentStatus(dep), {translatePod(p) : p \in dep.pods})

translateService(svc) == Entity("service", svc, "", {})

translateJob(job) ==
    Entity("job", job.name,
           IF ~job.completed THEN "running" ELSE IF job.succeeded THEN "completed" ELSE "failing",
           {})

translateCronJob(cj) == Entity("cronjob", cj, "", {})

\* LatestImage is known and is not the image that runs.
Outdated(dep) == dep.latestImage # NoImage /\ dep.latestImage # dep.image

podAlerts(pod) ==
    When(pod.restarts24h > 2, {Alert("warning", "pod", pod.name, "restarts")})
      \cup When(pod.mem > 90, {Alert("critical", "pod", pod.name, "mem")})

deploymentAlerts(dep) ==
    When(dep.mem > 80, {Alert("warning", "deployment", dep.name, "mem")})
      \cup When(dep.cpu > 80, {Alert("warning", "deployment", dep.name, "cpu")})
      \cup When(dep.ready < dep.replicas, {Alert("critical", "deployment", dep.name, "replicas")})
      \cup When(Outdated(dep), {Alert("info", "deployment", dep.name, "image-outdated")})
      \cup UNION {podAlerts(pod) : pod \in dep.pods}

severityRank(severity) ==
    CASE severity = "critical" -> 0 [] severity = "warning" -> 1
      [] severity = "info" -> 2 [] OTHER -> 3

\* sort.Slice puts the alerts in the order of their rank; it is not stable, so
\* the alerts of one rank stand in no fixed order.
sortBySeverity(alerts) == [rank \in 0..2 |-> {a \in alerts : severityRank(a.severity) = rank}]

deriveAlerts(view) == sortBySeverity(UNION {deploymentAlerts(d) : d \in view.deployments})

deploymentActionsRolloutAlways(dep, permissions) ==
    {Action(verb, "deployment", dep.name) : verb \in permissions \cap {"scale", "rollout", "restart"}}
      \cup When("logs" \in permissions, {Action("logs", "pod", pod.name) : pod \in dep.pods})

deploymentActions(dep, permissions) ==
    When("scale" \in permissions, {Action("scale", "deployment", dep.name)})
      \cup When("rollout" \in permissions /\ Outdated(dep),
                {Action("rollout", "deployment", dep.name)})
      \cup When("restart" \in permissions, {Action("restart", "deployment", dep.name)})
      \cup When("logs" \in permissions, {Action("logs", "pod", pod.name) : pod \in dep.pods})

deriveActions(view) == UNION {deploymentActions(d, view.permissions) : d \in view.deployments}

TranslateView(view) ==
    [entities |-> {translateDeployment(d) : d \in view.deployments}
                    \cup {translateService(s) : s \in view.services}
                    \cup {translateJob(j) : j \in view.jobs}
                    \cup {translateCronJob(c) : c \in view.cronJobs},
     alerts   |-> deriveAlerts(view),
     actions  |-> deriveActions(view)]
-----------------------------------------------------------------------------
(* What makes a document of a view coherent *)

\* The alerts that say that something is wrong, not merely outdated.
Problems(doc) == doc.alerts[0] \cup doc.alerts[1]

\* An alert is about an entity, or about one of its children.
Concerns(alert, e) ==
    \/ alert.type = e.type /\ alert.name = e.name
    \/ \E c \in e.children : alert.type = c.type /\ alert.name = c.name

\* FORMAT.md 3.3: [healthy] is "All checks passing", [failing] "Critical
\* failure".  The marker and the alerts come from separate passes and agree:
\* a deployment is marked healthy exactly if no critical or warning alert is
\* about it or its pods, and one marked failing has a critical alert.
HealthMatchesAlerts(doc) ==
    \A e \in doc.entities : e.type = "deployment" =>
        /\ e.status = "healthy" <=> ~ \E a \in Problems(doc) : Concerns(a, e)
        /\ e.status = "failing" => \E a \in doc.alerts[0] : Concerns(a, e)

References(line, doc) == \E e \in doc.entities : Concerns(line, e)

\* FORMAT.md 3.5: "Alerts always reference an entity by <type> <name>", and so
\* do actions; a rollout is offered only for a deployment that an alert calls
\* outdated.
LinesGrounded(doc) ==
    /\ \A rank \in 0..2 : \A a \in doc.alerts[rank] : References(a, doc)
    /\ \A a \in doc.actions :
           /\ References(a, doc)
           /\ a.verb = "rollout" =>
                  Alert("info", a.type, a.name, "image-outdated") \in doc.alerts[2]
=============================================================================
