---------------------------- MODULE AppLifecycle ----------------------------
(***************************************************************************)
(* The applications of one project: deploying, changing, inspecting and    *)
(* deleting them through the API.                                          *)
(*                                                                         *)
(* An app is a row of the apps table, labelled objects in the project's    *)
(* namespace, an App resource and its mirror in the k8s_crds table, and a  *)
(* DNS record for its load balancer.  No request spans them with a         *)
(* transaction: each makes its round trips one after the other, beside the *)
(* requests of other replicas and beside the goroutine that waits for a    *)
(* load balancer's address.                                                *)
(***************************************************************************)
EXTENDS Naturals, FiniteSets, Sequences

CONSTANTS
    Apps,        \* app ids; an id also names the app's objects (deriveKubeName)
    Specs,       \* the deploy requests clients send, records of AppSpec
    Hosts,       \* DNS names
    Refs,        \* values of apps.external_ref ("" for image, helm, manifests)
    CertManager, \* cfg.EnableCertManager
    MaxLB,       \* load balancers allowed in the project
    Procs,       \* request slots over all API replicas
    Ops,         \* the operations clients issue in this instance
    Faults,      \* "stop", "ignored" as in module Kubeconfigs; "list": the
                 \*   Services of the namespace cannot be listed
    MaxRequests, \* bound on the requests of a behaviour
    MaxFaults,   \* bound on the faults of a behaviour
    None

Vals == {0, 1}
Fields == {"image", "replicas", "restart", "config", "secret"}
CRFields == {"image", "replicas"}
Docs == {"workload", "service", "other"}
Kinds == Docs \cup {"ingress", "cert"}

\* src "image" deploys a Deployment and what ports and host ask for; "raw"
\* (manifests, helm, git, ociBundle) applies the documents docs.
AppSpec == [src : {"image", "raw"}, ports : {"none", "ClusterIP", "LoadBalancer"},
            host : Hosts \cup {None}, secrets : BOOLEAN, ref : Refs, docs : Seq(Docs)]

\* A Deployment or App resource, and the row that mirrors the latter.
Versioned(F) == [rv : Nat, f : [F -> Vals]]
Mirrored == [rv : Nat, f : [CRFields -> Vals], deleted : BOOLEAN]

ASSUME AppsAssumption ==
    /\ IsFiniteSet(Apps) /\ IsFiniteSet(Procs)
    /\ Specs \subseteq AppSpec
    /\ MaxLB \in Nat /\ MaxRequests \in Nat /\ MaxFaults \in Nat
    /\ CertManager \in BOOLEAN
    /\ None \notin Apps \cup Hosts \cup Specs
    /\ None \notin Versioned(Fields) /\ None \notin Versioned(CRFields)
    /\ None \notin Mirrored

FieldOf == [scale |-> "replicas", image |-> "image", restart |-> "restart",
            attachConfig |-> "config", detachConfig |-> "config",
            attachSecret |-> "secret", detachSecret |-> "secret"]
UpdateOps == DOMAIN FieldOf
AllOps == UpdateOps \cup {"deploy", "delete", "status", "list", "webhook", "maintenance"}

VARIABLES
    served,    \* the cluster serves the API of the App resource
    row,       \* apps row: "absent", "live", "deleted"
    spec,      \* what the app was deployed with, None before
    objs,      \* its labelled objects in the namespace
    dep,       \* fields and resourceVersion of its Deployment, None without one
    cr,        \* its App resource, None without one
    mirror,    \* its row of k8s_crds, None without one
    domains,   \* apps with a row in app_domains
    released,  \* apps with a row in releases
    addr,      \* apps whose load balancer has an address
    dns,       \* the app whose address a host resolves to, or None
    waiter,    \* the goroutine waitForServiceDNS of an app
    req,       \* the requests in flight
    budget,    \* requests still to come
    faults,    \* faults still to come
    crowd,     \* history: most deploys in flight at a time
    blind,     \* history: a deploy went on without a list of Services
    blurred,   \* history: apps with a failed or dropped round trip
    late,      \* history: apps whose goroutine held addresses when DeleteApp
               \*   removed the DNS record
    expired    \* history: apps whose goroutine gave up

store == <<row, domains, released, mirror>>
cluster == <<objs, dep, cr, addr>>
names == <<dns, waiter, late, expired>>
history == <<crowd, blind, blurred, faults>>
vars == <<served, spec, store, cluster, names, req, budget, history>>

Resting == {"idle", "done"}

\* arg: the value to set; rv: If-Match; saw: the object read; host: that of the
\* Ingress deleted; todo: apps left to inspect; doc: documents applied; lost,
\* solo: history, an error was dropped, nothing ran beside it or since.
NoRequest == [op |-> "none", pc |-> "idle", app |-> None, arg |-> 0, rv |-> 0,
              saw |-> None, host |-> None, todo |-> {}, doc |-> 0,
              lost |-> FALSE, solo |-> FALSE]

Init ==
    /\ served \in BOOLEAN
    /\ row = [a \in Apps |-> "absent"]
    /\ spec = [a \in Apps |-> None]
    /\ objs = [a \in Apps |-> {}]
    /\ dep = [a \in Apps |-> None] /\ cr = dep /\ mirror = dep
    /\ domains = {} /\ released = {} /\ addr = {}
    /\ dns = [h \in Hosts |-> None]
    /\ waiter = [a \in Apps |-> "none"]
    /\ req = [q \in Procs |-> NoRequest]
    /\ budget = MaxRequests /\ faults = MaxFaults /\ crowd = 0 /\ blind = FALSE
    /\ blurred = {} /\ late = {} /\ expired = {}

-----------------------------------------------------------------------------
(* Control of one request.                                                 *)

Idle(q) == req[q].pc \in Resting
At(q, pc) == req[q].pc = pc
App(q) == req[q].app
SpecOf(q) == spec[App(q)]
Go(q, pc) == req' = [req EXCEPT ![q].pc = pc]
Keep(q, pc, o) == req' = [req EXCEPT ![q].pc = pc, ![q].saw = o]
Fail(q) == req' = [req EXCEPT ![q] = NoRequest]
Error(q) == Fail(q) /\ UNCHANGED <<store, cluster, names, history>>

\* Success: what is kept of the request is what its promise is about.
Finish(q) ==
    req' = [req EXCEPT ![q] =
              IF @.lost \/ ~@.solo THEN NoRequest
              ELSE [NoRequest EXCEPT !.op = req[q].op, !.app = req[q].app,
                                     !.arg = req[q].arg, !.pc = "done", !.solo = TRUE]]

Fault(f) == f \in Faults /\ faults > 0 /\ faults' = faults - 1

\* The error of a round trip is logged or ignored, and the request goes on.
GoDespiteError(q, pc) ==
    /\ Fault("ignored")
    /\ req' = [req EXCEPT ![q].pc = pc, ![q].lost = TRUE]
    /\ blurred' = blurred \cup ({App(q)} \cap Apps)
    /\ UNCHANGED <<store, cluster, names, crowd, blind>>

\* A failing round trip whose error is returned, or the death of the replica.
Stop(q) ==
    /\ Fault("stop")
    /\ ~Idle(q)
    /\ Fail(q)
    /\ blurred' = blurred \cup ({App(q)} \cap Apps)
    /\ UNCHANGED <<store, cluster, names, crowd, blind>>

Deploying == {q \in Procs : req[q].op = "deploy" /\ ~Idle(q)}

Begin(q, op, pc, a, v, rv) ==
    /\ op \in Ops /\ Idle(q) /\ budget > 0
    /\ budget' = budget - 1
    /\ req' = [r \in Procs |->
                 IF r = q
                   THEN [NoRequest EXCEPT !.op = op, !.pc = pc, !.app = a, !.arg = v,
                           !.rv = rv, !.solo = \A x \in Procs \ {q} : Idle(x)]
                   ELSE IF Idle(r) THEN NoRequest ELSE [req[r] EXCEPT !.solo = FALSE]]
    /\ LET n == Cardinality(Deploying \ {q}) + (IF op = "deploy" THEN 1 ELSE 0)
       IN  crowd' = IF n > crowd THEN n ELSE crowd
    /\ UNCHANGED <<served, store, cluster, names, blind, blurred, faults>>

\* ensureMaintenanceAllows, and where each gated operation continues.  Module
\* Projects models the switch itself; here it may be found on at any time.
Gate(q) ==
    /\ At(q, "gate")
    /\ \/ "maintenance" \in Ops /\ Fail(q)
       \/ Go(q, CASE req[q].op = "deploy"  -> "plan"
                  [] req[q].op = "delete"  -> "dRead"
                  [] req[q].op = "restart" -> "depGet"
                  [] OTHER                 -> "uRead")
    /\ UNCHANGED <<store, cluster, names, history>>

\* AppendProjectEvent ends every operation but the read-only ones.
Event(q) ==
    /\ At(q, "event")
    /\ Finish(q)
    /\ UNCHANGED <<store, cluster, names, history>>

-----------------------------------------------------------------------------
(* Deploying.                                                              *)

DeployApp(q, a, s) ==
    /\ spec[a] = None
    /\ Begin(q, "deploy", "gate", a, 0, 0)
    /\ spec' = [spec EXCEPT ![a] = s]

IsLB(a) == spec[a] # None /\ spec[a].ports = "LoadBalancer" /\ "service" \in objs[a]
WantsLB(s) == s.src = "image" /\ s.ports = "LoadBalancer"
HasIngress(s) == s.src = "image" /\ s.host # None /\ s.ports # "none"

AfterWorkload(s) ==
    IF s.ports # "none" THEN "service" ELSE "row"
AfterService(s) ==
    IF ~HasIngress(s) THEN "row" ELSE IF CertManager THEN "cert" ELSE "ingress"

\* Mutant: the load balancers a deploy finds are not added to those it asks for.
planIgnoresExisting(q) ==
    /\ At(q, "plan")
    /\ \/ WantsLB(SpecOf(q)) /\ 1 > MaxLB /\ Error(q)
       \/ /\ WantsLB(SpecOf(q)) => MaxLB >= 1
          /\ Go(q, IF SpecOf(q).src = "image" THEN "workload" ELSE "raw")
          /\ UNCHANGED <<store, cluster, names, history>>

\* planAppDeployment: reading the project, listing the Services when the
\* request wants a load balancer, and rendering the source, which changes
\* nothing.  A list that fails is a warning and counts as empty.
planAppDeployment(q) ==
    /\ At(q, "plan")
    /\ LET s == SpecOf(q)
           next == IF s.src = "image" THEN "workload" ELSE "raw"
           Admit(existing) == WantsLB(s) => existing + 1 <= MaxLB
           existing == Cardinality({a \in Apps : IsLB(a)})
       IN  \/ /\ ~Admit(existing) /\ Error(q)
           \/ /\ Admit(existing) /\ Go(q, next)
              /\ UNCHANGED <<store, cluster, names, history>>
           \/ /\ Fault("list") /\ WantsLB(s) /\ Admit(0) /\ Go(q, next)
              /\ blind' = TRUE
              /\ UNCHANGED <<store, cluster, names, crowd, blurred>>

\* The Deployment, first without and then with the Secrets as environment.
ApplyDeployment(q) ==
    LET a == App(q) IN
    /\ \/ /\ At(q, "workload")
          /\ dep' = [dep EXCEPT ![a] = [rv |-> 1, f |-> [x \in Fields |-> 0]]]
          /\ Go(q, IF SpecOf(q).secrets THEN "envFrom" ELSE AfterWorkload(SpecOf(q)))
       \/ /\ At(q, "envFrom")
          /\ dep' = [dep EXCEPT ![a] = [rv |-> dep[a].rv + 1,
                                        f |-> [dep[a].f EXCEPT !["secret"] = 1]]]
          /\ Go(q, AfterWorkload(SpecOf(q)))
    /\ objs' = [objs EXCEPT ![a] = @ \cup {"workload"}]
    /\ UNCHANGED <<cr, addr, store, names, history>>

ApplyService(q) ==
    /\ At(q, "service")
    /\ objs' = [objs EXCEPT ![App(q)] = @ \cup {"service"}]
    /\ Go(q, AfterService(SpecOf(q)))
    /\ UNCHANGED <<dep, cr, addr, store, names, history>>

\* The Certificate, whose error is dropped, and the Ingress.
ApplyIngress(q) ==
    \/ /\ At(q, "cert")
       /\ objs' = [objs EXCEPT ![App(q)] = @ \cup {"cert"}]
       /\ Go(q, "ingress")
       /\ UNCHANGED <<dep, cr, addr, store, names, history>>
    \/ At(q, "cert") /\ GoDespiteError(q, "ingress")
    \/ /\ At(q, "ingress")
       /\ objs' = [objs EXCEPT ![App(q)] = @ \cup {"ingress"}]
       /\ Go(q, "domain")
       /\ UNCHANGED <<dep, cr, addr, store, names, history>>

\* app_domains.app_id references apps(id): without an apps row the insert is
\* refused, and the error only logged.
UpsertAppDomain(q) ==
    /\ At(q, "domain")
    /\ domains' = IF row[App(q)] = "absent" THEN domains ELSE domains \cup {App(q)}
    /\ Go(q, "dns")
    /\ UNCHANGED <<row, released, mirror, cluster, names, history>>

\* The record is written at once when the load balancer has an address;
\* otherwise a goroutine waits for one.
ensureDNSForService(q) ==
    LET a == App(q) IN
    /\ At(q, "dns")
    /\ \/ /\ Go(q, "row")
          /\ IF ~IsLB(a) THEN UNCHANGED <<dns, waiter>>
             ELSE IF a \in addr
                    THEN dns' = [dns EXCEPT ![spec[a].host] = a] /\ UNCHANGED waiter
                    ELSE waiter' = [waiter EXCEPT ![a] = "wait"] /\ UNCHANGED dns
          /\ UNCHANGED <<store, cluster, late, expired, history>>
       \/ GoDespiteError(q, "row")

\* applyRawManifest, one document after the other.
applyRawManifest(q) ==
    LET docs == SpecOf(q).docs
        i == req[q].doc + 1
    IN  /\ At(q, "raw")
        /\ IF i > Len(docs)
             THEN Go(q, "row") /\ UNCHANGED objs
             ELSE /\ objs' = [objs EXCEPT ![App(q)] = @ \cup {docs[i]}]
                  /\ req' = [req EXCEPT ![q].doc = i]
        /\ UNCHANGED <<dep, cr, addr, store, names, history>>

\* One live app per external_ref (unique index idx_apps_external_ref, which
\* the empty reference falls under too).
CreateApp(q) ==
    /\ At(q, "row")
    /\ IF \E b \in Apps : row[b] = "live" /\ spec[b].ref = SpecOf(q).ref
         THEN Error(q)
         ELSE /\ row' = [row EXCEPT ![App(q)] = "live"]
              /\ Go(q, "release")
              /\ UNCHANGED <<domains, released, mirror, cluster, names, history>>

recordRelease(q) ==
    /\ At(q, "release")
    /\ released' = released \cup {App(q)}
    /\ Go(q, IF SpecOf(q).src = "image" THEN "crApply" ELSE "event")
    /\ UNCHANGED <<row, domains, mirror, cluster, names, history>>

\* The App resource of an image app; every error of it is logged and dropped.
ensureAppCRDForPlan(q) ==
    LET a == App(q) IN
    \/ /\ At(q, "crApply")
       /\ IF served
            THEN /\ cr' = [cr EXCEPT ![a] = [rv |-> 1, f |-> [x \in CRFields |-> 0]]]
                 /\ Go(q, "crLoad")
            ELSE Go(q, "event") /\ UNCHANGED cr
       /\ UNCHANGED <<objs, dep, addr, store, names, history>>
    \/ /\ At(q, "crLoad")
       /\ IF cr[a] # None THEN Keep(q, "mirror", cr[a]) ELSE Go(q, "event")
       /\ UNCHANGED <<store, cluster, names, history>>
    \/ req[q].pc \in {"crApply", "crLoad"} /\ GoDespiteError(q, "event")

\* mirrorAppCRD: the resource as it was read replaces the row, marked live.
mirrorAppCRD(q) ==
    LET next == IF req[q].op \in {"status", "list"} THEN "sDomains" ELSE "event" IN
    /\ At(q, "mirror")
    /\ \/ /\ mirror' = [mirror EXCEPT ![App(q)] =
                          [rv |-> req[q].saw.rv, f |-> req[q].saw.f, deleted |-> FALSE]]
          /\ Go(q, next)
          /\ UNCHANGED <<row, domains, released, cluster, names, history>>
       \/ GoDespiteError(q, next)

-----------------------------------------------------------------------------
(* Changing a deployed app.                                                *)

\* The client sends the resourceVersion it last saw.
UpdateApp(q, op, pc, a, v) ==
    /\ op \in UpdateOps /\ row[a] # "absent"
    /\ Begin(q, op, pc, a, v, IF cr[a] = None THEN 0 ELSE cr[a].rv)
    /\ UNCHANGED spec

ScaleApp(q, a, v) == UpdateApp(q, "scale", "gate", a, v)
UpdateAppImage(q, a, v) == UpdateApp(q, "image", "gate", a, v)
RolloutRestartApp(q, a) == UpdateApp(q, "restart", "gate", a, 1)
AttachConfigMapToApp(q, a) == UpdateApp(q, "attachConfig", "depGet", a, 1)
DetachConfigMapFromApp(q, a) == UpdateApp(q, "detachConfig", "depGet", a, 0)
AttachSecretToApp(q, a) == UpdateApp(q, "attachSecret", "depGet", a, 1)
DetachSecretFromApp(q, a) == UpdateApp(q, "detachSecret", "depGet", a, 0)

\* Scale and image go to the App resource when there is one, to the
\* Deployment when it is not found, and fail when its API is not served.
loadAppCRD(q) ==
    /\ \/ At(q, "uRead") /\ (IF row[App(q)] = "live" THEN Go(q, "uLoad") ELSE Fail(q))
       \/ /\ At(q, "uLoad")
          /\ IF ~served THEN Fail(q)
             ELSE IF cr[App(q)] = None THEN Go(q, "depGet")
             ELSE IF req[q].rv = cr[App(q)].rv THEN Keep(q, "crPut", cr[App(q)])
             ELSE Fail(q)
    /\ UNCHANGED <<store, cluster, names, history>>

\* The update carries the resourceVersion read and is refused when it is old.
UpdateCR(q) ==
    LET a == App(q)
        saw == req[q].saw
        new == [rv |-> saw.rv + 1,
                f |-> [saw.f EXCEPT ![FieldOf[req[q].op]] = req[q].arg]]
    IN  /\ At(q, "crPut")
        /\ IF cr[a] # None /\ cr[a].rv = saw.rv
             THEN /\ cr' = [cr EXCEPT ![a] = new]
                  /\ Keep(q, "mirror", new)
             ELSE Fail(q) /\ UNCHANGED cr
        /\ UNCHANGED <<objs, dep, addr, store, names, history>>

\* Mutant: the resourceVersion of the Deployment read is not sent back.
applyUnversioned(q) ==
    LET a == App(q)
        saw == req[q].saw
    IN  /\ At(q, "depPut")
        /\ IF saw # None /\ dep[a] # None
             THEN /\ dep' = [dep EXCEPT ![a] =
                               [rv |-> dep[a].rv + 1,
                                f |-> [saw.f EXCEPT ![FieldOf[req[q].op]] = req[q].arg]]]
                  /\ Go(q, "event")
             ELSE Fail(q) /\ UNCHANGED dep
        /\ UNCHANGED <<objs, cr, addr, store, names, history>>

\* Mutant: nothing of the Deployment read identifies it.
applyRecreates(q) ==
    LET a == App(q)
        saw == req[q].saw
    IN  /\ At(q, "depPut")
        /\ IF saw # None /\ (dep[a] = None \/ dep[a].rv = saw.rv)
             THEN /\ dep' = [dep EXCEPT ![a] =
                               [rv |-> saw.rv + 1,
                                f |-> [saw.f EXCEPT ![FieldOf[req[q].op]] = req[q].arg]]]
                  /\ Go(q, "event")
             ELSE Fail(q) /\ UNCHANGED dep
        /\ UNCHANGED <<objs, cr, addr, store, names, history>>

\* updateAppDeployment first reads the row and the Deployment.
readAppDeployment(q) ==
    /\ At(q, "depGet")
    /\ IF row[App(q)] = "live" THEN Keep(q, "depPut", dep[App(q)]) ELSE Fail(q)
    /\ UNCHANGED <<store, cluster, names, history>>

\* It then applies the Deployment it read with one field changed.  A
\* Deployment that was not found lacks its selector and containers, and one
\* that changed or vanished meanwhile has another resourceVersion, or none:
\* all are refused.
updateAppDeployment(q) ==
    LET a == App(q)
        saw == req[q].saw
    IN  /\ At(q, "depPut")
        /\ IF saw # None /\ dep[a] # None /\ dep[a].rv = saw.rv
             THEN /\ dep' = [dep EXCEPT ![a] =
                               [rv |-> saw.rv + 1,
                                f |-> [saw.f EXCEPT ![FieldOf[req[q].op]] = req[q].arg]]]
                  /\ Go(q, "event")
             ELSE Fail(q) /\ UNCHANGED dep
        /\ UNCHANGED <<objs, cr, addr, store, names, history>>

\* HandleGitWebhook finds the app's row and patches the Deployment named
\* after the app's slug.  Deployments are named after the slug and the id, so
\* none is found, and the refusal of the incomplete object is ignored.
HandleGitWebhook(q, a) ==
    /\ row[a] # "absent"
    /\ Begin(q, "webhook", "wRead", a, 0, 0)
    /\ UNCHANGED spec
patchBySlug(q) ==
    /\ \/ At(q, "wRead") /\ (IF row[App(q)] = "live" THEN Go(q, "wPatch") ELSE Finish(q))
       \/ At(q, "wPatch") /\ Finish(q)
    /\ UNCHANGED <<store, cluster, names, history>>

-----------------------------------------------------------------------------
(* Inspecting apps, which refreshes the mirror.                            *)

GetAppStatus(q, a) ==
    /\ row[a] # "absent"
    /\ Begin(q, "status", "sRead", a, 0, 0)
    /\ UNCHANGED spec

ListProjectAppsStatus(q) ==
    /\ Begin(q, "list", "sRead", None, 0, 0)
    /\ UNCHANGED spec

\* The row or rows to inspect, read once.
ReadRows(q) ==
    LET live == {a \in Apps : row[a] = "live"} IN
    /\ At(q, "sRead")
    /\ IF req[q].op = "status"
         THEN IF App(q) \in live THEN Go(q, "sCollect") ELSE Fail(q)
         ELSE req' = [req EXCEPT ![q].todo = live, ![q].pc = "sDomains"]
    /\ UNCHANGED <<store, cluster, names, history>>

\* CollectAppStatus reads the App resource; when it is there it is read once
\* more for the mirror.  Errors of both reads only lose the refresh.
CollectAppStatus(q) ==
    \/ /\ At(q, "sCollect")
       /\ Go(q, IF cr[App(q)] # None THEN "sLoad" ELSE "sDomains")
       /\ UNCHANGED <<store, cluster, names, history>>
    \/ /\ At(q, "sLoad")
       /\ IF cr[App(q)] # None THEN Keep(q, "mirror", cr[App(q)]) ELSE Go(q, "sDomains")
       /\ UNCHANGED <<store, cluster, names, history>>
    \/ req[q].pc \in {"sCollect", "sLoad"} /\ GoDespiteError(q, "sDomains")

\* domainStatuses updates rows of app_domains that exist; then the next app.
domainStatuses(q) ==
    /\ At(q, "sDomains")
    /\ \/ /\ req[q].todo = {} /\ Finish(q)
       \/ \E a \in req[q].todo :
             req' = [req EXCEPT ![q].app = a, ![q].todo = @ \ {a}, ![q].pc = "sCollect"]
    /\ UNCHANGED <<store, cluster, names, history>>

-----------------------------------------------------------------------------
(* Deleting.                                                               *)

DeleteApp(q, a) ==
    /\ row[a] # "absent"
    /\ Begin(q, "delete", "gate", a, 0, 0)
    /\ UNCHANGED spec

DeleteReads(q) ==
    /\ At(q, "dRead")
    /\ IF row[App(q)] = "live" THEN Go(q, "dObjects") ELSE Fail(q)
    /\ UNCHANGED <<store, cluster, names, history>>

\* Listing by label and deleting, kind by kind, errors ignored.  Kinds the
\* code does not list ("other") stay.
DeleteObjects(q) ==
    LET a == App(q) IN
    \/ /\ At(q, "dObjects")
       /\ objs' = [objs EXCEPT ![a] = @ \ {"workload"}]
       /\ dep' = IF "workload" \in objs[a] THEN [dep EXCEPT ![a] = None] ELSE dep
       /\ Go(q, "dService")
       /\ UNCHANGED <<cr, addr, store, names, history>>
    \/ /\ At(q, "dService")
       /\ objs' = [objs EXCEPT ![a] = @ \ {"service"}]
       /\ addr' = addr \ {a}
       /\ Go(q, "dIngress")
       /\ UNCHANGED <<dep, cr, store, names, history>>
    \/ /\ At(q, "dIngress")
       /\ objs' = [objs EXCEPT ![a] = @ \ {"ingress"}]
       /\ req' = [req EXCEPT ![q].pc = "dCert",
                             ![q].host = IF "ingress" \in objs[a] THEN spec[a].host
                                         ELSE None]
       /\ UNCHANGED <<dep, cr, addr, store, names, history>>
    \/ /\ At(q, "dCert")
       /\ objs' = [objs EXCEPT ![a] = IF CertManager THEN @ \ {"cert"} ELSE @]
       /\ Go(q, "dDns")
       /\ UNCHANGED <<dep, cr, addr, store, names, history>>
    \/ At(q, "dObjects") /\ GoDespiteError(q, "dService")
    \/ At(q, "dService") /\ GoDespiteError(q, "dIngress")
    \/ At(q, "dIngress") /\ GoDespiteError(q, "dCert")
    \/ At(q, "dCert") /\ GoDespiteError(q, "dDns")

\* DeleteRecords removes the host's record, whichever app it points to.
DeleteRecords(q) ==
    /\ At(q, "dDns")
    /\ \/ /\ dns' = IF req[q].host = None THEN dns ELSE [dns EXCEPT ![req[q].host] = None]
          /\ late' = IF waiter[App(q)] = "write" THEN late \cup {App(q)} ELSE late
          /\ Go(q, "dDomains")
          /\ UNCHANGED <<waiter, expired, store, cluster, history>>
       \/ GoDespiteError(q, "dDomains")

\* Mutant: the mirror of a deleted app is not marked.
forgetMirror(q) ==
    \/ /\ At(q, "dDomains")
       /\ Go(q, "dMirror") /\ UNCHANGED <<store, cluster, names, history>>
    \/ /\ At(q, "dMirror")
       /\ Go(q, "dRow") /\ UNCHANGED <<store, cluster, names, history>>
    \/ /\ At(q, "dRow")
       /\ row' = [row EXCEPT ![App(q)] = IF @ = "live" THEN "deleted" ELSE @]
       /\ Go(q, "event")
       /\ UNCHANGED <<domains, released, mirror, cluster, names, history>>

\* The rows: domains, the mirror marked deleted, and last the app itself.
DeleteRows(q) ==
    LET a == App(q) IN
    \/ /\ At(q, "dDomains")
       /\ domains' = domains \ {a}
       /\ Go(q, "dMirror")
       /\ UNCHANGED <<row, released, mirror, cluster, names, history>>
    \/ /\ At(q, "dMirror")
       /\ mirror' = IF mirror[a] = None THEN mirror
                    ELSE [mirror EXCEPT ![a].deleted = TRUE]
       /\ Go(q, "dRow")
       /\ UNCHANGED <<row, domains, released, cluster, names, history>>
    \/ /\ At(q, "dRow")
       /\ row' = [row EXCEPT ![a] = IF @ = "live" THEN "deleted" ELSE @]
       /\ Go(q, "event")
       /\ UNCHANGED <<domains, released, mirror, cluster, names, history>>
    \/ At(q, "dDomains") /\ GoDespiteError(q, "dMirror")
    \/ At(q, "dMirror") /\ GoDespiteError(q, "dRow")
    \/ At(q, "dRow") /\ GoDespiteError(q, "event")

-----------------------------------------------------------------------------
(* The goroutine that waits for a load balancer, and the environment.      *)

\* Mutant: the goroutine does not look whether the Service still exists.
waitBlindly(a) ==
    /\ waiter[a] = "wait"
    /\ waiter' = [waiter EXCEPT ![a] = "write"]
    /\ UNCHANGED <<dns, late, expired>>

\* waitForLoadBalancerAddrs polls the Service; it ends when the Service is gone.
waitForLoadBalancerAddrs(a) ==
    /\ waiter[a] = "wait"
    /\ \/ IsLB(a) /\ a \in addr /\ waiter' = [waiter EXCEPT ![a] = "write"]
       \/ ~IsLB(a) /\ waiter' = [waiter EXCEPT ![a] = "none"]
    /\ UNCHANGED <<dns, late, expired>>

\* waitForServiceDNS then writes the record of the addresses it read.
waitForServiceDNS(a) ==
    /\ waiter[a] = "write"
    /\ dns' = [dns EXCEPT ![spec[a].host] = a]
    /\ waiter' = [waiter EXCEPT ![a] = "none"]
    /\ UNCHANGED <<late, expired>>

\* Two minutes pass, a call fails, or its process stops.
WaiterGivesUp(a) ==
    /\ waiter[a] # "none"
    /\ Fault("stop")
    /\ waiter' = [waiter EXCEPT ![a] = "none"]
    /\ expired' = expired \cup {a}
    /\ UNCHANGED <<dns, late, crowd, blind, blurred>>

AssignAddress(a) ==
    /\ IsLB(a) /\ a \notin addr
    /\ addr' = addr \cup {a}

-----------------------------------------------------------------------------
Start(q) ==
    \/ \E a \in Apps, s \in Specs : DeployApp(q, a, s)
    \/ \E a \in Apps, v \in Vals \ {0} : ScaleApp(q, a, v) \/ UpdateAppImage(q, a, v)
    \/ \E a \in Apps :
          \/ RolloutRestartApp(q, a)
          \/ AttachConfigMapToApp(q, a) \/ DetachConfigMapFromApp(q, a)
          \/ AttachSecretToApp(q, a) \/ DetachSecretFromApp(q, a)
          \/ HandleGitWebhook(q, a) \/ GetAppStatus(q, a) \/ DeleteApp(q, a)
    \/ ListProjectAppsStatus(q)

Step(q) ==
    /\ \/ Gate(q) \/ Event(q) \/ Stop(q)
       \/ planAppDeployment(q) \/ ApplyDeployment(q) \/ ApplyService(q)
       \/ ApplyIngress(q) \/ UpsertAppDomain(q) \/ ensureDNSForService(q)
       \/ applyRawManifest(q) \/ CreateApp(q) \/ recordRelease(q)
       \/ ensureAppCRDForPlan(q) \/ mirrorAppCRD(q)
       \/ loadAppCRD(q) \/ UpdateCR(q) \/ readAppDeployment(q) \/ updateAppDeployment(q)
       \/ patchBySlug(q)
       \/ ReadRows(q) \/ CollectAppStatus(q) \/ domainStatuses(q)
       \/ DeleteReads(q) \/ DeleteObjects(q) \/ DeleteRecords(q) \/ DeleteRows(q)
    /\ UNCHANGED <<served, spec, budget>>

Background(a) ==
    \/ /\ \/ waitForLoadBalancerAddrs(a) /\ UNCHANGED history
          \/ waitForServiceDNS(a) /\ UNCHANGED history
          \/ WaiterGivesUp(a)
       /\ UNCHANGED <<served, spec, store, cluster, req, budget>>
    \/ /\ AssignAddress(a)
       /\ UNCHANGED <<served, spec, store, objs, dep, cr, names, req, budget, history>>

Next ==
    \/ \E q \in Procs : Start(q) \/ Step(q)
    \/ \E a \in Apps : Background(a)

Spec == Init /\ [][Next]_vars

-----------------------------------------------------------------------------
(* Properties.                                                             *)

Mirrors(a) ==
    /\ mirror[a] # None /\ ~mirror[a].deleted
    /\ mirror[a].rv = cr[a].rv /\ mirror[a].f = cr[a].f

\* What the operation of a finished request promises.
Deployed(a) ==
    LET s == spec[a] IN
    /\ row[a] = "live" /\ a \in released
    /\ s.src = "raw" => objs[a] = {s.docs[i] : i \in DOMAIN s.docs}
    /\ s.src = "image" =>
         /\ dep[a] # None
         /\ objs[a] = {"workload"} \cup (IF s.ports # "none" THEN {"service"} ELSE {})
                        \cup (IF HasIngress(s) THEN {"ingress"} ELSE {})
                        \cup (IF HasIngress(s) /\ CertManager THEN {"cert"} ELSE {})
         /\ served => cr[a] # None /\ Mirrors(a)
Deleted(a) ==
    /\ row[a] = "deleted" /\ dep[a] = None /\ objs[a] \subseteq {"other"}
    /\ a \notin domains /\ a \notin addr
    /\ mirror[a] # None => mirror[a].deleted
Updated(q, a) ==
    LET f == FieldOf[req[q].op] IN
    IF f \in CRFields /\ cr[a] # None
      THEN cr[a].f[f] = req[q].arg /\ Mirrors(a)
      ELSE dep[a] # None /\ dep[a].f[f] = req[q].arg
Promise(q) ==
    LET op == req[q].op
        a == App(q)
    IN  /\ op = "deploy" => Deployed(a)
        /\ op = "delete" => Deleted(a)
        /\ op \in UpdateOps => Updated(q, a)
        /\ op = "status" /\ cr[a] # None => Mirrors(a)
        /\ op = "list" =>
             \A b \in Apps : row[b] = "live" /\ cr[b] # None => Mirrors(b)

\* A request that succeeded with no other request beside it or since, and
\* that dropped no error, leaves everything its operation promises, whatever
\* half-finished, failed or overlapping requests came before it (DeployApp,
\* DeleteApp, ScaleApp, UpdateAppImage, the attachments, GetAppStatus).
RequestSettles ==
    \A q \in Procs :
        At(q, "done") /\ req[q].solo /\ ~req[q].lost => Promise(q)

Changed(old, new) == {f \in DOMAIN old.f : old.f[f] # new.f[f]}

\* A step that writes an existing Deployment or App resource changes at most
\* one of its fields: read-modify-write requests that overlap never carry back
\* a field another request changed in between (updateAppDeployment sends the
\* resourceVersion it read; ScaleApp and UpdateAppImage update by version).
UpdatesIsolated ==
    [][\A a \in Apps :
         /\ dep[a] # None /\ dep'[a] # None => Cardinality(Changed(dep[a], dep'[a])) <= 1
         /\ cr[a] # None /\ cr'[a] # None => Cardinality(Changed(cr[a], cr'[a])) <= 1]_vars

Planned == {q \in Procs : /\ req[q].pc \in {"workload", "envFrom", "service"}
                          /\ WantsLB(SpecOf(q))}

\* Counting the Services before creating one is not atomic: the limit on load
\* balancers can be passed, but by no more than the number of deploys that
\* were in flight at once, less one, as long as every list succeeded
\* (planAppDeployment).  Load balancers in raw manifests are not limited.
LoadBalancerBound ==
    LET lbs == {a \in Apps : IsLB(a) /\ WantsLB(spec[a])}
    IN  lbs # {} \/ Planned # {} =>
          blind \/ Cardinality(lbs) + Cardinality(Planned) < MaxLB + crowd

OwnHost(a) ==
    /\ spec[a] # None /\ HasIngress(spec[a])
    /\ \A b \in Apps \ {a} : spec[b] # None => spec[b].host # spec[a].host
NoRequestOn(a) == \A q \in Procs : Idle(q) \/ App(q) # a

\* Once DeleteApp has finished, no labelled object of the kinds it removes
\* comes back: whatever requests overlapped it, none of them recreates the
\* Deployment it had read before (unless a round trip for the app failed).
DeletedStaysDeleted ==
    \A a \in Apps :
        row[a] = "deleted" /\ NoRequestOn(a) /\ a \notin blurred =>
          dep[a] = None /\ objs[a] \subseteq {"other"}

\* The DNS record of a host only one app uses follows that app, unless a
\* round trip for it failed: no record and no goroutine outlives a deleted
\* app, except when the goroutine had read the addresses before DeleteApp
\* removed the record; a live app with a load balancer has its record or a
\* goroutine on its way to write it, until that goroutine gives up
\* (ensureDNSForService, waitForServiceDNS, DeleteApp).
DnsTracksApp ==
    \A a \in Apps :
        OwnHost(a) /\ NoRequestOn(a) /\ a \notin blurred =>
          /\ row[a] = "deleted" => dns[spec[a].host] # a \/ a \in late
          /\ row[a] = "live" /\ IsLB(a) =>
               dns[spec[a].host] = a \/ waiter[a] # "none" \/ a \in expired
=============================================================================
