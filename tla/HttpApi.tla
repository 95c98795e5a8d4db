------------------------------- MODULE HttpApi -------------------------------
(***************************************************************************)
(* The HTTP API: what happens to one request between the router and its    *)
(* answer.  The middleware (access log, audit log, admin authentication),  *)
(* the checks of every handler in the order it makes them, the maintenance *)
(* gate of the service operation behind it, and how the outcome becomes a  *)
(* status.  Requests meet only in the maintenance row, so one request is   *)
(* followed while others turn maintenance on and off.                      *)
(***************************************************************************)
EXTENDS Naturals, Sequences, SequencesExt

CONSTANTS
    MaxToggles,  \* bound on the changes of the maintenance row in a behaviour
    LogLines,    \* lines a project log may hold
    MaxLog,      \* bound on the length of a project log
    MaxTail      \* maxProjectTailLines

ASSUME HttpAssumption == {MaxToggles, MaxLog, MaxTail} \subseteq Nat

VARIABLES
    server,   \* how the server was configured: [auth, service]
    upkeep,   \* maintenance_state.enabled
    toggles,  \* changes of the maintenance row so far
    hreq,     \* the request followed
    logRead   \* a project log and the lines read from its end

httpVars == <<server, upkeep, toggles, hreq, logRead>>

-----------------------------------------------------------------------------
(* A handler: its verb; what it wants of the body ("json", "none", or      *)
(* "optional": an empty body will do); whether it validates what it read   *)
(* and asks for If-Match; whether the service operation asks the           *)
(* maintenance gate and the handler knows its refusal; the statuses for a  *)
(* missing row, for any other error, and for success.                      *)
Reads == [verb |-> "GET", body |-> "none", checked |-> FALSE, ifMatch |-> FALSE,
          gated |-> FALSE, maintenance |-> FALSE, missing |-> 400, refused |-> 400, done |-> 200]
Posts == [Reads EXCEPT !.verb = "POST", !.body = "json"]
Creates == [Posts EXCEPT !.done = 201]
Patches == [Posts EXCEPT !.verb = "PATCH"]
Deletes == [Reads EXCEPT !.verb = "DELETE"]
Guarded(h) == [h EXCEPT !.gated = TRUE, !.maintenance = TRUE]
Finds(h) == [h EXCEPT !.missing = 404]
Breaks(h) == [h EXCEPT !.missing = 500, !.refused = 500]

ProbeHandlers ==
    [healthz |-> Reads, readyz |-> [Reads EXCEPT !.missing = 503, !.refused = 503],
     version |-> Reads, metrics |-> Reads]

\* createCluster asks whether a kubeconfig that does not decode is a
\* maintenance refusal, and answers that of RegisterCluster with 400.
ClusterHandlers ==
    [createCluster |-> [Creates EXCEPT !.checked = TRUE, !.gated = TRUE],
     listClusters |-> Breaks(Reads), getCluster |-> Finds(Breaks(Reads)),
     updateCluster |-> Finds(Guarded(Patches)), clustersHealth |-> Breaks(Reads)]

ClusterStatusHandlers ==
    [clusterHealth |-> Breaks(Reads), clusterStatus |-> Breaks(Reads), listUsers |-> Breaks(Reads),
     getUser |-> [Reads EXCEPT !.missing = 404, !.refused = 404]]

UserHandlers ==
    [bootstrapUser |-> Creates, deleteUser |-> Deletes, renewUserKubeconfig |-> Posts]

ProjectCreateHandlers ==
    [createProject |-> Guarded(Creates), listProjects |-> Breaks(Reads)]

\* Mutant: suspending forgets the gate.
suspendAnytime ==
    [listUserProjects |-> Breaks(Reads), patchProjectQuota |-> Guarded(Patches),
     getProjectQuota |-> Finds(Reads), suspendProject |-> [Posts EXCEPT !.body = "none"],
     unsuspendProject |-> Guarded([Posts EXCEPT !.body = "none"]),
     getProject |-> [Reads EXCEPT !.missing = 404, !.refused = 404],
     deleteProject |-> Guarded(Deletes)]

ProjectHandlers ==
    [listUserProjects |-> Breaks(Reads), patchProjectQuota |-> Guarded(Patches),
     getProjectQuota |-> Finds(Reads), suspendProject |-> Guarded([Posts EXCEPT !.body = "none"]),
     unsuspendProject |-> Guarded([Posts EXCEPT !.body = "none"]),
     getProject |-> [Reads EXCEPT !.missing = 404, !.refused = 404],
     deleteProject |-> Guarded(Deletes)]

ProjectLogHandlers ==
    [projectLogs |-> [Reads EXCEPT !.checked = TRUE, !.missing = 404, !.refused = 500]]

AppDeployHandlers == [deployApp |-> Guarded(Creates), validateApp |-> Posts]

AppReadHandlers ==
    [listProjectApps |-> Reads, getProjectApp |-> Reads, getAppDelivery |-> Reads,
     appLogs |-> Reads, renewProjectKubeconfig |-> [Posts EXCEPT !.body = "none"]]

AppUpdateHandlers ==
    [scaleApp |-> [Guarded(Patches) EXCEPT !.checked = TRUE, !.ifMatch = TRUE],
     updateAppImage |-> [Guarded(Patches) EXCEPT !.ifMatch = TRUE],
     rolloutRestartApp |-> Guarded([Posts EXCEPT !.body = "none"])]

AppAttachHandlers ==
    [attachConfigToApp |-> Posts, detachConfigFromApp |-> Posts, attachSecretToApp |-> Posts,
     detachSecretFromApp |-> Posts, deleteApp |-> Guarded(Deletes)]

ConfigHandlers ==
    [createConfig |-> Creates, listConfigs |-> Reads, deleteConfig |-> Deletes,
     createSecret |-> Creates, listSecrets |-> Reads, deleteSecret |-> Deletes]

GitCredentialHandlers ==
    [createGitCredential |-> Finds(Creates), listGitCredentials |-> Finds(Reads),
     getGitCredential |-> Finds(Reads), deleteGitCredential |-> Finds(Deletes)]

RegistryCredentialHandlers ==
    [createRegistryCredential |-> Finds(Creates), listRegistryCredentials |-> Finds(Reads),
     getRegistryCredential |-> Finds(Reads), deleteRegistryCredential |-> Finds(Deletes)]

EventHandlers ==
    [listProjectEvents |-> Reads, appendProjectEvent |-> Creates]

\* A disabled event bridge is answered with 202 as well.
IngestHandlers ==
    [ingestProjectEvents |-> Breaks([Posts EXCEPT !.body = "optional", !.done = 202])]

ReleaseHandlers == [listAppReleases |-> [Reads EXCEPT !.checked = TRUE]]

KubeconfigHandlers ==
    [ensureKubeconfig |-> Finds(Posts), deleteKubeconfig |-> Finds(Deletes),
     rotateKubeconfig |-> [Finds(Posts) EXCEPT !.checked = TRUE]]

\* DeployTemplate asks the gate through DeployApp.
TemplateHandlers ==
    [createTemplate |-> Creates, listTemplates |-> Reads, getTemplate |-> Finds(Reads),
     renderTemplate |-> Finds([Posts EXCEPT !.body = "optional"]),
     deployTemplate |-> Finds(Guarded([Creates EXCEPT !.body = "optional"]))]

MaintenanceHandlers ==
    [getMaintenance |-> Breaks(Reads), updateMaintenance |-> Breaks([Posts EXCEPT !.verb = "PUT"])]

WebhookHandlers == [gitWebhook |-> Posts]

\* One table of all handlers of some tables, which have none in common.
Joined(tables) ==
    [h \in UNION {DOMAIN t : t \in tables} |-> (CHOOSE t \in tables : h \in DOMAIN t)[h]]

AdminTables ==
    {ClusterHandlers, ClusterStatusHandlers, UserHandlers, ProjectCreateHandlers,
     ProjectHandlers, ProjectLogHandlers, AppDeployHandlers, AppReadHandlers,
     AppUpdateHandlers, AppAttachHandlers, ConfigHandlers, GitCredentialHandlers,
     RegistryCredentialHandlers, EventHandlers, IngestHandlers, ReleaseHandlers,
     KubeconfigHandlers, TemplateHandlers, MaintenanceHandlers, WebhookHandlers}

Admin == Joined(AdminTables)

Handlers == Joined(AdminTables \cup {ProbeHandlers})

-----------------------------------------------------------------------------
NoHttpRequest == [pc |-> "idle"]
Answer(status) == hreq' = [hreq EXCEPT !.pc = "answer", !.status = status]
To_(pc) == hreq' = [hreq EXCEPT !.pc = pc]

HttpInit ==
    /\ server = [auth |-> TRUE, service |-> FALSE]
    /\ upkeep = FALSE /\ toggles = 0
    /\ hreq = NoHttpRequest
    /\ logRead = [file |-> <<>>, lines |-> 0, got |-> <<>>]

\* NewRouter; the service is missing in tests only.
NewRouter ==
    /\ hreq = NoHttpRequest /\ ~server.service
    /\ \E auth, service \in BOOLEAN : server' = [auth |-> auth, service |-> service]
    /\ UNCHANGED <<upkeep, toggles, hreq, logRead>>

Arrive ==
    /\ hreq = NoHttpRequest /\ logRead.file = <<>>
    /\ \E h \in DOMAIN Handlers, token \in {"none", "bad", "member", "admin"},
          body \in {"good", "bad", "empty"}, valid, ifMatch \in BOOLEAN :
         \* what a handler does not look at does not matter
         /\ Handlers[h].body = "none" => body = "good"
         /\ ~Handlers[h].checked => valid
         /\ ~Handlers[h].ifMatch => ifMatch
         /\ hreq' = [pc |-> "route", h |-> h, token |-> token, body |-> body, valid |-> valid,
                     ifMatch |-> ifMatch, status |-> 0, called |-> FALSE, worked |-> FALSE,
                     barred |-> FALSE, panicked |-> FALSE, sawOff |-> ~upkeep,
                     access |-> 0, audit |-> 0]
    /\ UNCHANGED <<server, upkeep, toggles, logRead>>

\* Probes, the version and the metrics are routed outside the middleware.
AdminAuthMiddleware ==
    /\ hreq.pc = "route"
    /\ \/ /\ hreq.h \in DOMAIN ProbeHandlers \/ ~server.auth \/ hreq.token = "admin"
          /\ To_("handle")
       \/ /\ hreq.h \in DOMAIN Admin /\ server.auth /\ hreq.token # "admin"
          /\ Answer(IF hreq.token = "member" THEN 403 ELSE 401)
    /\ UNCHANGED <<server, upkeep, toggles, logRead>>

\* A handler up to its call of the service.  gitWebhook looks for the
\* service after it has read the body, all others before.
Handle ==
    LET h == Handlers[hreq.h]
        bare == ~server.service /\ hreq.h \in DOMAIN Admin
        unreadable == \/ h.body = "json" /\ hreq.body # "good"
                      \/ h.body = "optional" /\ hreq.body = "bad"
    IN  /\ hreq.pc = "handle"
        /\ IF bare /\ hreq.h # "gitWebhook" THEN Answer(500)
           ELSE IF unreadable THEN Answer(400)
           ELSE IF bare THEN Answer(500)
           ELSE IF h.checked /\ ~hreq.valid THEN Answer(400)
           ELSE IF h.ifMatch /\ ~hreq.ifMatch THEN Answer(428)
           ELSE hreq' = [hreq EXCEPT !.pc = IF h.gated THEN "gate" ELSE "work", !.called = TRUE]
        /\ UNCHANGED <<server, upkeep, toggles, logRead>>

\* Mutant: the refusal is an error like any other.
refuseAsError(h) == h.refused

\* writeMaintenanceError, where the handler calls it.
writeMaintenanceError(h) == IF h.maintenance THEN 503 ELSE h.refused

\* The maintenance row is read, on each call.  Reading it may fail; so may
\* reading the template before it, in DeployTemplate.
ensureMaintenanceAllows ==
    LET h == Handlers[hreq.h]
    IN  /\ hreq.pc = "gate"
        /\ \/ ~upkeep /\ To_("work")
           \/ upkeep /\ hreq' = [hreq EXCEPT !.pc = "answer", !.barred = TRUE,
                                             !.status = writeMaintenanceError(h)]
           \/ Answer(h.refused)
           \/ hreq.h = "deployTemplate" /\ Answer(h.missing)
        /\ UNCHANGED <<server, upkeep, toggles, logRead>>

\* The rest of the service call.
Work ==
    LET h == Handlers[hreq.h]
    IN  /\ hreq.pc = "work"
        /\ \/ /\ hreq.h # "readyz" \/ server.service
              /\ hreq' = [hreq EXCEPT !.pc = "answer", !.worked = TRUE, !.status = h.done]
              /\ upkeep' \in IF hreq.h = "updateMaintenance" THEN BOOLEAN ELSE {upkeep}
           \/ /\ hreq.h \notin DOMAIN ProbeHandlers \/ hreq.h = "readyz"
              /\ \E s \in {h.missing, h.refused} : Answer(s)
              /\ UNCHANGED upkeep
        /\ UNCHANGED <<server, toggles, logRead>>

\* Recoverer is outside both logs: a handler that panics is answered with
\* 500 and neither log has a line.
Recoverer ==
    /\ hreq.pc \in {"handle", "gate", "work"}
    /\ hreq' = [hreq EXCEPT !.pc = "done", !.status = 500, !.panicked = TRUE]
    /\ UNCHANGED <<server, upkeep, toggles, logRead>>

isAuditMethod(verb) == verb \in {"POST", "PUT", "PATCH", "DELETE"}

\* Probes and metrics, which AuditLog also skips, are GETs.
AuditLog ==
    /\ hreq.pc = "answer"
    /\ hreq' = [hreq EXCEPT !.pc = "logged",
                 !.audit = IF isAuditMethod(Handlers[hreq.h].verb) THEN hreq.status ELSE 0]
    /\ UNCHANGED <<server, upkeep, toggles, logRead>>

AccessLog ==
    /\ hreq.pc = "logged"
    /\ hreq' = [hreq EXCEPT !.pc = "done", !.access = hreq.status]
    /\ UNCHANGED <<server, upkeep, toggles, logRead>>

\* updateMaintenance of another request.
Toggle ==
    /\ toggles < MaxToggles
    /\ toggles' = toggles + 1
    /\ upkeep' = ~upkeep
    /\ hreq' = IF hreq.pc \in {"idle", "done"} THEN hreq
               ELSE [hreq EXCEPT !.sawOff = @ \/ ~upkeep']
    /\ UNCHANGED <<server, logRead>>

-----------------------------------------------------------------------------
\* Mutant: the ring is read from its first slot.
tailUnrolled(file, lines) ==
    IF lines = 0 \/ file = <<>> THEN <<>>
    ELSE LET Push(r, line) == [slot |-> [r.slot EXCEPT ![r.index] = line],
                               index |-> (r.index + 1) % lines,
                               count |-> IF r.count < lines THEN r.count + 1 ELSE r.count]
             ring == FoldLeft(Push, [slot |-> [i \in 0..lines - 1 |-> <<>>],
                                     index |-> 0, count |-> 0], file)
         IN  [i \in 1..ring.count |-> ring.slot[i - 1]]

\* The last lines of a project log, through a ring of that many slots.
tailProjectLog(file, lines) ==
    IF lines = 0 \/ file = <<>> THEN <<>>
    ELSE LET Push(r, line) == [slot |-> [r.slot EXCEPT ![r.index] = line],
                               index |-> (r.index + 1) % lines,
                               count |-> IF r.count < lines THEN r.count + 1 ELSE r.count]
             ring == FoldLeft(Push, [slot |-> [i \in 0..lines - 1 |-> <<>>],
                                     index |-> 0, count |-> 0], file)
             start == (ring.index + lines - ring.count) % lines
         IN  [i \in 1..ring.count |-> ring.slot[(start + i - 1) % lines]]

\* projectLogs with ?tail= on a log that has grown by a line.
TailLog(line, lines) ==
    /\ hreq = NoHttpRequest /\ Len(logRead.file) < MaxLog
    /\ LET file == Append(logRead.file, line)
       IN  logRead' = [file |-> file, lines |-> lines, got |-> tailProjectLog(file, lines)]
    /\ UNCHANGED <<server, upkeep, toggles, hreq>>

HttpNext ==
    \/ NewRouter \/ Arrive \/ AdminAuthMiddleware \/ Handle
    \/ ensureMaintenanceAllows \/ Work
    \/ Recoverer \/ AuditLog \/ AccessLog \/ Toggle
    \/ \E line \in LogLines, lines \in 0..MaxTail : TailLog(line, lines)

HttpSpec == HttpInit /\ [][HttpNext]_httpVars

-----------------------------------------------------------------------------
Answered == hreq.pc = "done" /\ ~hreq.panicked

\* The operations an operator stops by turning maintenance on.
StoppedByMaintenance ==
    {"createCluster", "updateCluster", "createProject", "patchProjectQuota", "suspendProject",
     "unsuspendProject", "deleteProject", "deployApp", "deployTemplate", "scaleApp",
     "updateAppImage", "rolloutRestartApp", "deleteApp"}

\* Maintenance holds from the moment it is on: a request that arrives later
\* changes no cluster, project or app as long as it stays on.  A request
\* already past the gate finishes its work (ensureMaintenanceAllows).
NoWorkUnderMaintenance ==
    hreq.pc # "idle" /\ hreq.worked /\ hreq.h \in StoppedByMaintenance => hreq.sawOff

\* A caller can tell from the status what happened: success means the service
\* did its work, 503 that maintenance stopped a change, which may be sent
\* again, 401 and 403 that nothing was tried.  Registering a cluster is the
\* exception: stopped by maintenance it answers 400.  The audit log tells the
\* same of every request that may change something (the handlers,
\* writeMaintenanceError, AdminAuthMiddleware, AuditLog).
StatusTellsOutcome ==
    Answered =>
       /\ hreq.audit = IF Handlers[hreq.h].verb = "GET" THEN 0 ELSE hreq.access
       /\ hreq.worked <=> hreq.status \in 200..299
       /\ hreq.barred => hreq.status = IF hreq.h = "createCluster" THEN 400 ELSE 503
       /\ hreq.status = 503 => hreq.barred \/ hreq.h = "readyz"
       /\ hreq.status \in {401, 403} => ~hreq.called

\* The ring gives the last lines of the file in their order, whatever the
\* length of the file and the number asked for (tailProjectLog).
TailIsLastLines ==
    LET n == Len(logRead.file)
        k == IF logRead.lines < n THEN logRead.lines ELSE n
    IN  logRead.got = SubSeq(logRead.file, n - k + 1, n)
=============================================================================
