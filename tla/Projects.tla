------------------------------ MODULE Projects ------------------------------
(***************************************************************************)
(* Project placement and limits: creating, suspending, resizing and        *)
(* deleting the projects of one user on one cluster, behind the            *)
(* maintenance gate.                                                       *)
(*                                                                         *)
(* A project is a row of the projects table and objects in a namespace: in *)
(* dedicated mode a namespace of its own with a ResourceQuota, in shared   *)
(* mode (ProjectsInUserNamespace, the default) a LimitRange in the user's  *)
(* namespace.  Each request reads the row, applies objects and then writes *)
(* the row, one round trip after the other, beside the requests of other   *)
(* replicas.  Kubeconfigs are the subject of module Kubeconfigs.           *)
(***************************************************************************)
EXTENDS Naturals

CONSTANTS
    Projects,      \* project ids
    NamespaceOf,   \* the namespace of a project in dedicated mode
    UserNamespace, \* the namespace of the user, for all projects in shared mode
    Quotas,        \* values of quota_overrides
    Default,       \* no overrides
    Procs,         \* request slots over all API replicas
    Ops,           \* the operations clients issue in this instance
    Faults,        \* "stop" and "ignored", as in module Kubeconfigs
    None

AllOps == {"create", "suspend", "unsuspend", "quota", "delete", "deleteUser",
           "maintenance"}

ASSUME ProjectsAssumption ==
    /\ Default \in Quotas
    /\ {"zero", None} \cap Quotas = {} /\ None # "zero"
    /\ None \notin Projects
    /\ Ops \subseteq AllOps

VARIABLES
    shared,      \* cfg.ProjectsInUserNamespace, read once when the API starts
    row,         \* projects row: "absent", "live", "deleted"
    suspended,   \* its columns suspended and
    overrides,   \* quota_overrides
    space,       \* namespaces with a user_spaces row (shared mode)
    ns,          \* namespaces that exist
    quota,       \* hard limits of a namespace's ResourceQuota, None without one
    limits,      \* projects whose LimitRange exists (shared mode)
    maint,       \* maintenance_state.enabled
    calm,        \* history: requests neither overlapped nor failed past the gate
    req          \* the requests in flight

vars == <<shared, row, suspended, overrides, space, ns, quota, limits, maint,
          calm, req>>

tables == <<shared, row, suspended, overrides, space>>
cluster == <<ns, quota, limits>>

Namespaces == {NamespaceOf[p] : p \in Projects} \cup {UserNamespace}

Resting == {"idle", "done", "failed"}
Pcs == Resting \cup {"gate", "read", "place", "apply", "space", "limits",
                     "insert", "store", "drop", "softDelete", "event"}

Request ==
    [op : AllOps \cup {"none"}, pc : Pcs, proj : Projects \cup {None},
     arg : Quotas,        \* the overrides in the request body
     saw : Quotas,        \* the overrides GetProject returned
     lost : BOOLEAN,      \* history: an error of it was dropped
     solo : BOOLEAN,      \* history: no other request has run beside it or since
     under : BOOLEAN]     \* history: maintenance has been on since it began

TypeOK ==
    /\ shared \in BOOLEAN
    /\ row \in [Projects -> {"absent", "live", "deleted"}]
    /\ suspended \in [Projects -> BOOLEAN]
    /\ overrides \in [Projects -> Quotas]
    /\ space \subseteq Namespaces
    /\ ns \subseteq Namespaces
    /\ quota \in [Namespaces -> Quotas \cup {"zero", None}]
    /\ limits \subseteq Projects
    /\ maint \in BOOLEAN
    /\ calm \in BOOLEAN
    /\ req \in [Procs -> Request]

Init ==
    /\ shared \in BOOLEAN
    /\ row = [p \in Projects |-> "absent"]
    /\ suspended = [p \in Projects |-> FALSE]
    /\ overrides = [p \in Projects |-> Default]
    /\ space = {} /\ ns = {} /\ limits = {}
    /\ quota = [n \in Namespaces |-> None]
    /\ maint = FALSE
    /\ calm = TRUE
    /\ req = [q \in Procs |->
                [op |-> "none", pc |-> "idle", proj |-> None, arg |-> Default,
                 saw |-> Default, lost |-> FALSE, solo |-> FALSE, under |-> FALSE]]

-----------------------------------------------------------------------------
(* Control of one request.                                                 *)

Idle(q) == req[q].pc \in Resting
At(q, pc) == req[q].pc = pc
Go(q, pc) == req' = [req EXCEPT ![q].pc = pc] /\ calm' = calm
Error(q) == req' = [req EXCEPT ![q].pc = "failed"] /\ calm' = (calm /\ At(q, "gate"))
GoDespiteError(q, pc) ==
    /\ "ignored" \in Faults
    /\ req' = [req EXCEPT ![q].pc = pc, ![q].lost = TRUE]
    /\ calm' = FALSE

Home(p) == IF shared THEN UserNamespace ELSE NamespaceOf[p]
Place(q) == Home(req[q].proj)

\* A request starts.  Whoever else is in flight is no longer alone, and what
\* finished before is no longer the last word.
Begin(q, op, pc, p, o) ==
    /\ op \in Ops
    /\ Idle(q)
    /\ req' = [r \in Procs |->
                 IF r = q
                   THEN [op |-> op, pc |-> pc, proj |-> p, arg |-> o,
                         saw |-> Default, lost |-> FALSE, under |-> maint,
                         solo |-> \A x \in Procs \ {q} : Idle(x)]
                   ELSE [req[r] EXCEPT !.solo = FALSE]]
    /\ calm' = (calm /\ \A x \in Procs \ {q} : Idle(x))
    /\ UNCHANGED <<tables, cluster, maint>>

\* A failing round trip or the death of the replica; nothing is undone.
Stop(q) ==
    /\ "stop" \in Faults
    /\ ~Idle(q)
    /\ Error(q)
    /\ UNCHANGED <<tables, cluster, maint>>

-----------------------------------------------------------------------------
(* The maintenance gate.                                                   *)

SetMaintenance(on) ==
    /\ "maintenance" \in Ops
    /\ maint' = on
    /\ req' = [q \in Procs |-> [req[q] EXCEPT !.under = @ /\ on]]
    /\ UNCHANGED <<tables, cluster, calm>>

\* Mutant: the gate is consulted for creations and deletions only.
GateForgotten(q) ==
    /\ At(q, "gate")
    /\ IF maint /\ req[q].op \in {"create", "delete"} THEN Error(q)
       ELSE Go(q, IF req[q].op = "create" THEN "place" ELSE "read")
    /\ UNCHANGED <<tables, cluster, maint>>

\* ensureMaintenanceAllows, then the refusal of per-project limits in shared
\* mode.
Gate(q) ==
    /\ At(q, "gate")
    /\ IF maint \/ (shared /\ req[q].op \in {"suspend", "unsuspend", "quota"})
         THEN Error(q)
         ELSE Go(q, IF req[q].op = "create" THEN "place" ELSE "read")
    /\ UNCHANGED <<tables, cluster, maint>>

-----------------------------------------------------------------------------
(* CreateProject.                                                          *)

\* A new project has a fresh id; its name may repeat an earlier one.
CreateBegin(q) ==
    \E p \in Projects, o \in Quotas :
        /\ row[p] = "absent"
        /\ \A r \in Procs : req[r].proj = p => Idle(r)
        /\ Begin(q, "create", "gate", p, o)

\* Apply the namespace.  In shared mode that is part of provisionUserSpace,
\* which runs only when the user has no space yet.
ApplyNamespace(q) ==
    /\ At(q, "place")
    /\ ns' = IF Place(q) \in space THEN ns ELSE ns \cup {Place(q)}
    /\ Go(q, "apply")
    /\ UNCHANGED <<tables, quota, limits, maint>>

\* provisionUserSpace ends by storing the row.
StoreSpace(q) ==
    /\ At(q, "space")
    /\ space' = space \cup {Place(q)}
    /\ Go(q, "limits")
    /\ UNCHANGED <<shared, row, suspended, overrides, cluster, maint>>

\* The project's LimitRange in the user's namespace.
ApplyProjectLimits(q) ==
    /\ At(q, "limits")
    /\ IF Place(q) \in ns
         THEN limits' = limits \cup {req[q].proj} /\ Go(q, "insert")
         ELSE limits' = limits /\ Error(q)
    /\ UNCHANGED <<tables, ns, quota, maint>>

\* Mutant: the row is inserted without the overrides of the request.
InsertProjectPlain(q) ==
    /\ At(q, "insert")
    /\ row' = [row EXCEPT ![req[q].proj] = "live"]
    /\ Go(q, "event")
    /\ UNCHANGED <<shared, suspended, overrides, space, cluster, maint>>

\* The row comes last; idx_projects_cluster_namespace admits one live project
\* per namespace.
InsertProject(q) ==
    /\ At(q, "insert")
    /\ LET p == req[q].proj IN
       IF \E r \in Projects : row[r] = "live" /\ Home(r) = Home(p)
         THEN UNCHANGED <<row, suspended, overrides>> /\ Error(q)
         ELSE /\ row' = [row EXCEPT ![p] = "live"]
              /\ suspended' = [suspended EXCEPT ![p] = FALSE]
              /\ overrides' = [overrides EXCEPT ![p] = req[q].arg]
              /\ Go(q, "event")
    /\ UNCHANGED <<shared, space, cluster, maint>>

-----------------------------------------------------------------------------
(* SetProjectSuspended and UpdateProjectQuota: read the row, apply the     *)
(* ResourceQuota, store the column.                                        *)

ChangeBegin(q) ==
    \E p \in Projects, op \in {"suspend", "unsuspend", "delete"} :
        row[p] # "absent" /\ Begin(q, op, "gate", p, Default)

QuotaBegin(q) ==
    \E p \in Projects, o \in Quotas :
        row[p] # "absent" /\ Begin(q, "quota", "gate", p, o)

GetProject(q) ==
    /\ At(q, "read")
    /\ IF row[req[q].proj] = "live"
         THEN /\ req' = [req EXCEPT ![q].saw = overrides[req[q].proj],
                                    ![q].pc = IF req[q].op = "delete" THEN "drop"
                                                                      ELSE "apply"]
              /\ calm' = calm
         ELSE Error(q)
    /\ UNCHANGED <<tables, cluster, maint>>

\* The hard limits each operation applies.
Hard(q) == CASE req[q].op = "suspend" -> "zero"
             [] req[q].op = "unsuspend" -> req[q].saw
             [] req[q].op \notin {"suspend", "unsuspend"} ->
                  IF shared THEN Default ELSE req[q].arg

\* applyNamespaceLimitObjects; it fails when the namespace is gone.
ApplyQuota(q) ==
    /\ At(q, "apply")
    /\ IF Place(q) \in ns
         THEN /\ quota' = [quota EXCEPT ![Place(q)] = Hard(q)]
              /\ Go(q, CASE req[q].op # "create" -> "store"
                         [] req[q].op = "create" /\ ~shared -> "insert"
                         [] req[q].op = "create" /\ shared ->
                              IF Place(q) \in space THEN "limits" ELSE "space")
         ELSE quota' = quota /\ Error(q)
    /\ UNCHANGED <<tables, ns, limits, maint>>

\* UpdateProjectSuspended / UpdateProjectQuotaOverrides write by id, also to
\* a row that was soft-deleted meanwhile.
StoreColumn(q) ==
    /\ At(q, "store")
    /\ LET p == req[q].proj IN
       \/ /\ req[q].op \in {"suspend", "unsuspend"}
          /\ suspended' = [suspended EXCEPT ![p] = req[q].op = "suspend"]
          /\ overrides' = overrides
       \/ /\ req[q].op = "quota"
          /\ overrides' = [overrides EXCEPT ![p] = req[q].arg]
          /\ suspended' = suspended
    /\ Go(q, "event")
    /\ UNCHANGED <<shared, row, space, cluster, maint>>

\* AppendProjectEvent closes every operation on a project; its failure is
\* reported although the change is made.
AppendEvent(q) ==
    /\ At(q, "event")
    /\ Go(q, "done")
    /\ UNCHANGED <<tables, cluster, maint>>

-----------------------------------------------------------------------------
(* DeleteProject and DeleteUser.                                           *)

\* Mutant: the namespace is kept.
DropObjectsNot(q) ==
    /\ At(q, "drop")
    /\ Go(q, "softDelete")
    /\ UNCHANGED <<tables, cluster, maint>>

\* The namespace and all in it; in shared mode the project's LimitRange,
\* whose deletion may fail unnoticed.
DropObjects(q) ==
    /\ At(q, "drop")
    /\ \/ /\ ~shared
          /\ ns' = ns \ {Place(q)}
          /\ quota' = [quota EXCEPT ![Place(q)] = None]
          /\ limits' = limits
          /\ Go(q, "softDelete")
       \/ /\ shared
          /\ limits' = limits \ {req[q].proj}
          /\ Go(q, "softDelete")
          /\ UNCHANGED <<ns, quota>>
       \/ /\ shared
          /\ GoDespiteError(q, "softDelete")
          /\ UNCHANGED cluster
    /\ UNCHANGED <<tables, maint>>

SoftDelete(q) ==
    /\ At(q, "softDelete")
    /\ row' = [p \in Projects |-> IF p = req[q].proj /\ row[p] = "live"
                                    THEN "deleted" ELSE row[p]]
    /\ Go(q, "event")
    /\ UNCHANGED <<shared, suspended, overrides, space, cluster, maint>>

\* DeleteUser is not gated.  It deletes the namespaces of the user's spaces,
\* then the rows of the projects, and drops the errors of both.
DeleteUserBegin(q) == Begin(q, "deleteUser", "drop", None, Default)

DropSpaces(q) ==
    /\ At(q, "drop")
    /\ \/ /\ ns' = ns \ space
          /\ quota' = [n \in Namespaces |-> IF n \in space THEN None ELSE quota[n]]
          /\ limits' = {p \in limits : Home(p) \notin space}
          /\ Go(q, "softDelete")
       \/ /\ GoDespiteError(q, "softDelete")
          /\ UNCHANGED cluster
    /\ UNCHANGED <<tables, maint>>

SoftDeleteAll(q) ==
    /\ At(q, "softDelete")
    /\ \/ /\ row' = [p \in Projects |-> IF row[p] = "live" THEN "deleted" ELSE row[p]]
          /\ Go(q, "done")
       \/ /\ GoDespiteError(q, "done")
          /\ row' = row
    /\ UNCHANGED <<shared, suspended, overrides, space, cluster, maint>>

Step(q) ==
    \/ Gate(q) \/ ApplyNamespace(q) \/ StoreSpace(q) \/ ApplyProjectLimits(q)
    \/ InsertProject(q) \/ GetProject(q) \/ ApplyQuota(q) \/ StoreColumn(q)
    \/ AppendEvent(q)
    \/ req[q].op = "delete" /\ (DropObjects(q) \/ SoftDelete(q))
    \/ req[q].op = "deleteUser" /\ (DropSpaces(q) \/ SoftDeleteAll(q))

Client(q) == CreateBegin(q) \/ ChangeBegin(q) \/ QuotaBegin(q) \/ DeleteUserBegin(q)

Next ==
    \/ \E q \in Procs : Client(q) \/ Step(q) \/ Stop(q)
    \/ \E on \in BOOLEAN : SetMaintenance(on)

Spec == Init /\ [][Next]_vars

-----------------------------------------------------------------------------
(* Properties.                                                             *)

\* What a completed operation promises about its project.
Settled(q) ==
    LET p == req[q].proj
        n == Place(q) IN
    CASE req[q].op = "create" ->
           /\ row[p] = "live" /\ n \in ns /\ ~suspended[p]
           /\ overrides[p] = req[q].arg
           /\ IF shared THEN quota[n] = Default /\ p \in limits
                        ELSE quota[n] = overrides[p]
      [] req[q].op = "suspend" -> suspended[p] /\ quota[n] = "zero"
      [] req[q].op = "unsuspend" -> ~suspended[p] /\ quota[n] = overrides[p]
      [] req[q].op = "quota" -> overrides[p] = req[q].arg /\ quota[n] = req[q].arg
      [] req[q].op = "delete" ->
           /\ row[p] = "deleted"
           /\ IF shared THEN req[q].lost \/ p \notin limits
                        ELSE n \notin ns /\ quota[n] = None
      [] req[q].op = "deleteUser" ->
           req[q].lost \/ \A r \in Projects : row[r] # "live"

\* Whatever earlier requests left behind, interrupted anywhere or raced by
\* others, an operation that then runs alone to its end brings row and
\* cluster to what it promises: repeating a failed call repairs.
SoloRequestSettles ==
    \A q \in Procs : At(q, "done") /\ req[q].solo => Settled(q)

\* As long as requests do not overlap or fail half-way, between them the
\* ResourceQuota in the cluster carries the overrides of the row or, while the
\* row is suspended, possibly zero; and a live project has its namespace.
LimitsMatchRow ==
    calm /\ (\A q \in Procs : Idle(q)) =>
        \A p \in Projects : row[p] = "live" =>
            LET n == Home(p) IN
            /\ n \in ns
            /\ ~shared => \/ quota[n] = overrides[p]
                          \/ suspended[p] /\ quota[n] = "zero"

\* A request that finds maintenance enabled, and for which it stays enabled,
\* changes nothing: it does not get past the gate (ensureMaintenanceAllows).
MaintenanceHolds ==
    \A q \in Procs : req[q].under /\ req[q].op # "deleteUser" =>
        req[q].pc \in {"gate", "failed"}

\* "Suspend mutating operations for a project" (docs/API.md): between requests
\* a live project whose row says suspended has a ResourceQuota of zero pods.
SuspensionHolds ==
    (\A q \in Procs : Idle(q)) =>
        \A p \in Projects : row[p] = "live" /\ suspended[p] =>
            quota[Home(p)] = "zero"

\* "shared user namespace (one user, many projects)" (internal/config): in
\* shared mode creating a project does not fail when nothing goes wrong.
ManyProjectsPerUser ==
    \A q \in Procs : shared /\ req[q].op = "create" => ~At(q, "failed")

=============================================================================
