------------------------- MODULE TenantController -------------------------
(***************************************************************************)
(* The Tenant controller of kubeop-operator: one worker that, for a        *)
(* Tenant, lists the namespaces labelled with it and writes one managed    *)
(* RoleBinding per tenant role into each of them.                          *)
(*                                                                         *)
(* Tenants, namespaces and RoleBindings are read from informer caches of   *)
(* their own, each of which lags behind the API server.  Tenants and       *)
(* namespaces are watched; RoleBindings are not.                           *)
(***************************************************************************)
EXTENDS Naturals

CONSTANTS
    Tenants,
    Namespaces,
    NoTenant,
    NRoles,       \* tenant-owner, tenant-developer, tenant-viewer: 3 in the code
    MaxChanges,   \* bound on changes by users
    MaxTenantFaults     \* bound on transient API errors and operator restarts

ASSUME TenantAssumption ==
    /\ NoTenant \notin Tenants /\ NoTenant \notin Namespaces
    /\ NRoles \in Nat \ {0}

VARIABLES
    tenant,       \* the Tenants that exist
    ns,           \* each namespace: its incarnation, life and tenant label
    rb,           \* rb[n][i]: the tenant the i-th managed RoleBinding of n names
    carried,      \* history: the tenants each namespace has been labelled with
    tenantCache, nsCache,
    rbCache,      \* what the cache knows of rb[n][i]
    tenantQueue,        \* Tenants waiting to be reconciled
    tenantWork,         \* the reconcile in progress
    changes, tenantFaults

tenantCluster == <<tenant, ns, rb, carried>>
tenantOperator == <<tenantCache, nsCache, rbCache, tenantQueue, tenantWork>>
tenantVars == <<tenantCluster, tenantOperator, changes, tenantFaults>>

Roles == 1..NRoles
NamespaceObject ==
    [uid : Nat, life : {"absent", "active", "terminating"}, label : Tenants \cup {NoTenant}]

TenantTypeOK ==
    /\ tenant \subseteq Tenants
    /\ ns \in [Namespaces -> NamespaceObject]
    /\ rb \in [Namespaces -> [Roles -> Tenants \cup {NoTenant}]]
    /\ carried \in [Namespaces -> SUBSET Tenants]
    /\ tenantCache \subseteq Tenants
    /\ nsCache \in [Namespaces -> NamespaceObject]
    \* no copy, a copy of an older version, a copy of the current version
    /\ rbCache \in [Namespaces -> [Roles -> {"none", "stale", "current"}]]
    /\ tenantQueue \subseteq Tenants
    /\ tenantWork \in [pc : {"idle", "list", "bind"}, tenant : Tenants \cup {NoTenant},
                 todo : SUBSET Namespaces, cur : Namespaces \cup {NoTenant}, role : Roles]
    /\ changes \in Nat
    /\ tenantFaults \in Nat

NoTenantWork == [pc |-> "idle", tenant |-> NoTenant, todo |-> {}, cur |-> NoTenant, role |-> 1]

TenantInit ==
    /\ tenant = {}
    /\ ns = [n \in Namespaces |-> [uid |-> 0, life |-> "absent", label |-> NoTenant]]
    /\ rb = [n \in Namespaces |-> [i \in Roles |-> NoTenant]]
    /\ carried = [n \in Namespaces |-> {}]
    /\ tenantCache = {}
    /\ nsCache = ns
    /\ rbCache = [n \in Namespaces |-> [i \in Roles |-> "none"]]
    /\ tenantQueue = {}
    /\ tenantWork = NoTenantWork
    /\ changes = 0
    /\ tenantFaults = 0

-----------------------------------------------------------------------------
(* The users of the API server, and its watches.                           *)

Change == changes < MaxChanges /\ changes' = changes + 1 /\ UNCHANGED <<tenantOperator, tenantFaults>>

SetTenant(t) ==
    /\ Change
    /\ tenant' = IF t \in tenant THEN tenant \ {t} ELSE tenant \cup {t}
    /\ UNCHANGED <<ns, rb, carried>>

\* A namespace is created with a label, or its label is changed.
Label(n, l) ==
    /\ Change
    /\ ns[n].life # "terminating"
    /\ ns[n].life = "active" => ns[n].label # l
    /\ ns' = [ns EXCEPT ![n] = [uid |-> IF @.life = "absent" THEN @.uid + 1 ELSE @.uid,
                                life |-> "active", label |-> l]]
    /\ carried' = [carried EXCEPT ![n] = @ \cup ({l} \ {NoTenant})]
    /\ UNCHANGED <<tenant, rb>>

DeleteNamespace(n) ==
    /\ Change
    /\ ns[n].life = "active"
    /\ ns' = [ns EXCEPT ![n].life = "terminating"]
    /\ UNCHANGED <<tenant, rb, carried>>

\* A change of rb[n][i] makes a copy of it an old one.
Outdated(n, i) == IF rbCache[n][i] = "current" THEN "stale" ELSE rbCache[n][i]

\* The namespace controller removes the content, then the namespace.
RemoveNamespace(n) ==
    /\ ns[n].life = "terminating"
    /\ ns' = [ns EXCEPT ![n].life = "absent", ![n].label = NoTenant]
    /\ rb' = [rb EXCEPT ![n] = [i \in Roles |-> NoTenant]]
    /\ rbCache' = [rbCache EXCEPT ![n] = [i \in Roles |-> Outdated(n, i)]]
    /\ UNCHANGED <<tenant, carried, tenantCache, nsCache, tenantQueue, tenantWork, changes, tenantFaults>>

SyncTenants ==
    /\ tenantCache # tenant
    /\ tenantCache' = tenant
    /\ tenantQueue' = tenantQueue \cup (tenant \ tenantCache) \cup (tenantCache \ tenant)
    /\ UNCHANGED <<tenantCluster, nsCache, rbCache, tenantWork, changes, tenantFaults>>

\* Mutant: only the namespaces seen for the first time are reported.
enqueueNamespaceNew ==
    {ns[n].label : n \in {m \in Namespaces : nsCache[m].life = "absent"}} \ {NoTenant}

\* The Tenants of a changed namespace, the one of its old label included.
enqueueNamespace ==
    LET changed == {n \in Namespaces : nsCache[n] # ns[n]} IN
    ({nsCache[n].label : n \in changed} \cup {ns[n].label : n \in changed}) \ {NoTenant}

SyncNamespaces ==
    /\ nsCache # ns
    /\ nsCache' = ns
    /\ tenantQueue' = tenantQueue \cup enqueueNamespace
    /\ UNCHANGED <<tenantCluster, tenantCache, rbCache, tenantWork, changes, tenantFaults>>

Copied == [n \in Namespaces |-> [i \in Roles |-> IF rb[n][i] = NoTenant THEN "none" ELSE "current"]]

SyncBindings ==
    /\ rbCache # Copied
    /\ rbCache' = Copied
    /\ UNCHANGED <<tenantCluster, tenantCache, nsCache, tenantQueue, tenantWork, changes, tenantFaults>>

-----------------------------------------------------------------------------
(* Reconcile.                                                              *)

\* Reconcile returns an error: the Tenant goes back into the queue.
RetryTenant == tenantWork' = NoTenantWork /\ tenantQueue' = tenantQueue \cup {tenantWork.tenant}

TakeTenant(t) ==
    /\ tenantWork.pc = "idle"
    /\ t \in tenantQueue
    /\ tenantQueue' = tenantQueue \ {t}
    /\ tenantWork' = IF t \in tenantCache THEN [NoTenantWork EXCEPT !.pc = "list", !.tenant = t] ELSE NoTenantWork
    /\ UNCHANGED <<tenantCluster, tenantCache, nsCache, rbCache, changes, tenantFaults>>

\* Mutant: the label selector is lost.
namespacesForTenantAll(t) == {n \in Namespaces : nsCache[n].life # "absent"}

namespacesForTenant(t) ==
    {n \in Namespaces : nsCache[n].life # "absent" /\ nsCache[n].label = t}

ListNamespaces ==
    /\ tenantWork.pc = "list"
    /\ LET found == namespacesForTenant(tenantWork.tenant) IN
       tenantWork' = IF found = {} THEN NoTenantWork ELSE [tenantWork EXCEPT !.pc = "bind", !.todo = found]
    /\ UNCHANGED <<tenantCluster, tenantCache, nsCache, rbCache, tenantQueue, changes, tenantFaults>>

\* The next role of the namespace, the next namespace, or the end.
Advance(n) ==
    \/ /\ tenantWork.role < NRoles
       /\ tenantWork' = [tenantWork EXCEPT !.cur = n, !.role = @ + 1]
    \/ /\ tenantWork.role = NRoles /\ tenantWork.todo # {n}
       /\ tenantWork' = [tenantWork EXCEPT !.todo = @ \ {n}, !.cur = NoTenant, !.role = 1]
    \/ /\ tenantWork.role = NRoles /\ tenantWork.todo = {n}
       /\ tenantWork' = NoTenantWork

\* CreateOrUpdate creates a RoleBinding the cache does not have and updates one
\* it has.  The update is sent always, as the stored subject carries the
\* defaulted API group the desired one lacks, and names the cached version.
ensureRoleBinding(n) ==
    /\ tenantWork.pc = "bind"
    /\ n \in tenantWork.todo
    /\ tenantWork.cur \in {NoTenant, n}
    /\ LET i == tenantWork.role
           accepted == CASE rbCache[n][i] = "none" -> rb[n][i] = NoTenant /\ ns[n].life = "active"
                         [] rbCache[n][i] = "stale" -> FALSE
                         [] rbCache[n][i] = "current" -> TRUE IN
       \/ /\ accepted
          /\ rb' = [rb EXCEPT ![n][i] = tenantWork.tenant]
          /\ rbCache' = IF rb[n][i] = tenantWork.tenant THEN rbCache
                        ELSE [rbCache EXCEPT ![n][i] = Outdated(n, i)]
          /\ Advance(n)
          /\ tenantQueue' = tenantQueue
       \/ /\ ~accepted
          /\ RetryTenant
          /\ UNCHANGED <<rb, rbCache>>
    /\ UNCHANGED <<tenant, ns, carried, tenantCache, nsCache, changes, tenantFaults>>

TenantCallFails ==
    /\ tenantWork.pc # "idle"
    /\ tenantFaults < MaxTenantFaults
    /\ tenantFaults' = tenantFaults + 1
    /\ RetryTenant
    /\ UNCHANGED <<tenantCluster, tenantCache, nsCache, rbCache, changes>>

\* A restarted operator lists afresh and reconciles every Tenant.
TenantRestart ==
    /\ tenantFaults < MaxTenantFaults
    /\ tenantFaults' = tenantFaults + 1
    /\ tenantCache' = tenant
    /\ nsCache' = ns
    /\ rbCache' = Copied
    /\ tenantQueue' = tenant
    /\ tenantWork' = NoTenantWork
    /\ UNCHANGED <<tenantCluster, changes>>

Users ==
    \/ \E t \in Tenants : SetTenant(t)
    \/ \E n \in Namespaces : DeleteNamespace(n) \/ \E l \in Tenants \cup {NoTenant} : Label(n, l)

TenantNext ==
    \/ Users
    \/ \E n \in Namespaces : RemoveNamespace(n)
    \/ SyncTenants \/ SyncNamespaces \/ SyncBindings
    \/ \E t \in Tenants : TakeTenant(t)
    \/ ListNamespaces
    \/ \E n \in Namespaces : ensureRoleBinding(n)
    \/ TenantCallFails \/ TenantRestart

TenantSpec == TenantInit /\ [][TenantNext]_tenantVars

\* The worker, the watches and the namespace controller keep running.
TenantFairSpec ==
    /\ TenantSpec
    /\ WF_tenantVars(ListNamespaces \/ \E n \in Namespaces : ensureRoleBinding(n))
    /\ \A t \in Tenants : WF_tenantVars(TakeTenant(t))
    /\ \A n \in Namespaces : WF_tenantVars(RemoveNamespace(n))
    /\ WF_tenantVars(SyncTenants) /\ WF_tenantVars(SyncNamespaces) /\ WF_tenantVars(SyncBindings)

-----------------------------------------------------------------------------
(* Properties.                                                             *)

\* A managed RoleBinding grants a namespace only to a Tenant whose label that
\* namespace has carried, whichever stale copies the worker listed.
GrantsFollowLabels ==
    \A n \in Namespaces, i \in Roles : rb[n][i] # NoTenant => rb[n][i] \in carried[n]

\* Once users stop, every namespace labelled with an existing Tenant has all
\* the Tenant's RoleBindings and keeps them, through relabelling, namespaces
\* deleted and created again, refused writes, transient errors and restarts.
Provisioned ==
    <>[](\A n \in Namespaces :
            ns[n].life = "active" /\ ns[n].label \in tenant
            => \A i \in Roles : rb[n][i] = ns[n].label)

=============================================================================
