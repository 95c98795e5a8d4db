---------------------------- MODULE MCControllers --------------------------
(* The loops of kubeop-operator for TLC, in one run.  No two of them write *)
(* the same object in the model, so a behaviour moves one of them, its     *)
(* focus.                                                                  *)
EXTENDS AppController, TenantController, UsageWriter, Bootstrap

CONSTANTS img, r1

VARIABLE focus

\* A pinned image, an unpinned one and no source at all.
SomeSources == {[url |-> img, ref |-> r1], [url |-> None, ref |-> r1], None}

\* Two pods of one tenant, in namespaces "a" and "a-b"; the project of the
\* second one is gone.
a_ == <<"a">>
b_ == <<"b">>
SomePods == {[n |-> 1, ns |-> a_, tenant |-> a_, project |-> b_, app |-> a_],
             [n |-> 2, ns |-> a_ \o b_, tenant |-> a_, project |-> a_, app |-> a_]}
SomeSubjects ==
    {[type |-> "tenant", ns |-> <<>>, name |-> a_],
     [type |-> "project", ns |-> a_, name |-> b_ \o a_],
     [type |-> "app", ns |-> a_, name |-> a_], [type |-> "app", ns |-> a_ \o b_, name |-> a_]}

SomeManifests ==
    LET m(kind, space) == [kind |-> kind, name |-> "x", ns |-> space]
    IN  [rbac |-> <<m("Namespace", "none")>>, webhooks |-> <<m("none", "none"), m("Service", "system")>>,
         defaults |-> <<m("NetworkPolicyProfile", "none")>>]

-----------------------------------------------------------------------------
Parts == {"apps", "tenants", "usage", "boot"}
mcVars == <<vars, tenantVars, usageVars, bootVars, focus>>
Only(part) ==
    /\ focus = part
    /\ part # "apps" => UNCHANGED vars
    /\ part # "tenants" => UNCHANGED tenantVars
    /\ part # "usage" => UNCHANGED usageVars
    /\ part # "boot" => UNCHANGED bootVars
    /\ UNCHANGED focus

ControllersInit ==
    /\ Init /\ TenantInit /\ UsageInit /\ BootInit
    /\ focus \in Parts

ControllersNext ==
    \/ Only("apps") /\ Next
    \/ Only("tenants") /\ TenantNext
    \/ Only("usage") /\ UsageNext
    \/ Only("boot") /\ BootNext

\* The workers, the watches, the garbage collector and the namespace controller
\* keep running, the timer of the usage writer keeps firing, a manager that
\* exits is started again, and the API server establishes CRDs.
ControllersSpec ==
    /\ ControllersInit /\ [][ControllersNext]_mcVars
    /\ WF_vars(focus = "apps" /\ (DryRun \/ Apply \/ ListDeployments \/ UpdateStatus))
    /\ \A a \in Apps : /\ WF_vars(focus = "apps" /\ Take(a))
                       /\ WF_vars(focus = "apps" /\ Prune(a))
                       /\ WF_vars(focus = "apps" /\ CollectGarbage(a))
    /\ WF_vars(focus = "apps" /\ SyncApps)
    /\ WF_tenantVars(focus = "tenants" /\ (\/ ListNamespaces
                                         \/ \E n \in Namespaces : ensureRoleBinding(n)))
    /\ \A t \in Tenants : WF_tenantVars(focus = "tenants" /\ TakeTenant(t))
    /\ \A n \in Namespaces : WF_tenantVars(focus = "tenants" /\ RemoveNamespace(n))
    /\ WF_tenantVars(focus = "tenants" /\ SyncTenants)
    /\ WF_tenantVars(focus = "tenants" /\ SyncNamespaces)
    /\ WF_tenantVars(focus = "tenants" /\ SyncBindings)
    /\ WF_usageVars(focus = "usage" /\ RunStep)
    /\ WF_bootVars(focus = "boot" /\ ManagerStep)
    /\ WF_bootVars(focus = "boot" /\ \E c \in Crds : Establish(c))

-----------------------------------------------------------------------------
\* Converges of the App controller, where Apps move.
AppsConverge == focus = "apps" => Converges

\* Provisioned of the Tenant controller, where Tenants move.
TenantsProvisioned == focus = "tenants" => Provisioned

\* UsageRecovers of the usage writer, where usage moves.
UsageIsRecovered == focus = "usage" => UsageRecovers

\* ManagerStarts, where the cluster is brought up.
ManagerIsStarted == focus = "boot" => ManagerStarts
=============================================================================
