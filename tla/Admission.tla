----------------------------- MODULE Admission -----------------------------
(***************************************************************************)
(* The admission webhooks of kubeop-operator for the objects of one        *)
(* namespace: every write is judged by the labels it carries and by the    *)
(* objects it refers to, which the webhook reads from a cache that lags    *)
(* behind the API server.  A referred object may be deleted, and another   *)
(* one created under its name, before and after the check.                 *)
(***************************************************************************)
EXTENDS Naturals

CONSTANTS
    Objects,       \* names of objects
    Kind,          \* Kind[o]: the kind of object a name is used for
    TenantLabels,  \* values of the tenant label
    NoLabel,       \* a label that is missing
    MaxAdmissions  \* bound on the writes of a behaviour

Projects_ == {o \in Objects : Kind[o] = "Project"}
RefKinds == [App |-> {"ConfigRef", "SecretRef", "IngressRoute"}, AppRelease |-> {"App"},
             ServiceBinding |-> {"App", "ServiceAccount", "DatabaseInstance"},
             Bucket |-> {"BucketPolicy"}]
\* The objects an object of this kind may name in its spec.
Nameable(k) ==
    IF Kind[k] \in DOMAIN RefKinds THEN {o \in Objects : Kind[o] \in RefKinds[Kind[k]]} ELSE {}

ASSUME AdmissionAssumption == NoLabel \notin TenantLabels \cup Objects /\ MaxAdmissions \in Nat

VARIABLES
    obj,       \* the objects of the API server; uid 0: there is none
    seen,      \* the webhook's cache of them
    nextUid,
    admissions \* writes so far

admissionVars == <<obj, seen, nextUid, admissions>>

\* sound: the checks of the spec on its own pass (AdmissionRules); checked: the
\* objects the webhook found behind the names, a history of the check.
Absent_ == [uid |-> 0, tenant |-> NoLabel, project |-> NoLabel, tenantRef |-> NoLabel,
            refs |-> {}, sound |-> TRUE, checked |-> {}]
Specs_(k) ==
    [tenant : TenantLabels \cup {NoLabel}, project : Projects_ \cup {NoLabel},
     tenantRef : IF Kind[k] = "Project" THEN TenantLabels ELSE {NoLabel},
     refs : SUBSET Nameable(k),
     sound : IF Kind[k] \in {"App", "AppRelease", "Job"} THEN BOOLEAN ELSE {TRUE}]

AdmissionInit ==
    /\ obj = [o \in Objects |-> Absent_]
    /\ seen = obj
    /\ nextUid = 1 /\ admissions = 0

-----------------------------------------------------------------------------
Exists(o) == seen[o].uid # 0

\* The app label is left out: it is required like the other two.
validateRequiredLabels(new) == new.tenant # NoLabel /\ new.project # NoLabel

\* Mutant: only an object that refers to others keeps its tenant.
immutableWithRefs(old, new) ==
    old.uid # 0 /\ old.tenant # NoLabel /\ new.refs # {} => new.tenant = old.tenant

validateTenantImmutability(old, new) ==
    old.uid # 0 /\ old.tenant # NoLabel => new.tenant = old.tenant

validateLabels(old, new) == validateRequiredLabels(new) /\ validateTenantImmutability(old, new)

\* validateConfigRefs, validateSecretRefs, validateIngressRefs.
validateRefs(new) == \A o \in new.refs : Exists(o) /\ seen[o].tenant = new.tenant

\* projectForApp: the Project of the label, its tenantRef and its own label.
projectForApp(new) ==
    /\ Exists(new.project)
    /\ seen[new.project].tenantRef \in {new.tenant, NoLabel}
    /\ seen[new.project].tenant \in {new.tenant, NoLabel}

validateApp(old, new) ==
    validateLabels(old, new) /\ validateRefs(new) /\ projectForApp(new) /\ new.sound

validateProject(k, old, new) ==
    /\ validateLabels(old, new)
    /\ new.tenantRef = new.tenant
    /\ new.project = k
    /\ old.uid # 0 => old.tenantRef = new.tenantRef

\* A release names exactly one App, of its own tenant and project, for ever.
validateRelease(old, new) ==
    /\ validateLabels(old, new) /\ new.sound
    /\ old.uid # 0 => old.refs = new.refs /\ old.sound = new.sound
    /\ \E a \in Objects : /\ new.refs = {a} /\ Exists(a)
                          /\ seen[a].tenant = new.tenant /\ seen[a].project = new.project

\* A ServiceAccount has no labels of the platform and lives in the namespace.
validateBindingConsumer(new, c) ==
    Exists(c) /\ (Kind[c] = "App" => seen[c].tenant = new.tenant)
validateBindingProvider(new, p) == Exists(p) /\ seen[p].tenant = new.tenant
validateBinding(old, new) ==
    /\ validateLabels(old, new)
    /\ \E c, p \in Objects :
         /\ Kind[c] \in {"App", "ServiceAccount"} /\ Kind[p] = "DatabaseInstance"
         /\ new.refs = {c, p}
         /\ validateBindingConsumer(new, c) /\ validateBindingProvider(new, p)

validateBucket(old, new) ==
    /\ validateLabels(old, new)
    /\ \A o \in new.refs : /\ Exists(o) /\ seen[o].tenant = new.tenant
                           /\ seen[o].project = new.project

\* The other kinds: labels only (LabelGuardWebhook), with the pod security of
\* Jobs; ServiceAccounts are not the platform's.
Admitted(k, old, new) ==
    CASE Kind[k] = "App"            -> validateApp(old, new)
      [] Kind[k] = "Project"        -> validateProject(k, old, new)
      [] Kind[k] = "AppRelease"     -> validateRelease(old, new)
      [] Kind[k] = "ServiceBinding" -> validateBinding(old, new)
      [] Kind[k] = "Bucket"         -> validateBucket(old, new)
      [] Kind[k] = "Job"            -> validateLabels(old, new) /\ new.sound
      [] Kind[k] = "ServiceAccount" -> new.tenant = NoLabel
      [] OTHER                      -> validateLabels(old, new)

-----------------------------------------------------------------------------
\* The uids of the objects the check finds behind the names.
Checked(k, new) ==
    {<<o, seen[o].uid>> : o \in new.refs \cup (IF Kind[k] = "App" THEN {new.project} ELSE {})}

\* A create or an update, judged and stored.
Write(k, new) ==
    /\ admissions < MaxAdmissions /\ admissions' = admissions + 1
    /\ Admitted(k, obj[k], new)
    /\ obj' = [obj EXCEPT ![k] =
                 [uid |-> IF @.uid = 0 THEN nextUid ELSE @.uid, tenant |-> new.tenant,
                  project |-> new.project, tenantRef |-> new.tenantRef, refs |-> new.refs,
                  sound |-> new.sound, checked |-> Checked(k, new)]]
    /\ nextUid' = IF obj[k].uid = 0 THEN nextUid + 1 ELSE nextUid
    /\ UNCHANGED seen

\* An object that was there, without labels, before the webhooks were installed.
Legacy(k) ==
    /\ admissions = 0 /\ nextUid = 1
    /\ \E t \in IF Kind[k] = "Project" THEN TenantLabels ELSE {NoLabel} :
         obj' = [obj EXCEPT ![k] = [Absent_ EXCEPT !.uid = nextUid, !.tenantRef = t]]
    /\ nextUid' = nextUid + 1
    /\ UNCHANGED <<seen, admissions>>

\* Deletion is never refused, not even of an object others refer to.
ValidateDelete(k) ==
    /\ obj[k].uid # 0
    /\ obj' = [obj EXCEPT ![k] = Absent_]
    /\ UNCHANGED <<seen, nextUid, admissions>>

SyncCache(k) ==
    /\ seen[k] # obj[k]
    /\ seen' = [seen EXCEPT ![k] = obj[k]]
    /\ UNCHANGED <<obj, nextUid, admissions>>

AdmissionNext ==
    \E k \in Objects : (\E new \in Specs_(k) : Write(k, new)) \/ Legacy(k) \/ ValidateDelete(k)
                       \/ SyncCache(k)
AdmissionSpec == AdmissionInit /\ [][AdmissionNext]_admissionVars

-----------------------------------------------------------------------------
\* A project written before the webhooks has a tenantRef and maybe no label.
Owner(o) == IF Kind[o] = "Project" THEN obj[o].tenantRef ELSE obj[o].tenant

\* As long as an object lives under the name it was checked under, whatever
\* refers to it belongs to its tenant: neither side can move to another tenant
\* by later writes, and a stale cache admits nothing of another tenant.  When
\* a referred object is deleted and its name used by another tenant, nothing
\* checks the references to it again (validateApp, validateRelease,
\* validateBinding, validateBucket, validateTenantImmutability).
RefsStayInTenant ==
    \A k \in Objects : \A c \in obj[k].checked :
        /\ obj[c[1]].uid = c[2] /\ Kind[c[1]] # "ServiceAccount"
        => Owner(c[1]) = obj[k].tenant
=============================================================================
