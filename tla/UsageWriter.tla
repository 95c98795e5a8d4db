---------------------------- MODULE UsageWriter ----------------------------
(***************************************************************************)
(* The usage writer of kubeop-operator: every few minutes it reads the     *)
(* metrics of all pods, one namespace after the other, attributes them by  *)
(* label, and writes the totals to the status of Tenants and Projects and  *)
(* to one BillingUsage per Tenant, Project and App and hour.  Pods change  *)
(* and hours pass while a run is under way; round trips fail; the operator *)
(* may restart anywhere.                                                   *)
(*                                                                         *)
(* A Kubernetes name is the sequence of its parts between dashes, and an   *)
(* empty sequence stands for a missing label.                              *)
(***************************************************************************)
EXTENDS Naturals, Sequences, FiniteSets, FiniteSetsExt, Functions

CONSTANTS
    UsagePods,      \* [n : Nat, ns, tenant, project, app]: pods and their labels
    Subjects,       \* [type, ns, name]: the Tenants, Projects and Apps
    MaxHour,        \* bound on the hours
    MaxUsageFaults, \* bound on failing round trips and restarts
    Absent

ASSUME UsageAssumption ==
    /\ MaxHour \in Nat /\ MaxUsageFaults \in Nat
    /\ \A s \in Subjects : /\ s.type \in {"tenant", "project", "app"}
                          /\ s.ns \in Seq(STRING) /\ s.name \in Seq(STRING)

VARIABLES
    hour,         \* the time, in hours
    use,          \* what each pod uses
    billing,      \* the BillingUsage objects, by name
    shown,        \* status.usage of Tenants and Projects
    degraded,     \* the Tenants and Projects whose condition says Degraded
    run,          \* the run in progress or the last one; errs: it did not do all it should
    usageFaults

usageVars == <<hour, use, billing, shown, degraded, run, usageFaults>>

UsageHours == 0..MaxHour
Scope == {p.ns : p \in UsagePods}

\* buildBillingUsageName: the parts joined by dashes.  A name that is too long
\* keeps a prefix and the hash of all of it, and so is as unique as before.
namespaceKey(s) == s.ns \o s.name
buildBillingUsageName(s, w) == <<<<s.type>> \o namespaceKey(s), w>>
Names == {buildBillingUsageName(s, w) : s \in Subjects, w \in UsageHours}

NoRecord == [subject |-> Absent, meters |-> Absent]
NoUsage == [p \in UsagePods |-> 0]
UsageInit ==
    /\ hour = 0
    /\ use = NoUsage
    /\ billing = [b \in Names |-> NoRecord]
    /\ shown = [s \in Subjects |-> Absent]
    /\ degraded = {}
    /\ run = [pc |-> "idle", window |-> 0, scope |-> {}, seen |-> NoUsage, todo |-> {},
              errs |-> TRUE]
    /\ usageFaults = 0

-----------------------------------------------------------------------------
PodChanges(p, n) ==
    /\ use[p] # n /\ use' = [use EXCEPT ![p] = n]
    /\ UNCHANGED <<hour, billing, shown, degraded, run, usageFaults>>

HourPasses ==
    /\ hour < MaxHour /\ hour' = hour + 1
    /\ UNCHANGED <<use, billing, shown, degraded, run, usageFaults>>

UsageFault == usageFaults < MaxUsageFaults /\ usageFaults' = usageFaults + 1

\* The operator stops; the next run begins from nothing.
UsageRestart ==
    /\ UsageFault /\ run.pc # "idle"
    /\ run' = [run EXCEPT !.pc = "idle", !.scope = {}, !.todo = {}, !.errs = TRUE]
    /\ UNCHANGED <<hour, use, billing, shown, degraded>>

-----------------------------------------------------------------------------
(* CollectUsage.                                                           *)

\* The labels of a pod: its own, or its namespace's (a constant of the pod
\* here).  Pods of one app in one namespace form a sample, which has the tenant
\* and project of the pod listed first.
Counted(p) == p.tenant # <<>> /\ p.project # <<>> /\ p.app # <<>>
Sample(p) ==
    LET peers == {q \in UsagePods : Counted(q) /\ q.ns = p.ns /\ q.app = p.app}
    IN  CHOOSE q \in peers : \A r \in peers : q.n <= r.n

\* usageAccumulator: the totals of a subject.
Attributed(p, s) ==
    /\ Counted(p)
    /\ CASE s.type = "tenant"  -> Sample(p).tenant = s.name
         [] s.type = "project" -> p.ns = s.ns /\ Sample(p).project = s.name
         [] s.type = "app"     -> p.ns = s.ns /\ p.app = s.name
PodsOf == [s \in Subjects |-> {p \in UsagePods : Attributed(p, s)}]
Totals(seen, s) == FoldFunctionOnSet(+, 0, seen, PodsOf[s])

\* A run begins at the tick of the timer, or when the operator starts.
StartRun ==
    /\ run.pc = "idle"
    /\ run' = [pc |-> "collect", window |-> hour, scope |-> Scope, seen |-> NoUsage, todo |-> {},
               errs |-> FALSE]
    /\ UNCHANGED <<hour, use, billing, shown, degraded, usageFaults>>

\* The pods of one namespace.
CollectUsage(n) ==
    /\ run.pc = "collect" /\ n \in run.scope
    /\ run' = [run EXCEPT !.scope = @ \ {n},
                          !.seen = [p \in UsagePods |-> IF p.ns = n THEN use[p] ELSE @[p]]]
    /\ UNCHANGED <<hour, use, billing, shown, degraded, usageFaults>>

\* One failing list ends the run; Tenants and Projects are told, each unless
\* its own patch fails too.
updateConditionsOnError ==
    /\ UsageFault /\ run.pc = "collect"
    /\ \E told \in SUBSET {s \in Subjects : s.type # "app"} : degraded' = degraded \cup told
    /\ run' = [run EXCEPT !.pc = "idle", !.scope = {}, !.todo = {}, !.errs = TRUE]
    /\ UNCHANGED <<hour, use, billing, shown>>

-----------------------------------------------------------------------------
(* Writing the totals: Tenants, then Projects, then Apps.                  *)

OfType(t) == {s \in Subjects : s.type = t}
After == [collect |-> "tenant", tenant |-> "project", project |-> "app", app |-> "idle"]

\* The list that opens the next phase.
ListSubjects ==
    /\ run.pc \in DOMAIN After /\ run.scope = {} /\ run.todo = {}
    /\ run' = [run EXCEPT !.pc = After[@], !.todo = OfType(After[run.pc])]
    /\ UNCHANGED <<hour, use, billing, shown, degraded, usageFaults>>

\* It fails: the rest of the run is given up.
ListFails ==
    /\ UsageFault
    /\ run.pc \in {"collect", "tenant", "project"} /\ run.scope = {} /\ run.todo = {}
    /\ run' = [run EXCEPT !.pc = "idle", !.scope = {}, !.todo = {}, !.errs = TRUE]
    /\ UNCHANGED <<hour, use, billing, shown, degraded>>

\* Mutant: the conditions keep the failure they told of.
updateUsageOnly(s) ==
    IF s.type = "app" THEN UNCHANGED <<shown, degraded>>
    ELSE /\ shown' = [shown EXCEPT ![s] = Totals(run.seen, s)]
         /\ UNCHANGED degraded

\* Mutant: the status shows what pods use when it is written.
updateFresh(s) ==
    IF s.type = "app" THEN UNCHANGED <<shown, degraded>>
    ELSE /\ shown' = [shown EXCEPT ![s] = Totals(use, s)]
         /\ degraded' = degraded \ {s}

\* updateTenantStatus, updateProjectStatus; Apps have no usage in their status.
updateStatus(s) ==
    IF s.type = "app" THEN UNCHANGED <<shown, degraded>>
    ELSE /\ shown' = [shown EXCEPT ![s] = Totals(run.seen, s)]
         /\ degraded' = degraded \ {s}

\* Mutant: the record goes to the hour it is written in.
upsertThisHour(s) ==
    billing' = [billing EXCEPT ![buildBillingUsageName(s, hour)] =
                  [subject |-> s, meters |-> Totals(run.seen, s)]]

upsertBillingUsage(s) ==
    billing' = [billing EXCEPT ![buildBillingUsageName(s, run.window)] =
                  [subject |-> s, meters |-> Totals(run.seen, s)]]

WriteSubject(s) ==
    /\ s \in run.todo
    /\ \/ /\ updateStatus(s) /\ upsertBillingUsage(s)
          /\ run' = [run EXCEPT !.todo = @ \ {s}]
          /\ UNCHANGED usageFaults
       \/ /\ UsageFault
          /\ run' = [run EXCEPT !.todo = @ \ {s}, !.errs = TRUE]
          /\ updateStatus(s) \/ UNCHANGED <<shown, degraded>>
          /\ upsertBillingUsage(s) \/ UNCHANGED billing
    /\ UNCHANGED <<hour, use>>

-----------------------------------------------------------------------------
RunStep ==
    \/ StartRun \/ ListSubjects
    \/ \E n \in Scope : CollectUsage(n)
    \/ \E s \in Subjects : WriteSubject(s)
UsageNext ==
    \/ RunStep \/ updateConditionsOnError \/ ListFails \/ UsageRestart \/ HourPasses
    \/ \E p \in UsagePods, n \in 0..1 : PodChanges(p, n)
UsageSpec == UsageInit /\ [][UsageNext]_usageVars

-----------------------------------------------------------------------------
\* Subjects that share no record name: "a/b-c" and "a-b/c" do share one, and the
\* record of such a pair is that of the one written last.
Accounts_ ==
    {s \in Subjects : \A t \in Subjects :
       s # t /\ s.type = t.type => namespaceKey(s) # namespaceKey(t)}

Entry(e) == billing[buildBillingUsageName(e[1], e[2])].meters
Observation ==
    IF run.pc \in {"tenant", "project", "app"} THEN <<[s \in Accounts_ |-> Totals(run.seen, s)]>>
    ELSE <<>>

Ledger == INSTANCE UsageLedger
            WITH Accounts <- Accounts_, Hours <- UsageHours, open <- run.window,
                 observed <- Observation, ledger <- [e \in Accounts_ \X UsageHours |-> Entry(e)]

\* The records behave as the ledger promises: one per subject and hour, taken
\* from one collection, and final once a run of a later hour has begun, also
\* when runs are cut short and repeated (Reconcile and upsertBillingUsage).
UsageLedgerKept == Ledger!LedgerSpec

\* Pods whose app exists, has a record of its own, and is labelled consistently.
Clear(p) ==
    /\ \E a \in OfType("app") \cap Accounts_ : Attributed(p, a)
    /\ Sample(p).tenant = p.tenant /\ Sample(p).project = p.project

\* When a run ends without an error, the records of its hour agree: a tenant is
\* shown what it is billed, and billed what the apps with its pods are, although
\* pods changed while the run read and wrote (Reconcile adds one collection up
\* three ways).
TenantsPayForTheirApps ==
    run.pc = "idle" /\ ~run.errs =>
      \A t \in OfType("tenant") :
        LET apps == {a \in OfType("app") :
                       \E p \in UsagePods : Attributed(p, a) /\ Attributed(p, t)}
            bill(s) == billing[buildBillingUsageName(s, run.window)].meters
        IN  /\ shown[t] = bill(t)
            /\ (\A p \in UsagePods : Counted(p) => Clear(p)) =>
              bill(t) = FoldFunctionOnSet(+, 0, [a \in apps |-> bill(a)], apps)

\* After the last failure, the records of the current hour appear and the
\* Degraded conditions go away, if the timer keeps starting runs (Start).
UsageRecovers ==
    <>[](/\ degraded = {}
         /\ \A s \in Subjects : billing[buildBillingUsageName(s, hour)] # NoRecord)
=============================================================================
