--------------------------- MODULE AppController ---------------------------
(***************************************************************************)
(* The App controller of kubeop-operator: one worker that turns each App   *)
(* resource of a namespace into a Deployment of the same name, prunes the  *)
(* other Deployments it manages there, and reports in the App's status.    *)
(*                                                                         *)
(* Reads go to the informer caches, which lag behind the API server;       *)
(* writes go to the API server.  Only Apps are watched, so only a change   *)
(* of an App, a failed reconcile or a restart brings an App back into the  *)
(* work queue, besides the informer's slow periodic resync.                *)
(***************************************************************************)
EXTENDS Naturals, FiniteSets

CONSTANTS
    Apps,         \* App names in the namespace
    Sources,      \* spec.source: records [url, ref] with fields that may be None,
    None,         \*   or None when the App has no source
    MaxApps,      \* how many Apps live in the namespace at a time
    MaxUid,       \* bound on the Apps ever created
    MaxGen,       \* bound on the generations of one App
    MaxFaults     \* bound on transient API errors and operator restarts

VARIABLES
    app,        \* the App of each name, or None
    dep,        \* the managed Deployment of each name, or None
    appCache,   \* the operator's cached copy of app
    depCache,   \* names of the Deployments in the operator's cache
    queue,      \* names waiting to be reconciled
    work,       \* the reconcile in progress
    uids,       \* number of Apps created so far
    faults      \* number of faults so far

vars == <<app, dep, appCache, depCache, queue, work, uids, faults>>

Values == {s.url : s \in Sources \ {None}} \cup {s.ref : s \in Sources \ {None}} \cup {None}

\* status.observedGeneration (0 when never reported; with it goes the
\* condition Ready = True), status.revision and status.urls.
Status == [obs : Nat, rev : Values, url : Values]
AppObject == [uid : Nat, gen : Nat, source : Sources, status : Status]
\* An image is its repository and tag; the fallback image is <<None, None>>.
Images == Values \X Values
Deployment == [owner : Nat, image : Images]

ASSUME ControllerAssumption ==
    /\ IsFiniteSet(Apps)
    /\ Sources \subseteq [url : Values, ref : Values] \cup {None}
    /\ None \notin AppObject /\ None \notin Deployment /\ None \notin Apps

Phases == {"idle", "dryRun", "apply", "list", "prune"}

TypeOK ==
    /\ app \in [Apps -> AppObject \cup {None}]
    /\ dep \in [Apps -> Deployment \cup {None}]
    /\ appCache \in [Apps -> AppObject \cup {None}]
    /\ depCache \subseteq Apps
    /\ queue \subseteq Apps
    /\ work \in [pc : Phases, name : Apps \cup {None}, view : AppObject \cup {None},
                 todo : SUBSET Apps]
    /\ work.pc # "idle" => work.name \in Apps /\ work.view \in AppObject
    /\ uids \in Nat
    /\ faults \in Nat

Idle == [pc |-> "idle", name |-> None, view |-> None, todo |-> {}]

Init ==
    /\ app = [a \in Apps |-> None]
    /\ dep = [a \in Apps |-> None]
    /\ appCache = app
    /\ depCache = {}
    /\ queue = {}
    /\ work = Idle
    /\ uids = 0
    /\ faults = 0

-----------------------------------------------------------------------------
(* The users of the API server, its garbage collector and its watches.     *)

Living == {a \in Apps : app[a] # None}

CreateApp(a) ==
    /\ app[a] = None
    /\ Cardinality(Living) < MaxApps
    /\ uids < MaxUid
    /\ uids' = uids + 1
    /\ \E s \in Sources :
          app' = [app EXCEPT ![a] = [uid |-> uids + 1, gen |-> 1, source |-> s,
                                     status |-> [obs |-> 0, rev |-> None, url |-> None]]]
    /\ UNCHANGED <<dep, appCache, depCache, queue, work, faults>>

\* A change of the spec raises the generation.
UpdateApp(a) ==
    /\ app[a] # None
    /\ app[a].gen < MaxGen
    /\ \E s \in Sources \ {app[a].source} :
          app' = [app EXCEPT ![a].gen = @ + 1, ![a].source = s]
    /\ UNCHANGED <<dep, appCache, depCache, queue, work, uids, faults>>

DeleteApp(a) ==
    /\ app[a] # None
    /\ app' = [app EXCEPT ![a] = None]
    /\ UNCHANGED <<dep, appCache, depCache, queue, work, uids, faults>>

\* A Deployment whose owner is gone is collected.
CollectGarbage(a) ==
    /\ dep[a] # None
    /\ \A b \in Living : app[b].uid # dep[a].owner
    /\ dep' = [dep EXCEPT ![a] = None]
    /\ UNCHANGED <<app, appCache, depCache, queue, work, uids, faults>>

\* The watch on Apps delivers what has changed, in the order it happened, and
\* every changed App is enqueued.
SyncApps ==
    /\ appCache # app
    /\ appCache' = app
    /\ queue' = queue \cup {a \in Apps : appCache[a] # app[a]}
    /\ UNCHANGED <<app, dep, depCache, work, uids, faults>>

\* The informer's periodic resync enqueues every cached App.
Resync ==
    /\ queue' = queue \cup {a \in Apps : appCache[a] # None}
    /\ queue' # queue
    /\ UNCHANGED <<app, dep, appCache, depCache, work, uids, faults>>

\* Deployments are cached because pruneWorkload lists them, not watched.
SyncDeployments ==
    /\ depCache' = {a \in Apps : dep[a] # None}
    /\ depCache' # depCache
    /\ UNCHANGED <<app, dep, appCache, queue, work, uids, faults>>

-----------------------------------------------------------------------------
(* Reconcile.                                                              *)

Working(pc) == work.pc = pc
Goto(pc) == work' = [work EXCEPT !.pc = pc]

\* Mutant: an error is logged and the App is not put back into the queue.
RetryNever == work' = Idle /\ queue' = queue

\* Reconcile returns an error: the App goes back into the queue.
Retry == work' = Idle /\ queue' = queue \cup {work.name}

\* The worker takes an App and reads it; a deleted App needs nothing.
Take(a) ==
    /\ Working("idle")
    /\ a \in queue
    /\ queue' = queue \ {a}
    /\ work' = IF appCache[a] = None THEN Idle
               ELSE [pc |-> "dryRun", name |-> a, view |-> appCache[a], todo |-> {}]
    /\ UNCHANGED <<app, dep, appCache, depCache, uids, faults>>

resolveAppImage(s) ==
    IF s = None THEN <<None, None>>
    ELSE IF s.url = None THEN <<None, None>> ELSE <<s.url, s.ref>>

\* An object has one controller: an apply that adds a second one is invalid.
Foreign == dep[work.name] # None /\ dep[work.name].owner # work.view.uid

DryRun ==
    /\ Working("dryRun")
    /\ IF Foreign THEN Retry ELSE Goto("apply") /\ queue' = queue
    /\ UNCHANGED <<app, dep, appCache, depCache, uids, faults>>

Apply ==
    /\ Working("apply")
    /\ IF Foreign THEN Retry /\ dep' = dep
       ELSE /\ dep' = [dep EXCEPT ![work.name] =
                         [owner |-> work.view.uid,
                          image |-> resolveAppImage(work.view.source)]]
            /\ Goto("list")
            /\ queue' = queue
    /\ UNCHANGED <<app, appCache, depCache, uids, faults>>

\* pruneWorkload lists the managed Deployments of the namespace ...
ListDeployments ==
    /\ Working("list")
    /\ work' = [work EXCEPT !.pc = "prune", !.todo = depCache \ {work.name}]
    /\ UNCHANGED <<app, dep, appCache, depCache, queue, uids, faults>>

\* ... and deletes all but the one desired, whosoever they are.
Prune(d) ==
    /\ Working("prune")
    /\ d \in work.todo
    /\ dep' = [dep EXCEPT ![d] = None]
    /\ work' = [work EXCEPT !.todo = @ \ {d}]
    /\ UNCHANGED <<app, appCache, depCache, queue, uids, faults>>

\* The status to report; without a source the last revision stays.
Reported ==
    LET s == work.view.source
        old == work.view.status IN
    [obs |-> work.view.gen,
     rev |-> IF s = None THEN old.rev ELSE s.ref,
     url |-> IF s = None THEN old.url ELSE IF s.url = None THEN old.url ELSE s.url]

\* Mutant: the status is written to the App as it is now, generation included.
UpdateStatusLatest ==
    /\ Working("prune")
    /\ work.todo = {}
    /\ LET a == work.name IN
       app' = IF app[a] = None THEN app
              ELSE [app EXCEPT ![a].status = [Reported EXCEPT !.obs = app[a].gen]]
    /\ work' = Idle
    /\ UNCHANGED <<dep, appCache, depCache, queue, uids, faults>>

\* Nothing to write when the cached status already says so; otherwise the
\* update is refused unless the App is still the one that was read.
UpdateStatus ==
    /\ Working("prune")
    /\ work.todo = {}
    /\ LET a == work.name IN
       \/ /\ Reported = work.view.status
          /\ work' = Idle
          /\ UNCHANGED <<app, queue>>
       \/ /\ Reported # work.view.status
          /\ app[a] = work.view
          /\ app' = [app EXCEPT ![a].status = Reported]
          /\ work' = Idle
          /\ queue' = queue
       \/ /\ Reported # work.view.status
          /\ app[a] # work.view
          /\ Retry
          /\ app' = app
    /\ UNCHANGED <<dep, appCache, depCache, uids, faults>>

\* Any call may fail for a moment.
CallFails ==
    /\ ~Working("idle")
    /\ faults < MaxFaults
    /\ faults' = faults + 1
    /\ Retry
    /\ UNCHANGED <<app, dep, appCache, depCache, uids>>

\* A restarted operator lists afresh and reconciles every App.
Restart ==
    /\ faults < MaxFaults
    /\ faults' = faults + 1
    /\ work' = Idle
    /\ appCache' = app
    /\ depCache' = {a \in Apps : dep[a] # None}
    /\ queue' = Living
    /\ UNCHANGED <<app, dep, uids>>

Reconcile ==
    \/ \E a \in Apps : Take(a)
    \/ DryRun \/ Apply \/ ListDeployments
    \/ \E d \in Apps : Prune(d)
    \/ UpdateStatus

Cluster ==
    \/ \E a \in Apps : CollectGarbage(a)
    \/ SyncApps \/ Resync \/ SyncDeployments

Next ==
    \/ \E a \in Apps : CreateApp(a) \/ UpdateApp(a) \/ DeleteApp(a)
    \/ Reconcile \/ Cluster
    \/ CallFails \/ Restart

Spec == Init /\ [][Next]_vars

\* The worker, the watches and the garbage collector keep running.
FairSpec ==
    /\ Spec
    /\ WF_vars(DryRun \/ Apply \/ ListDeployments \/ UpdateStatus)
    /\ \A a \in Apps : WF_vars(Take(a)) /\ WF_vars(Prune(a)) /\ WF_vars(CollectGarbage(a))
    /\ WF_vars(SyncApps)

-----------------------------------------------------------------------------
(* Properties.                                                             *)

\* The App reports Ready for its current generation.
Ready(a) == app[a] # None /\ app[a].status.obs = app[a].gen

Running(a) == dep[a] = [owner |-> app[a].uid, image |-> resolveAppImage(app[a].source)]

\* An App that reports Ready for its current generation has its Deployment,
\* with the image of its current spec, whatever stale copies reconciles in
\* between have worked from ("AppConditionReady surfaces the overall readiness
\* state for the reconciled workload", app_types.go).
ReadyMeansRunning == \A a \in Apps : Ready(a) => Running(a)

\* Once users stop changing Apps, every App gets Ready and stays so, through
\* conflicts, transient errors, restarts and a predecessor's Deployment that is
\* not collected yet.
Converges == <>[](\A a \in Living : Ready(a) /\ Running(a))

=============================================================================
