-------------------------- MODULE ControllersProofs --------------------------
(***************************************************************************)
(* What is proved of the operator's controllers, for every value of the    *)
(* constants.  App controller: with one App at a time in a namespace, an   *)
(* App that reports Ready runs the Deployment of its current spec.  Tenant *)
(* controller: type correctness, and that its RoleBindings name only       *)
(* Tenants whose label the namespace has carried.  Usage writer: that it   *)
(* implements the ledger of hourly records.                                *)
(***************************************************************************)
EXTENDS AppController, TenantController, UsageWriter, FiniteSetTheorems, TLAPS

-----------------------------------------------------------------------------
(* The App controller.                                                     *)

Active == work.pc # "idle"

\* x and y are the same generation of the same App.
Same(x, y) == x.uid = y.uid /\ x.gen = y.gen

\* x is a copy of y that may be out of date.
Behind(x, y) == x.uid = y.uid => x.gen <= y.gen /\ (x.gen = y.gen => x.source = y.source)

\* One App at a time, in the API server and in every copy the cache held.
AtMostOne ==
    /\ \A a, b \in Apps : app[a] # None /\ app[b] # None => a = b
    /\ \A a, b \in Apps : appCache[a] # None /\ appCache[b] # None => a = b

\* Numbers are handed out upwards, and the status never runs ahead.
Numbered ==
    /\ \A a \in Apps : app[a] # None =>
          app[a].uid <= uids /\ 1 <= app[a].gen /\ app[a].status.obs <= app[a].gen
    /\ \A a \in Apps : appCache[a] # None => appCache[a].uid <= uids
    /\ Active => work.view.uid <= uids /\ work.name \notin work.todo

\* The cache and the worker's copy are older states of the App.
Copies ==
    \A a \in Apps : app[a] # None =>
        /\ appCache[a] # None => Behind(appCache[a], app[a])
        /\ Active /\ work.name = a => Behind(work.view, app[a])

\* The cache is never older than the worker's copy.
Sandwich ==
    \A a \in Apps :
        app[a] # None /\ Active /\ work.name = a /\ Same(work.view, app[a])
        => appCache[a] # None /\ Same(appCache[a], app[a])

\* Past the apply, the worker's generation is the one that runs.
Applied ==
    \A a \in Apps :
        /\ app[a] # None /\ work.pc \in {"list", "prune"}
        /\ work.name = a /\ Same(work.view, app[a])
        => Running(a)

\* A Ready App runs, and nothing older is cached or in progress.
ReadySafe ==
    \A a \in Apps : Ready(a) =>
        /\ Running(a)
        /\ appCache[a] # None /\ Same(appCache[a], app[a])
        /\ Active => work.name = a /\ Same(work.view, app[a])

AppInv ==
    /\ TypeOK /\ AtMostOne /\ Numbered /\ Copies
    /\ Sandwich /\ Applied /\ ReadySafe

-----------------------------------------------------------------------------
(* Types.                                                                  *)

\* The values of a source, its image and its report are in their domains.
LEMMA SourceTypes ==
    ASSUME NEW s \in Sources
    PROVE  /\ None \in Values
           /\ s # None => s.url \in Values /\ s.ref \in Values
           /\ resolveAppImage(s) \in Images
<1>1. None \in Values
  BY DEF Values
<1>2. s # None => s.url \in Values /\ s.ref \in Values
  BY ControllerAssumption
<1> QED
  BY <1>1, <1>2 DEF resolveAppImage, Images

\* What a reconcile reports is a status.
LEMMA ReportedType ==
    ASSUME TypeOK, Active
    PROVE  Reported \in Status
<1>1. work.view \in AppObject
  BY DEF TypeOK, Active
<1>2. /\ work.view.source \in Sources /\ work.view.gen \in Nat
      /\ work.view.status \in Status
  BY <1>1 DEF AppObject
<1>3. work.view.status.rev \in Values /\ work.view.status.url \in Values
  BY <1>2 DEF Status
<1> QED
  BY <1>2, <1>3, SourceTypes DEF Reported, Status

\* Initially there is nothing.
LEMMA InitAppInv == Init => AppInv
<1> SUFFICES ASSUME Init PROVE AppInv
  OBVIOUS
<1>1. TypeOK
  BY DEF Init, TypeOK, Idle, Phases
<1>2. AtMostOne /\ Numbered /\ Copies /\ Sandwich /\ Applied /\ ReadySafe
  BY DEF Init, Idle, AtMostOne, Numbered, Copies, Sandwich, Applied, ReadySafe, Active, Ready
<1> QED
  BY <1>1, <1>2 DEF AppInv

-----------------------------------------------------------------------------
(* Steps of the users and of the cluster.                                  *)

\* Creating an App when none lives: it is new, so no copy of it exists.
LEMMA CreateStep ==
    ASSUME AppInv, MaxApps = 1, NEW a \in Apps, CreateApp(a)
    PROVE  AppInv'
<1> USE DEF AppInv
<1>1. PICK s \in Sources :
         app' = [app EXCEPT ![a] = [uid |-> uids + 1, gen |-> 1, source |-> s,
                                    status |-> [obs |-> 0, rev |-> None, url |-> None]]]
  BY Zenon DEF CreateApp
<1> DEFINE new == [uid |-> uids + 1, gen |-> 1, source |-> s,
                   status |-> [obs |-> 0, rev |-> None, url |-> None]]
<1>2. new \in AppObject
  BY SourceTypes DEF AppObject, Status, TypeOK
<1>3. app' = [b \in Apps |-> IF b = a THEN new ELSE app[b]]
  BY <1>1, Zenon DEF TypeOK
<1>4. /\ uids \in Nat /\ uids' = uids + 1
      /\ UNCHANGED <<dep, appCache, depCache, queue, work, faults>>
  BY DEF CreateApp, TypeOK
<1>5. Living = {}
  <2>1. IsFiniteSet(Living)
    BY FS_Subset, ControllerAssumption DEF Living
  <2>2. Cardinality(Living) \in Nat /\ Cardinality(Living) < 1
    BY <2>1, FS_CardinalityType DEF CreateApp
  <2> QED
    BY <2>1, <2>2, FS_EmptySet
<1>6. \A b \in Apps : app[b] = None
  BY <1>5 DEF Living
<1>7. new # None /\ new.uid = uids + 1 /\ new.gen = 1 /\ new.status.obs = 0
  BY <1>2, ControllerAssumption
<1>8. \A b \in Apps : appCache[b] # None => appCache[b].uid # uids + 1
  BY <1>4 DEF Numbered, TypeOK, AppObject
<1>9. Active => work.view.uid # uids + 1
  BY <1>4 DEF Numbered, TypeOK, AppObject, Active
<1> HIDE DEF new
<1>10. TypeOK'
  BY <1>2, <1>3, <1>4 DEF TypeOK
<1>11. AtMostOne'
  BY <1>3, <1>4, <1>6 DEF AtMostOne
<1>12. Numbered'
  BY <1>3, <1>4, <1>6, <1>7 DEF Numbered, Active, TypeOK, AppObject
<1>13. Copies' /\ Sandwich' /\ Applied'
  BY <1>3, <1>4, <1>6, <1>7, <1>8, <1>9, Zenon DEF Copies, Sandwich, Applied, Behind, Same, Active
<1>14. ReadySafe'
  BY <1>3, <1>6, <1>7 DEF ReadySafe, Ready
<1> QED
  BY <1>10, <1>11, <1>12, <1>13, <1>14

\* A new generation is not Ready, and every copy is an older one.
LEMMA UpdateStep ==
    ASSUME AppInv, NEW a \in Apps, UpdateApp(a)
    PROVE  AppInv'
<1> USE DEF AppInv
<1>1. PICK s \in Sources \ {app[a].source} :
         app' = [app EXCEPT ![a].gen = @ + 1, ![a].source = s]
  BY Zenon DEF UpdateApp
<1>2. /\ app[a] # None /\ app[a] \in AppObject
      /\ UNCHANGED <<dep, appCache, depCache, queue, work, uids, faults>>
  BY DEF UpdateApp, TypeOK
<1>3. /\ app[a].uid \in Nat /\ app[a].gen \in Nat
      /\ app[a].status \in Status /\ app[a].status.obs \in Nat
  BY <1>2 DEF AppObject, Status
<1> DEFINE new == [uid |-> app[a].uid, gen |-> app[a].gen + 1, source |-> s,
                   status |-> app[a].status]
<1>4. new \in AppObject /\ new # None
  BY <1>3, ControllerAssumption DEF AppObject
<1>5. app' = [b \in Apps |-> IF b = a THEN new ELSE app[b]]
  BY <1>1, <1>2 DEF TypeOK, AppObject
<1>6. /\ new.uid = app[a].uid /\ new.gen = app[a].gen + 1
      /\ new.status.obs = app[a].status.obs
  OBVIOUS
<1> HIDE DEF new
<1>7. \A b \in Apps : appCache[b] # None => appCache[b].uid \in Nat /\ appCache[b].gen \in Nat
  BY DEF TypeOK, AppObject
<1>8. Active => work.view.uid \in Nat /\ work.view.gen \in Nat
  BY DEF TypeOK, AppObject, Active
<1>9. TypeOK'
  BY <1>2, <1>4, <1>5 DEF TypeOK
<1>10. AtMostOne'
  BY <1>2, <1>5, Zenon DEF AtMostOne
<1>11. Numbered'
  BY <1>2, <1>3, <1>5, <1>6 DEF Numbered, Active
<1>12. Copies' /\ Sandwich'
  BY <1>2, <1>3, <1>5, <1>6, <1>7, <1>8, SMTT(40) DEF Copies, Sandwich, Behind, Same, Active
<1>13. Applied'
  <2> SUFFICES ASSUME NEW b \in Apps, app'[b] # None, work.pc \in {"list", "prune"},
                      work.name = b, Same(work.view, app'[b])
               PROVE  Running(b)'
    BY <1>2, Zenon DEF Applied
  <2>1. b # a
    BY <1>2, <1>3, <1>5, <1>6, <1>8 DEF Copies, Behind, Same, Active
  <2> QED
    BY <2>1, <1>2, <1>5, Zenon DEF Applied, Running
<1>14. ReadySafe'
  <2> SUFFICES ASSUME NEW b \in Apps, Ready(b)'
               PROVE  b # a
    BY <1>2, <1>5, Zenon DEF ReadySafe, Ready, Running, Active
  <2> QED
    BY <1>2, <1>3, <1>5, <1>6 DEF Ready, Numbered
<1> QED
  BY <1>9, <1>10, <1>11, <1>12, <1>13, <1>14

\* Deleting an App leaves nothing to promise about it.
LEMMA DeleteStep ==
    ASSUME AppInv, NEW a \in Apps, DeleteApp(a)
    PROVE  AppInv'
<1> USE DEF AppInv
<1>1. /\ app' = [b \in Apps |-> IF b = a THEN None ELSE app[b]]
      /\ UNCHANGED <<dep, appCache, depCache, queue, work, uids, faults>>
  BY Zenon DEF DeleteApp, TypeOK
<1>2. TypeOK'
  BY <1>1 DEF TypeOK
<1>3. AtMostOne' /\ Numbered' /\ Copies' /\ Sandwich'
  BY <1>1, Zenon DEF AtMostOne, Numbered, Copies, Sandwich, Active
<1>4. Applied' /\ ReadySafe'
  BY <1>1, Zenon DEF Applied, ReadySafe, Ready, Running, Active
<1> QED
  BY <1>2, <1>3, <1>4

\* Only the Deployments of Apps that are gone are collected.
LEMMA CollectStep ==
    ASSUME AppInv, NEW a \in Apps, CollectGarbage(a)
    PROVE  AppInv'
<1> USE DEF AppInv
<1>1. /\ dep' = [b \in Apps |-> IF b = a THEN None ELSE dep[b]]
      /\ UNCHANGED <<app, appCache, depCache, queue, work, uids, faults>>
  BY Zenon DEF CollectGarbage, TypeOK
<1>2. \A b \in Apps : app[b] # None /\ Running(b) => b # a
  BY DEF CollectGarbage, Living, Running
<1>3. TypeOK'
  BY <1>1 DEF TypeOK
<1>4. AtMostOne' /\ Numbered' /\ Copies' /\ Sandwich'
  BY <1>1, Zenon DEF AtMostOne, Numbered, Copies, Sandwich, Active
<1>5. \A b \in Apps : app[b] # None /\ Running(b) => Running(b)'
  BY <1>1, <1>2, Zenon DEF Running
<1>6. Applied' /\ ReadySafe'
  BY <1>1, <1>5, Zenon DEF Applied, ReadySafe, Ready, Active
<1> QED
  BY <1>3, <1>4, <1>6

\* The cache takes on the current state.
LEMMA SyncStep ==
    ASSUME AppInv, appCache' = app, queue' \subseteq Apps, depCache' \subseteq Apps,
           faults' \in Nat, work' = work \/ work' = Idle,
           UNCHANGED <<app, dep, uids>>
    PROVE  AppInv'
<1> USE DEF AppInv
<1>1. TypeOK'
  BY DEF TypeOK, Idle, Phases
<1>2. AtMostOne' /\ Numbered'
  BY DEF AtMostOne, Numbered, Active, Idle
<1>3. \A a \in Apps : app[a] # None => Behind(app[a], app[a]) /\ Same(app[a], app[a])
  BY DEF Behind, Same, TypeOK, AppObject
<1>4. Copies' /\ Sandwich'
  BY <1>3 DEF Copies, Sandwich, Active, Idle
<1>5. Applied'
  BY SMTT(40) DEF Applied, Running, Idle
<1>6. ReadySafe'
  BY <1>3, SMTT(40) DEF ReadySafe, Ready, Running, Active, Idle
<1> QED
  BY <1>1, <1>2, <1>4, <1>5, <1>6

-----------------------------------------------------------------------------
(* Steps of the worker.                                                    *)

\* A reconcile may end at any point without a write.
LEMMA StopStep ==
    ASSUME AppInv, work' = Idle, queue' \subseteq Apps, depCache' \subseteq Apps,
           faults' \in Nat, UNCHANGED <<app, dep, appCache, uids>>
    PROVE  AppInv'
<1> USE DEF AppInv
<1>1. TypeOK'
  BY Zenon DEF TypeOK, Idle, Phases
<1>2. AtMostOne' /\ Numbered' /\ Copies' /\ Sandwich'
  BY Zenon DEF AtMostOne, Numbered, Copies, Sandwich, Active, Idle
<1>3. Applied' /\ ReadySafe'
  BY Zenon DEF Applied, ReadySafe, Ready, Running, Active, Idle
<1> QED
  BY <1>1, <1>2, <1>3

\* Steps that leave Apps, Deployments, cache and worker alone.
LEMMA FrameStep ==
    ASSUME AppInv, queue' \subseteq Apps, depCache' \subseteq Apps, faults' \in Nat,
           UNCHANGED <<app, dep, appCache, work, uids>>
    PROVE  AppInv'
<1> USE DEF AppInv
<1>1. TypeOK'
  BY Zenon DEF TypeOK
<1>2. AtMostOne' /\ Numbered' /\ Copies' /\ Sandwich'
  BY Zenon DEF AtMostOne, Numbered, Copies, Sandwich, Active
<1>3. Applied' /\ ReadySafe'
  BY Zenon DEF Applied, ReadySafe, Ready, Running, Active
<1> QED
  BY <1>1, <1>2, <1>3

\* The worker's copy is the cached one.
LEMMA TakeStep ==
    ASSUME AppInv, NEW a \in Apps, Take(a)
    PROVE  AppInv'
<1>1. /\ queue' \subseteq Apps /\ depCache' \subseteq Apps /\ faults' \in Nat
      /\ UNCHANGED <<app, dep, appCache, depCache, uids, faults>>
  BY Zenon DEF Take, AppInv, TypeOK
<1>2. CASE appCache[a] = None
  BY <1>1, <1>2, StopStep, Zenon DEF Take
<1>3. CASE appCache[a] # None
  <2> USE DEF AppInv
  <2>1. work' = [pc |-> "dryRun", name |-> a, view |-> appCache[a], todo |-> {}]
    BY <1>3, Zenon DEF Take
  <2>2. TypeOK'
    BY <1>1, <1>3, <2>1, Zenon DEF TypeOK, Phases
  <2>3. AtMostOne' /\ Numbered'
    BY <1>1, <1>3, <2>1, Zenon DEF AtMostOne, Numbered, Active
  <2>4. Copies' /\ Sandwich'
    BY <1>1, <1>3, <2>1, Zenon DEF Copies, Sandwich, Active
  <2>5. Applied'
    BY <2>1, Zenon DEF Applied
  <2>6. ReadySafe'
    BY <1>1, <1>3, <2>1, Zenon DEF ReadySafe, Ready, Running, AtMostOne
  <2> QED
    BY <2>2, <2>3, <2>4, <2>5, <2>6
<1> QED
  BY <1>2, <1>3

\* A validated reconcile goes on to apply.
LEMMA DryRunStep ==
    ASSUME AppInv, DryRun
    PROVE  AppInv'
<1>1. /\ work.pc = "dryRun" /\ work.name \in Apps
      /\ depCache' \subseteq Apps /\ faults' \in Nat
      /\ UNCHANGED <<app, dep, appCache, depCache, uids, faults>>
  BY Zenon DEF DryRun, Working, AppInv, TypeOK
<1>2. CASE Foreign
  BY <1>1, <1>2, StopStep, Zenon DEF DryRun, Retry, AppInv, TypeOK
<1>3. CASE ~Foreign
  <2> USE DEF AppInv
  <2>1. work' = [work EXCEPT !.pc = "apply"] /\ queue' = queue
    BY <1>3 DEF DryRun, Goto
  <2>2. /\ work'.pc = "apply" /\ work'.name = work.name
        /\ work'.view = work.view /\ work'.todo = work.todo
    BY <2>1 DEF TypeOK
  <2>3. TypeOK'
    BY <1>1, <2>1, <2>2 DEF TypeOK, Phases
  <2>4. AtMostOne' /\ Numbered' /\ Copies' /\ Sandwich'
    BY <1>1, <2>2, Zenon DEF AtMostOne, Numbered, Copies, Sandwich, Active
  <2>5. Applied' /\ ReadySafe'
    BY <1>1, <2>2, Zenon DEF Applied, ReadySafe, Ready, Running, Active
  <2> QED
    BY <2>3, <2>4, <2>5
<1> QED
  BY <1>2, <1>3

\* The apply makes the worker's generation the one that runs; if an App is
\* Ready, that generation is the App's own.
LEMMA ApplyStep ==
    ASSUME AppInv, Apply
    PROVE  AppInv'
<1>1. /\ work.pc = "apply" /\ work.name \in Apps /\ work.view \in AppObject
      /\ depCache' \subseteq Apps /\ faults' \in Nat
      /\ UNCHANGED <<app, appCache, depCache, uids, faults>>
  BY Zenon DEF Apply, Working, AppInv, TypeOK
<1>2. CASE Foreign
  BY <1>1, <1>2, StopStep, Zenon DEF Apply, Retry, AppInv, TypeOK
<1>3. CASE ~Foreign
  <2> USE DEF AppInv
  <2> DEFINE new == [owner |-> work.view.uid, image |-> resolveAppImage(work.view.source)]
  <2>1. /\ work' = [work EXCEPT !.pc = "list"] /\ queue' = queue
        /\ dep' = [b \in Apps |-> IF b = work.name THEN new ELSE dep[b]]
    BY <1>3 DEF Apply, Goto, TypeOK
  <2>2. /\ work'.pc = "list" /\ work'.name = work.name
        /\ work'.view = work.view /\ work'.todo = work.todo
    BY <2>1 DEF TypeOK
  <2>3. new \in Deployment
    BY <1>1, SourceTypes, Zenon DEF AppObject, Deployment
  <2>4. TypeOK'
    BY <1>1, <2>1, <2>2, <2>3 DEF TypeOK, Phases
  <2>5. AtMostOne' /\ Numbered' /\ Copies' /\ Sandwich'
    BY <1>1, <2>2, Zenon DEF AtMostOne, Numbered, Copies, Sandwich, Active
  <2>6. \A b \in Apps : /\ app[b] # None /\ work.name = b /\ Same(work.view, app[b])
                         => Running(b)'
    BY <1>1, <2>1 DEF Copies, Behind, Same, Running, Active, TypeOK, AppObject
  <2>7. Applied' /\ ReadySafe'
    BY <1>1, <2>2, <2>6, Zenon DEF Applied, ReadySafe, Ready, Active
  <2> QED
    BY <2>4, <2>5, <2>7
<1> QED
  BY <1>2, <1>3

\* The list leaves the worker's own Deployment out.
LEMMA ListStep ==
    ASSUME AppInv, ListDeployments
    PROVE  AppInv'
<1> USE DEF AppInv
<1>1. /\ work.pc = "list"
      /\ UNCHANGED <<app, dep, appCache, depCache, queue, uids, faults>>
  BY DEF ListDeployments, Working
<1>2. /\ work'.pc = "prune" /\ work'.name = work.name
      /\ work'.view = work.view /\ work'.todo = depCache \ {work.name}
      /\ work' \in [pc : Phases, name : Apps \cup {None}, view : AppObject \cup {None},
                    todo : SUBSET Apps]
  BY Zenon DEF ListDeployments, TypeOK, Phases
<1>3. TypeOK'
  BY <1>1, <1>2 DEF TypeOK
<1>4. AtMostOne' /\ Numbered' /\ Copies' /\ Sandwich'
  BY <1>1, <1>2, Zenon DEF AtMostOne, Numbered, Copies, Sandwich, Active
<1>5. Applied' /\ ReadySafe'
  BY <1>1, <1>2, Zenon DEF Applied, ReadySafe, Ready, Running, Active
<1> QED
  BY <1>3, <1>4, <1>5

\* What is pruned is not the Deployment of the App at hand, and the App at
\* hand is the only one that may be Ready.
LEMMA PruneStep ==
    ASSUME AppInv, NEW d \in Apps, Prune(d)
    PROVE  AppInv'
<1> USE DEF AppInv
<1>1. /\ work.pc = "prune" /\ d \in work.todo
      /\ UNCHANGED <<app, appCache, depCache, queue, uids, faults>>
      /\ dep' = [b \in Apps |-> IF b = d THEN None ELSE dep[b]]
  BY Zenon DEF Prune, Working, TypeOK
<1>2. /\ work'.pc = "prune" /\ work'.name = work.name
      /\ work'.view = work.view /\ work'.todo = work.todo \ {d}
      /\ work' \in [pc : Phases, name : Apps \cup {None}, view : AppObject \cup {None},
                    todo : SUBSET Apps]
  BY <1>1 DEF Prune, TypeOK, Phases
<1>3. TypeOK'
  BY <1>1, <1>2, Zenon DEF TypeOK
<1>4. AtMostOne' /\ Numbered' /\ Copies' /\ Sandwich'
  BY <1>1, <1>2, Zenon DEF AtMostOne, Numbered, Copies, Sandwich, Active
<1>5. work.name # d
  BY <1>1, Zenon DEF Numbered, Active
<1>6. Applied' /\ ReadySafe'
  BY <1>1, <1>2, <1>5, ZenonT(60) DEF Applied, ReadySafe, Ready, Running, Active
<1> QED
  BY <1>3, <1>4, <1>6

\* The only step that makes an App Ready: what was applied is current, and
\* so is the cache.
LEMMA UpdateStatusStep ==
    ASSUME AppInv, UpdateStatus
    PROVE  AppInv'
<1>1. /\ work.pc = "prune" /\ work.name \in Apps /\ work.view \in AppObject
      /\ depCache' \subseteq Apps /\ faults' \in Nat
      /\ UNCHANGED <<dep, appCache, depCache, uids, faults>>
  BY DEF UpdateStatus, Working, AppInv, TypeOK
<1>2. CASE Reported = work.view.status \/ app[work.name] # work.view
  BY <1>1, <1>2, StopStep DEF UpdateStatus, Retry, AppInv, TypeOK
<1>3. CASE Reported # work.view.status /\ app[work.name] = work.view
  <2> USE DEF AppInv
  <2> DEFINE a == work.name
  <2>1. /\ app' = [app EXCEPT ![a].status = Reported]
        /\ work' = Idle /\ queue' = queue
    BY <1>3 DEF UpdateStatus
  <2> DEFINE new == [uid |-> app[a].uid, gen |-> app[a].gen, source |-> app[a].source,
                     status |-> Reported]
  <2>2. app[a] \in AppObject /\ app[a] # None
    BY <1>1, <1>3, ControllerAssumption, Zenon
  <2>3. Reported \in Status /\ Reported.obs = app[a].gen
    BY <1>1, <1>3, ReportedType, Zenon DEF Active, Reported
  <2>4. new \in AppObject /\ new # None
    BY <2>2, <2>3, ControllerAssumption, SMTT(40) DEF AppObject
  <2>5. app' = [b \in Apps |-> IF b = a THEN new ELSE app[b]]
    <3>1. [app[a] EXCEPT !.status = Reported] = new
      BY <2>2 DEF AppObject
    <3>2. app' = [app EXCEPT ![a] = [app[a] EXCEPT !.status = Reported]]
      BY <2>1
    <3> QED
      BY <3>1, <3>2, Zenon DEF TypeOK
  <2>6. /\ new.uid = app[a].uid /\ new.gen = app[a].gen /\ new.source = app[a].source
        /\ new.status.obs = app[a].gen
    BY <2>3, Zenon
  <2>7. app[a].gen \in Nat
    BY <2>2 DEF AppObject
  <2> HIDE DEF new
  <2>8. work'.pc = "idle"
    BY <2>1 DEF Idle
  <2>9. TypeOK'
    BY <1>1, <2>1, <2>4, <2>5 DEF TypeOK, Idle, Phases
  <2>10. AtMostOne' /\ Numbered'
    BY <1>1, <2>2, <2>4, <2>5, <2>6, <2>7, <2>8, SMTT(40) DEF AtMostOne, Numbered, Active
  <2>11. Copies' /\ Sandwich' /\ Applied'
    BY <1>1, <2>2, <2>4, <2>5, <2>6, <2>8, ZenonT(60) DEF Copies, Sandwich, Applied, Behind, Active
  <2>12. Running(a) /\ appCache[a] # None /\ Same(appCache[a], app[a])
    BY <1>1, <1>3, <2>2, Zenon DEF Applied, Sandwich, Same, Active
  <2>13. ReadySafe'
    <3> SUFFICES ASSUME NEW b \in Apps, Ready(b)'
                 PROVE  Running(b)' /\ appCache[b] # None /\ Same(appCache[b], app'[b])
      BY <1>1, <2>8, Zenon DEF ReadySafe, Active
    <3>1. CASE b = a
      BY <1>1, <2>5, <2>6, <2>12, <3>1, Zenon DEF Running, Same
    <3>2. CASE b # a
      BY <1>1, <2>5, <3>2, Zenon DEF ReadySafe, Ready, Running
    <3> QED
      BY <3>1, <3>2, Zenon
  <2> QED
    BY <2>9, <2>10, <2>11, <2>13
<1> QED
  BY <1>2, <1>3, Zenon

-----------------------------------------------------------------------------
(* Theorems.                                                               *)

\* With one App at a time the invariant is inductive.
THEOREM AppInductive ==
    ASSUME MaxApps = 1
    PROVE  Spec => []AppInv
<1>1. Init => AppInv
  BY InitAppInv
<1>2. AppInv /\ [Next]_vars => AppInv'
  <2> SUFFICES ASSUME AppInv, [Next]_vars PROVE AppInv'
    OBVIOUS
  <2> USE DEF AppInv
  <2>1. ASSUME NEW a \in Apps, CreateApp(a) \/ UpdateApp(a) \/ DeleteApp(a)
        PROVE  AppInv'
    BY <2>1, CreateStep, UpdateStep, DeleteStep, Zenon
  <2>2. ASSUME NEW a \in Apps, CollectGarbage(a) PROVE AppInv'
    BY <2>2, CollectStep
  <2>3. CASE SyncApps
    BY <2>3, SyncStep, Zenon DEF SyncApps, TypeOK
  <2>4. CASE Resync \/ SyncDeployments
    BY <2>4, FrameStep, Zenon DEF Resync, SyncDeployments, TypeOK
  <2>5. ASSUME NEW a \in Apps, Take(a) \/ Prune(a) PROVE AppInv'
    BY <2>5, TakeStep, PruneStep
  <2>6. CASE DryRun \/ Apply \/ ListDeployments \/ UpdateStatus
    BY <2>6, DryRunStep, ApplyStep, ListStep, UpdateStatusStep, Zenon
  <2>7. CASE CallFails
    BY <2>7, StopStep, SMTT(40) DEF CallFails, Retry, Working, TypeOK
  <2>8. CASE Restart
    BY <2>8, SyncStep, SMTT(40) DEF Restart, Living, TypeOK
  <2>9. CASE UNCHANGED vars
    BY <2>9, FrameStep, Zenon DEF vars, TypeOK
  <2> QED
    BY <2>1, <2>2, <2>3, <2>4, <2>5, <2>6, <2>7, <2>8, <2>9, Zenon DEF Next, Reconcile, Cluster
<1> QED
  BY <1>1, <1>2, PTL DEF Spec

\* With one App at a time in a namespace, an App that reports Ready for its
\* current generation has its Deployment with the image of its current spec
\* (Reconcile, reconcileWorkload, pruneWorkload, updateStatus).
THEOREM ReadyIsHonest ==
    ASSUME MaxApps = 1
    PROVE  Spec => []ReadyMeansRunning
<1>1. AppInv => ReadyMeansRunning
  BY Zenon DEF AppInv, ReadySafe, ReadyMeansRunning
<1> QED
  BY <1>1, AppInductive, PTL

-----------------------------------------------------------------------------
(* The Tenant controller.                                                  *)

\* Every label the API server or the cache shows was carried.
LabelsCarried ==
    \A n \in Namespaces :
        /\ ns[n].label # NoTenant => ns[n].label \in carried[n]
        /\ nsCache[n].label # NoTenant => nsCache[n].label \in carried[n]

\* So was the label of every namespace the worker still has to bind.
WorkCarried ==
    /\ tenantWork.pc # "idle" => tenantWork.tenant \in Tenants
    /\ \A n \in tenantWork.todo : tenantWork.tenant \in carried[n]

TenantInv == TenantTypeOK /\ LabelsCarried /\ WorkCarried /\ GrantsFollowLabels

-----------------------------------------------------------------------------

\* The idle worker is well formed.
LEMMA IdleTyped ==
    /\ NoTenantWork \in [pc : {"idle", "list", "bind"}, tenant : Tenants \cup {NoTenant},
                 todo : SUBSET Namespaces, cur : Namespaces \cup {NoTenant}, role : Roles]
    /\ NoTenantWork.pc = "idle" /\ NoTenantWork.todo = {} /\ 1 \in Roles
  BY TenantAssumption DEF NoTenantWork, Roles

\* A copy of the bindings is well formed.
LEMMA CopiedTyped ==
    ASSUME TenantTypeOK
    PROVE  /\ Copied \in [Namespaces -> [Roles -> {"none", "stale", "current"}]]
           /\ \A n \in Namespaces, i \in Roles : Outdated(n, i) \in {"none", "stale", "current"}
  BY DEF TenantTypeOK, Copied, Outdated

\* Initially there is nothing.
LEMMA InitTenantInv == TenantInit => TenantInv
  <1> SUFFICES ASSUME TenantInit PROVE TenantInv
    OBVIOUS
  <1>1. TenantTypeOK
    BY IdleTyped, Zenon DEF TenantInit, TenantTypeOK, NamespaceObject
  <1>2. LabelsCarried /\ GrantsFollowLabels
    BY Zenon DEF TenantInit, LabelsCarried, GrantsFollowLabels
  <1>3. WorkCarried
    BY IdleTyped, Zenon DEF TenantInit, WorkCarried
  <1> QED BY <1>1, <1>2, <1>3 DEF TenantInv

\* Steps of the operator that write no binding.
LEMMA OperatorStep ==
    ASSUME TenantInv, UNCHANGED tenantCluster,
           tenantCache' \subseteq Tenants, nsCache' = nsCache \/ nsCache' = ns,
           rbCache' = rbCache \/ rbCache' = Copied, tenantQueue' \subseteq Tenants,
           tenantWork' = tenantWork \/ tenantWork' = NoTenantWork, changes' \in Nat, tenantFaults' \in Nat
    PROVE  TenantInv'
  <1> USE DEF TenantInv
  <1>1. TenantTypeOK'
    BY IdleTyped, CopiedTyped, Zenon DEF TenantTypeOK, tenantCluster
  <1>2. LabelsCarried' /\ GrantsFollowLabels'
    BY Zenon DEF LabelsCarried, GrantsFollowLabels, tenantCluster
  <1>3. WorkCarried'
    BY IdleTyped DEF WorkCarried, tenantCluster
  <1> QED BY <1>1, <1>2, <1>3

\* Steps of the users: a new label is recorded as carried.
LEMMA UserStep ==
    ASSUME TenantInv, Users
    PROVE  TenantInv'
  <1> USE DEF TenantInv
  <1>1. UNCHANGED <<tenantCache, nsCache, rbCache, tenantQueue, tenantWork, tenantFaults, rb>> /\ changes' \in Nat
    BY DEF Users, SetTenant, DeleteNamespace, Label, Change, tenantOperator, TenantTypeOK
  <1>2. CASE \E t \in Tenants : SetTenant(t)
    <2>1. tenant' \subseteq Tenants /\ UNCHANGED <<ns, carried>>
      BY <1>2, Zenon DEF SetTenant, TenantTypeOK
    <2>2. TenantTypeOK'
      BY <1>1, <2>1, Zenon DEF TenantTypeOK
    <2>3. LabelsCarried' /\ WorkCarried' /\ GrantsFollowLabels'
      BY <1>1, <2>1, Zenon DEF LabelsCarried, WorkCarried, GrantsFollowLabels
    <2> QED BY <2>2, <2>3
  <1>3. ASSUME NEW n \in Namespaces, DeleteNamespace(n)
        PROVE  TenantInv'
    <2>1. /\ ns' \in [Namespaces -> NamespaceObject]
          /\ \A m \in Namespaces : ns'[m].label = ns[m].label
          /\ UNCHANGED <<tenant, carried>>
      BY <1>3, ZenonT(60) DEF DeleteNamespace, TenantTypeOK, NamespaceObject
    <2>2. TenantTypeOK'
      BY <1>1, <2>1, Zenon DEF TenantTypeOK
    <2>3. LabelsCarried' /\ WorkCarried' /\ GrantsFollowLabels'
      BY <1>1, <2>1, Zenon DEF LabelsCarried, WorkCarried, GrantsFollowLabels
    <2> QED BY <2>2, <2>3
  <1>4. ASSUME NEW n \in Namespaces, NEW l \in Tenants \cup {NoTenant}, Label(n, l)
        PROVE  TenantInv'
    <2>1. ns[n] \in NamespaceObject /\ ns[n].uid \in Nat
      BY Zenon DEF TenantTypeOK, NamespaceObject
    <2> DEFINE new == [uid |-> IF ns[n].life = "absent" THEN ns[n].uid + 1 ELSE ns[n].uid,
                       life |-> "active", label |-> l]
    <2>2. ns' = [ns EXCEPT ![n] = new] /\ UNCHANGED tenant
      BY <1>4, Zenon DEF Label
    <2>3. new \in NamespaceObject /\ new.label = l
      BY <2>1, SMTT(40) DEF NamespaceObject
    <2>4. carried' = [carried EXCEPT ![n] = carried[n] \cup ({l} \ {NoTenant})]
      BY <1>4, Zenon DEF Label
    <2> HIDE DEF new
    <2>5. TenantTypeOK'
      BY <1>1, <2>2, <2>3, <2>4, Zenon DEF TenantTypeOK
    <2>6. \A m \in Namespaces : carried[m] \subseteq carried'[m]
      BY <2>4, Zenon DEF TenantTypeOK
    <2>7. l # NoTenant => l \in carried'[n]
      BY <2>4 DEF TenantTypeOK
    <2>8. LabelsCarried'
      BY <1>1, <2>2, <2>3, <2>6, <2>7, Zenon DEF LabelsCarried, TenantTypeOK
    <2>9. WorkCarried' /\ GrantsFollowLabels'
      BY <1>1, <2>6, Zenon DEF WorkCarried, GrantsFollowLabels, TenantTypeOK
    <2> QED BY <2>5, <2>8, <2>9
  <1> QED BY <1>2, <1>3, <1>4 DEF Users

\* A removed namespace has neither label nor bindings.
LEMMA RemoveStep ==
    ASSUME TenantInv, NEW n \in Namespaces, RemoveNamespace(n)
    PROVE  TenantInv'
  <1> USE DEF TenantInv
  <1>1. UNCHANGED <<tenant, carried, tenantCache, nsCache, tenantQueue, tenantWork, changes, tenantFaults>>
    BY DEF RemoveNamespace
  <1>2. /\ ns' \in [Namespaces -> NamespaceObject]
        /\ \A m \in Namespaces : ns'[m].label = IF m = n THEN NoTenant ELSE ns[m].label
    <2>1. ns' = [ns EXCEPT ![n] = [[ns[n] EXCEPT !.life = "absent"] EXCEPT !.label = NoTenant]]
      BY Zenon DEF RemoveNamespace, TenantTypeOK
    <2>2. ns[n] \in NamespaceObject
      BY DEF TenantTypeOK
    <2> DEFINE new == [[ns[n] EXCEPT !.life = "absent"] EXCEPT !.label = NoTenant]
    <2>3. new \in NamespaceObject /\ new.label = NoTenant
      BY <2>2, Zenon DEF NamespaceObject
    <2> HIDE DEF new
    <2> QED BY <2>1, <2>3 DEF TenantTypeOK, new
  <1>3. /\ rb' \in [Namespaces -> [Roles -> Tenants \cup {NoTenant}]]
        /\ \A m \in Namespaces, i \in Roles : rb'[m][i] = IF m = n THEN NoTenant ELSE rb[m][i]
    BY DEF RemoveNamespace, TenantTypeOK
  <1>4. rbCache' \in [Namespaces -> [Roles -> {"none", "stale", "current"}]]
    BY CopiedTyped DEF RemoveNamespace, TenantTypeOK
  <1>5. TenantTypeOK'
    BY <1>1, <1>2, <1>3, <1>4, Zenon DEF TenantTypeOK
  <1>6. LabelsCarried' /\ WorkCarried' /\ GrantsFollowLabels'
    BY <1>1, <1>2, <1>3, Zenon DEF LabelsCarried, WorkCarried, GrantsFollowLabels
  <1> QED BY <1>5, <1>6

\* The worker takes up a Tenant.
LEMMA TakeTenantStep ==
    ASSUME TenantInv, NEW t \in Tenants, TakeTenant(t)
    PROVE  TenantInv'
  <1>1. /\ UNCHANGED <<tenantCluster, tenantCache, nsCache, rbCache, changes, tenantFaults>>
        /\ tenantQueue' \subseteq Tenants
    BY DEF TakeTenant, TenantInv, TenantTypeOK
  <1>2. CASE t \notin tenantCache
    BY <1>1, <1>2, OperatorStep DEF TakeTenant, TenantInv, TenantTypeOK
  <1>3. CASE t \in tenantCache
    <2> USE DEF TenantInv
    <2>1. tenantWork' = [pc |-> "list", tenant |-> t, todo |-> {}, cur |-> NoTenant, role |-> 1]
      BY <1>3, Zenon DEF TakeTenant, NoTenantWork
    <2>2. TenantTypeOK'
      BY <1>1, <2>1, IdleTyped, Zenon DEF TenantTypeOK, tenantCluster
    <2>3. LabelsCarried' /\ WorkCarried' /\ GrantsFollowLabels'
      BY <1>1, <2>1, Zenon DEF LabelsCarried, WorkCarried, GrantsFollowLabels, tenantCluster
    <2> QED BY <2>2, <2>3
  <1> QED BY <1>2, <1>3

\* The listed namespaces carry the Tenant's label in the cache.
LEMMA ListNamespacesStep ==
    ASSUME TenantInv, ListNamespaces
    PROVE  TenantInv'
  <1> DEFINE found == namespacesForTenant(tenantWork.tenant)
  <1>1. /\ UNCHANGED <<tenantCluster, tenantCache, nsCache, rbCache, tenantQueue, changes, tenantFaults>>
        /\ tenantWork.pc = "list"
    BY DEF ListNamespaces
  <1>2. CASE found = {}
    BY <1>1, <1>2, OperatorStep DEF ListNamespaces, TenantInv, TenantTypeOK
  <1>3. CASE found # {}
    <2> USE DEF TenantInv
    <2>1. tenantWork' = [tenantWork EXCEPT !.pc = "bind", !.todo = found]
      BY <1>3 DEF ListNamespaces
    <2>2. /\ found \subseteq Namespaces
          /\ \A n \in found : nsCache[n].label = tenantWork.tenant
      BY DEF namespacesForTenant
    <2>3. tenantWork.tenant \in Tenants
      BY <1>1 DEF WorkCarried
    <2>4. \A n \in found : tenantWork.tenant \in carried[n]
      BY <2>2, <2>3, TenantAssumption, Zenon DEF LabelsCarried
    <2> HIDE DEF found
    <2>5. /\ tenantWork'.pc = "bind" /\ tenantWork'.tenant = tenantWork.tenant /\ tenantWork'.todo = found
          /\ tenantWork' \in [pc : {"idle", "list", "bind"}, tenant : Tenants \cup {NoTenant},
                 todo : SUBSET Namespaces, cur : Namespaces \cup {NoTenant}, role : Roles]
      BY <2>1, <2>2, Zenon DEF TenantTypeOK
    <2>6. TenantTypeOK'
      BY <1>1, <2>5, Zenon DEF TenantTypeOK, tenantCluster
    <2>7. LabelsCarried' /\ GrantsFollowLabels'
      BY <1>1, Zenon DEF LabelsCarried, GrantsFollowLabels, tenantCluster
    <2>8. WorkCarried'
      BY <1>1, <2>3, <2>4, <2>5, Zenon DEF WorkCarried, tenantCluster
    <2> QED BY <2>6, <2>7, <2>8
  <1> QED BY <1>2, <1>3

\* Moving on drops work and adds none.
LEMMA AdvanceStep ==
    ASSUME TenantTypeOK, NEW n \in Namespaces, Advance(n)
    PROVE  /\ tenantWork' \in [pc : {"idle", "list", "bind"}, tenant : Tenants \cup {NoTenant},
                 todo : SUBSET Namespaces, cur : Namespaces \cup {NoTenant}, role : Roles]
           /\ \/ tenantWork'.todo = {} /\ tenantWork'.pc = "idle"
              \/ /\ tenantWork'.todo \subseteq tenantWork.todo
                 /\ tenantWork'.tenant = tenantWork.tenant /\ tenantWork'.pc = tenantWork.pc
  <1> DEFINE W == [pc : {"idle", "list", "bind"}, tenant : Tenants \cup {NoTenant},
                   todo : SUBSET Namespaces, cur : Namespaces \cup {NoTenant}, role : Roles]
  <1>0. tenantWork \in W /\ tenantWork.role \in 1..NRoles /\ NRoles \in Nat /\ 1 \in Roles
    BY TenantAssumption, IdleTyped, Zenon DEF TenantTypeOK, Roles
  <1>1. CASE tenantWork.role < NRoles /\ tenantWork' = [tenantWork EXCEPT !.cur = n, !.role = @ + 1]
    <2>1. tenantWork.role + 1 \in Roles
      BY <1>0, <1>1 DEF Roles
    <2> QED BY <1>0, <1>1, <2>1, Zenon
  <1>2. CASE tenantWork' = [tenantWork EXCEPT !.todo = @ \ {n}, !.cur = NoTenant, !.role = 1]
    BY <1>0, <1>2, Zenon
  <1>3. CASE tenantWork' = NoTenantWork
    BY <1>3, IdleTyped, Zenon
  <1> QED BY <1>1, <1>2, <1>3 DEF Advance

\* A binding is written for a namespace that carried the label.
LEMMA BindStep ==
    ASSUME TenantInv, NEW n \in Namespaces, ensureRoleBinding(n)
    PROVE  TenantInv'
  <1>1. /\ UNCHANGED <<tenant, ns, carried, tenantCache, nsCache, changes, tenantFaults>>
        /\ tenantWork.pc = "bind" /\ n \in tenantWork.todo
    BY DEF ensureRoleBinding
  <1>2. tenantWork.tenant \in Tenants /\ tenantWork.tenant \in carried[n] /\ tenantWork.role \in Roles
    BY <1>1, Zenon DEF TenantInv, WorkCarried, TenantTypeOK
  <1>3. \/ /\ rb' = [rb EXCEPT ![n][tenantWork.role] = tenantWork.tenant]
           /\ \/ rbCache' = rbCache
              \/ rbCache' = [rbCache EXCEPT ![n][tenantWork.role] = Outdated(n, tenantWork.role)]
           /\ Advance(n) /\ tenantQueue' = tenantQueue
        \/ RetryTenant /\ UNCHANGED <<rb, rbCache>>
    BY Zenon DEF ensureRoleBinding
  <1>4. CASE RetryTenant /\ UNCHANGED <<rb, rbCache>>
    BY <1>1, <1>2, <1>4, OperatorStep, Zenon DEF RetryTenant, TenantInv, TenantTypeOK, tenantCluster
  <1>5. CASE /\ rb' = [rb EXCEPT ![n][tenantWork.role] = tenantWork.tenant]
             /\ \/ rbCache' = rbCache
                \/ rbCache' = [rbCache EXCEPT ![n][tenantWork.role] = Outdated(n, tenantWork.role)]
             /\ Advance(n) /\ tenantQueue' = tenantQueue
    <2> USE DEF TenantInv
    <2>1. rb' = [rb EXCEPT ![n] = [rb[n] EXCEPT ![tenantWork.role] = tenantWork.tenant]]
      BY <1>5
    <2>2. /\ rb' \in [Namespaces -> [Roles -> Tenants \cup {NoTenant}]]
          /\ \A m \in Namespaces, i \in Roles :
                rb'[m][i] = IF m = n /\ i = tenantWork.role THEN tenantWork.tenant ELSE rb[m][i]
      BY <1>2, <2>1, Zenon DEF TenantTypeOK
    <2>3. rbCache' \in [Namespaces -> [Roles -> {"none", "stale", "current"}]]
      <3>1. CASE rbCache' = rbCache
        BY <3>1, Zenon DEF TenantTypeOK
      <3>2. CASE rbCache' = [rbCache EXCEPT ![n][tenantWork.role] = Outdated(n, tenantWork.role)]
        <4>1. rbCache' = [rbCache EXCEPT ![n] =
                            [rbCache[n] EXCEPT ![tenantWork.role] = Outdated(n, tenantWork.role)]]
          BY <3>2
        <4>2. Outdated(n, tenantWork.role) \in {"none", "stale", "current"}
          BY <1>2, CopiedTyped, Zenon
        <4> QED BY <1>2, <4>1, <4>2, Zenon DEF TenantTypeOK
      <3> QED BY <1>5, <3>1, <3>2, Zenon
    <2>4. /\ tenantWork' \in [pc : {"idle", "list", "bind"}, tenant : Tenants \cup {NoTenant},
                 todo : SUBSET Namespaces, cur : Namespaces \cup {NoTenant}, role : Roles]
          /\ \/ tenantWork'.todo = {} /\ tenantWork'.pc = "idle"
             \/ /\ tenantWork'.todo \subseteq tenantWork.todo
                /\ tenantWork'.tenant = tenantWork.tenant /\ tenantWork'.pc = tenantWork.pc
      BY <1>5, AdvanceStep, Zenon
    <2>5. TenantTypeOK'
      BY <1>1, <1>5, <2>2, <2>3, <2>4, Zenon DEF TenantTypeOK
    <2>6. LabelsCarried' /\ WorkCarried'
      BY <1>1, <1>2, <2>4, Zenon DEF LabelsCarried, WorkCarried
    <2>7. GrantsFollowLabels'
      BY <1>1, <1>2, <2>2, Zenon DEF GrantsFollowLabels
    <2> QED BY <2>5, <2>6, <2>7
  <1> QED BY <1>3, <1>4, <1>5, Zenon

-----------------------------------------------------------------------------

\* The invariant is inductive.
THEOREM TenantInductive == TenantSpec => []TenantInv
  <1>1. TenantInit => TenantInv
    BY InitTenantInv
  <1>2. TenantInv /\ [TenantNext]_tenantVars => TenantInv'
    <2> SUFFICES ASSUME TenantInv, [TenantNext]_tenantVars PROVE TenantInv'
      OBVIOUS
    <2>1. CASE Users
      BY <2>1, UserStep
    <2>2. ASSUME NEW n \in Namespaces, RemoveNamespace(n) \/ ensureRoleBinding(n) PROVE TenantInv'
      BY <2>2, RemoveStep, BindStep
    <2>3. ASSUME NEW t \in Tenants, TakeTenant(t) PROVE TenantInv'
      BY <2>3, TakeTenantStep
    <2>4. CASE ListNamespaces
      BY <2>4, ListNamespacesStep
    <2>5. CASE SyncTenants
      BY <2>5, OperatorStep, Zenon DEF SyncTenants, TenantInv, TenantTypeOK
    <2>6. CASE SyncNamespaces
      <3>1. enqueueNamespace \subseteq Tenants
        BY DEF enqueueNamespace, TenantInv, TenantTypeOK, NamespaceObject
      <3> QED BY <2>6, <3>1, OperatorStep, Zenon DEF SyncNamespaces, TenantInv, TenantTypeOK
    <2>7. CASE SyncBindings
      BY <2>7, OperatorStep, Zenon DEF SyncBindings, TenantInv, TenantTypeOK
    <2>8. CASE TenantCallFails
      BY <2>8, OperatorStep, SMTT(40) DEF TenantCallFails, RetryTenant, TenantInv, TenantTypeOK, WorkCarried
    <2>9. CASE TenantRestart
      BY <2>9, OperatorStep, SMTT(40) DEF TenantRestart, TenantInv, TenantTypeOK
    <2>10. CASE UNCHANGED tenantVars
      BY <2>10, OperatorStep, Zenon DEF tenantVars, tenantOperator, TenantInv, TenantTypeOK
    <2> QED
      BY <2>1, <2>2, <2>3, <2>4, <2>5, <2>6, <2>7, <2>8, <2>9, <2>10, Zenon DEF TenantNext
  <1> QED BY <1>1, <1>2, PTL DEF TenantSpec

\* Tenants, namespaces, bindings, caches and worker stay in their domains.
THEOREM TenantTypes == TenantSpec => []TenantTypeOK
  <1>1. TenantInv => TenantTypeOK
    BY DEF TenantInv
  <1> QED BY <1>1, TenantInductive, PTL

\* A managed RoleBinding names only a Tenant whose label the namespace has
\* carried, whatever the caches hid (namespacesForTenant, ensureRoleBinding).
THEOREM GrantsAreEarned == TenantSpec => []GrantsFollowLabels
  <1>1. TenantInv => GrantsFollowLabels
    BY DEF TenantInv
  <1> QED BY <1>1, TenantInductive, PTL

-----------------------------------------------------------------------------
(* The usage writer.                                                       *)

Writing == {"tenant", "project", "app"}
RunType ==
    [pc : Writing \cup {"idle", "collect"}, window : Nat, scope : SUBSET Scope,
     seen : [UsagePods -> Nat], todo : SUBSET Subjects, errs : BOOLEAN]

\* The hour of a run is not ahead of the time, subjects are written only after
\* the collection, and a record has its name.
UsageInv ==
    /\ hour \in UsageHours /\ use \in [UsagePods -> Nat]
    /\ billing = [b \in Names |-> billing[b]]
    /\ run \in RunType /\ run.window <= hour
    /\ run.todo # {} => run.pc \in Writing

-----------------------------------------------------------------------------

\* The names of records of one hour tell the types and keys of subjects apart.
LEMMA NamesTellKeys ==
    ASSUME NEW s \in Subjects, NEW t \in Subjects, NEW v, NEW w,
           buildBillingUsageName(s, v) = buildBillingUsageName(t, w)
    PROVE  v = w /\ s.type = t.type /\ namespaceKey(s) = namespaceKey(t)
  <1> DEFINE x == namespaceKey(s)
             y == namespaceKey(t)
             Part == STRING \cup {s.type, t.type}
  <1>1. x \in Seq(Part) /\ y \in Seq(Part)
    <2>1. x \in Seq(STRING) /\ y \in Seq(STRING)
      BY UsageAssumption DEF namespaceKey
    <2> HIDE DEF x, y
    <2> QED BY <2>1
  <1>2. v = w /\ <<s.type>> \o x = <<t.type>> \o y
    BY DEF buildBillingUsageName
  <1> HIDE DEF x, y
  <1>3. s.type \in Part /\ t.type \in Part
    OBVIOUS
  <1> HIDE DEF Part
  <1>4. /\ <<s.type>> \in Seq(Part) /\ <<t.type>> \in Seq(Part)
        /\ Len(<<s.type>>) = 1 /\ Len(<<t.type>>) = 1
        /\ <<s.type>>[1] = s.type /\ <<t.type>>[1] = t.type
    BY <1>3
  <1>5. s.type = t.type
    BY <1>1, <1>2, <1>4
  <1>6. Len(x) = Len(y)
    BY <1>1, <1>2, <1>4
  <1>7. \A i \in 1..Len(x) : x[i] = (<<s.type>> \o x)[i + 1] /\ y[i] = (<<t.type>> \o y)[i + 1]
    BY <1>1, <1>4, <1>6
  <1>8. x = y
    BY <1>1, <1>2, <1>6, <1>7
  <1> QED BY <1>2, <1>5, <1>8, Zenon DEF x, y

\* An account shares no record with another subject.
LEMMA OwnRecord ==
    ASSUME NEW a \in Accounts_, NEW s \in Subjects, NEW v, NEW w,
           buildBillingUsageName(a, v) = buildBillingUsageName(s, w)
    PROVE  a = s /\ v = w
  BY NamesTellKeys, Zenon DEF Accounts_

\* Initially nothing runs and no record exists.
LEMMA InitUsageInv == UsageInit => UsageInv
  <1> SUFFICES ASSUME UsageInit PROVE UsageInv
    OBVIOUS
  <1>1. hour = 0 /\ hour \in UsageHours
    BY UsageAssumption DEF UsageInit, UsageHours
  <1>2. use \in [UsagePods -> Nat]
    BY Zenon DEF UsageInit, NoUsage
  <1>3. run \in RunType /\ run.window = 0 /\ run.todo = {}
    BY Zenon DEF UsageInit, RunType, NoUsage
  <1>4. billing = [b \in Names |-> billing[b]]
    BY Zenon DEF UsageInit
  <1> QED BY <1>1, <1>2, <1>3, <1>4 DEF UsageInv

\* A run that is given up, by a restart or a failing list.
LEMMA RunEnds ==
    ASSUME UsageInv, hour' = hour, use' = use, billing' = billing,
           run' = [run EXCEPT !.pc = "idle", !.scope = {}, !.todo = {}, !.errs = TRUE]
    PROVE  UsageInv' /\ run'.pc = "idle" /\ run'.window = run.window
  <1>1. run' \in RunType /\ run'.window = run.window /\ run'.todo = {} /\ run'.pc = "idle"
    BY Zenon DEF UsageInv, RunType
  <1> QED BY <1>1 DEF UsageInv

\* A run begins in the hour it is.
LEMMA RunBegins ==
    ASSUME UsageInv, StartRun
    PROVE  UsageInv' /\ run'.pc = "collect" /\ run'.window = hour
  <1>1. run' \in RunType /\ run'.window = hour /\ run'.todo = {} /\ run'.pc = "collect"
    BY UsageAssumption, SMTT(40) DEF StartRun, UsageInv, RunType, NoUsage, UsageHours
  <1> QED BY <1>1, UsageAssumption, SMTT(40) DEF UsageInv, StartRun, UsageHours

\* The pods of a namespace are read.
LEMMA RunCollects ==
    ASSUME UsageInv, NEW n \in Scope, CollectUsage(n)
    PROVE  UsageInv' /\ run.pc = "collect" /\ run'.pc = "collect" /\ run'.window = run.window
  <1> DEFINE scope == run.scope \ {n}
             seen == [p \in UsagePods |-> IF p.ns = n THEN use[p] ELSE run.seen[p]]
  <1>1. run' = [run EXCEPT !.scope = scope, !.seen = seen]
    BY DEF CollectUsage
  <1>2. scope \in SUBSET Scope /\ seen \in [UsagePods -> Nat]
    BY Zenon DEF UsageInv, RunType
  <1> HIDE DEF scope, seen
  <1>3. /\ run' \in RunType /\ run'.window = run.window /\ run'.todo = run.todo
        /\ run'.pc = run.pc
    BY <1>1, <1>2, Zenon DEF UsageInv, RunType
  <1> QED BY <1>3 DEF UsageInv, CollectUsage

\* A phase ends and the next one begins.
LEMMA RunLists ==
    ASSUME UsageInv, ListSubjects
    PROVE  /\ UsageInv' /\ run'.window = run.window /\ run'.seen = run.seen
           /\ \/ run.pc = "collect" /\ run'.pc = "tenant"
              \/ run.pc \in {"tenant", "project"} /\ run'.pc \in {"project", "app"}
              \/ run.pc = "app" /\ run'.pc = "idle"
  <1> DEFINE pc == After[run.pc]
             todo == OfType(pc)
  <1>1. run' = [run EXCEPT !.pc = pc, !.todo = todo]
    BY DEF ListSubjects
  <1>2. /\ \/ run.pc = "collect" /\ pc = "tenant"
           \/ run.pc = "tenant" /\ pc = "project"
           \/ run.pc = "project" /\ pc = "app"
           \/ run.pc = "app" /\ pc = "idle"
    BY DEF ListSubjects, After
  <1>3. todo \in SUBSET Subjects /\ (pc = "idle" => todo = {})
    BY UsageAssumption, Zenon DEF OfType
  <1> HIDE DEF pc, todo
  <1>4. /\ run' \in RunType /\ run'.window = run.window /\ run'.todo = todo /\ run'.pc = pc
        /\ run'.seen = run.seen
    BY <1>1, <1>2, <1>3, Zenon DEF UsageInv, RunType, Writing
  <1>5. UsageInv'
    BY <1>2, <1>3, <1>4 DEF UsageInv, ListSubjects, Writing
  <1> QED BY <1>2, <1>4, <1>5, Zenon

\* A subject is written, or left out.
LEMMA RunWrites ==
    ASSUME UsageInv, NEW s \in Subjects, WriteSubject(s)
    PROVE  /\ UsageInv' /\ run.pc \in Writing /\ run'.pc = run.pc /\ run'.window = run.window
           /\ run'.seen = run.seen
           /\ billing' = billing \/ upsertBillingUsage(s)
  <1> DEFINE todo == run.todo \ {s}
  <1>1. run.todo # {} /\ todo \in SUBSET Subjects /\ todo \subseteq run.todo
    BY DEF WriteSubject, UsageInv, RunType
  <1>2. run' = [run EXCEPT !.todo = todo] \/ run' = [run EXCEPT !.todo = todo, !.errs = TRUE]
    BY DEF WriteSubject
  <1> HIDE DEF todo
  <1>3. /\ run' \in RunType /\ run'.window = run.window /\ run'.todo = todo /\ run'.pc = run.pc
        /\ run'.seen = run.seen
    BY <1>1, <1>2, Zenon DEF UsageInv, RunType
  <1>4. billing' = billing \/ upsertBillingUsage(s)
    BY DEF WriteSubject
  <1>5. billing' = [b \in Names |-> billing'[b]]
    <2>1. CASE billing' = billing
      BY <2>1 DEF UsageInv
    <2>2. CASE upsertBillingUsage(s)
      <3> DEFINE n == buildBillingUsageName(s, run.window)
                 r == [subject |-> s, meters |-> Totals(run.seen, s)]
      <3>1. billing' = [billing EXCEPT ![n] = r]
        BY <2>2, Zenon DEF upsertBillingUsage
      <3> HIDE DEF n, r
      <3>2. DOMAIN billing = Names
        BY DEF UsageInv
      <3> QED BY <3>1, <3>2, Zenon
    <2> QED BY <1>4, <2>1, <2>2, Zenon
  <1> QED BY <1>1, <1>3, <1>4, <1>5 DEF UsageInv, WriteSubject

-----------------------------------------------------------------------------

\* The records as the ledger sees them.
Records == [e \in Accounts_ \X UsageHours |-> Entry(e)]

\* No record of an account is there initially.
LEMMA InitLedger == UsageInit => Ledger!LedgerInit
  <1> SUFFICES ASSUME UsageInit PROVE Ledger!LedgerInit
    OBVIOUS
  <1>1. run.window = 0 /\ Observation = <<>>
    BY Zenon DEF UsageInit, Observation
  <1>2. ASSUME NEW e \in Accounts_ \X UsageHours PROVE Entry(e) = Absent
    <2>1. buildBillingUsageName(e[1], e[2]) \in Names
      BY DEF Names, Accounts_
    <2>2. NoRecord.meters = Absent
      BY Zenon DEF NoRecord
    <2> QED BY <2>1, <2>2, Zenon DEF Entry, UsageInit
  <1> QED BY <1>1, <1>2, Zenon DEF Ledger!LedgerInit

\* A step that writes no record and changes no observation.
LEMMA LedgerStutters ==
    ASSUME billing' = billing, run'.window = run.window, Observation' = Observation
    PROVE  UNCHANGED Ledger!ledgerVars
  <1>1. Records' = Records
    BY Zenon DEF Records, Entry
  <1> QED BY <1>1, Zenon DEF Records, Ledger!ledgerVars

\* A run that begins or ends.
LEMMA LedgerOpens ==
    ASSUME billing' = billing, run'.window >= run.window, run'.pc \notin Writing
    PROVE  Ledger!LedgerNext
  <1>1. Records' = Records
    BY Zenon DEF Records, Entry
  <1>2. Observation' = <<>>
    BY Zenon DEF Observation, Writing
  <1> QED BY <1>1, <1>2, Zenon DEF Records, Ledger!LedgerNext, Ledger!OpenHour

\* The collection is complete.
LEMMA LedgerObserves ==
    ASSUME billing' = billing, run'.window = run.window, run.pc \notin Writing, run'.pc \in Writing
    PROVE  Ledger!LedgerNext
  <1>1. Records' = Records
    BY Zenon DEF Records, Entry
  <1> DEFINE f == [s \in Accounts_ |-> Totals(run'.seen, s)]
  <1>2. Observation = <<>> /\ Observation' = <<f>>
    BY Zenon DEF Observation, Writing
  <1>3. DOMAIN f = Accounts_
    BY Zenon
  <1> HIDE DEF f
  <1>4. Len(<<f>>) = 1 /\ <<f>>[1] = f
    BY Zenon
  <1> QED BY <1>1, <1>2, <1>3, <1>4, Zenon DEF Records, Ledger!LedgerNext, Ledger!Observe

\* A record is written: it is that of one account, or of a subject that is none.
LEMMA LedgerEnters ==
    ASSUME UsageInv, NEW s \in Subjects, upsertBillingUsage(s), run.pc \in Writing,
           run'.pc = run.pc, run'.window = run.window, run'.seen = run.seen
    PROVE  Ledger!LedgerNext \/ UNCHANGED Ledger!ledgerVars
  <1> DEFINE n == buildBillingUsageName(s, run.window)
             r == [subject |-> s, meters |-> Totals(run.seen, s)]
             f == [a \in Accounts_ |-> Totals(run.seen, a)]
             D == Accounts_ \X UsageHours
  <1>1. run.window \in UsageHours
    BY UsageAssumption DEF UsageInv, UsageHours, RunType
  <1>2. n \in Names /\ r.meters = Totals(run.seen, s)
    BY <1>1 DEF Names
  <1>3. billing' = [billing EXCEPT ![n] = r]
    BY Zenon DEF upsertBillingUsage
  <1>4. Observation' = Observation /\ Observation = <<f>>
    BY Zenon DEF Observation, Writing
  <1>5. billing'[n] = r /\ \A b \in Names : b # n => billing'[b] = billing[b]
    <2> HIDE DEF n, r
    <2> QED BY <1>2, <1>3, Zenon DEF UsageInv
  <1>6. ASSUME NEW e \in D, e # <<s, run.window>> PROVE Entry(e)' = Entry(e)
    <2>1. e[1] \in Accounts_ /\ e[2] \in UsageHours /\ e = <<e[1], e[2]>>
      OBVIOUS
    <2>2. buildBillingUsageName(e[1], e[2]) # n
      BY <1>6, <2>1, OwnRecord
    <2>3. buildBillingUsageName(e[1], e[2]) \in Names
      BY <2>1 DEF Names, Accounts_
    <2> HIDE DEF n
    <2> QED BY <1>5, <2>2, <2>3, Zenon DEF Entry
  <1>7. CASE s \in Accounts_
    <2>1. <<s, run.window>> \in D
      BY <1>1, <1>7, Zenon
    <2>2. Entry(<<s, run.window>>)' = f[s]
      BY <1>2, <1>5, <1>7, Zenon DEF Entry
    <2>3. Records' = [Records EXCEPT ![<<s, run.window>>] = f[s]]
      BY <1>6, <2>1, <2>2, Zenon DEF Records
    <2> HIDE DEF f
    <2>4. Observation # <<>> /\ Observation[1] = f
      BY <1>4, Zenon
    <2>5. Ledger!Enter
      BY <1>4, <1>7, <2>3, <2>4, Zenon DEF Records, Ledger!Enter
    <2> QED BY <2>5, Zenon DEF Ledger!LedgerNext
  <1>8. CASE s \notin Accounts_
    <2>1. Records' = Records
      BY <1>6, <1>8 DEF Records
    <2> QED BY <1>4, <2>1, Zenon DEF Records, Ledger!ledgerVars
  <1> QED BY <1>7, <1>8, Zenon

\* Every step of the writer keeps its invariant and is a step of the ledger.
LEMMA NextLedger ==
    UsageInv /\ [UsageNext]_usageVars => UsageInv' /\ [Ledger!LedgerNext]_(Ledger!ledgerVars)
  <1> SUFFICES ASSUME UsageInv, [UsageNext]_usageVars
               PROVE  UsageInv' /\ (Ledger!LedgerNext \/ UNCHANGED Ledger!ledgerVars)
    OBVIOUS
  <1> DEFINE Goal == UsageInv' /\ (Ledger!LedgerNext \/ UNCHANGED Ledger!ledgerVars)
  <1>1. ASSUME run' = run, billing' = billing, hour' \in UsageHours, hour' >= hour,
               use' \in [UsagePods -> Nat]
        PROVE  Goal
    <2>1. run.window \in Nat /\ hour \in Nat
      BY UsageAssumption DEF UsageInv, RunType, UsageHours
    <2>2. UsageInv'
      BY <1>1, <2>1, UsageAssumption DEF UsageInv, UsageHours
    <2>3. Observation' = Observation
      BY <1>1, Zenon DEF Observation
    <2> QED BY <1>1, <2>2, <2>3, LedgerStutters
  <1>2. CASE UNCHANGED usageVars
    BY <1>1, <1>2, UsageAssumption, SMTT(40) DEF usageVars, UsageInv, UsageHours
  <1>3. CASE HourPasses
    BY <1>1, <1>3, UsageAssumption DEF HourPasses, UsageInv, UsageHours
  <1>4. ASSUME NEW p \in UsagePods, NEW n \in 0..1, PodChanges(p, n) PROVE Goal
    <2>1. use' \in [UsagePods -> Nat] /\ hour' >= hour
      BY <1>4, UsageAssumption DEF PodChanges, UsageInv, UsageHours
    <2> QED BY <1>1, <1>4, <2>1, Zenon DEF PodChanges, UsageInv
  <1>5. CASE updateConditionsOnError \/ ListFails \/ UsageRestart
    <2>1. UsageInv' /\ run'.pc = "idle" /\ run'.window = run.window /\ billing' = billing
      BY <1>5, RunEnds DEF updateConditionsOnError, ListFails, UsageRestart
    <2>2. run'.window >= run.window
      BY <2>1 DEF UsageInv, RunType
    <2> QED BY <2>1, <2>2, LedgerOpens, Zenon DEF Writing
  <1>6. CASE StartRun
    <2>1. UsageInv' /\ run'.pc = "collect" /\ run'.window = hour /\ billing' = billing
      BY <1>6, RunBegins, Zenon DEF StartRun
    <2>2. run'.window >= run.window
      BY <2>1, UsageAssumption, Zenon DEF UsageInv, RunType, UsageHours
    <2> QED BY <2>1, <2>2, LedgerOpens, Zenon DEF Writing
  <1>7. ASSUME NEW n \in Scope, CollectUsage(n) PROVE Goal
    <2>1. /\ UsageInv' /\ run.pc = "collect" /\ run'.pc = "collect" /\ run'.window = run.window
          /\ billing' = billing
      BY <1>7, RunCollects, Zenon DEF CollectUsage
    <2>2. Observation' = Observation
      BY <2>1, Zenon DEF Observation
    <2> QED BY <2>1, <2>2, LedgerStutters, Zenon
  <1>8. CASE ListSubjects
    <2>1. /\ UsageInv' /\ run'.window = run.window /\ run'.seen = run.seen /\ billing' = billing
          /\ \/ run.pc = "collect" /\ run'.pc = "tenant"
             \/ run.pc \in {"tenant", "project"} /\ run'.pc \in {"project", "app"}
             \/ run.pc = "app" /\ run'.pc = "idle"
      BY <1>8, RunLists DEF ListSubjects
    <2>2. run'.window >= run.window
      BY <2>1 DEF UsageInv, RunType
    <2>3. CASE run.pc = "collect"
      BY <2>1, <2>3, LedgerObserves, Zenon DEF Writing
    <2>4. CASE run.pc \in {"tenant", "project"}
      <3>1. Observation' = Observation
        BY <2>1, <2>4, Zenon DEF Observation
      <3> QED BY <2>1, <3>1, LedgerStutters, Zenon
    <2>5. CASE run.pc = "app"
      BY <2>1, <2>2, <2>5, LedgerOpens, Zenon DEF Writing
    <2> QED BY <2>1, <2>3, <2>4, <2>5, Zenon
  <1>9. ASSUME NEW s \in Subjects, WriteSubject(s) PROVE Goal
    <2>1. /\ UsageInv' /\ run.pc \in Writing /\ run'.pc = run.pc /\ run'.window = run.window
          /\ run'.seen = run.seen
          /\ billing' = billing \/ upsertBillingUsage(s)
      BY <1>9, RunWrites, Zenon
    <2>2. CASE billing' = billing
      <3>1. Observation' = Observation
        BY <2>1, Zenon DEF Observation
      <3> QED BY <2>1, <2>2, <3>1, LedgerStutters, Zenon
    <2>3. CASE upsertBillingUsage(s)
      BY <2>1, <2>3, LedgerEnters, Zenon
    <2> QED BY <2>1, <2>2, <2>3, Zenon
  <1> QED BY <1>2, <1>3, <1>4, <1>5, <1>6, <1>7, <1>8, <1>9, Zenon DEF UsageNext, RunStep

\* The usage writer implements the ledger: one record per subject and hour,
\* taken from one collection, and final once a run of a later hour has begun
\* (Reconcile and upsertBillingUsage).
THEOREM WriterKeepsLedger == UsageSpec => UsageLedgerKept
  <1>1. UsageSpec => []UsageInv
    BY InitUsageInv, NextLedger, PTL DEF UsageSpec
  <1> QED BY InitLedger, NextLedger, <1>1, PTL DEF UsageSpec, UsageLedgerKept, Ledger!LedgerSpec
=============================================================================
