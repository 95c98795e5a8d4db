-------------------------- MODULE AppLimitsProofs --------------------------
(***************************************************************************)
(* What is counted in module AppLifecycle: the fields a write changes and  *)
(* the load balancers of the project.                                      *)
(***************************************************************************)
EXTENDS AppLifecycleProofs, FiniteSetTheorems

\* A set within a singleton has at most one element.
LEMMA AtMostOne ==
    ASSUME NEW S, NEW x, S \subseteq {x}
    PROVE  Cardinality(S) <= 1
<1>1. IsFiniteSet({x}) /\ Cardinality({x}) = 1  BY FS_Singleton, Zenon
<1>2. Cardinality(S) <= Cardinality({x})  BY <1>1, FS_Subset
<1>. QED  BY <1>1, <1>2, SMTT(40)

\* An object, before and after a step that changes at most the field x.
Touched(old, new, x) == Changed(old, new) \subseteq {x}

\* The Deployment of a deploy is new, or gains the Secrets.
LEMMA DeploymentTouches ==
    ASSUME AppsInv, NEW q \in Procs, ApplyDeployment(q), NEW a \in Apps,
           dep[a] # None, dep'[a] # None
    PROVE  Touched(dep[a], dep'[a], "secret")
<1>1. Types /\ Held(req[q], App(q)) /\ RequestOK(req[q])  BY Zenon DEF AppsInv, Types
<1>2. CASE req[q].pc = "workload"
  <2>1. dep[App(q)] = None /\ App(q) \in Apps
    BY <1>1, <1>2, Zenon DEF Held, HeldBy, Listed, RequestOK, ControlOK, Building, Resting, App
  <2>2. dep' = [dep EXCEPT ![App(q)] = [rv |-> 1, f |-> [x \in Fields |-> 0]]]
    BY <1>2 DEF ApplyDeployment, At
  <2>3. dep'[a] = dep[a]  BY <1>1, <2>1, <2>2 DEF Types
  <2>. QED  BY <2>3 DEF Touched, Changed
<1>3. CASE req[q].pc = "envFrom" /\ a = App(q)
  <2>. DEFINE new == [rv |-> dep[a].rv + 1, f |-> [dep[a].f EXCEPT !["secret"] = 1]]
  <2>1. dep' = [dep EXCEPT ![a] = new]  BY <1>3 DEF ApplyDeployment, At
  <2>2. new.f = [dep[a].f EXCEPT !["secret"] = 1]  OBVIOUS
  <2>. HIDE DEF new
  <2>3. dep'[a] = new  BY <1>1, <2>1 DEF Types
  <2>4. dep[a].f \in [Fields -> Vals]  BY <1>1 DEF Types, Versioned
  <2>. QED  BY <2>2, <2>3, <2>4 DEF Touched, Changed
<1>4. CASE req[q].pc = "envFrom" /\ a # App(q)
  <2>. DEFINE new == [rv |-> dep[App(q)].rv + 1,
                      f |-> [dep[App(q)].f EXCEPT !["secret"] = 1]]
  <2>1. dep' = [dep EXCEPT ![App(q)] = new]  BY <1>4 DEF ApplyDeployment, At
  <2>. HIDE DEF new
  <2>2. dep'[a] = dep[a]  BY <1>1, <1>4, <2>1 DEF Types
  <2>. QED  BY <2>2 DEF Touched, Changed
<1>. QED  BY <1>2, <1>3, <1>4, Zenon DEF ApplyDeployment, At

\* An update of the Deployment starts from the version it replaces.
LEMMA UpdateTouches ==
    ASSUME AppsInv, NEW q \in Procs, updateAppDeployment(q), NEW a \in Apps,
           dep[a] # None, dep'[a] # None
    PROVE  Touched(dep[a], dep'[a], FieldOf[req[q].op])
<1>. DEFINE saw == req[q].saw
            f == FieldOf[req[q].op]
            new == [rv |-> saw.rv + 1, f |-> [saw.f EXCEPT ![f] = req[q].arg]]
<1>1. Types /\ Held(req[q], App(q)) /\ req[q].pc = "depPut"
  BY Zenon DEF AppsInv, updateAppDeployment, At
<1>2. CASE dep' = dep  BY <1>2 DEF Touched, Changed
<1>3. CASE /\ saw # None /\ dep[App(q)] # None /\ dep[App(q)].rv = saw.rv
           /\ dep' = [dep EXCEPT ![App(q)] = new]
  <2>1. saw \in Versioned(Fields) /\ Older(saw, dep[App(q)])  BY <1>1, <1>3, Zenon DEF Held, HeldBy, Listed
  <2>2. saw.f = dep[App(q)].f /\ saw.f \in [Fields -> Vals]  BY <1>3, <2>1, Zenon DEF Older, Versioned
  <2>3. new.f = [saw.f EXCEPT ![f] = req[q].arg]  OBVIOUS
  <2>. HIDE DEF new
  <2>4. CASE a = App(q)
    <3>1. dep'[a] = new  BY <1>1, <1>3, <2>4 DEF Types
    <3>. HIDE DEF f
    <3>2. Changed(dep[a], new) \subseteq {f}  BY <2>2, <2>3, <2>4, Zenon DEF Changed
    <3>. USE DEF f
    <3>. QED  BY <3>1, <3>2, Zenon DEF Touched
  <2>5. CASE a # App(q)
    <3>1. dep'[a] = dep[a]  BY <1>1, <1>3, <2>5 DEF Types
    <3>. QED  BY <3>1 DEF Touched, Changed
  <2>. QED  BY <2>4, <2>5
<1>. QED  BY <1>2, <1>3, Zenon DEF updateAppDeployment

\* An update of the App resource starts from the version it replaces.
LEMMA UpdateCRTouches ==
    ASSUME AppsInv, NEW q \in Procs, UpdateCR(q), NEW a \in Apps,
           cr[a] # None, cr'[a] # None
    PROVE  Touched(cr[a], cr'[a], FieldOf[req[q].op])
<1>. DEFINE saw == req[q].saw
            f == FieldOf[req[q].op]
            new == [rv |-> saw.rv + 1, f |-> [saw.f EXCEPT ![f] = req[q].arg]]
<1>1. Types /\ Held(req[q], App(q)) /\ req[q].pc = "crPut"  BY Zenon DEF AppsInv, UpdateCR, At
<1>2. CASE cr' = cr  BY <1>2 DEF Touched, Changed
<1>3. CASE /\ cr[App(q)] # None /\ cr[App(q)].rv = saw.rv
           /\ cr' = [cr EXCEPT ![App(q)] = new]
  <2>1. saw \in Versioned(CRFields) /\ Older(saw, cr[App(q)])  BY <1>1, <1>3, Zenon DEF Held, HeldBy, Listed
  <2>2. saw.f = cr[App(q)].f /\ saw.f \in [CRFields -> Vals]  BY <1>3, <2>1, Zenon DEF Older, Versioned
  <2>3. new.f = [saw.f EXCEPT ![f] = req[q].arg]  OBVIOUS
  <2>. HIDE DEF new
  <2>4. CASE a = App(q)
    <3>1. cr'[a] = new  BY <1>1, <1>3, <2>4 DEF Types
    <3>. HIDE DEF f
    <3>2. Changed(cr[a], new) \subseteq {f}  BY <2>2, <2>3, <2>4 DEF Changed
    <3>. USE DEF f
    <3>. QED  BY <3>1, <3>2 DEF Touched
  <2>5. CASE a # App(q)
    <3>1. cr'[a] = cr[a]  BY <1>1, <1>3, <2>5, Zenon DEF Types
    <3>. QED  BY <3>1 DEF Touched, Changed
  <2>. QED  BY <2>4, <2>5
<1>. QED  BY <1>2, <1>3, Zenon DEF UpdateCR

\* Every step of a request touches at most one field of what it rewrites.
LEMMA StepTouches ==
    ASSUME AppsInv, NEW q \in Procs, Step(q), NEW a \in Apps
    PROVE  /\ dep[a] # None /\ dep'[a] # None => \E x : Touched(dep[a], dep'[a], x)
           /\ cr[a] # None /\ cr'[a] # None => \E x : Touched(cr[a], cr'[a], x)
<1>. DEFINE Fine == /\ dep[a] # None /\ dep'[a] # None => \E x : Touched(dep[a], dep'[a], x)
                    /\ cr[a] # None /\ cr'[a] # None => \E x : Touched(cr[a], cr'[a], x)
<1>1. ASSUME UNCHANGED <<dep, cr>> PROVE Fine  BY <1>1, Zenon DEF Touched, Changed
<1>2. CASE Gate(q) \/ Event(q) \/ Stop(q)  BY <1>1, <1>2, Zenon DEF Gate, Event, Stop, cluster
<1>3. CASE planAppDeployment(q)  BY <1>1, <1>3, Zenon DEF planAppDeployment, Error, cluster
<1>4. CASE ApplyDeployment(q)
  <2>1. cr' = cr  BY <1>4, Zenon DEF ApplyDeployment
  <2>. QED  BY <1>4, <2>1, DeploymentTouches, Zenon DEF Touched, Changed
<1>5. CASE ApplyService(q) \/ ApplyIngress(q)
  BY <1>1, <1>5, Zenon DEF ApplyService, ApplyIngress, GoDespiteError, cluster
<1>6. CASE UpsertAppDomain(q) \/ ensureDNSForService(q)
  BY <1>1, <1>6, Zenon DEF UpsertAppDomain, ensureDNSForService, GoDespiteError, cluster
<1>7. CASE applyRawManifest(q)  BY <1>1, <1>7 DEF applyRawManifest
<1>8. CASE CreateApp(q) \/ recordRelease(q)
  BY <1>1, <1>8, Zenon DEF CreateApp, recordRelease, Error, cluster
<1>9. CASE ensureAppCRDForPlan(q)
  <2>1. CASE UNCHANGED <<dep, cr>>  BY <1>1, <2>1, Zenon
  <2>2. CASE /\ At(q, "crApply") /\ UNCHANGED dep
             /\ cr' = [cr EXCEPT ![App(q)] = [rv |-> 1, f |-> [x \in CRFields |-> 0]]]
    <3>1. Types /\ Held(req[q], App(q)) /\ RequestOK(req[q])  BY Zenon DEF AppsInv, Types
    <3>2. cr[App(q)] = None  BY <2>2, <3>1, Zenon DEF Held, HeldBy, Listed, RequestOK, ControlOK, Resting, At
    <3>3. cr[a] # None => cr'[a] = cr[a]  BY <2>2, <3>1, <3>2, Zenon DEF Types
    <3>. QED  BY <2>2, <3>3, Zenon DEF Touched, Changed
  <2>. QED  BY <1>9, <2>1, <2>2, Zenon DEF ensureAppCRDForPlan, GoDespiteError, cluster
<1>10. CASE mirrorAppCRD(q)  BY <1>1, <1>10, Zenon DEF mirrorAppCRD, GoDespiteError, cluster
<1>11. CASE loadAppCRD(q) \/ readAppDeployment(q) \/ patchBySlug(q)
  BY <1>1, <1>11, Zenon DEF loadAppCRD, readAppDeployment, patchBySlug, cluster
<1>12. CASE UpdateCR(q)
  <2>1. dep' = dep  BY <1>12, Zenon DEF UpdateCR
  <2>. QED  BY <1>12, <2>1, UpdateCRTouches, Zenon DEF Touched, Changed
<1>13. CASE updateAppDeployment(q)
  <2>1. cr' = cr  BY <1>13, Zenon DEF updateAppDeployment
  <2>. QED  BY <1>13, <2>1, UpdateTouches, Zenon DEF Touched, Changed
<1>14. CASE ReadRows(q) \/ CollectAppStatus(q) \/ domainStatuses(q)
  BY <1>1, <1>14, Zenon DEF ReadRows, CollectAppStatus, domainStatuses, GoDespiteError, cluster
<1>15. CASE DeleteReads(q) \/ DeleteRecords(q) \/ DeleteRows(q)
  BY <1>1, <1>15, Zenon DEF DeleteReads, DeleteRecords, DeleteRows, GoDespiteError, cluster
<1>16. CASE DeleteObjects(q)
  <2>1. CASE UNCHANGED <<dep, cr>>  BY <1>1, <2>1
  <2>2. CASE dep' = [dep EXCEPT ![App(q)] = None] /\ UNCHANGED cr
    <3>1. dep'[a] # None => dep'[a] = dep[a]  BY <2>2 DEF AppsInv, Types
    <3>. QED  BY <2>2, <3>1, Zenon DEF Touched, Changed
  <2>. QED  BY <1>16, <2>1, <2>2, Zenon DEF DeleteObjects, GoDespiteError, cluster
<1>. QED
  BY <1>2, <1>3, <1>4, <1>5, <1>6, <1>7, <1>8, <1>9, <1>10, <1>11, <1>12, <1>13, <1>14, <1>15,
     <1>16, Zenon
  DEF Step

\* UpdatesIsolated: no step carries back a field that another request changed
\* in between, for any number of overlapping requests (updateAppDeployment,
\* ScaleApp and UpdateAppImage).
THEOREM UpdatesAreIsolated == Spec => UpdatesIsolated
<1>. DEFINE Isolated ==
       \A a \in Apps :
         /\ dep[a] # None /\ dep'[a] # None => Cardinality(Changed(dep[a], dep'[a])) <= 1
         /\ cr[a] # None /\ cr'[a] # None => Cardinality(Changed(cr[a], cr'[a])) <= 1
<1>1. AppsInv /\ [Next]_vars => [Isolated]_vars
  <2>. SUFFICES ASSUME AppsInv, Next, NEW a \in Apps
                PROVE  /\ dep[a] # None /\ dep'[a] # None =>
                             Cardinality(Changed(dep[a], dep'[a])) <= 1
                       /\ cr[a] # None /\ cr'[a] # None =>
                             Cardinality(Changed(cr[a], cr'[a])) <= 1
    BY Zenon
  <2>1. /\ dep[a] # None /\ dep'[a] # None => \E x : Touched(dep[a], dep'[a], x)
        /\ cr[a] # None /\ cr'[a] # None => \E x : Touched(cr[a], cr'[a], x)
    <3>1. ASSUME UNCHANGED <<dep, cr>>
          PROVE  /\ Touched(dep[a], dep'[a], 0) /\ Touched(cr[a], cr'[a], 0)
      BY <3>1 DEF Touched, Changed
    <3>2. CASE \E q \in Procs : Step(q)  BY <3>2, StepTouches, Zenon
    <3>3. ASSUME NEW q \in Procs, Start(q) PROVE UNCHANGED <<dep, cr>>
      <4>1. CASE Asking(q)  BY <4>1, ZenonT(60) DEF Asking, Begin, cluster
      <4>2. CASE \E b \in Apps, s \in Specs : DeployApp(q, b, s)
        BY <4>2, Zenon DEF DeployApp, Begin, cluster
      <4>. QED  BY <3>3, <4>1, <4>2, StartIs, Zenon
    <3>4. ASSUME NEW b \in Apps, Background(b) PROVE UNCHANGED <<dep, cr>>
      BY <3>4, Zenon DEF Background, cluster
    <3>. QED  BY <3>1, <3>2, <3>3, <3>4, Zenon DEF Next
  <2>. QED  BY <2>1, AtMostOne, Zenon DEF Touched
<1>. QED  BY <1>1, AppsInductive, PTL DEF Spec, UpdatesIsolated

-----------------------------------------------------------------------------
(* The limit on load balancers.                                            *)

LBs == {a \in Apps : IsLB(a) /\ WantsLB(spec[a])}
LBPlaces == {"workload", "envFrom", "service"}

\* The bound and what it rests on: crowd counts every deploy in flight.
Bounded ==
    /\ crowd \in Nat /\ Cardinality(Deploying) <= crowd
    /\ \/ blind
       \/ LBs = {} /\ Planned = {}
       \/ Cardinality(LBs) + Cardinality(Planned) < MaxLB + crowd

\* What a request does that comes no nearer to a load balancer.
CalmRequest(q) ==
    /\ Rest(q)
    /\ req'[q].pc \in LBPlaces /\ WantsLB(spec[req'[q].app]) =>
          req[q].pc \in LBPlaces /\ req'[q].app = req[q].app
    /\ req'[q].op = "deploy" /\ req'[q].pc \notin Resting =>
          req[q].op = "deploy" /\ req[q].pc \notin Resting
CalmObjects ==
    \A a \in Apps : "service" \in objs'[a] => "service" \in objs[a] \/ ~WantsLB(spec[a])
Calm(q) ==
    CalmRequest(q) /\ CalmObjects /\ UNCHANGED <<spec, crowd>> /\ (blind => blind')

\* The sets that are counted are finite.
LEMMA Counted ==
    /\ IsFiniteSet(Deploying) /\ IsFiniteSet(LBs) /\ IsFiniteSet(Planned)
    /\ Cardinality(Deploying) \in Nat /\ Cardinality(LBs) \in Nat /\ Cardinality(Planned) \in Nat
<1>1. Deploying \subseteq Procs /\ LBs \subseteq Apps /\ Planned \subseteq Procs
  BY Zenon DEF Deploying, LBs, Planned
<1>2. IsFiniteSet(Deploying) /\ IsFiniteSet(LBs) /\ IsFiniteSet(Planned)
  BY <1>1, FS_Subset, AppsAssumption, Zenon
<1>. QED  BY <1>2, FS_CardinalityType, Zenon

\* Of two finite sets the smaller has no more elements.
LEMMA Fewer ==
    ASSUME NEW S, NEW T, S \subseteq T, IsFiniteSet(T)
    PROVE  Cardinality(S) <= Cardinality(T) /\ Cardinality(S) \in Nat /\ Cardinality(T) \in Nat
<1>1. IsFiniteSet(S) /\ Cardinality(S) <= Cardinality(T)  BY FS_Subset, Zenon
<1>. QED  BY <1>1, FS_CardinalityType, Zenon

\* With no more load balancers, plans and deploys, the bound stays.
LEMMA FewerBounds ==
    ASSUME Bounded, LBs' \subseteq LBs, Planned' \subseteq Planned, Deploying' \subseteq Deploying,
           crowd' = crowd, blind => blind'
    PROVE  Bounded'
<1>1. /\ IsFiniteSet(Deploying) /\ IsFiniteSet(LBs) /\ IsFiniteSet(Planned)
  BY Counted, Zenon
<1>2. Cardinality(Deploying') <= Cardinality(Deploying)
      /\ Cardinality(Deploying') \in Nat /\ Cardinality(Deploying) \in Nat
  BY <1>1, Fewer, Zenon
<1>3. Cardinality(LBs') <= Cardinality(LBs)
      /\ Cardinality(LBs') \in Nat /\ Cardinality(LBs) \in Nat
  BY <1>1, Fewer, Zenon
<1>4. Cardinality(Planned') <= Cardinality(Planned)
      /\ Cardinality(Planned') \in Nat /\ Cardinality(Planned) \in Nat
  BY <1>1, Fewer, Zenon
<1>5. crowd \in Nat /\ Cardinality(Deploying) <= crowd /\ MaxLB \in Nat
  BY AppsAssumption, Zenon DEF Bounded
<1>6. crowd' \in Nat /\ Cardinality(Deploying') <= crowd'  BY <1>2, <1>5
<1>7. CASE blind  BY <1>6, <1>7, Zenon DEF Bounded
<1>8. CASE LBs = {} /\ Planned = {}
  <2>1. LBs' = {} /\ Planned' = {}  BY <1>8, Zenon
  <2>. QED  BY <1>6, <2>1, Zenon DEF Bounded
<1>9. CASE Cardinality(LBs) + Cardinality(Planned) < MaxLB + crowd
  <2>1. Cardinality(LBs') + Cardinality(Planned') < MaxLB + crowd'  BY <1>3, <1>4, <1>5, <1>9
  <2>. QED  BY <1>6, <2>1, Zenon DEF Bounded
<1>. QED  BY <1>7, <1>8, <1>9, Zenon DEF Bounded

\* A calm step keeps the bound.
LEMMA CalmBounds ==
    ASSUME Bounded, NEW q \in Procs, Calm(q)
    PROVE  Bounded'
<1>1. LBs' \subseteq LBs
  BY Zenon DEF Calm, CalmObjects, LBs, IsLB, WantsLB
<1>2. Planned' \subseteq Planned
  <2>. SUFFICES ASSUME NEW r \in Procs, req'[r].pc \in LBPlaces, WantsLB(spec[req'[r].app])
                PROVE  req[r].pc \in LBPlaces /\ WantsLB(spec[req[r].app])
    BY Zenon DEF Calm, Planned, LBPlaces, SpecOf, App
  <2>1. CASE r = q  BY <2>1, Zenon DEF Calm, CalmRequest
  <2>2. CASE r # q
    <3>1. req'[r] = req[r]  BY <2>2, Zenon DEF Calm, CalmRequest, Rest
    <3>. QED  BY <3>1, Zenon
  <2>. QED  BY <2>1, <2>2, Zenon
<1>3. Deploying' \subseteq Deploying
  <2>. SUFFICES ASSUME NEW r \in Procs, req'[r].op = "deploy", req'[r].pc \notin Resting
                PROVE  req[r].op = "deploy" /\ req[r].pc \notin Resting
    BY Zenon DEF Deploying, Idle
  <2>1. CASE r = q  BY <2>1, Zenon DEF Calm, CalmRequest
  <2>2. CASE r # q
    <3>1. req'[r] = req[r]  BY <2>2, Zenon DEF Calm, CalmRequest, Rest
    <3>. QED  BY <3>1, Zenon
  <2>. QED  BY <2>1, <2>2, Zenon
<1>. QED  BY <1>1, <1>2, <1>3, FewerBounds, Zenon DEF Calm

\* A request that ends, or goes on to a place away from the plans, is calm.
LEMMA MovesCalm ==
    ASSUME Types, NEW q \in Procs, ~Idle(q),
           \/ \E pc \in Places \ LBPlaces :
                 Go(q, pc) \/ GoDespiteError(q, pc) \/ \E o : Keep(q, pc, o)
           \/ Fail(q) \/ Finish(q)
    PROVE  CalmRequest(q)
<1>1. ASSUME NEW pc \in Places \ LBPlaces, Go(q, pc) \/ GoDespiteError(q, pc) \/ \E o : Keep(q, pc, o)
      PROVE  CalmRequest(q)
  <2>1. Rest(q) /\ req'[q].pc = pc /\ req'[q].op = req[q].op
    BY <1>1, GoMoves, DespiteMoves, KeepMoves, ZenonT(60) DEF Onward
  <2>. QED  BY <2>1, Zenon DEF CalmRequest, Idle
<1>2. ASSUME Fail(q) PROVE CalmRequest(q)
  <2>1. Rest(q) /\ req'[q].pc = "idle"  BY <1>2, FailMoves, FreeSlot, Zenon
  <2>. QED  BY <2>1, Zenon DEF CalmRequest, LBPlaces, Resting
<1>3. ASSUME Finish(q) PROVE CalmRequest(q)
  <2>1. Rest(q) /\ (req'[q].pc = "idle" \/ req'[q].pc = "done")
    BY <1>3, FinishMoves, FreeSlot, Zenon
  <2>. QED  BY <2>1, Zenon DEF CalmRequest, LBPlaces, Resting
<1>. QED  BY <1>1, <1>2, <1>3, Zenon

\* Planning a load balancer: the Services were counted at this moment, and the
\* other plans are those of other deploys in flight.
LEMMA PlanBounds ==
    ASSUME AppsInv, Bounded, NEW q \in Procs, planAppDeployment(q), UNCHANGED spec
    PROVE  Bounded'
<1>. DEFINE s == SpecOf(q)
            next == IF s.src = "image" THEN "workload" ELSE "raw"
            all == {a \in Apps : IsLB(a)}
<1>1. /\ Types /\ req[q].pc = "plan" /\ req[q].op = "deploy" /\ ~Idle(q)
      /\ next \in Places \ Resting
  <2>1. Types /\ req[q].pc = "plan" /\ RequestOK(req[q])  BY Zenon DEF AppsInv, Types, planAppDeployment, At
  <2>. QED  BY <2>1, Zenon DEF RequestOK, ControlOK, Building, Places, Resting, Idle
<1>2. objs' = objs /\ crowd' = crowd /\ (blind => blind')
  <2>1. objs' = objs /\ crowd' = crowd /\ (blind' = blind \/ blind' = TRUE)
    BY Zenon DEF planAppDeployment, Error, cluster, history
  <2>2. CASE blind' = blind  BY <2>1, <2>2, Zenon
  <2>3. CASE blind' = TRUE  BY <2>1, <2>3, Zenon
  <2>. QED  BY <2>1, <2>2, <2>3, Zenon
<1>3. CASE Fail(q)
  BY <1>1, <1>2, <1>3, MovesCalm, CalmBounds, Zenon DEF Calm, CalmObjects
<1>4. ASSUME Go(q, next)
      PROVE  /\ Rest(q) /\ req'[q].op = req[q].op /\ req'[q].pc = next
             /\ req'[q].app = req[q].app
  BY <1>1, <1>4, GoMoves, Zenon DEF Onward
<1>5. CASE Go(q, next) /\ ~WantsLB(s)
  <2>1. CalmRequest(q)  BY <1>1, <1>4, <1>5, Zenon DEF CalmRequest, SpecOf, App, Idle
  <2>. QED  BY <1>2, <2>1, CalmBounds, Zenon DEF Calm, CalmObjects
<1>6. CASE Go(q, next) /\ WantsLB(s) /\ (blind' \/ Cardinality(all) + 1 <= MaxLB)
  <2>1. Deploying' \subseteq Deploying
    BY <1>1, <1>4, <1>6, Zenon DEF Deploying, Idle, Rest
  <2>2. LBs' = LBs  BY <1>2, Zenon DEF LBs, IsLB, WantsLB
  <2>3. Planned' \subseteq Deploying
    <3>. SUFFICES ASSUME NEW r \in Procs, req'[r].pc \in LBPlaces
                  PROVE  req[r].op = "deploy" /\ req[r].pc \notin Resting
      BY Zenon DEF Planned, Deploying, LBPlaces, Idle
    <3>1. CASE r = q  BY <1>1, <3>1, Zenon DEF Idle
    <3>2. CASE r # q
      <4>1. req'[r] = req[r] /\ RequestOK(req[r])  BY <1>1, <1>4, <1>6, <3>2, Zenon DEF Rest, Types
      <4>. QED  BY <4>1, Zenon DEF RequestOK, ControlOK, LBPlaces, Building, Resting
    <3>. QED  BY <3>1, <3>2, Zenon
  <2>4. LBs \subseteq all /\ IsFiniteSet(all)
    <3>1. all \subseteq Apps /\ LBs \subseteq all  BY Zenon DEF LBs
    <3>. QED  BY <3>1, FS_Subset, AppsAssumption, Zenon
  <2>. HIDE DEF all, next, s
  <2>5. /\ Cardinality(LBs) <= Cardinality(all) /\ Cardinality(LBs) \in Nat
        /\ Cardinality(all) \in Nat
    BY <2>4, Fewer, Zenon
  <2>6. /\ Cardinality(Planned') <= Cardinality(Deploying) /\ Cardinality(Planned') \in Nat
        /\ Cardinality(Deploying) \in Nat
    BY <2>3, Counted, Fewer, Zenon
  <2>7. Cardinality(Deploying') <= Cardinality(Deploying) /\ Cardinality(Deploying') \in Nat
    BY <2>1, Counted, Fewer, Zenon
  <2>8. crowd \in Nat /\ Cardinality(Deploying) <= crowd /\ MaxLB \in Nat
    BY AppsAssumption, Zenon DEF Bounded
  <2>9. crowd' \in Nat /\ Cardinality(Deploying') <= crowd'  BY <1>2, <2>6, <2>7, <2>8
  <2>10. CASE blind'  BY <2>9, <2>10, Zenon DEF Bounded
  <2>11. CASE Cardinality(all) + 1 <= MaxLB
    <3>1. Cardinality(LBs) + Cardinality(Planned') < MaxLB + crowd'
      BY <1>2, <2>5, <2>6, <2>8, <2>11
    <3>. QED  BY <2>2, <2>9, <3>1, Zenon DEF Bounded
  <2>. QED  BY <1>6, <2>10, <2>11, Zenon
<1>. QED  BY <1>3, <1>5, <1>6, Zenon DEF planAppDeployment, Error

\* Creating the Service turns a plan into a load balancer.
LEMMA ServiceBounds ==
    ASSUME AppsInv, Bounded, NEW q \in Procs, ApplyService(q), UNCHANGED spec
    PROVE  Bounded'
<1>. PICK a : a = App(q)  BY Zenon
<1>. DEFINE pc == AfterService(SpecOf(q))
<1>1. /\ Types /\ req[q].pc = "service" /\ req[q].op = "deploy" /\ ~Idle(q) /\ a \in Apps
      /\ pc \in Places \ LBPlaces
  <2>1. Types /\ req[q].pc = "service" /\ RequestOK(req[q])  BY Zenon DEF AppsInv, Types, ApplyService, At
  <2>. QED
    BY <2>1, Zenon
    DEF RequestOK, ControlOK, Building, Places, Resting, Idle, AfterService, LBPlaces, App
<1>2. Go(q, pc) /\ crowd' = crowd /\ blind' = blind /\ objs' = [objs EXCEPT ![a] = @ \cup {"service"}]
  BY Zenon DEF ApplyService, history
<1>3. CalmRequest(q)  BY <1>1, <1>2, MovesCalm, Zenon
<1>4. \A b \in Apps \ {a} : objs'[b] = objs[b]  BY <1>1, <1>2, Zenon DEF Types
<1>5. CASE ~WantsLB(spec[a])
  BY <1>2, <1>3, <1>4, <1>5, CalmBounds, Zenon DEF Calm, CalmObjects
<1>6. CASE WantsLB(spec[a])
  <2>1. LBs' \subseteq LBs \cup {a}  BY <1>4, Zenon DEF LBs, IsLB, WantsLB
  <2>2. Planned' \subseteq Planned \ {q} /\ q \in Planned
    <3>1. q \in Planned  BY <1>1, <1>6, Zenon DEF Planned, SpecOf, App
    <3>2. Rest(q) /\ req'[q].pc = pc  BY <1>1, <1>2, GoMoves, Zenon DEF Onward
    <3>3. ASSUME NEW r \in Planned' PROVE r \in Planned \ {q}
      <4>1. r # q  BY <1>1, <3>2, <3>3, Zenon DEF Planned, LBPlaces
      <4>2. req'[r] = req[r]  BY <3>2, <3>3, <4>1, Zenon DEF Rest, Planned
      <4>. QED  BY <3>3, <4>1, <4>2, Zenon DEF Planned, SpecOf, App
    <3>. QED  BY <3>1, <3>3, Zenon
  <2>3. Deploying' \subseteq Deploying
    <3>. SUFFICES ASSUME NEW r \in Procs, req'[r].op = "deploy", req'[r].pc \notin Resting
                  PROVE  req[r].op = "deploy" /\ req[r].pc \notin Resting
      BY Zenon DEF Deploying, Idle
    <3>1. CASE r = q  BY <1>3, <3>1, Zenon DEF CalmRequest
    <3>2. CASE r # q
      <4>1. req'[r] = req[r]  BY <1>3, <3>2, Zenon DEF CalmRequest, Rest
      <4>. QED  BY <4>1, Zenon
    <3>. QED  BY <3>1, <3>2, Zenon
  <2>4. /\ Cardinality(LBs') <= Cardinality(LBs) + 1 /\ Cardinality(LBs') \in Nat
        /\ Cardinality(LBs) \in Nat
    <3>1. IsFiniteSet(LBs) /\ IsFiniteSet(LBs \cup {a}) /\ Cardinality(LBs) \in Nat
      BY Counted, FS_AddElement, Zenon
    <3>2. Cardinality(LBs \cup {a}) <= Cardinality(LBs) + 1
      BY <3>1, FS_AddElement
    <3>3. Cardinality(LBs') <= Cardinality(LBs \cup {a}) /\ Cardinality(LBs') \in Nat
          /\ Cardinality(LBs \cup {a}) \in Nat
      BY <2>1, <3>1, Fewer, Zenon
    <3>. QED  BY <3>1, <3>2, <3>3
  <2>5. /\ Cardinality(Planned') + 1 <= Cardinality(Planned) /\ Cardinality(Planned') \in Nat
        /\ Cardinality(Planned) \in Nat
    <3>1. IsFiniteSet(Planned) /\ Cardinality(Planned) \in Nat  BY Counted, Zenon
    <3>2. IsFiniteSet(Planned \ {q}) /\ Cardinality(Planned \ {q}) = Cardinality(Planned) - 1
      BY <2>2, <3>1, FS_RemoveElement, Zenon
    <3>3. Cardinality(Planned') <= Cardinality(Planned \ {q}) /\ Cardinality(Planned') \in Nat
      BY <2>2, <3>2, Fewer, Zenon
    <3>. QED  BY <3>1, <3>2, <3>3
  <2>6. /\ Cardinality(Deploying') <= Cardinality(Deploying) /\ Cardinality(Deploying') \in Nat
        /\ Cardinality(Deploying) \in Nat
    BY <2>3, Counted, Fewer, Zenon
  <2>7. crowd \in Nat /\ Cardinality(Deploying) <= crowd /\ MaxLB \in Nat
    BY AppsAssumption, Zenon DEF Bounded
  <2>8. crowd' \in Nat /\ Cardinality(Deploying') <= crowd'  BY <1>2, <2>6, <2>7
  <2>9. CASE blind  BY <1>2, <2>8, <2>9, Zenon DEF Bounded
  <2>10. CASE Cardinality(LBs) + Cardinality(Planned) < MaxLB + crowd
    <3>1. Cardinality(LBs') + Cardinality(Planned') < MaxLB + crowd'
      BY <1>2, <2>4, <2>5, <2>7, <2>10, SMTT(40)
    <3>. QED  BY <2>8, <3>1, Zenon DEF Bounded
  <2>. QED  BY <2>2, <2>9, <2>10, Zenon DEF Bounded
<1>. QED  BY <1>5, <1>6, Zenon

\* Every other step of a request is calm.
LEMMA StepBounds ==
    ASSUME AppsInv, Bounded, NEW q \in Procs, Step(q)
    PROVE  Bounded'
<1>. PICK a : a = App(q)  BY Zenon
<1>1. spec' = spec /\ Types /\ RequestOK(req[q])  BY Zenon DEF Step, AppsInv, Types
<1>2. CASE planAppDeployment(q)  BY <1>1, <1>2, PlanBounds, Zenon
<1>3. CASE ApplyService(q)  BY <1>1, <1>3, ServiceBounds, Zenon
<1>4. ASSUME CalmRequest(q), crowd' = crowd, blind' = blind, objs' = objs
      PROVE  Bounded'
  BY <1>1, <1>4, CalmBounds, Zenon DEF Calm, CalmObjects
<1>5. ASSUME CalmRequest(q), crowd' = crowd, blind' = blind, NEW k \in Kinds \ {"service"},
             objs' = [objs EXCEPT ![a] = @ \cup {k}]
      PROVE  Bounded'
  <2>1. \A b \in Apps : "service" \in objs'[b] => "service" \in objs[b]
    BY <1>1, <1>5, Zenon DEF Types
  <2>. QED  BY <1>1, <1>5, <2>1, CalmBounds, Zenon DEF Calm, CalmObjects
<1>6. CASE Gate(q)
  <2>1. /\ ~Idle(q) /\ objs' = objs /\ crowd' = crowd /\ blind' = blind
        /\ \/ Fail(q)
           \/ Go(q, "plan") \/ Go(q, "dRead") \/ Go(q, "depGet") \/ Go(q, "uRead")
    BY <1>6, Zenon DEF Gate, At, Idle, Resting, cluster, history
  <2>2. {"plan", "dRead", "depGet", "uRead"} \subseteq Places \ LBPlaces
    BY Zenon DEF Places, Building, LBPlaces
  <2>. QED  BY <1>1, <1>4, <2>1, <2>2, MovesCalm, Zenon
<1>7. CASE Event(q) \/ Stop(q) \/ patchBySlug(q)
  <2>1. /\ ~Idle(q) /\ objs' = objs /\ crowd' = crowd /\ blind' = blind
        /\ Fail(q) \/ Finish(q) \/ Go(q, "wPatch")
    BY <1>7, Zenon DEF Event, Stop, patchBySlug, At, Idle, Resting, cluster, history
  <2>2. "wPatch" \in Places \ LBPlaces  BY Zenon DEF Places, LBPlaces
  <2>. QED  BY <1>1, <1>4, <2>1, <2>2, MovesCalm, Zenon
<1>8. CASE ApplyDeployment(q)
  <2>1. \E pc : Go(q, pc) /\ req[q].pc \in LBPlaces
    BY <1>8, Zenon DEF ApplyDeployment, At, LBPlaces
  <2>2. /\ Rest(q) /\ req'[q].app = req[q].app /\ req'[q].op = req[q].op
        /\ req[q].pc \in LBPlaces
    BY <1>1, <2>1, GoMoves, Zenon DEF Onward
  <2>3. CalmRequest(q)  BY <2>2, Zenon DEF CalmRequest, LBPlaces, Resting
  <2>4. crowd' = crowd /\ blind' = blind /\ objs' = [objs EXCEPT ![a] = @ \cup {"workload"}]
    BY <1>8, Zenon DEF ApplyDeployment, history
  <2>. QED  BY <1>5, <2>3, <2>4, Zenon DEF Kinds, Docs
<1>9. CASE ApplyIngress(q)
  <2>1. /\ ~Idle(q) /\ crowd' = crowd /\ blind' = blind
        /\ Go(q, "ingress") \/ Go(q, "domain") \/ GoDespiteError(q, "ingress")
    BY <1>9, Zenon DEF ApplyIngress, GoDespiteError, At, Idle, Resting, history
  <2>2. {"ingress", "domain"} \subseteq Places \ LBPlaces  BY Zenon DEF Places, Building, LBPlaces
  <2>3. CalmRequest(q)  BY <1>1, <2>1, <2>2, MovesCalm, Zenon
  <2>4. \/ objs' = objs
        \/ objs' = [objs EXCEPT ![a] = @ \cup {"cert"}]
        \/ objs' = [objs EXCEPT ![a] = @ \cup {"ingress"}]
    BY <1>9, Zenon DEF ApplyIngress, GoDespiteError, cluster
  <2>. QED  BY <1>4, <1>5, <2>1, <2>3, <2>4, Zenon DEF Kinds, Docs
<1>10. CASE UpsertAppDomain(q) \/ ensureDNSForService(q) \/ CreateApp(q) \/ recordRelease(q)
  <2>1. /\ ~Idle(q) /\ objs' = objs /\ crowd' = crowd /\ blind' = blind
        /\ \/ Go(q, "dns") \/ Go(q, "row") \/ GoDespiteError(q, "row")
           \/ Fail(q) \/ Go(q, "release") \/ Go(q, "crApply") \/ Go(q, "event")
    BY <1>10, Zenon
    DEF UpsertAppDomain, ensureDNSForService, CreateApp, recordRelease, Error, GoDespiteError, At,
        Idle, Resting, cluster, history
  <2>2. {"dns", "row", "release", "crApply", "event"} \subseteq Places \ LBPlaces
    BY Zenon DEF Places, Building, LBPlaces
  <2>. QED  BY <1>1, <1>4, <2>1, <2>2, MovesCalm, Zenon
<1>11. CASE applyRawManifest(q)
  <2>1. crowd' = crowd /\ blind' = blind /\ req[q].pc = "raw"
    BY <1>11, Zenon DEF applyRawManifest, At, history
  <2>2. CASE Go(q, "row") /\ objs' = objs
    <3>1. "row" \in Places \ LBPlaces /\ ~Idle(q)
      BY <2>1, Zenon DEF Places, Building, LBPlaces, Idle, Resting
    <3>. QED  BY <1>1, <1>4, <2>1, <2>2, <3>1, MovesCalm, Zenon
  <2>3. CASE \E i : req' = [req EXCEPT ![q].doc = i]
    <3>1. PICK i : req' = [req EXCEPT ![q].doc = i]  BY <2>3, Zenon
    <3>. DEFINE new == [req[q] EXCEPT !.doc = i]
    <3>2. DOMAIN req = Procs /\ DOMAIN req[q] = RequestFields
      BY <1>1, Zenon DEF Types, RequestOK
    <3>3. new.pc = req[q].pc /\ new.op = req[q].op  BY <3>2 DEF RequestFields
    <3>4. req'[q] = new /\ Rest(q)  BY <3>1, <3>2 DEF Rest
    <3>. HIDE DEF new
    <3>5. CalmRequest(q)  BY <2>1, <3>3, <3>4, Zenon DEF CalmRequest, LBPlaces, Resting
    <3>6. ~WantsLB(spec[a])
      BY <2>1, Zenon DEF AppsInv, Held, HeldBy, WantsLB
    <3>7. CalmObjects  BY <1>1, <1>11, <3>6, Zenon DEF CalmObjects, applyRawManifest, Types
    <3>. QED  BY <1>1, <2>1, <3>5, <3>7, CalmBounds, Zenon DEF Calm
  <2>. QED  BY <1>11, <2>2, <2>3, Zenon DEF applyRawManifest
<1>12. CASE ensureAppCRDForPlan(q) \/ mirrorAppCRD(q)
  <2>1. /\ ~Idle(q) /\ objs' = objs /\ crowd' = crowd /\ blind' = blind
        /\ \/ Go(q, "crLoad") \/ Go(q, "event") \/ (\E o : Keep(q, "mirror", o))
           \/ GoDespiteError(q, "event") \/ Go(q, "sDomains") \/ GoDespiteError(q, "sDomains")
    BY <1>12, Zenon
    DEF ensureAppCRDForPlan, mirrorAppCRD, GoDespiteError, At, Idle, Resting, cluster, history
  <2>2. {"crLoad", "event", "mirror", "sDomains"} \subseteq Places \ LBPlaces
    BY Zenon DEF Places, LBPlaces
  <2>. QED  BY <1>1, <1>4, <2>1, <2>2, MovesCalm, Zenon
<1>13. CASE loadAppCRD(q) \/ readAppDeployment(q)
  <2>1. /\ ~Idle(q) /\ objs' = objs /\ crowd' = crowd /\ blind' = blind
        /\ \/ Fail(q) \/ Go(q, "uLoad") \/ Go(q, "depGet")
           \/ (\E o : Keep(q, "crPut", o)) \/ (\E o : Keep(q, "depPut", o))
    BY <1>13, Zenon DEF loadAppCRD, readAppDeployment, At, Idle, Resting, cluster, history
  <2>2. {"uLoad", "depGet", "crPut", "depPut"} \subseteq Places \ LBPlaces
    BY Zenon DEF Places, LBPlaces
  <2>. QED  BY <1>1, <1>4, <2>1, <2>2, MovesCalm, Zenon
<1>14. CASE UpdateCR(q) \/ updateAppDeployment(q)
  <2>1. /\ ~Idle(q) /\ objs' = objs /\ crowd' = crowd /\ blind' = blind
        /\ Fail(q) \/ Go(q, "event") \/ (\E o : Keep(q, "mirror", o))
    BY <1>14, Zenon DEF UpdateCR, updateAppDeployment, At, Idle, Resting, history
  <2>2. {"event", "mirror"} \subseteq Places \ LBPlaces  BY Zenon DEF Places, LBPlaces
  <2>. QED  BY <1>1, <1>4, <2>1, <2>2, MovesCalm, Zenon
<1>15. CASE ReadRows(q) \/ domainStatuses(q)
  <2>1. /\ ~Idle(q) /\ objs' = objs /\ crowd' = crowd /\ blind' = blind
    BY <1>15, Zenon DEF ReadRows, domainStatuses, At, Idle, Resting, cluster, history
  <2>2. "sCollect" \in Places \ LBPlaces  BY Zenon DEF Places, LBPlaces
  <2>3. CASE Go(q, "sCollect") \/ Fail(q) \/ Finish(q)
    BY <1>1, <1>4, <2>1, <2>2, <2>3, MovesCalm, Zenon
  <2>4. ASSUME NEW new, req' = [req EXCEPT ![q] = new], new.op = req[q].op,
               new.pc \in {"sDomains", "sCollect"}
        PROVE  CalmRequest(q)
    <3>1. DOMAIN req = Procs  BY <1>1, Zenon DEF Types
    <3>2. req'[q] = new /\ Rest(q)  BY <2>4, <3>1, Zenon DEF Rest
    <3>. QED  BY <2>1, <2>4, <3>2, Zenon DEF CalmRequest, LBPlaces, Resting, Idle
  <2>5. CASE \E t : req' = [req EXCEPT ![q].todo = t, ![q].pc = "sDomains"]
    <3>1. PICK t : req' = [req EXCEPT ![q].todo = t, ![q].pc = "sDomains"]  BY <2>5, Zenon
    <3>2. DOMAIN req[q] = RequestFields  BY <1>1, Zenon DEF RequestOK
    <3>. DEFINE new == [req[q] EXCEPT !.todo = t, !.pc = "sDomains"]
    <3>3. new.op = req[q].op /\ new.pc = "sDomains"  BY <3>2 DEF RequestFields
    <3>4. req' = [req EXCEPT ![q] = new]  BY <3>1, Zenon
    <3>. HIDE DEF new
    <3>. QED  BY <1>4, <2>1, <2>4, <3>3, <3>4, Zenon
  <2>6. CASE \E b \in req[q].todo :
                req' = [req EXCEPT ![q].app = b, ![q].todo = @ \ {b}, ![q].pc = "sCollect"]
    <3>1. PICK b \in req[q].todo :
                 req' = [req EXCEPT ![q].app = b, ![q].todo = @ \ {b}, ![q].pc = "sCollect"]
      BY <2>6, Zenon
    <3>2. DOMAIN req[q] = RequestFields  BY <1>1, Zenon DEF RequestOK
    <3>. DEFINE new == [req[q] EXCEPT !.app = b, !.todo = @ \ {b}, !.pc = "sCollect"]
    <3>3. new.op = req[q].op /\ new.pc = "sCollect"  BY <3>2 DEF RequestFields
    <3>4. req' = [req EXCEPT ![q] = new]  BY <3>1, Zenon
    <3>. HIDE DEF new
    <3>. QED  BY <1>4, <2>1, <2>4, <3>3, <3>4, Zenon
  <2>. QED  BY <1>15, <2>3, <2>5, <2>6, Zenon DEF ReadRows, domainStatuses
<1>16. CASE CollectAppStatus(q) \/ DeleteReads(q) \/ DeleteRecords(q) \/ DeleteRows(q)
  <2>1. /\ ~Idle(q) /\ objs' = objs /\ crowd' = crowd /\ blind' = blind
    BY <1>16, Zenon
    DEF CollectAppStatus, DeleteReads, DeleteRecords, DeleteRows, GoDespiteError, At, Idle, Resting,
        cluster, history
  <2>2. {"sLoad", "sDomains", "mirror", "dObjects", "dDomains", "dMirror", "dRow", "event"}
          \subseteq Places \ LBPlaces
    BY Zenon DEF Places, Deleting, LBPlaces
  <2>3. \/ Fail(q)
        \/ \E pc \in {"sLoad", "sDomains", "mirror", "dObjects", "dDomains", "dMirror", "dRow", "event"} :
              Go(q, pc) \/ GoDespiteError(q, pc) \/ \E o : Keep(q, pc, o)
    BY <1>16, Zenon DEF CollectAppStatus, DeleteReads, DeleteRecords, DeleteRows
  <2>. QED  BY <1>1, <1>4, <2>1, <2>2, <2>3, MovesCalm, Zenon
<1>17. CASE DeleteObjects(q)
  <2>1. ~Idle(q) /\ crowd' = crowd /\ blind' = blind
    BY <1>17, Zenon DEF DeleteObjects, GoDespiteError, At, Idle, Resting, history
  <2>2. \A b \in Apps : objs'[b] \subseteq objs[b]
    <3>1. \/ objs' = objs
          \/ \E S \in SUBSET objs[a] : objs' = [objs EXCEPT ![a] = S]
      BY <1>17, Zenon DEF DeleteObjects, GoDespiteError, cluster
    <3>2. ASSUME NEW S \in SUBSET objs[a], objs' = [objs EXCEPT ![a] = S], NEW b \in Apps
          PROVE  objs'[b] \subseteq objs[b]
      BY <1>1, <3>2, Zenon DEF Types
    <3>. QED  BY <3>1, <3>2, Zenon
  <2>3. {"dService", "dIngress", "dCert", "dDns"} \subseteq Places \ LBPlaces
    BY Zenon DEF Places, Deleting, LBPlaces
  <2>4. CASE \E pc \in {"dService", "dIngress", "dCert", "dDns"} : Go(q, pc) \/ GoDespiteError(q, pc)
    <3>1. CalmRequest(q)  BY <1>1, <2>1, <2>3, <2>4, MovesCalm, Zenon
    <3>. QED  BY <1>1, <2>1, <2>2, <3>1, CalmBounds, Zenon DEF Calm, CalmObjects
  <2>5. CASE \E h : req' = [req EXCEPT ![q].pc = "dCert", ![q].host = h]
    <3>1. PICK h : req' = [req EXCEPT ![q].pc = "dCert", ![q].host = h]  BY <2>5, Zenon
    <3>2. DOMAIN req = Procs /\ DOMAIN req[q] = RequestFields
      BY <1>1, Zenon DEF Types, RequestOK
    <3>. DEFINE new == [req[q] EXCEPT !.pc = "dCert", !.host = h]
    <3>3. new.op = req[q].op /\ new.pc = "dCert"  BY <3>2 DEF RequestFields
    <3>4. req'[q] = new /\ Rest(q)  BY <3>1, <3>2 DEF Rest
    <3>. HIDE DEF new
    <3>5. CalmRequest(q)  BY <2>1, <3>3, <3>4, Zenon DEF CalmRequest, LBPlaces, Idle
    <3>. QED  BY <1>1, <2>1, <2>2, <3>5, CalmBounds, Zenon DEF Calm, CalmObjects
  <2>. QED  BY <1>17, <2>4, <2>5, Zenon DEF DeleteObjects
<1>. QED
  BY <1>2, <1>3, <1>6, <1>7, <1>8, <1>9, <1>10, <1>11, <1>12, <1>13, <1>14, <1>15, <1>16, <1>17,
     Zenon
  DEF Step

\* A start raises crowd to the deploys then in flight.
LEMMA BeginBounds ==
    ASSUME AppsInv, Bounded, NEW q \in Procs, NEW op, NEW pc, NEW a, NEW v, NEW rv,
           Begin(q, op, pc, a, v, rv), pc \notin LBPlaces,
           \A b \in Apps : spec'[b] = spec[b] \/ spec[b] = None
    PROVE  Bounded'
<1>. DEFINE others == Deploying \ {q}
            n == Cardinality(others) + (IF op = "deploy" THEN 1 ELSE 0)
<1>1. Types /\ Begun(q, op, pc, a, v)  BY BeginMoves, Zenon DEF AppsInv
<1>2. objs' = objs /\ blind' = blind /\ crowd' = IF n > crowd THEN n ELSE crowd
  BY Zenon DEF Begin, cluster
<1>3. ASSUME NEW r \in Procs \ {q}, req'[r].pc \notin Resting
      PROVE  /\ req'[r].pc = req[r].pc /\ req'[r].op = req[r].op /\ req'[r].app = req[r].app
             /\ req[r].pc \notin Resting
  BY <1>1, <1>3, FreeSlot, Zenon DEF Begun, Idle, Resting
<1>4. LBs' \subseteq LBs
  <2>1. ASSUME NEW b \in Apps, "service" \in objs[b] PROVE spec'[b] = spec[b]
    BY <2>1, Zenon DEF AppsInv, AppOK
  <2>. QED  BY <1>2, <2>1, Zenon DEF LBs, IsLB
<1>5. Planned' \subseteq Planned
  <2>. SUFFICES ASSUME NEW r \in Planned' PROVE r \in Planned
    BY Zenon
  <2>1. r \in Procs /\ req'[r].pc \in LBPlaces /\ WantsLB(spec'[req'[r].app])
    BY Zenon DEF Planned, LBPlaces, SpecOf, App
  <2>2. r # q  BY <1>1, <2>1, Zenon DEF Begun
  <2>3. req[r].pc \in LBPlaces /\ req'[r].app = req[r].app
    BY <1>3, <2>1, <2>2, Zenon DEF LBPlaces, Resting
  <2>4. App(r) \in Apps /\ spec[App(r)] # None
    <3>1. RequestOK(req[r]) /\ Held(req[r], App(r))  BY <1>1, <2>1, Zenon DEF AppsInv, Types
    <3>2. req[r].op = "deploy"  BY <2>3, <3>1, Zenon DEF RequestOK, ControlOK, LBPlaces, Building
    <3>. QED  BY <2>3, <3>1, <3>2, Zenon DEF RequestOK, Held, HeldBy, LBPlaces, Resting, App
  <2>5. spec'[App(r)] = spec[App(r)]  BY <2>4, Zenon
  <2>. QED  BY <2>1, <2>3, <2>5, Zenon DEF Planned, LBPlaces, SpecOf, App
<1>6. others \subseteq Procs /\ IsFiniteSet(others) /\ Cardinality(others) \in Nat
  <2>1. others \subseteq Procs  BY Zenon DEF Deploying
  <2>. QED  BY <2>1, FS_Subset, FS_CardinalityType, AppsAssumption, Zenon
<1>7. Cardinality(Deploying') <= n /\ Cardinality(Deploying') \in Nat
  <2>1. CASE op = "deploy"
    <3>1. Deploying' \subseteq others \cup {q}
      BY <1>3, Zenon DEF Deploying, Idle
    <3>2. IsFiniteSet(others \cup {q}) /\ Cardinality(others \cup {q}) = Cardinality(others) + 1
      BY <1>6, FS_AddElement, Zenon
    <3>3. Cardinality(Deploying') <= Cardinality(others \cup {q}) /\ Cardinality(Deploying') \in Nat
      BY <3>1, <3>2, Fewer, Zenon
    <3>. HIDE DEF others
    <3>. QED  BY <1>6, <2>1, <3>2, <3>3, Zenon
  <2>2. CASE op # "deploy"
    <3>1. Deploying' \subseteq others
      BY <1>1, <1>3, <2>2, Zenon DEF Deploying, Idle, Begun
    <3>2. Cardinality(Deploying') <= Cardinality(others) /\ Cardinality(Deploying') \in Nat
      BY <1>6, <3>1, Fewer, Zenon
    <3>. HIDE DEF others
    <3>. QED  BY <1>6, <2>2, <3>2
  <2>. QED  BY <2>1, <2>2, Zenon
<1>. HIDE DEF others
<1>8. crowd \in Nat /\ MaxLB \in Nat  BY AppsAssumption, Zenon DEF Bounded
<1>9. n \in Nat  BY <1>6
<1>. HIDE DEF n
<1>10. crowd' \in Nat /\ crowd' >= crowd /\ Cardinality(Deploying') <= crowd'
  BY <1>2, <1>7, <1>8, <1>9
<1>11. /\ Cardinality(LBs') <= Cardinality(LBs) /\ Cardinality(LBs') \in Nat
       /\ Cardinality(LBs) \in Nat
  BY <1>4, Counted, Fewer, Zenon
<1>12. /\ Cardinality(Planned') <= Cardinality(Planned) /\ Cardinality(Planned') \in Nat
       /\ Cardinality(Planned) \in Nat
  BY <1>5, Counted, Fewer, Zenon
<1>13. CASE blind  BY <1>2, <1>10, <1>13, Zenon DEF Bounded
<1>14. CASE LBs = {} /\ Planned = {}
  <2>1. LBs' = {} /\ Planned' = {}  BY <1>4, <1>5, <1>14, Zenon
  <2>. QED  BY <1>10, <2>1, Zenon DEF Bounded
<1>15. CASE Cardinality(LBs) + Cardinality(Planned) < MaxLB + crowd
  <2>1. Cardinality(LBs') + Cardinality(Planned') < MaxLB + crowd'
    BY <1>8, <1>10, <1>11, <1>12, <1>15
  <2>. QED  BY <1>10, <2>1, Zenon DEF Bounded
<1>. QED  BY <1>13, <1>14, <1>15, Zenon DEF Bounded

\* Every start keeps the bound.
LEMMA StartBounds ==
    ASSUME AppsInv, Bounded, NEW q \in Procs, Start(q)
    PROVE  Bounded'
<1>1. CASE Asking(q)
  <2>1. PICK op \in AllOps \ {"deploy"}, pc \in {"gate", "depGet", "wRead", "sRead"},
             a \in Apps \cup {None}, v \in Vals, rv \in {0} \cup {cr[b].rv : b \in Apps} :
          /\ Begin(q, op, pc, a, v, rv) /\ UNCHANGED spec
          /\ (a \in Apps /\ row[a] # "absent") \/ (a = None /\ op = "list")
          /\ ControlOK([op |-> op, pc |-> pc])
    BY <1>1, Zenon DEF Asking
  <2>2. pc \notin LBPlaces  BY Zenon DEF LBPlaces
  <2>. QED  BY <2>1, <2>2, BeginBounds, Zenon
<1>2. CASE \E a \in Apps, s \in Specs : DeployApp(q, a, s)
  <2>1. PICK a \in Apps, s \in Specs : DeployApp(q, a, s)  BY <1>2, Zenon
  <2>2. /\ Begin(q, "deploy", "gate", a, 0, 0) /\ spec[a] = None
        /\ spec' = [spec EXCEPT ![a] = s]
    BY <2>1, Zenon DEF DeployApp
  <2>3. \A b \in Apps : spec'[b] = spec[b] \/ spec[b] = None
    BY <2>2, Zenon DEF AppsInv, Types
  <2>4. "gate" \notin LBPlaces  BY Zenon DEF LBPlaces
  <2>. QED  BY <2>2, <2>3, <2>4, BeginBounds, Zenon
<1>. QED  BY <1>1, <1>2, StartIs, Zenon

\* LoadBalancerBound: as long as every list of Services succeeded, the load
\* balancers that exist or are planned stay below the limit plus the most
\* deploys ever in flight at once, for any limit and any number of apps and
\* requests (planAppDeployment).
THEOREM LoadBalancersAreBounded == Spec => []LoadBalancerBound
<1>1. Init => Bounded
  <2>. SUFFICES ASSUME Init PROVE Bounded
    BY Zenon
  <2>1. \A q \in Procs : req[q].pc = "idle" /\ req[q].op = "none"  BY FreeSlot, Zenon DEF Init
  <2>2. LBs = {} /\ Planned = {} /\ Deploying = {}
    BY <2>1, Zenon DEF LBs, Planned, Deploying, IsLB, Init
  <2>3. crowd = 0 /\ Cardinality(Deploying) = 0  BY <2>2, FS_EmptySet, Zenon DEF Init
  <2>4. crowd \in Nat /\ Cardinality(Deploying) <= crowd  BY <2>3
  <2>. QED  BY <2>2, <2>4, Zenon DEF Bounded
<1>2. AppsInv /\ Bounded /\ [Next]_vars => Bounded'
  <2>. SUFFICES ASSUME AppsInv, Bounded, [Next]_vars PROVE Bounded'
    BY Zenon
  <2>1. ASSUME UNCHANGED <<spec, objs, req, crowd, blind>> PROVE Bounded'
    BY <2>1, Zenon DEF Bounded, LBs, Planned, Deploying, IsLB, SpecOf, App, Idle
  <2>2. CASE UNCHANGED vars  BY <2>1, <2>2, Zenon DEF vars, cluster, history
  <2>3. CASE Next
    <3>1. ASSUME NEW a \in Apps, Background(a) PROVE UNCHANGED <<spec, objs, req, crowd, blind>>
      BY <3>1, Zenon DEF Background, WaiterGivesUp, AssignAddress, cluster, history
    <3>. QED  BY <2>1, <2>3, <3>1, StartBounds, StepBounds, Zenon DEF Next
  <2>. QED  BY <2>2, <2>3, Zenon
<1>3. Bounded => LoadBalancerBound  BY Zenon DEF Bounded, LoadBalancerBound, LBs
<1>. QED  BY <1>1, <1>2, <1>3, AppsInductive, PTL DEF Spec
=============================================================================
