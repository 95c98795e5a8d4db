------------------------- MODULE AppPromisesProofs -------------------------
(***************************************************************************)
(* What a request on an app is worth (module AppLifecycle): one that       *)
(* succeeds on its own has brought about all that its operation promises,  *)
(* whatever came before it.  The invariant says, for each place of each    *)
(* operation, what a request that runs alone has done by then.             *)
(***************************************************************************)
EXTENDS AppLifecycleProofs, TLAPS

-----------------------------------------------------------------------------
(* What a request that runs alone has brought about.                       *)

\* The request that will be held to its promise.
OnItsOwn(q) == req[q].solo /\ ~req[q].lost

\* A request is on its own only as long as no other is in flight.
Alone == \A q \in Procs : req[q].solo => \A r \in Procs \ {q} : Idle(r)

\* The certificate of an Ingress, and the objects of a deploy of s that is
\* through.
Certs == IF CertManager THEN {"cert"} ELSE {}
Full(s) ==
    IF s.src = "raw" THEN {s.docs[i] : i \in DOMAIN s.docs}
    ELSE {"workload"} \cup (IF s.ports # "none" THEN {"service"} ELSE {})
           \cup (IF HasIngress(s) THEN {"ingress"} ELSE {})
           \cup (IF HasIngress(s) /\ CertManager THEN {"cert"} ELSE {})

\* The first n documents of a raw deploy.
FirstDocs(docs, n) == {docs[i] : i \in 1 .. n}

\* The places behind a step of a deploy, last to first: the App resource, the
\* release, the row; and behind a step of a delete.
Mirroring == {"mirror", "event", "done"}
AfterRelease == Mirroring \cup {"crApply", "crLoad"}
AfterRow == AfterRelease \cup {"release"}
Ended == {"event", "done"}
NoMirror == Ended \cup {"dRow"}
NoDomain == NoMirror \cup {"dMirror"}
NoCert == NoDomain \cup {"dDns", "dDomains"}
NoIngress == NoCert \cup {"dCert"}
NoService == NoIngress \cup {"dIngress"}
NoWorkload == NoService \cup {"dService"}

\* How far a request r on app a that is on its own has come: a deploy,
DeployGoes(r, a) ==
    r.op = "deploy" =>
      /\ r.pc \in {"gate", "plan", "workload"} => objs[a] = {} /\ r.doc = 0
      /\ r.pc \in {"workload", "envFrom", "service", "crApply", "crLoad", "mirror"} =>
           spec[a].src = "image"
      /\ r.pc = "service" => spec[a].ports # "none"
      /\ r.pc \in {"envFrom", "service"} => objs[a] = {"workload"}
      /\ r.pc = "cert" => objs[a] = {"workload", "service"}
      /\ r.pc = "ingress" => objs[a] = {"workload", "service"} \cup Certs
      /\ r.pc \in {"domain", "dns"} => objs[a] = {"workload", "service", "ingress"} \cup Certs
      /\ r.pc = "raw" =>
           r.doc <= Len(spec[a].docs) /\ objs[a] = FirstDocs(spec[a].docs, r.doc)
      /\ r.pc \in AfterRow \cup {"row"} => objs[a] = Full(spec[a])
      /\ r.pc \notin {"gate", "plan", "workload"} /\ spec[a].src = "image" => dep[a] # None
      /\ r.pc \in AfterRow => row[a] = "live"
      /\ r.pc \in AfterRelease => a \in released
      /\ r.pc \in {"crLoad", "mirror"} => cr[a] # None
      /\ r.pc = "mirror" => r.saw = cr[a]
      /\ r.pc \in Ended /\ spec[a].src = "image" /\ served => cr[a] # None /\ Mirrors(a)
\* a delete,
DeleteGoes(r, a) ==
    r.op = "delete" =>
      /\ r.pc \in NoWorkload => dep[a] = None /\ "workload" \notin objs[a]
      /\ r.pc \in NoService => "service" \notin objs[a] /\ a \notin addr
      /\ r.pc \in NoIngress => "ingress" \notin objs[a]
      /\ r.pc \in NoCert => "cert" \notin objs[a]
      /\ r.pc \in NoDomain => a \notin domains
      /\ r.pc \in NoMirror => (mirror[a] # None => mirror[a].deleted)
      /\ r.pc \in Ended => row[a] = "deleted"
\* an update,
UpdateGoes(r, a) ==
    r.op \in UpdateOps =>
      /\ r.pc = "mirror" =>
           cr[a] # None /\ r.saw = cr[a] /\ cr[a].f[FieldOf[r.op]] = r.arg
      /\ r.pc \in {"depGet", "depPut"} /\ FieldOf[r.op] \in CRFields => cr[a] = None
      /\ r.pc \in Ended =>
           IF FieldOf[r.op] \in CRFields /\ cr[a] # None
             THEN cr[a].f[FieldOf[r.op]] = r.arg /\ Mirrors(a)
             ELSE dep[a] # None /\ dep[a].f[FieldOf[r.op]] = r.arg
\* the status of an app, and that of all.
StatusGoes(r, a) ==
    r.op = "status" =>
      /\ r.todo = {}
      /\ r.pc = "mirror" => cr[a] # None /\ r.saw = cr[a]
      /\ r.pc \in {"sDomains", "done"} /\ cr[a] # None => Mirrors(a)
ListGoes(r, a) ==
    r.op = "list" =>
      /\ r.pc = "done" => r.todo = {}
      /\ r.pc = "mirror" => cr[a] # None /\ r.saw = cr[a]
      /\ r.pc \in {"sCollect", "sLoad", "mirror", "sDomains", "done"} =>
           \A b \in Apps : row[b] = "live" /\ cr[b] # None =>
              b \in r.todo \/ Mirrors(b) \/ (b = a /\ r.pc \in {"sCollect", "sLoad", "mirror"})

Goes(r, a) ==
    DeployGoes(r, a) /\ DeleteGoes(r, a) /\ UpdateGoes(r, a) /\ StatusGoes(r, a) /\ ListGoes(r, a)

SettleInv == Alone /\ \A q \in Procs : OnItsOwn(q) => Goes(req[q], App(q))

\* A row of k8s_crds can be marked deleted.
Markable == \A a \in Apps : mirror[a] # None => "deleted" \in DOMAIN mirror[a]

\* A step of one request leaves the others to themselves: none of them is on
\* its own while this one is in flight.
LEMMA OwnStep ==
    ASSUME SettleInv, NEW q \in Procs, ~Idle(q), Rest(q), req'[q].solo => req[q].solo,
           OnItsOwn(q)' => Goes(req[q], App(q))'
    PROVE  SettleInv'
<1>1. ASSUME NEW r \in Procs \ {q} PROVE req'[r] = req[r] /\ ~req[r].solo
  BY Zenon DEF SettleInv, Alone, Rest
<1>2. Alone'
  <2>. SUFFICES ASSUME NEW x \in Procs, req'[x].solo, NEW r \in Procs \ {x} PROVE Idle(r)'
    BY Zenon DEF Alone
  <2>1. CASE x = q  BY <1>1, <2>1, Zenon DEF SettleInv, Alone, Idle
  <2>2. CASE x # q  BY <1>1, <2>2, Zenon
  <2>. QED  BY <2>1, <2>2, Zenon
<1>3. ASSUME NEW r \in Procs, OnItsOwn(r)' PROVE Goes(req[r], App(r))'
  <2>1. r = q  BY <1>1, <1>3, Zenon DEF OnItsOwn
  <2>. QED  BY <1>3, <2>1, Zenon
<1>. QED  BY <1>2, <1>3, Zenon DEF SettleInv

\* A request that fails promises nothing.
LEMMA FailSettles ==
    ASSUME AppsInv, SettleInv, NEW q \in Procs, ~Idle(q), Fail(q)
    PROVE  SettleInv'
<1>1. Rest(q) /\ req'[q].solo = FALSE  BY FailMoves, FreeSlot, Zenon DEF AppsInv
<1>. QED  BY <1>1, OwnStep, Zenon DEF OnItsOwn

\* Nor does one that goes on despite an error.
LEMMA DespiteSettles ==
    ASSUME AppsInv, SettleInv, NEW q \in Procs, ~Idle(q), NEW pc, GoDespiteError(q, pc)
    PROVE  SettleInv'
<1>1. Rest(q) /\ req'[q].lost = TRUE /\ req'[q].solo = req[q].solo
  BY DespiteMoves, Zenon DEF AppsInv
<1>. QED  BY <1>1, OwnStep, Zenon DEF OnItsOwn

\* One that goes on has to have come as far as its new place says.
LEMMA OnwardSettles ==
    ASSUME SettleInv, NEW q \in Procs, ~Idle(q), NEW pc, Onward(q, pc),
           Goes(req[q], App(q)) => Goes(req[q], App(q))'
    PROVE  SettleInv'
<1>1. Rest(q) /\ req'[q].solo = req[q].solo /\ req'[q].lost = req[q].lost  BY Zenon DEF Onward
<1>2. OnItsOwn(q)' => OnItsOwn(q)  BY <1>1, Zenon DEF OnItsOwn
<1>3. OnItsOwn(q) => Goes(req[q], App(q))  BY Zenon DEF SettleInv
<1>. QED  BY <1>1, <1>2, <1>3, OwnStep, Zenon

\* Success leaves what the promise is about.
LEMMA FinishSettles ==
    ASSUME AppsInv, SettleInv, NEW q \in Procs, ~Idle(q), Finish(q),
           req[q].pc \in {"event", "wRead", "wPatch"} \/ (req[q].pc = "sDomains" /\ req[q].todo = {}),
           UNCHANGED <<served, spec, store, cluster>>
    PROVE  SettleInv'
<1>1. Types /\ RequestOK(req[q])  BY Zenon DEF AppsInv, Types
<1>2. CASE req[q].lost \/ ~req[q].solo
  <2>1. Rest(q) /\ req'[q].solo = FALSE  BY <1>1, <1>2, FinishMoves, FreeSlot, Zenon
  <2>. QED  BY <2>1, OwnStep, Zenon DEF OnItsOwn
<1>3. CASE ~(req[q].lost \/ ~req[q].solo)
  <2>1. /\ Rest(q) /\ req'[q].pc = "done" /\ req'[q].op = req[q].op /\ req'[q].app = req[q].app
        /\ req'[q].arg = req[q].arg /\ req'[q].todo = {}
    BY <1>1, <1>3, FinishMoves, Zenon
  <2>2. Goes(req[q], App(q))  BY <1>3, Zenon DEF SettleInv, OnItsOwn
  <2>3. UNCHANGED <<served, spec, row, domains, released, mirror, objs, dep, cr, addr>>
    BY Zenon DEF store, cluster
  <2>4. \A b : Mirrors(b) => Mirrors(b)'  BY <2>3, Zenon DEF Mirrors
  <2>5. ControlOK(req[q])  BY <1>1, Zenon DEF RequestOK
  <2>6. DeployGoes(req[q], App(q))'
    <3>1. served' => served  BY <2>3
    <3>. QED
      BY <2>1, <2>2, <2>3, <2>4, <2>5, <3>1, Zenon
      DEF Goes, DeployGoes, App, ControlOK, AfterRow, AfterRelease, Mirroring, Ended
  <2>7. DeleteGoes(req[q], App(q))'
    BY <2>1, <2>2, <2>3, <2>5, Zenon
    DEF Goes, DeleteGoes, App, ControlOK, NoWorkload, NoService, NoIngress, NoCert, NoDomain,
        NoMirror, Ended
  <2>8. UpdateGoes(req[q], App(q))'
    BY <2>1, <2>2, <2>3, <2>4, <2>5, Zenon
    DEF Goes, UpdateGoes, App, ControlOK, Ended, UpdateOps, FieldOf
  <2>9. StatusGoes(req[q], App(q))' /\ ListGoes(req[q], App(q))'
    BY <2>1, <2>2, <2>3, <2>4, <2>5, Zenon
    DEF Goes, StatusGoes, ListGoes, App, ControlOK, UpdateOps, FieldOf
  <2>. QED  BY <1>3, <2>1, <2>6, <2>7, <2>8, <2>9, OwnStep, Zenon DEF Goes
<1>. QED  BY <1>2, <1>3, Zenon

\* ensureMaintenanceAllows.
LEMMA GateSettles ==
    ASSUME AppsInv, SettleInv, NEW q \in Procs, Gate(q), UNCHANGED <<served, spec>>
    PROVE  SettleInv'
<1>1. /\ req[q].pc = "gate" /\ ~Idle(q) /\ Types /\ ControlOK(req[q])
      /\ UNCHANGED <<spec, objs>>
  BY Zenon DEF Gate, At, Idle, Resting, AppsInv, Types, RequestOK, cluster
<1>2. CASE Fail(q)  BY <1>1, <1>2, FailSettles, Zenon
<1>3. CASE ~Fail(q)
  <2>1. PICK pc : /\ Go(q, pc)
                  /\ req[q].op = "deploy" => pc = "plan"
                  /\ req[q].op = "delete" => pc = "dRead"
                  /\ req[q].op = "restart" => pc = "depGet"
                  /\ req[q].op \in {"scale", "image"} => pc = "uRead"
    BY <1>3, Zenon DEF Gate
  <2>2. Onward(q, pc)  BY <1>1, <2>1, GoMoves, Zenon
  <2>3. req[q].op \in {"deploy", "delete", "scale", "image", "restart"}  BY <1>1, Zenon DEF ControlOK
  <2>4. DeployGoes(req[q], App(q)) => DeployGoes(req[q], App(q))'
    BY <1>1, <2>1, <2>2, Zenon
    DEF Onward, DeployGoes, App, AfterRow, AfterRelease, Mirroring, Ended
  <2>5. DeleteGoes(req[q], App(q))'
    BY <2>1, <2>2, Zenon
    DEF Onward, DeleteGoes, App, NoWorkload, NoService, NoIngress, NoCert, NoDomain, NoMirror, Ended
  <2>6. UpdateGoes(req[q], App(q))'
    <3>1. FieldOf["restart"] \notin CRFields  BY DEF FieldOf, CRFields
    <3>. QED  BY <2>1, <2>2, <2>3, <3>1, Zenon DEF Onward, UpdateGoes, App, Ended
  <2>7. StatusGoes(req[q], App(q))' /\ ListGoes(req[q], App(q))'
    BY <2>2, <2>3, Zenon DEF Onward, StatusGoes, ListGoes
  <2>. QED  BY <1>1, <2>2, <2>4, <2>5, <2>6, <2>7, OnwardSettles, Zenon DEF Goes
<1>. QED  BY <1>2, <1>3, Zenon

\* AppendProjectEvent.
LEMMA EventSettles ==
    ASSUME AppsInv, SettleInv, NEW q \in Procs, Event(q), UNCHANGED <<served, spec>>
    PROVE  SettleInv'
  BY FinishSettles, Zenon DEF Event, At, Idle, Resting

\* A request that stops.
LEMMA StopSettles ==
    ASSUME AppsInv, SettleInv, NEW q \in Procs, Stop(q)
    PROVE  SettleInv'
  BY FailSettles, Zenon DEF Stop

\* A step of a deploy has only the progress of the deploy to account for,
LEMMA DeploySettles ==
    ASSUME AppsInv, SettleInv, NEW q \in Procs, req[q].op = "deploy", ~Idle(q),
           NEW pc, Onward(q, pc),
           DeployGoes(req[q], App(q)) => DeployGoes(req[q], App(q))'
    PROVE  SettleInv'
<1>1. req'[q].op = "deploy"  BY Zenon DEF Onward
<1>2. /\ DeleteGoes(req[q], App(q))' /\ UpdateGoes(req[q], App(q))'
      /\ StatusGoes(req[q], App(q))' /\ ListGoes(req[q], App(q))'
  BY <1>1 DEF DeleteGoes, UpdateGoes, StatusGoes, ListGoes, UpdateOps, FieldOf
<1>. QED  BY <1>2, OnwardSettles, Zenon DEF Goes

\* a step of a delete only that of the delete,
LEMMA DeleteSettles ==
    ASSUME AppsInv, SettleInv, NEW q \in Procs, req[q].op = "delete", ~Idle(q),
           NEW pc, Onward(q, pc),
           DeleteGoes(req[q], App(q)) => DeleteGoes(req[q], App(q))'
    PROVE  SettleInv'
<1>1. req'[q].op = "delete"  BY Zenon DEF Onward
<1>2. /\ DeployGoes(req[q], App(q))' /\ UpdateGoes(req[q], App(q))'
      /\ StatusGoes(req[q], App(q))' /\ ListGoes(req[q], App(q))'
  BY <1>1 DEF DeployGoes, UpdateGoes, StatusGoes, ListGoes, UpdateOps, FieldOf
<1>. QED  BY <1>2, OnwardSettles, Zenon DEF Goes

\* and a step of an update only that of the update.
LEMMA UpdateSettles ==
    ASSUME AppsInv, SettleInv, NEW q \in Procs, req[q].op \in UpdateOps, ~Idle(q),
           NEW pc, Onward(q, pc),
           UpdateGoes(req[q], App(q)) => UpdateGoes(req[q], App(q))'
    PROVE  SettleInv'
<1>1. req'[q].op \in UpdateOps  BY Zenon DEF Onward
<1>2. /\ DeployGoes(req[q], App(q))' /\ DeleteGoes(req[q], App(q))'
      /\ StatusGoes(req[q], App(q))' /\ ListGoes(req[q], App(q))'
  BY <1>1, Zenon DEF DeployGoes, DeleteGoes, StatusGoes, ListGoes, UpdateOps, FieldOf
<1>. QED  BY <1>2, OnwardSettles, Zenon DEF Goes

\* What a deploy that is in flight works on.
LEMMA DeployedWith ==
    ASSUME AppsInv, NEW q \in Procs, req[q].op = "deploy", ~Idle(q)
    PROVE  App(q) \in Apps /\ SpecOf(q) \in AppSpec
<1>1. RequestOK(req[q]) /\ spec \in [Apps -> Specs \cup {None}] /\ Held(req[q], App(q))
  BY Zenon DEF AppsInv, Types
<1>2. App(q) \in Apps  BY <1>1, Zenon DEF RequestOK, App
<1>3. spec[App(q)] # None  BY <1>1, Zenon DEF Held, HeldBy, Idle
<1>. QED  BY <1>1, <1>2, <1>3, AppsAssumption DEF SpecOf

\* The objects of a deploy that is through, case by case.
LEMMA FullIs ==
    ASSUME NEW s \in AppSpec
    PROVE  /\ s.src = "image" /\ s.ports = "none" => Full(s) = {"workload"}
           /\ s.src = "image" /\ s.ports # "none" /\ ~HasIngress(s) => Full(s) = {"workload", "service"}
           /\ HasIngress(s) => Full(s) = {"workload", "service", "ingress"} \cup Certs
           /\ s.src # "image" => Full(s) = FirstDocs(s.docs, Len(s.docs))
<1>1. s.src \in {"image", "raw"} /\ s.docs \in Seq(Docs)  BY DEF AppSpec
<1>2. DOMAIN s.docs = 1 .. Len(s.docs)  BY <1>1
<1>3. s.src = "image" /\ s.ports = "none" => Full(s) = {"workload"}
  BY <1>1 DEF Full, HasIngress
<1>4. s.src = "image" /\ s.ports # "none" /\ ~HasIngress(s) => Full(s) = {"workload", "service"}
  BY <1>1 DEF Full
<1>5. HasIngress(s) => Full(s) = {"workload", "service", "ingress"} \cup Certs
  BY <1>1 DEF Full, HasIngress, Certs
<1>6. s.src # "image" => Full(s) = FirstDocs(s.docs, Len(s.docs))
  BY <1>1, <1>2, Zenon DEF Full, FirstDocs
<1>. QED  BY <1>3, <1>4, <1>5, <1>6

\* planAppDeployment.
LEMMA PlanSettles ==
    ASSUME AppsInv, SettleInv, NEW q \in Procs, planAppDeployment(q), UNCHANGED <<served, spec>>
    PROVE  SettleInv'
<1>1. /\ req[q].pc = "plan" /\ ~Idle(q) /\ Types /\ RequestOK(req[q])
      /\ UNCHANGED objs
  BY Zenon DEF planAppDeployment, Error, At, Idle, Resting, AppsInv, Types, cluster
<1>2. req[q].op = "deploy"  BY <1>1, Zenon DEF RequestOK, ControlOK, Building
<1>3. CASE Fail(q)  BY <1>1, <1>3, FailSettles, Zenon
<1>4. CASE ~Fail(q)
  <2>1. PICK pc : /\ Go(q, pc) /\ pc \in {"workload", "raw"}
                  /\ pc = "workload" => SpecOf(q).src = "image"
                  /\ pc = "raw" => SpecOf(q).src # "image"
    <3>. DEFINE next == IF SpecOf(q).src = "image" THEN "workload" ELSE "raw"
    <3>1. Go(q, next)  BY <1>4, Zenon DEF planAppDeployment, Error
    <3>2. /\ next \in {"workload", "raw"} /\ (next = "workload" => SpecOf(q).src = "image")
          /\ next = "raw" => SpecOf(q).src # "image"
      BY Zenon
    <3>. HIDE DEF next
    <3>. QED  BY <3>1, <3>2, Zenon
  <2>2. Onward(q, pc)  BY <1>1, <2>1, GoMoves, Zenon
  <2>3. ASSUME NEW a, a = App(q), DeployGoes(req[q], a) PROVE DeployGoes(req[q], a)'
    <3>1. objs'[a] = {} /\ req'[q].doc = 0  BY <1>1, <1>2, <2>2, <2>3, Zenon DEF DeployGoes, Onward
    <3>2. Len(spec[a].docs) >= 0
      BY <1>1, <1>2, <2>3, DeployedWith DEF SpecOf, AppSpec
    <3>3. 0 <= Len(spec'[a].docs) /\ {} = FirstDocs(spec'[a].docs, 0)  BY <3>2 DEF FirstDocs
    <3>. QED
      BY <1>2, <2>1, <2>2, <2>3, <3>1, <3>3, Zenon
      DEF Onward, DeployGoes, SpecOf, AfterRow, AfterRelease, Mirroring, Ended
  <2>4. App(q)' = App(q)  BY <2>2, Zenon DEF Onward, App
  <2>. QED  BY <1>1, <1>2, <2>2, <2>3, <2>4, DeploySettles, Zenon
<1>. QED  BY <1>3, <1>4, Zenon

\* The Deployment.
LEMMA DeploymentSettles ==
    ASSUME AppsInv, SettleInv, NEW q \in Procs, ApplyDeployment(q), UNCHANGED <<served, spec>>
    PROVE  SettleInv'
<1>1. PICK a : a = App(q)  BY Zenon
<1>2. PICK s : s = SpecOf(q)  BY Zenon
<1>3. /\ req[q].pc \in {"workload", "envFrom"} /\ ~Idle(q) /\ Types /\ RequestOK(req[q])
      /\ objs' = [objs EXCEPT ![a] = @ \cup {"workload"}]
  BY <1>1, Zenon DEF ApplyDeployment, At, Idle, Resting, AppsInv, Types
<1>4. req[q].op = "deploy"  BY <1>3, Zenon DEF RequestOK, ControlOK, Building
<1>5. a \in Apps /\ s \in AppSpec /\ s = spec[a]  BY <1>1, <1>2, <1>3, <1>4, DeployedWith, Zenon DEF SpecOf
<1>6. PICK pc : /\ Go(q, pc) /\ pc \in {"envFrom", "service", "row"}
                /\ pc = "service" => s.ports # "none"
                /\ pc = "row" => s.ports = "none"
  <2>1. (Go(q, "envFrom") \/ Go(q, AfterWorkload(s)))  BY <1>2, Zenon DEF ApplyDeployment
  <2>2. AfterWorkload(s) \in {"service", "row"} /\ (AfterWorkload(s) = "service" => s.ports # "none")
        /\ (AfterWorkload(s) = "row" => s.ports = "none")
    BY Zenon DEF AfterWorkload
  <2>3. CASE Go(q, "envFrom")  BY <2>3
  <2>4. CASE Go(q, AfterWorkload(s))  BY <2>2, <2>4, Zenon
  <2>. QED  BY <2>1, <2>3, <2>4, Zenon
<1>7. Onward(q, pc)  BY <1>3, <1>6, GoMoves, Zenon
<1>8. dep'[a] # None
  <2>1. dep'[a] \in Versioned(Fields)
    <3>1. dep = [b \in Apps |-> dep[b]]  BY <1>3, Zenon DEF Types
    <3>2. CASE req[q].pc = "workload"
      <4>1. dep' = [dep EXCEPT ![a] = [rv |-> 1, f |-> [x \in Fields |-> 0]]]
        BY <1>1, <3>2, Zenon DEF ApplyDeployment, At
      <4>2. dep'[a] = [rv |-> 1, f |-> [x \in Fields |-> 0]]  BY <1>5, <3>1, <4>1, Zenon
      <4>. QED  BY <4>2 DEF Versioned, Vals
    <3>3. CASE req[q].pc = "envFrom"
      <4>1. dep' = [dep EXCEPT ![a] = [rv |-> dep[a].rv + 1,
                                       f |-> [dep[a].f EXCEPT !["secret"] = 1]]]
        BY <1>1, <3>3, Zenon DEF ApplyDeployment, At
      <4>2. dep'[a] = [rv |-> dep[a].rv + 1, f |-> [dep[a].f EXCEPT !["secret"] = 1]]
        BY <1>5, <3>1, <4>1, Zenon
      <4>3. dep[a] \in Versioned(Fields)
        BY <1>1, <1>3, <1>5, <3>3, Zenon DEF AppsInv, Held, HeldBy, Types
      <4>. QED  BY <4>2, <4>3 DEF Versioned, Vals, Fields
    <3>. QED  BY <1>3, <3>2, <3>3, Zenon
  <2>. QED  BY <2>1, AppsAssumption
<1>9. ASSUME DeployGoes(req[q], a) PROVE DeployGoes(req[q], a)'
  <2>1. objs[a] \subseteq {"workload"} /\ s.src = "image"
    BY <1>3, <1>4, <1>5, <1>9 DEF DeployGoes
  <2>2. objs'[a] = objs[a] \cup {"workload"}  BY <1>3, <1>5, Zenon DEF Types
  <2>3. objs'[a] = {"workload"}  BY <2>1, <2>2
  <2>4. spec'[a] = s  BY <1>5, Zenon
  <2>5. pc = "row" => Full(s) = {"workload"}  BY <1>5, <1>6, <2>1, FullIs, Zenon
  <2>. QED
    BY <1>4, <1>6, <1>7, <1>8, <2>1, <2>3, <2>4, <2>5, Zenon
    DEF Onward, DeployGoes, AfterRow, AfterRelease, Mirroring, Ended
<1>10. App(q)' = a  BY <1>1, <1>7, Zenon DEF Onward, App
<1>. QED  BY <1>1, <1>3, <1>4, <1>7, <1>9, <1>10, DeploySettles, Zenon

\* The Service.
LEMMA ServiceSettles ==
    ASSUME AppsInv, SettleInv, NEW q \in Procs, ApplyService(q), UNCHANGED <<served, spec>>
    PROVE  SettleInv'
<1>1. PICK a : a = App(q)  BY Zenon
<1>2. PICK s : s = SpecOf(q)  BY Zenon
<1>3. /\ req[q].pc = "service" /\ ~Idle(q) /\ Types /\ RequestOK(req[q])
      /\ objs' = [objs EXCEPT ![a] = @ \cup {"service"}] /\ dep' = dep
  BY <1>1, Zenon DEF ApplyService, At, Idle, Resting, AppsInv, Types
<1>4. req[q].op = "deploy"  BY <1>3, Zenon DEF RequestOK, ControlOK, Building
<1>5. a \in Apps /\ s \in AppSpec /\ s = spec[a]  BY <1>1, <1>2, <1>3, <1>4, DeployedWith, Zenon DEF SpecOf
<1>6. PICK pc : /\ Go(q, pc) /\ pc \in {"row", "cert", "ingress"}
                /\ pc = "row" => ~HasIngress(s)
                /\ pc = "ingress" => ~CertManager
  <2>1. Go(q, AfterService(s))  BY <1>2, Zenon DEF ApplyService
  <2>2. AfterService(s) \in {"row", "cert", "ingress"} /\ (AfterService(s) = "row" => ~HasIngress(s))
        /\ (AfterService(s) = "ingress" => ~CertManager)
    BY Zenon DEF AfterService
  <2>. QED  BY <2>1, <2>2, Zenon
<1>7. Onward(q, pc)  BY <1>3, <1>6, GoMoves, Zenon
<1>8. ASSUME DeployGoes(req[q], a) PROVE DeployGoes(req[q], a)'
  <2>1. objs[a] = {"workload"} /\ s.src = "image" /\ s.ports # "none" /\ dep[a] # None
    BY <1>3, <1>4, <1>5, <1>8, Zenon DEF DeployGoes
  <2>2. objs'[a] = objs[a] \cup {"service"}  BY <1>3, <1>5, Zenon DEF Types
  <2>3. objs'[a] = {"workload", "service"}  BY <2>1, <2>2
  <2>4. spec'[a] = s /\ dep'[a] # None  BY <1>3, <1>5, <2>1, Zenon
  <2>5. pc = "row" => Full(s) = {"workload", "service"}  BY <1>5, <1>6, <2>1, FullIs, Zenon
  <2>6. pc = "ingress" => {"workload", "service"} = {"workload", "service"} \cup Certs
    BY <1>6 DEF Certs
  <2>. QED
    BY <1>4, <1>6, <1>7, <2>1, <2>3, <2>4, <2>5, <2>6, Zenon
    DEF Onward, DeployGoes, AfterRow, AfterRelease, Mirroring, Ended
<1>9. App(q)' = a  BY <1>1, <1>7, Zenon DEF Onward, App
<1>. QED  BY <1>1, <1>3, <1>4, <1>7, <1>8, <1>9, DeploySettles, Zenon

\* The Certificate and the Ingress.
LEMMA IngressSettles ==
    ASSUME AppsInv, SettleInv, NEW q \in Procs, ApplyIngress(q), UNCHANGED <<served, spec>>
    PROVE  SettleInv'
<1>1. PICK a : a = App(q)  BY Zenon
<1>2. /\ req[q].pc \in {"cert", "ingress"} /\ ~Idle(q) /\ Types /\ RequestOK(req[q])
      /\ Held(req[q], a)
  BY <1>1, Zenon DEF ApplyIngress, At, Idle, Resting, AppsInv, Types
<1>3. req[q].op = "deploy"  BY <1>2, Zenon DEF RequestOK, ControlOK, Building
<1>4. a \in Apps  BY <1>1, <1>2, <1>3, DeployedWith, Zenon
<1>5. CASE GoDespiteError(q, "ingress")  BY <1>2, <1>5, DespiteSettles, Zenon
<1>6. CASE ~GoDespiteError(q, "ingress")
  <2>1. PICK pc, x : /\ Go(q, pc) /\ objs' = [objs EXCEPT ![a] = @ \cup {x}] /\ dep' = dep
                     /\ \/ req[q].pc = "cert" /\ pc = "ingress" /\ x = "cert"
                        \/ req[q].pc = "ingress" /\ pc = "domain" /\ x = "ingress"
    BY <1>1, <1>6, Zenon DEF ApplyIngress, At
  <2>2. Onward(q, pc)  BY <1>2, <2>1, GoMoves, Zenon
  <2>3. ASSUME DeployGoes(req[q], a) PROVE DeployGoes(req[q], a)'
    <3>1. objs'[a] = objs[a] \cup {x}  BY <1>2, <1>4, <2>1, Zenon DEF Types
    <3>2. HasIngress(spec[a]) /\ (req[q].pc = "cert" => CertManager)
      BY <1>2, Zenon DEF Held, HeldBy
    <3>3. spec[a].src = "image" /\ dep[a] # None
      BY <1>2, <1>3, <2>3, <3>2, Zenon DEF DeployGoes, HasIngress
    <3>4. spec'[a] = spec[a] /\ dep'[a] # None  BY <2>1, <3>3, Zenon
    <3>5. CASE req[q].pc = "cert"
      <4>1. objs[a] = {"workload", "service"} /\ x = "cert" /\ pc = "ingress"
        BY <1>3, <2>1, <2>3, <3>5, Zenon DEF DeployGoes
      <4>2. objs'[a] = {"workload", "service"} \cup Certs  BY <3>1, <3>2, <3>5, <4>1 DEF Certs
      <4>. QED
        BY <1>3, <2>2, <3>3, <3>4, <4>1, <4>2, Zenon
        DEF Onward, DeployGoes, AfterRow, AfterRelease, Mirroring, Ended
    <3>6. CASE req[q].pc = "ingress"
      <4>1. objs[a] = {"workload", "service"} \cup Certs /\ x = "ingress" /\ pc = "domain"
        BY <1>3, <2>1, <2>3, <3>6, Zenon DEF DeployGoes
      <4>2. objs'[a] = {"workload", "service", "ingress"} \cup Certs  BY <3>1, <4>1
      <4>. QED
        BY <1>3, <2>2, <3>3, <3>4, <4>1, <4>2, Zenon
        DEF Onward, DeployGoes, AfterRow, AfterRelease, Mirroring, Ended
    <3>. QED  BY <1>2, <3>5, <3>6, Zenon
  <2>4. App(q)' = a  BY <1>1, <2>2, Zenon DEF Onward, App
  <2>. QED  BY <1>1, <1>2, <1>3, <2>2, <2>3, <2>4, DeploySettles, Zenon
<1>. QED  BY <1>5, <1>6, Zenon

\* UpsertAppDomain.
LEMMA DomainSettles ==
    ASSUME AppsInv, SettleInv, NEW q \in Procs, UpsertAppDomain(q), UNCHANGED <<served, spec>>
    PROVE  SettleInv'
<1>1. /\ req[q].pc = "domain" /\ ~Idle(q) /\ Types /\ RequestOK(req[q]) /\ Go(q, "dns")
      /\ UNCHANGED <<objs, dep, spec>>
  BY Zenon DEF UpsertAppDomain, At, Idle, Resting, AppsInv, Types, cluster
<1>2. req[q].op = "deploy"  BY <1>1, Zenon DEF RequestOK, ControlOK, Building
<1>3. Onward(q, "dns")  BY <1>1, GoMoves, Zenon
<1>4. DeployGoes(req[q], App(q)) => DeployGoes(req[q], App(q))'
  BY <1>1, <1>2, <1>3, Zenon
  DEF Onward, DeployGoes, App, AfterRow, AfterRelease, Mirroring, Ended
<1>. QED  BY <1>1, <1>2, <1>3, <1>4, DeploySettles, Zenon

\* ensureDNSForService.
LEMMA EnsureDnsSettles ==
    ASSUME AppsInv, SettleInv, NEW q \in Procs, ensureDNSForService(q), UNCHANGED <<served, spec>>
    PROVE  SettleInv'
<1>1. /\ req[q].pc = "dns" /\ ~Idle(q) /\ Types /\ RequestOK(req[q])
      /\ UNCHANGED <<objs, dep, spec>> /\ HasIngress(SpecOf(q))
  BY Zenon
  DEF ensureDNSForService, GoDespiteError, At, Idle, Resting, AppsInv, Types, cluster, Held, HeldBy,
      SpecOf
<1>2. req[q].op = "deploy"  BY <1>1, Zenon DEF RequestOK, ControlOK, Building
<1>3. CASE GoDespiteError(q, "row")  BY <1>1, <1>3, DespiteSettles, Zenon
<1>4. CASE ~GoDespiteError(q, "row")
  <2>1. Go(q, "row")  BY <1>4, Zenon DEF ensureDNSForService
  <2>2. Onward(q, "row")  BY <1>1, <2>1, GoMoves, Zenon
  <2>3. SpecOf(q) \in AppSpec  BY <1>1, <1>2, DeployedWith, Zenon
  <2>4. Full(spec[App(q)]) = {"workload", "service", "ingress"} \cup Certs
    BY <1>1, <2>3, FullIs, Zenon DEF SpecOf
  <2>5. DeployGoes(req[q], App(q)) => DeployGoes(req[q], App(q))'
    BY <1>1, <1>2, <2>2, <2>4, Zenon
    DEF Onward, DeployGoes, App, AfterRow, AfterRelease, Mirroring, Ended
  <2>. QED  BY <1>1, <1>2, <2>2, <2>5, DeploySettles, Zenon
<1>. QED  BY <1>3, <1>4, Zenon

\* applyRawManifest.
LEMMA RawSettles ==
    ASSUME AppsInv, SettleInv, NEW q \in Procs, applyRawManifest(q), UNCHANGED <<served, spec>>
    PROVE  SettleInv'
<1>1. PICK a : a = App(q)  BY Zenon
<1>2. PICK docs : docs = SpecOf(q).docs  BY Zenon
<1>3. PICK n : n = req[q].doc  BY Zenon
<1>4. /\ Types /\ RequestOK(req[q]) /\ Held(req[q], a) /\ req[q].pc = "raw" /\ ~Idle(q)
      /\ IF n + 1 > Len(docs)
           THEN Go(q, "row") /\ UNCHANGED objs
           ELSE /\ objs' = [objs EXCEPT ![a] = @ \cup {docs[n + 1]}]
                /\ req' = [req EXCEPT ![q].doc = n + 1]
  BY <1>1, <1>2, <1>3, Zenon DEF applyRawManifest, At, AppsInv, Types, Idle, Resting
<1>5. req[q].op = "deploy"  BY <1>4, Zenon DEF RequestOK, ControlOK, Building
<1>6. a \in Apps /\ spec[a] \in AppSpec /\ docs = spec[a].docs /\ spec[a].src # "image"
  BY <1>1, <1>2, <1>4, <1>5, DeployedWith, Zenon DEF SpecOf, Held, HeldBy
<1>7. n \in Nat /\ Len(docs) \in Nat  BY <1>3, <1>4, <1>6 DEF RequestOK, AppSpec
<1>8. ASSUME DeployGoes(req[q], a)
      PROVE  n <= Len(docs) /\ objs[a] = FirstDocs(docs, n)
  BY <1>3, <1>4, <1>5, <1>6, <1>8, Zenon DEF DeployGoes
<1>9. CASE n + 1 > Len(docs)
  <2>1. Onward(q, "row") /\ objs' = objs  BY <1>4, <1>9, GoMoves, Zenon
  <2>2. ASSUME DeployGoes(req[q], a) PROVE DeployGoes(req[q], a)'
    <3>1. n = Len(docs)  BY <1>7, <1>8, <1>9, <2>2
    <3>2. objs'[a] = Full(spec'[a]) /\ spec'[a].src # "image"
      BY <1>6, <1>8, <2>1, <2>2, <3>1, FullIs, Zenon
    <3>. QED
      BY <2>1, <3>2, Zenon DEF Onward, DeployGoes, AfterRow, AfterRelease, Mirroring, Ended
  <2>3. App(q)' = a  BY <1>1, <2>1, Zenon DEF Onward, App
  <2>. QED  BY <1>1, <1>4, <1>5, <2>1, <2>2, <2>3, DeploySettles, Zenon
<1>10. CASE ~(n + 1 > Len(docs))
  <2>1. DOMAIN req = Procs /\ DOMAIN req[q] = RequestFields  BY <1>4, Zenon DEF Types, RequestOK
  <2>2. PICK new : new = [req[q] EXCEPT !.doc = n + 1]  BY Zenon
  <2>3. req' = [req EXCEPT ![q].doc = n + 1]  BY <1>4, <1>10, Zenon
  <2>4. req'[q] = new /\ Rest(q)  BY <2>1, <2>2, <2>3, Zenon DEF Rest
  <2>5. /\ new.pc = "raw" /\ new.doc = n + 1 /\ new.op = "deploy" /\ new.app = a
        /\ new.solo = req[q].solo /\ new.lost = req[q].lost
    BY <1>1, <1>4, <1>5, <2>1, <2>2, Zenon DEF RequestFields, App
  <2>6. ASSUME DeployGoes(req[q], a) PROVE DeployGoes(req[q], a)'
    <3>1. objs'[a] = FirstDocs(docs, n) \cup {docs[n + 1]}
      BY <1>4, <1>6, <1>8, <1>10, <2>6, ZenonT(60) DEF Types
    <3>2. 1 .. (n + 1) = 1 .. n \cup {n + 1} /\ n + 1 <= Len(docs)  BY <1>7, <1>10
    <3>3. objs'[a] = FirstDocs(docs, n + 1)  BY <3>1, <3>2 DEF FirstDocs
    <3>4. spec'[a] = spec[a] /\ spec[a].src # "image" /\ spec[a].docs = docs  BY <1>6, Zenon
    <3>. QED
      BY <2>4, <2>5, <3>2, <3>3, <3>4, Zenon
      DEF DeployGoes, AfterRow, AfterRelease, Mirroring, Ended
  <2>7. Goes(req[q], a) => Goes(req[q], a)'
    BY <2>4, <2>5, <2>6, Zenon
    DEF Goes, DeleteGoes, UpdateGoes, StatusGoes, ListGoes, UpdateOps, FieldOf
  <2>8. OnItsOwn(q)' => Goes(req[q], a)  BY <1>1, <2>4, <2>5, Zenon DEF OnItsOwn, SettleInv
  <2>9. App(q)' = a  BY <2>4, <2>5, Zenon DEF App
  <2>. QED  BY <1>4, <2>4, <2>5, <2>7, <2>8, <2>9, OwnStep, Zenon
<1>. QED  BY <1>9, <1>10, Zenon

\* CreateApp.
LEMMA CreateSettles ==
    ASSUME AppsInv, SettleInv, NEW q \in Procs, CreateApp(q), UNCHANGED <<served, spec>>
    PROVE  SettleInv'
<1>1. PICK a : a = App(q)  BY Zenon
<1>2. /\ req[q].pc = "row" /\ ~Idle(q) /\ Types /\ RequestOK(req[q])
      /\ Fail(q) \/ /\ Go(q, "release") /\ row' = [row EXCEPT ![a] = "live"]
                    /\ UNCHANGED <<objs, dep, spec>>
  BY <1>1, Zenon DEF CreateApp, Error, At, Idle, Resting, AppsInv, Types, cluster
<1>3. req[q].op = "deploy"  BY <1>2, Zenon DEF RequestOK, ControlOK, Building
<1>4. CASE Fail(q)  BY <1>2, <1>4, FailSettles, Zenon
<1>5. CASE ~Fail(q)
  <2>1. Onward(q, "release")  BY <1>2, <1>5, GoMoves, Zenon
  <2>2. row'[a] = "live" /\ UNCHANGED <<objs, dep, spec>>
    BY <1>1, <1>2, <1>3, <1>5, DeployedWith, Zenon DEF Types
  <2>3. DeployGoes(req[q], a) => DeployGoes(req[q], a)'
    BY <1>2, <1>3, <2>1, <2>2, Zenon
    DEF Onward, DeployGoes, AfterRow, AfterRelease, Mirroring, Ended
  <2>4. App(q)' = a  BY <1>1, <2>1, Zenon DEF Onward, App
  <2>. QED  BY <1>1, <1>2, <1>3, <2>1, <2>3, <2>4, DeploySettles, Zenon
<1>. QED  BY <1>4, <1>5, Zenon

\* recordRelease.
LEMMA ReleaseSettles ==
    ASSUME AppsInv, SettleInv, NEW q \in Procs, recordRelease(q), UNCHANGED <<served, spec>>
    PROVE  SettleInv'
<1>1. PICK a : a = App(q)  BY Zenon
<1>2. PICK pc : pc = IF spec[a].src = "image" THEN "crApply" ELSE "event"  BY Zenon
<1>3. /\ req[q].pc = "release" /\ ~Idle(q) /\ Types /\ RequestOK(req[q]) /\ Go(q, pc)
      /\ released' = released \cup {a} /\ UNCHANGED <<objs, dep, row, spec>>
  BY <1>1, <1>2, Zenon DEF recordRelease, SpecOf, At, Idle, Resting, AppsInv, Types, cluster
<1>4. req[q].op = "deploy"  BY <1>3, Zenon DEF RequestOK, ControlOK, Building
<1>5. Onward(q, pc) /\ a \in released'  BY <1>3, GoMoves, Zenon
<1>6. DeployGoes(req[q], a) => DeployGoes(req[q], a)'
  BY <1>2, <1>3, <1>4, <1>5, Zenon
  DEF Onward, DeployGoes, AfterRow, AfterRelease, Mirroring, Ended
<1>7. App(q)' = a  BY <1>1, <1>5, Zenon DEF Onward, App
<1>. QED  BY <1>1, <1>3, <1>4, <1>5, <1>6, <1>7, DeploySettles, Zenon

\* So has a step of GetAppStatus,
LEMMA StatusSettles ==
    ASSUME AppsInv, SettleInv, NEW q \in Procs, req[q].op = "status", ~Idle(q),
           NEW pc, Onward(q, pc),
           StatusGoes(req[q], App(q)) => StatusGoes(req[q], App(q))'
    PROVE  SettleInv'
<1>1. req'[q].op = "status"  BY Zenon DEF Onward
<1>2. /\ DeployGoes(req[q], App(q))' /\ DeleteGoes(req[q], App(q))'
      /\ UpdateGoes(req[q], App(q))' /\ ListGoes(req[q], App(q))'
  BY <1>1, Zenon DEF DeployGoes, DeleteGoes, UpdateGoes, ListGoes, UpdateOps, FieldOf
<1>. QED  BY <1>2, OnwardSettles, Zenon DEF Goes

\* and one of ListProjectAppsStatus.
LEMMA ListSettles ==
    ASSUME AppsInv, SettleInv, NEW q \in Procs, req[q].op = "list", ~Idle(q),
           NEW pc, Onward(q, pc),
           ListGoes(req[q], App(q)) => ListGoes(req[q], App(q))'
    PROVE  SettleInv'
<1>1. req'[q].op = "list"  BY Zenon DEF Onward
<1>2. /\ DeployGoes(req[q], App(q))' /\ DeleteGoes(req[q], App(q))'
      /\ UpdateGoes(req[q], App(q))' /\ StatusGoes(req[q], App(q))'
  BY <1>1, Zenon DEF DeployGoes, DeleteGoes, UpdateGoes, StatusGoes, UpdateOps, FieldOf
<1>. QED  BY <1>2, OnwardSettles, Zenon DEF Goes

\* ensureAppCRDForPlan.
LEMMA EnsureCrdSettles ==
    ASSUME AppsInv, SettleInv, NEW q \in Procs, ensureAppCRDForPlan(q), UNCHANGED <<served, spec>>
    PROVE  SettleInv'
<1>1. PICK a : a = App(q)  BY Zenon
<1>2. /\ req[q].pc \in {"crApply", "crLoad"} /\ ~Idle(q) /\ Types /\ RequestOK(req[q])
      /\ UNCHANGED <<objs, dep, row, released, spec, mirror>>
  BY Zenon
  DEF ensureAppCRDForPlan, GoDespiteError, At, Idle, Resting, AppsInv, Types, cluster, store
<1>3. req[q].op = "deploy"  BY <1>2, Zenon DEF RequestOK, ControlOK, Building
<1>4. a \in Apps  BY <1>1, <1>2, <1>3, DeployedWith, Zenon
<1>5. CASE GoDespiteError(q, "event")  BY <1>2, <1>5, DespiteSettles, Zenon
<1>6. CASE ~GoDespiteError(q, "event") /\ req[q].pc = "crApply" /\ served
  <2>1. Go(q, "crLoad") /\ cr' = [cr EXCEPT ![a] = [rv |-> 1, f |-> [x \in CRFields |-> 0]]]
    BY <1>1, <1>6, Zenon DEF ensureAppCRDForPlan, At
  <2>2. cr'[a] = [rv |-> 1, f |-> [x \in CRFields |-> 0]]  BY <1>2, <1>4, <2>1, Zenon DEF Types
  <2>3. cr'[a] \in Versioned(CRFields)  BY <2>2 DEF Versioned, Vals
  <2>4. cr'[a] # None  BY <2>3, AppsAssumption, Zenon
  <2>5. Onward(q, "crLoad")  BY <1>2, <2>1, GoMoves, Zenon
  <2>6. DeployGoes(req[q], a) => DeployGoes(req[q], a)'
    BY <1>2, <1>3, <1>6, <2>4, <2>5, Zenon
    DEF Onward, DeployGoes, AfterRow, AfterRelease, Mirroring, Ended
  <2>7. App(q)' = a  BY <1>1, <2>5, Zenon DEF Onward, App
  <2>. QED  BY <1>1, <1>2, <1>3, <2>5, <2>6, <2>7, DeploySettles, Zenon
<1>7. CASE ~GoDespiteError(q, "event") /\ req[q].pc = "crApply" /\ ~served
  <2>1. Go(q, "event")  BY <1>7, Zenon DEF ensureAppCRDForPlan, At
  <2>2. ~served'  BY <1>7
  <2>3. Onward(q, "event")  BY <1>2, <2>1, GoMoves, Zenon
  <2>4. DeployGoes(req[q], a) => DeployGoes(req[q], a)'
    BY <1>2, <1>3, <1>7, <2>2, <2>3, Zenon
    DEF Onward, DeployGoes, AfterRow, AfterRelease, Mirroring, Ended
  <2>5. App(q)' = a  BY <1>1, <2>3, Zenon DEF Onward, App
  <2>. QED  BY <1>1, <1>2, <1>3, <2>3, <2>4, <2>5, DeploySettles, Zenon
<1>8. CASE ~GoDespiteError(q, "event") /\ req[q].pc = "crLoad"
  <2>1. cr' = cr /\ IF cr[a] # None THEN Keep(q, "mirror", cr[a]) ELSE Go(q, "event")
    BY <1>1, <1>8, Zenon DEF ensureAppCRDForPlan, At, cluster
  <2>2. CASE cr[a] # None
    <3>1. Onward(q, "mirror") /\ req'[q].saw = cr[a]  BY <1>2, <2>1, <2>2, KeepMoves, Zenon
    <3>2. DeployGoes(req[q], a) => DeployGoes(req[q], a)'
      BY <1>2, <1>3, <1>8, <2>1, <2>2, <3>1, Zenon
      DEF Onward, DeployGoes, AfterRow, AfterRelease, Mirroring, Ended
    <3>3. App(q)' = a  BY <1>1, <3>1, Zenon DEF Onward, App
    <3>. QED  BY <1>1, <1>2, <1>3, <3>1, <3>2, <3>3, DeploySettles, Zenon
  <2>3. CASE cr[a] = None
    <3>1. Onward(q, "event")  BY <1>2, <2>1, <2>3, GoMoves, Zenon
    <3>2. ~DeployGoes(req[q], a)  BY <1>3, <1>8, <2>3, Zenon DEF DeployGoes
    <3>. QED  BY <1>1, <1>2, <1>3, <3>1, <3>2, DeploySettles, Zenon
  <2>. QED  BY <2>2, <2>3, Zenon
<1>. QED  BY <1>2, <1>5, <1>6, <1>7, <1>8, Zenon

\* The mirror of what was read is a mirror as long as nobody else writes, and
\* the other mirrors are left alone.
LEMMA MirrorsNow ==
    ASSUME Types, NEW a \in Apps, NEW x, x = cr[a], cr[a] # None, cr' = cr,
           mirror' = [mirror EXCEPT ![a] = [rv |-> x.rv, f |-> x.f, deleted |-> FALSE]]
    PROVE  Mirrors(a)' /\ \A b \in Apps \ {a} : Mirrors(b) => Mirrors(b)'
<1>1. mirror = [b \in Apps |-> mirror[b]] /\ cr[a] \in Versioned(CRFields)  BY Zenon DEF Types
<1>2. PICK new : new = [rv |-> x.rv, f |-> x.f, deleted |-> FALSE]  BY Zenon
<1>3. mirror'[a] = new /\ \A b \in Apps \ {a} : mirror'[b] = mirror[b]  BY <1>1, <1>2, Zenon
<1>4. new \in Mirrored
  <2>1. x.rv \in Nat /\ x.f \in [CRFields -> Vals]  BY <1>1 DEF Versioned
  <2>. QED  BY <1>2, <2>1, Zenon DEF Mirrored
<1>5. new # None  BY <1>4, AppsAssumption, Zenon
<1>6. new.rv = x.rv /\ new.f = x.f /\ ~new.deleted  BY <1>2, Zenon
<1>. QED  BY <1>3, <1>5, <1>6, Zenon DEF Mirrors

\* mirrorAppCRD.
LEMMA MirrorSettles ==
    ASSUME AppsInv, SettleInv, NEW q \in Procs, mirrorAppCRD(q), UNCHANGED <<served, spec>>
    PROVE  SettleInv'
<1>1. PICK a : a = App(q)  BY Zenon
<1>2. PICK pc : pc = IF req[q].op \in {"status", "list"} THEN "sDomains" ELSE "event"  BY Zenon
<1>3. /\ req[q].pc = "mirror" /\ ~Idle(q) /\ Types /\ RequestOK(req[q])
      /\ UNCHANGED <<objs, dep, cr, row, released, spec>>
  BY Zenon DEF mirrorAppCRD, GoDespiteError, At, Idle, Resting, AppsInv, Types, cluster, store
<1>4. req[q].op \in {"deploy", "scale", "image", "status", "list"} /\ a \in Apps
  BY <1>1, <1>3, Zenon DEF RequestOK, ControlOK, App
<1>5. CASE GoDespiteError(q, pc)  BY <1>3, <1>5, DespiteSettles, Zenon
<1>6. CASE ~GoDespiteError(q, pc)
  <2>1. /\ Go(q, pc)
        /\ mirror' = [mirror EXCEPT ![a] = [rv |-> req[q].saw.rv, f |-> req[q].saw.f, deleted |-> FALSE]]
    BY <1>1, <1>2, <1>6, Zenon DEF mirrorAppCRD
  <2>2. Onward(q, pc)  BY <1>3, <2>1, GoMoves, Zenon
  <2>3. ASSUME req[q].saw = cr[a], cr[a] # None
        PROVE  Mirrors(a)' /\ \A b \in Apps \ {a} : Mirrors(b) => Mirrors(b)'
    BY <1>3, <1>4, <2>1, <2>3, MirrorsNow, Zenon
  <2>4. App(q)' = a  BY <1>1, <2>2, Zenon DEF Onward, App
  <2>5. CASE req[q].op = "deploy"
    <3>1. pc = "event"  BY <1>2, <2>5, Zenon
    <3>2. DeployGoes(req[q], a) => DeployGoes(req[q], a)'
      BY <1>3, <2>2, <2>3, <2>5, <3>1, Zenon
      DEF Onward, DeployGoes, AfterRow, AfterRelease, Mirroring, Ended
    <3>. QED  BY <1>1, <1>3, <2>2, <2>4, <2>5, <3>2, DeploySettles, Zenon
  <2>6. CASE req[q].op \in {"scale", "image"}
    <3>1. pc = "event" /\ req[q].op \in UpdateOps /\ FieldOf[req[q].op] \in CRFields
      BY <1>2, <2>6 DEF UpdateOps, FieldOf, CRFields
    <3>2. UpdateGoes(req[q], a) => UpdateGoes(req[q], a)'
      BY <1>3, <2>2, <2>3, <3>1, Zenon DEF Onward, UpdateGoes, Ended
    <3>. QED  BY <1>1, <1>3, <2>2, <2>4, <3>1, <3>2, UpdateSettles, Zenon
  <2>7. CASE req[q].op = "status"
    <3>1. pc = "sDomains"  BY <1>2, <2>7, Zenon
    <3>2. StatusGoes(req[q], a) => StatusGoes(req[q], a)'
      BY <1>3, <2>2, <2>3, <2>7, <3>1, Zenon DEF Onward, StatusGoes
    <3>. QED  BY <1>1, <1>3, <2>2, <2>4, <2>7, <3>2, StatusSettles, Zenon
  <2>8. CASE req[q].op = "list"
    <3>1. pc = "sDomains"  BY <1>2, <2>8, Zenon
    <3>2. ListGoes(req[q], a) => ListGoes(req[q], a)'
      BY <1>3, <2>2, <2>3, <2>8, <3>1, Zenon DEF Onward, ListGoes
    <3>. QED  BY <1>1, <1>3, <2>2, <2>4, <2>8, <3>2, ListSettles, Zenon
  <2>. QED  BY <1>4, <2>5, <2>6, <2>7, <2>8, Zenon
<1>. QED  BY <1>5, <1>6, Zenon

\* loadAppCRD.
LEMMA LoadSettles ==
    ASSUME AppsInv, SettleInv, NEW q \in Procs, loadAppCRD(q), UNCHANGED <<served, spec>>
    PROVE  SettleInv'
<1>1. PICK a : a = App(q)  BY Zenon
<1>2. /\ req[q].pc \in {"uRead", "uLoad"} /\ ~Idle(q) /\ Types /\ RequestOK(req[q])
      /\ UNCHANGED <<objs, dep, cr, row, mirror>>
      /\ \/ Fail(q)
         \/ Go(q, "uLoad")
         \/ cr[a] = None /\ Go(q, "depGet")
         \/ Keep(q, "crPut", cr[a])
  BY <1>1, Zenon DEF loadAppCRD, At, Idle, Resting, AppsInv, Types, cluster, store
<1>3. req[q].op \in UpdateOps  BY <1>2, Zenon DEF RequestOK, ControlOK, UpdateOps, FieldOf
<1>4. CASE Fail(q)  BY <1>2, <1>4, FailSettles, Zenon
<1>5. CASE ~Fail(q)
  <2>1. PICK pc : pc \in {"uLoad", "depGet", "crPut"} /\ Onward(q, pc)
                  /\ (pc = "depGet" => cr[a] = None)
    <3>1. CASE Go(q, "uLoad")  BY <1>2, <3>1, GoMoves
    <3>2. CASE cr[a] = None /\ Go(q, "depGet")  BY <1>2, <3>2, GoMoves
    <3>3. CASE Keep(q, "crPut", cr[a])  BY <1>2, <3>3, KeepMoves
    <3>. QED  BY <1>2, <1>5, <3>1, <3>2, <3>3, Zenon
  <2>2. UpdateGoes(req[q], a)'  BY <1>2, <2>1, Zenon DEF Onward, UpdateGoes, Ended
  <2>3. App(q)' = a  BY <1>1, <2>1, Zenon DEF Onward, App
  <2>. QED  BY <1>1, <1>2, <1>3, <2>1, <2>2, <2>3, UpdateSettles, Zenon
<1>. QED  BY <1>4, <1>5, Zenon

\* What an update writes back: what was read with one field changed.
Rewritten(saw, f, v) == [rv |-> saw.rv + 1, f |-> [saw.f EXCEPT ![f] = v]]

\* It is of the same kind, and the field has its value.
LEMMA FieldSet ==
    ASSUME NEW F, NEW saw \in Versioned(F), NEW f \in F, NEW v \in Vals
    PROVE  Rewritten(saw, f, v).f[f] = v /\ Rewritten(saw, f, v) \in Versioned(F)
  BY DEF Versioned, Rewritten

\* ScaleApp and UpdateAppImage, writing the App resource.
LEMMA UpdateCRSettles ==
    ASSUME AppsInv, SettleInv, NEW q \in Procs, UpdateCR(q), UNCHANGED <<served, spec>>
    PROVE  SettleInv'
<1>1. PICK a : a = App(q)  BY Zenon
<1>2. PICK f : f = FieldOf[req[q].op]  BY Zenon
<1>3. PICK new : new = Rewritten(req[q].saw, f, req[q].arg)  BY Zenon
<1>4. /\ req[q].pc = "crPut" /\ ~Idle(q) /\ Types /\ RequestOK(req[q]) /\ Held(req[q], a)
      /\ UNCHANGED <<objs, dep, row, mirror>>
      /\ \/ cr' = [cr EXCEPT ![a] = new] /\ Keep(q, "mirror", new)
         \/ Fail(q)
  BY <1>1, <1>2, <1>3, Zenon DEF UpdateCR, At, Idle, Resting, AppsInv, Types, store, Rewritten
<1>5. req[q].op \in {"scale", "image"} /\ a \in Apps /\ req[q].arg \in Vals
      /\ req[q].saw \in Versioned(CRFields)
  BY <1>1, <1>4, Zenon DEF RequestOK, ControlOK, App, Held, HeldBy
<1>6. req[q].op \in UpdateOps /\ f \in CRFields  BY <1>2, <1>5, SMTT(40) DEF UpdateOps, FieldOf, CRFields
<1>7. CASE Fail(q)  BY <1>4, <1>7, FailSettles, Zenon
<1>8. CASE ~Fail(q)
  <2>1. Onward(q, "mirror") /\ req'[q].saw = new  BY <1>4, <1>8, KeepMoves, Zenon
  <2>2. cr'[a] = new  BY <1>4, <1>5, <1>8, Zenon DEF Types
  <2>3. new.f[f] = req[q].arg /\ new \in Versioned(CRFields)
    <3>1. \A x \in Versioned(CRFields), g \in CRFields, v \in Vals :
             Rewritten(x, g, v).f[g] = v /\ Rewritten(x, g, v) \in Versioned(CRFields)
      BY FieldSet, Zenon
    <3>. QED  BY <1>3, <1>5, <1>6, <3>1, Zenon
  <2>4. cr'[a] # None  BY <2>2, <2>3, AppsAssumption, Zenon
  <2>5. UpdateGoes(req[q], a)'
    BY <1>2, <2>1, <2>2, <2>3, <2>4, Zenon DEF Onward, UpdateGoes, Ended
  <2>6. App(q)' = a  BY <1>1, <2>1, Zenon DEF Onward, App
  <2>. QED  BY <1>1, <1>4, <1>6, <2>1, <2>5, <2>6, UpdateSettles, Zenon
<1>. QED  BY <1>7, <1>8, Zenon

\* updateAppDeployment, reading.
LEMMA ReadDeploymentSettles ==
    ASSUME AppsInv, SettleInv, NEW q \in Procs, readAppDeployment(q), UNCHANGED <<served, spec>>
    PROVE  SettleInv'
<1>1. PICK a : a = App(q)  BY Zenon
<1>2. /\ req[q].pc = "depGet" /\ ~Idle(q) /\ Types /\ RequestOK(req[q])
      /\ cr' = cr /\ (Fail(q) \/ Keep(q, "depPut", dep[a]))
  BY <1>1, Zenon DEF readAppDeployment, At, Idle, Resting, AppsInv, Types, cluster
<1>3. req[q].op \in UpdateOps  BY <1>2, Zenon DEF RequestOK, ControlOK
<1>4. CASE Fail(q)  BY <1>2, <1>4, FailSettles, Zenon
<1>5. CASE ~Fail(q)
  <2>1. Onward(q, "depPut")  BY <1>2, <1>5, KeepMoves, Zenon
  <2>2. UpdateGoes(req[q], a) => UpdateGoes(req[q], a)'
    BY <1>2, <1>3, <2>1, Zenon DEF Onward, UpdateGoes, Ended
  <2>3. App(q)' = a  BY <1>1, <2>1, Zenon DEF Onward, App
  <2>. QED  BY <1>1, <1>2, <1>3, <2>1, <2>2, <2>3, UpdateSettles, Zenon
<1>. QED  BY <1>4, <1>5, Zenon

\* updateAppDeployment, writing.
LEMMA UpdateDeploymentSettles ==
    ASSUME AppsInv, SettleInv, NEW q \in Procs, updateAppDeployment(q), UNCHANGED <<served, spec>>
    PROVE  SettleInv'
<1>1. PICK a : a = App(q)  BY Zenon
<1>2. PICK f : f = FieldOf[req[q].op]  BY Zenon
<1>3. PICK new : new = Rewritten(req[q].saw, f, req[q].arg)  BY Zenon
<1>4. /\ req[q].pc = "depPut" /\ ~Idle(q) /\ Types /\ RequestOK(req[q]) /\ Held(req[q], a)
      /\ cr' = cr
      /\ \/ req[q].saw # None /\ dep' = [dep EXCEPT ![a] = new] /\ Go(q, "event")
         \/ Fail(q)
  BY <1>1, <1>2, <1>3, Zenon DEF updateAppDeployment, At, Idle, Resting, AppsInv, Types, Rewritten
<1>5. req[q].op \in UpdateOps /\ req[q].arg \in Vals  BY <1>4, Zenon DEF RequestOK, ControlOK
<1>6. CASE Fail(q)  BY <1>4, <1>6, FailSettles, Zenon
<1>7. CASE ~Fail(q)
  <2>1. req[q].op \notin {"none", "list"} /\ f \in Fields
    BY <1>2, <1>5 DEF UpdateOps, FieldOf, Fields
  <2>2. a \in Apps  BY <1>1, <1>4, <2>1, Zenon DEF RequestOK, App
  <2>3. req[q].saw \in Versioned(Fields)  BY <1>4, <1>7, Zenon DEF Held, HeldBy
  <2>4. Onward(q, "event")  BY <1>4, <1>7, GoMoves, Zenon
  <2>5. dep'[a] = new  BY <1>4, <1>7, <2>2, Zenon DEF Types
  <2>6. new.f[f] = req[q].arg /\ new \in Versioned(Fields)
    <3>1. \A x \in Versioned(Fields), g \in Fields, v \in Vals :
             Rewritten(x, g, v).f[g] = v /\ Rewritten(x, g, v) \in Versioned(Fields)
      BY FieldSet, Zenon
    <3>. QED  BY <1>3, <1>5, <2>1, <2>3, <3>1, Zenon
  <2>7. dep'[a] # None  BY <2>5, <2>6, AppsAssumption, Zenon
  <2>8. UpdateGoes(req[q], a) => UpdateGoes(req[q], a)'
    BY <1>2, <1>4, <1>5, <2>4, <2>5, <2>6, <2>7, Zenon DEF Onward, UpdateGoes, Ended
  <2>9. App(q)' = a  BY <1>1, <2>4, Zenon DEF Onward, App
  <2>. QED  BY <1>1, <1>4, <1>5, <2>4, <2>8, <2>9, UpdateSettles, Zenon
<1>. QED  BY <1>6, <1>7, Zenon

\* HandleGitWebhook promises nothing.
LEMMA WebhookSettles ==
    ASSUME AppsInv, SettleInv, NEW q \in Procs, patchBySlug(q), UNCHANGED <<served, spec>>
    PROVE  SettleInv'
<1>1. /\ req[q].pc \in {"wRead", "wPatch"} /\ ~Idle(q) /\ Types /\ RequestOK(req[q])
      /\ Finish(q) \/ Go(q, "wPatch")
      /\ UNCHANGED <<store, cluster>>
  BY Zenon DEF patchBySlug, At, Idle, Resting, AppsInv, Types
<1>2. req[q].op = "webhook"  BY <1>1, Zenon DEF RequestOK, ControlOK
<1>3. CASE Finish(q)  BY <1>1, <1>3, FinishSettles, Zenon
<1>4. CASE Go(q, "wPatch")
  <2>1. Onward(q, "wPatch")  BY <1>1, <1>4, GoMoves, Zenon
  <2>2. req'[q].op = "webhook"  BY <1>2, <2>1, Zenon DEF Onward
  <2>3. Goes(req[q], App(q))'
    BY <2>2, Zenon DEF Goes, DeployGoes, DeleteGoes, UpdateGoes, StatusGoes, ListGoes, UpdateOps, FieldOf
  <2>. QED  BY <1>1, <2>1, <2>3, OnwardSettles, Zenon
<1>. QED  BY <1>1, <1>3, <1>4, Zenon

\* GetAppStatus and ListProjectAppsStatus, reading the rows.
LEMMA ReadRowsSettles ==
    ASSUME AppsInv, SettleInv, NEW q \in Procs, ReadRows(q), UNCHANGED <<served, spec>>
    PROVE  SettleInv'
<1>1. PICK live : live = {b \in Apps : row[b] = "live"}  BY Zenon
<1>2. /\ req[q].pc = "sRead" /\ ~Idle(q) /\ Types /\ RequestOK(req[q])
      /\ UNCHANGED <<row, cr, mirror>>
      /\ \/ Fail(q)
         \/ req[q].op = "status" /\ Go(q, "sCollect")
         \/ req[q].op # "status" /\ req' = [req EXCEPT ![q].todo = live, ![q].pc = "sDomains"]
  BY <1>1, Zenon DEF ReadRows, At, Idle, Resting, AppsInv, Types, cluster, store
<1>3. req[q].op \in {"status", "list"}  BY <1>2, Zenon DEF RequestOK, ControlOK
<1>4. CASE Fail(q)  BY <1>2, <1>4, FailSettles, Zenon
<1>5. CASE req[q].op = "status" /\ Go(q, "sCollect")
  <2>1. Onward(q, "sCollect")  BY <1>2, <1>5, GoMoves, Zenon
  <2>2. StatusGoes(req[q], App(q)) => StatusGoes(req[q], App(q))'
    BY <1>2, <1>5, <2>1, Zenon DEF Onward, StatusGoes
  <2>. QED  BY <1>2, <1>5, <2>1, <2>2, StatusSettles, Zenon
<1>6. CASE req[q].op # "status" /\ req' = [req EXCEPT ![q].todo = live, ![q].pc = "sDomains"]
  <2>1. DOMAIN req = Procs /\ DOMAIN req[q] = RequestFields  BY <1>2, Zenon DEF Types, RequestOK
  <2>2. PICK new : new = [req[q] EXCEPT !.todo = live, !.pc = "sDomains"]  BY Zenon
  <2>3. req'[q] = new /\ Rest(q)  BY <1>6, <2>1, <2>2, Zenon DEF Rest
  <2>4. new.pc = "sDomains" /\ new.todo = live /\ new.op = req[q].op /\ new.solo = req[q].solo
    BY <2>1, <2>2, Zenon DEF RequestFields
  <2>5. new.op = "list"  BY <1>3, <1>6, <2>4, Zenon
  <2>6. ListGoes(req[q], App(q))'  BY <1>1, <1>2, <2>3, <2>4, Zenon DEF ListGoes
  <2>7. /\ DeployGoes(req[q], App(q))' /\ DeleteGoes(req[q], App(q))'
        /\ UpdateGoes(req[q], App(q))' /\ StatusGoes(req[q], App(q))'
    BY <2>3, <2>5, Zenon DEF DeployGoes, DeleteGoes, UpdateGoes, StatusGoes, UpdateOps, FieldOf
  <2>. QED  BY <1>2, <2>3, <2>4, <2>6, <2>7, OwnStep, Zenon DEF Goes
<1>. QED  BY <1>2, <1>4, <1>5, <1>6, Zenon

\* CollectAppStatus.
LEMMA CollectSettles ==
    ASSUME AppsInv, SettleInv, NEW q \in Procs, CollectAppStatus(q), UNCHANGED <<served, spec>>
    PROVE  SettleInv'
<1>1. PICK a : a = App(q)  BY Zenon
<1>2. /\ req[q].pc \in {"sCollect", "sLoad"} /\ ~Idle(q) /\ Types /\ RequestOK(req[q])
      /\ UNCHANGED <<row, cr, mirror>>
      /\ \/ GoDespiteError(q, "sDomains")
         \/ Go(q, "sLoad")
         \/ cr[a] = None /\ Go(q, "sDomains")
         \/ cr[a] # None /\ Keep(q, "mirror", cr[a])
  BY <1>1, Zenon
  DEF CollectAppStatus, GoDespiteError, At, Idle, Resting, AppsInv, Types, cluster, store
<1>3. req[q].op \in {"status", "list"}  BY <1>2, Zenon DEF RequestOK, ControlOK
<1>4. CASE GoDespiteError(q, "sDomains")  BY <1>2, <1>4, DespiteSettles, Zenon
<1>5. CASE ~GoDespiteError(q, "sDomains")
  <2>1. PICK pc : /\ pc \in {"sLoad", "sDomains", "mirror"} /\ Onward(q, pc)
                  /\ pc = "sDomains" => cr[a] = None
                  /\ pc = "mirror" => cr[a] # None /\ req'[q].saw = cr[a]
    <3>1. CASE Go(q, "sLoad")  BY <1>2, <3>1, GoMoves, Zenon
    <3>2. CASE cr[a] = None /\ Go(q, "sDomains")  BY <1>2, <3>2, GoMoves
    <3>3. CASE cr[a] # None /\ Keep(q, "mirror", cr[a])  BY <1>2, <3>3, KeepMoves, Zenon
    <3>. QED  BY <1>2, <1>5, <3>1, <3>2, <3>3, Zenon
  <2>2. App(q)' = a  BY <1>1, <2>1, Zenon DEF Onward, App
  <2>3. \A b : Mirrors(b) => Mirrors(b)'  BY <1>2, Zenon DEF Mirrors
  <2>4. CASE req[q].op = "status"
    <3>1. StatusGoes(req[q], a) => StatusGoes(req[q], a)'
      BY <1>2, <2>1, <2>4, Zenon DEF Onward, StatusGoes
    <3>. QED  BY <1>1, <1>2, <2>1, <2>2, <2>4, <3>1, StatusSettles, Zenon
  <2>5. CASE req[q].op = "list"
    <3>1. ListGoes(req[q], a) => ListGoes(req[q], a)'
      BY <1>2, <2>1, <2>3, <2>5, Zenon DEF Onward, ListGoes
    <3>. QED  BY <1>1, <1>2, <2>1, <2>2, <2>5, <3>1, ListSettles, Zenon
  <2>. QED  BY <1>3, <2>4, <2>5, Zenon
<1>. QED  BY <1>4, <1>5, Zenon

\* domainStatuses, and the next app of a list.
LEMMA NextAppSettles ==
    ASSUME AppsInv, SettleInv, NEW q \in Procs, domainStatuses(q), UNCHANGED <<served, spec>>
    PROVE  SettleInv'
<1>1. PICK a : a = App(q)  BY Zenon
<1>2. /\ req[q].pc = "sDomains" /\ ~Idle(q) /\ Types /\ RequestOK(req[q])
      /\ UNCHANGED <<store, cluster>> /\ UNCHANGED <<row, cr, mirror>>
      /\ \/ req[q].todo = {} /\ Finish(q)
         \/ \E b \in req[q].todo :
               req' = [req EXCEPT ![q].app = b, ![q].todo = @ \ {b}, ![q].pc = "sCollect"]
  BY Zenon DEF domainStatuses, At, Idle, Resting, AppsInv, Types, cluster, store
<1>3. req[q].op \in {"status", "list"}  BY <1>2, Zenon DEF RequestOK, ControlOK
<1>4. CASE req[q].todo = {} /\ Finish(q)  BY <1>2, <1>4, FinishSettles, Zenon
<1>5. CASE \E b \in req[q].todo :
              req' = [req EXCEPT ![q].app = b, ![q].todo = @ \ {b}, ![q].pc = "sCollect"]
  <2>1. PICK b \in req[q].todo :
           req' = [req EXCEPT ![q].app = b, ![q].todo = @ \ {b}, ![q].pc = "sCollect"]
    BY <1>5, Zenon
  <2>2. DOMAIN req = Procs /\ DOMAIN req[q] = RequestFields  BY <1>2, Zenon DEF Types, RequestOK
  <2>3. PICK new : new = [req[q] EXCEPT !.app = b, !.todo = @ \ {b}, !.pc = "sCollect"]  BY Zenon
  <2>4. req'[q] = new /\ Rest(q)  BY <2>1, <2>2, <2>3, Zenon DEF Rest
  <2>5. /\ new.pc = "sCollect" /\ new.app = b /\ new.todo = req[q].todo \ {b}
        /\ new.op = req[q].op /\ new.solo = req[q].solo /\ new.lost = req[q].lost
    BY <2>2, <2>3, Zenon DEF RequestFields
  <2>6. App(q)' = b  BY <2>4, <2>5, Zenon DEF App
  <2>7. \A c : Mirrors(c) => Mirrors(c)'  BY <1>2, Zenon DEF Mirrors
  <2>8. OnItsOwn(q)' => Goes(req[q], a)  BY <1>1, <2>4, <2>5, Zenon DEF OnItsOwn, SettleInv
  <2>9. ListGoes(req[q], a) => ListGoes(req[q], b)'
    BY <1>2, <2>4, <2>5, <2>7, Zenon DEF ListGoes
  <2>10. ~StatusGoes(req[q], a) \/ req[q].op = "list"  BY <1>3, <2>1, Zenon DEF StatusGoes
  <2>11. req[q].op = "list" =>
           /\ DeployGoes(req[q], b)' /\ DeleteGoes(req[q], b)'
           /\ UpdateGoes(req[q], b)' /\ StatusGoes(req[q], b)'
    BY <2>4, <2>5, Zenon DEF DeployGoes, DeleteGoes, UpdateGoes, StatusGoes, UpdateOps, FieldOf
  <2>. QED  BY <1>2, <2>4, <2>5, <2>6, <2>8, <2>9, <2>10, <2>11, OwnStep, Zenon DEF Goes
<1>. QED  BY <1>2, <1>4, <1>5, Zenon

\* DeleteApp, reading.
LEMMA DeleteReadsSettles ==
    ASSUME AppsInv, SettleInv, NEW q \in Procs, DeleteReads(q), UNCHANGED <<served, spec>>
    PROVE  SettleInv'
<1>1. /\ req[q].pc = "dRead" /\ ~Idle(q) /\ Types /\ RequestOK(req[q])
      /\ Fail(q) \/ Go(q, "dObjects")
  BY Zenon DEF DeleteReads, At, Idle, Resting, AppsInv, Types
<1>2. req[q].op = "delete"  BY <1>1, Zenon DEF RequestOK, ControlOK
<1>3. CASE Fail(q)  BY <1>1, <1>3, FailSettles, Zenon
<1>4. CASE Go(q, "dObjects")
  <2>1. Onward(q, "dObjects")  BY <1>1, <1>4, GoMoves, Zenon
  <2>2. DeleteGoes(req[q], App(q))'
    BY <2>1, Zenon
    DEF Onward, DeleteGoes, NoWorkload, NoService, NoIngress, NoCert, NoDomain, NoMirror, Ended
  <2>. QED  BY <1>1, <1>2, <2>1, <2>2, DeleteSettles, Zenon
<1>. QED  BY <1>1, <1>3, <1>4, Zenon

\* DeleteApp, removing the objects kind by kind.
LEMMA DeleteObjectsSettles ==
    ASSUME AppsInv, SettleInv, NEW q \in Procs, DeleteObjects(q), UNCHANGED <<served, spec>>
    PROVE  SettleInv'
<1>1. PICK a : a = App(q)  BY Zenon
<1>2. /\ req[q].pc \in {"dObjects", "dService", "dIngress", "dCert"} /\ ~Idle(q)
      /\ Types /\ RequestOK(req[q])
  BY Zenon DEF DeleteObjects, GoDespiteError, At, Idle, Resting, AppsInv, Types
<1>3. req[q].op = "delete"  BY <1>2, Zenon DEF RequestOK, ControlOK, Deleting
<1>4. a \in Apps /\ AppOK(a)  BY <1>1, <1>2, <1>3, Zenon DEF RequestOK, App, AppsInv
<1>5. CASE \E pc : GoDespiteError(q, pc)  BY <1>2, <1>5, DespiteSettles, Zenon
<1>6. CASE /\ At(q, "dObjects")
           /\ objs' = [objs EXCEPT ![a] = @ \ {"workload"}]
           /\ dep' = IF "workload" \in objs[a] THEN [dep EXCEPT ![a] = None] ELSE dep
           /\ Go(q, "dService")
           /\ UNCHANGED <<cr, addr, store, names, history>>
  <2>1. Onward(q, "dService")  BY <1>2, <1>6, GoMoves, Zenon
  <2>2. "workload" \notin objs'[a] /\ dep'[a] = None
    BY <1>2, <1>4, <1>6, Zenon DEF Types, AppOK
  <2>3. DeleteGoes(req[q], a)'
    BY <2>1, <2>2, Zenon
    DEF Onward, DeleteGoes, NoWorkload, NoService, NoIngress, NoCert, NoDomain, NoMirror, Ended
  <2>4. App(q)' = a  BY <1>1, <2>1, Zenon DEF Onward, App
  <2>. QED  BY <1>1, <1>2, <1>3, <2>1, <2>3, <2>4, DeleteSettles, Zenon
<1>7. CASE /\ At(q, "dService")
           /\ objs' = [objs EXCEPT ![a] = @ \ {"service"}]
           /\ addr' = addr \ {a}
           /\ Go(q, "dIngress")
           /\ UNCHANGED <<dep, cr, store, names, history>>
  <2>1. Onward(q, "dIngress") /\ req[q].pc = "dService"  BY <1>2, <1>7, GoMoves, Zenon DEF At
  <2>2. objs'[a] = objs[a] \ {"service"} /\ a \notin addr' /\ dep' = dep
    BY <1>2, <1>4, <1>7, Zenon DEF Types
  <2>3. DeleteGoes(req[q], a) => DeleteGoes(req[q], a)'
    BY <1>3, <2>1, <2>2, Zenon
    DEF Onward, DeleteGoes, NoWorkload, NoService, NoIngress, NoCert, NoDomain, NoMirror, Ended
  <2>4. App(q)' = a  BY <1>1, <2>1, Zenon DEF Onward, App
  <2>. QED  BY <1>1, <1>2, <1>3, <2>1, <2>3, <2>4, DeleteSettles, Zenon
<1>8. CASE /\ At(q, "dIngress")
           /\ objs' = [objs EXCEPT ![a] = @ \ {"ingress"}]
           /\ req' = [req EXCEPT ![q].pc = "dCert",
                                 ![q].host = IF "ingress" \in objs[a] THEN spec[a].host
                                             ELSE None]
           /\ UNCHANGED <<dep, cr, addr, store, names, history>>
  <2>1. DOMAIN req = Procs /\ DOMAIN req[q] = RequestFields /\ req[q].pc = "dIngress"
    BY <1>2, <1>8, Zenon DEF Types, RequestOK, At
  <2>2. PICK h : h = IF "ingress" \in objs[a] THEN spec[a].host ELSE None  BY Zenon
  <2>3. PICK new : new = [req[q] EXCEPT !.pc = "dCert", !.host = h]  BY Zenon
  <2>4. req'[q] = new /\ Rest(q)  BY <1>8, <2>1, <2>2, <2>3, Zenon DEF Rest
  <2>5. /\ new.pc = "dCert" /\ new.app = a /\ new.op = "delete" /\ new.solo = req[q].solo
        /\ new.lost = req[q].lost
    BY <1>1, <1>3, <2>1, <2>3, Zenon DEF RequestFields, App
  <2>6. objs'[a] = objs[a] \ {"ingress"} /\ UNCHANGED <<addr, dep>>
    BY <1>2, <1>4, <1>8, Zenon DEF Types
  <2>7. DeleteGoes(req[q], a) => DeleteGoes(req[q], a)'
    BY <1>3, <2>1, <2>4, <2>5, <2>6, Zenon
    DEF DeleteGoes, NoWorkload, NoService, NoIngress, NoCert, NoDomain, NoMirror, Ended
  <2>8. /\ DeployGoes(req[q], a)' /\ UpdateGoes(req[q], a)'
        /\ StatusGoes(req[q], a)' /\ ListGoes(req[q], a)'
    BY <2>4, <2>5, Zenon DEF DeployGoes, UpdateGoes, StatusGoes, ListGoes, UpdateOps, FieldOf
  <2>9. OnItsOwn(q)' => Goes(req[q], a)  BY <1>1, <2>4, <2>5, Zenon DEF OnItsOwn, SettleInv
  <2>10. App(q)' = a  BY <2>4, <2>5, Zenon DEF App
  <2>. QED  BY <1>2, <2>4, <2>5, <2>7, <2>8, <2>9, <2>10, OwnStep, Zenon DEF Goes
<1>9. CASE /\ At(q, "dCert")
           /\ objs' = [objs EXCEPT ![a] = IF CertManager THEN @ \ {"cert"} ELSE @]
           /\ Go(q, "dDns")
           /\ UNCHANGED <<dep, cr, addr, store, names, history>>
  <2>1. Onward(q, "dDns") /\ req[q].pc = "dCert"  BY <1>2, <1>9, GoMoves, Zenon DEF At
  <2>2. objs'[a] \subseteq objs[a] /\ "cert" \notin objs'[a] /\ UNCHANGED <<addr, dep>>
    BY <1>2, <1>4, <1>9, Zenon DEF Types, AppOK
  <2>3. DeleteGoes(req[q], a) => DeleteGoes(req[q], a)'
    BY <1>3, <2>1, <2>2, Zenon
    DEF Onward, DeleteGoes, NoWorkload, NoService, NoIngress, NoCert, NoDomain, NoMirror, Ended
  <2>4. App(q)' = a  BY <1>1, <2>1, Zenon DEF Onward, App
  <2>. QED  BY <1>1, <1>2, <1>3, <2>1, <2>3, <2>4, DeleteSettles, Zenon
<1>. QED  BY <1>1, <1>5, <1>6, <1>7, <1>8, <1>9, Zenon DEF DeleteObjects

\* DeleteApp, removing the DNS record.
LEMMA DeleteRecordsSettles ==
    ASSUME AppsInv, SettleInv, NEW q \in Procs, DeleteRecords(q), UNCHANGED <<served, spec>>
    PROVE  SettleInv'
<1>1. /\ req[q].pc = "dDns" /\ ~Idle(q) /\ Types /\ RequestOK(req[q])
      /\ GoDespiteError(q, "dDomains") \/ (Go(q, "dDomains") /\ UNCHANGED <<objs, dep, addr>>)
  BY Zenon DEF DeleteRecords, At, Idle, Resting, AppsInv, Types, cluster
<1>2. req[q].op = "delete"  BY <1>1, Zenon DEF RequestOK, ControlOK, Deleting
<1>3. CASE GoDespiteError(q, "dDomains")  BY <1>1, <1>3, DespiteSettles, Zenon
<1>4. CASE Go(q, "dDomains") /\ UNCHANGED <<objs, dep, addr>>
  <2>1. Onward(q, "dDomains")  BY <1>1, <1>4, GoMoves, Zenon
  <2>2. DeleteGoes(req[q], App(q)) => DeleteGoes(req[q], App(q))'
    BY <1>1, <1>2, <1>4, <2>1, Zenon
    DEF Onward, App, DeleteGoes, NoWorkload, NoService, NoIngress, NoCert, NoDomain, NoMirror, Ended
  <2>. QED  BY <1>1, <1>2, <2>1, <2>2, DeleteSettles, Zenon
<1>. QED  BY <1>1, <1>3, <1>4, Zenon

\* DeleteApp, removing and marking the rows; the row of the app was live.
LEMMA DeleteRowsSettles ==
    ASSUME AppsInv, Markable, SettleInv, NEW q \in Procs, DeleteRows(q), UNCHANGED <<served, spec>>
    PROVE  SettleInv'
<1>1. PICK a : a = App(q)  BY Zenon
<1>2. /\ req[q].pc \in {"dDomains", "dMirror", "dRow"} /\ ~Idle(q)
      /\ Types /\ RequestOK(req[q]) /\ Held(req[q], a)
  BY <1>1, Zenon DEF DeleteRows, GoDespiteError, At, Idle, Resting, AppsInv, Types
<1>3. req[q].op = "delete"  BY <1>2, Zenon DEF RequestOK, ControlOK, Deleting
<1>4. a \in Apps /\ row[a] # "absent"
  BY <1>1, <1>2, <1>3, Zenon DEF RequestOK, App, Held, HeldBy, Idle
<1>5. CASE \E pc : GoDespiteError(q, pc)  BY <1>2, <1>5, DespiteSettles, Zenon
<1>6. ASSUME NEW pc, Onward(q, pc), DeleteGoes(req[q], a) => DeleteGoes(req[q], a)'
      PROVE  SettleInv'
  <2>1. App(q)' = a  BY <1>1, <1>6, Zenon DEF Onward, App
  <2>. QED  BY <1>1, <1>2, <1>3, <1>6, <2>1, DeleteSettles, Zenon
<1>7. CASE /\ At(q, "dDomains")
           /\ domains' = domains \ {a}
           /\ Go(q, "dMirror")
           /\ UNCHANGED <<row, released, mirror, cluster, names, history>>
  <2>1. Onward(q, "dMirror") /\ req[q].pc = "dDomains"  BY <1>2, <1>7, GoMoves, Zenon DEF At
  <2>2. a \notin domains' /\ UNCHANGED <<objs, dep, addr>>  BY <1>7, Zenon DEF cluster
  <2>3. DeleteGoes(req[q], a) => DeleteGoes(req[q], a)'
    BY <1>3, <2>1, <2>2, Zenon
    DEF Onward, DeleteGoes, NoWorkload, NoService, NoIngress, NoCert, NoDomain, NoMirror, Ended
  <2>. QED  BY <1>6, <2>1, <2>3, Zenon
<1>8. CASE /\ At(q, "dMirror")
           /\ mirror' = IF mirror[a] = None THEN mirror
                        ELSE [mirror EXCEPT ![a].deleted = TRUE]
           /\ Go(q, "dRow")
           /\ UNCHANGED <<row, domains, released, cluster, names, history>>
  <2>1. Onward(q, "dRow") /\ req[q].pc = "dMirror"  BY <1>2, <1>8, GoMoves, Zenon DEF At
  <2>2. UNCHANGED <<objs, dep, addr, domains>>  BY <1>8, Zenon DEF cluster
  <2>3. mirror'[a] # None => mirror'[a].deleted
    <3>1. CASE mirror[a] = None  BY <1>8, <3>1, Zenon
    <3>2. CASE mirror[a] # None
      <4>1. DOMAIN mirror = Apps  BY <1>2, Zenon DEF Types
      <4>2. "deleted" \in DOMAIN mirror[a]  BY <1>4, <3>2, Zenon DEF Markable
      <4>3. mirror'[a] = [mirror[a] EXCEPT !.deleted = TRUE]  BY <1>4, <1>8, <3>2, <4>1, Zenon
      <4>. QED  BY <4>2, <4>3, Zenon
    <3>. QED  BY <3>1, <3>2, Zenon
  <2>4. DeleteGoes(req[q], a) => DeleteGoes(req[q], a)'
    BY <1>3, <2>1, <2>2, <2>3, Zenon
    DEF Onward, DeleteGoes, NoWorkload, NoService, NoIngress, NoCert, NoDomain, NoMirror, Ended
  <2>. QED  BY <1>6, <2>1, <2>4, Zenon
<1>9. CASE /\ At(q, "dRow")
           /\ row' = [row EXCEPT ![a] = IF @ = "live" THEN "deleted" ELSE @]
           /\ Go(q, "event")
           /\ UNCHANGED <<domains, released, mirror, cluster, names, history>>
  <2>1. Onward(q, "event") /\ req[q].pc = "dRow"  BY <1>2, <1>9, GoMoves, Zenon DEF At
  <2>2. UNCHANGED <<objs, dep, addr, domains, mirror>>  BY <1>9, Zenon DEF cluster
  <2>3. row'[a] = "deleted"
    <3>1. row[a] \in {"live", "deleted"}  BY <1>2, <1>4, Zenon DEF Types
    <3>2. row'[a] = IF row[a] = "live" THEN "deleted" ELSE row[a]
      BY <1>2, <1>4, <1>9, Zenon DEF Types
    <3>. QED  BY <3>1, <3>2, Zenon
  <2>4. DeleteGoes(req[q], a) => DeleteGoes(req[q], a)'
    BY <1>3, <2>1, <2>2, <2>3, Zenon
    DEF Onward, DeleteGoes, NoWorkload, NoService, NoIngress, NoCert, NoDomain, NoMirror, Ended
  <2>. QED  BY <1>6, <2>1, <2>4, Zenon
<1>. QED  BY <1>1, <1>5, <1>7, <1>8, <1>9, Zenon DEF DeleteRows

-----------------------------------------------------------------------------
(* The invariant, and the promise.                                         *)

\* Every step of a request.
LEMMA StepSettles ==
    ASSUME AppsInv, Markable, SettleInv, NEW q \in Procs, Step(q)
    PROVE  SettleInv'
<1>1. UNCHANGED <<served, spec>>  BY Zenon DEF Step
<1>2. CASE Gate(q)  BY <1>1, <1>2, GateSettles, Zenon
<1>3. CASE Event(q)  BY <1>1, <1>3, EventSettles, Zenon
<1>4. CASE Stop(q)  BY <1>1, <1>4, StopSettles, Zenon
<1>5. CASE planAppDeployment(q)  BY <1>1, <1>5, PlanSettles, Zenon
<1>6. CASE ApplyDeployment(q)  BY <1>1, <1>6, DeploymentSettles, Zenon
<1>7. CASE ApplyService(q)  BY <1>1, <1>7, ServiceSettles, Zenon
<1>8. CASE ApplyIngress(q)  BY <1>1, <1>8, IngressSettles, Zenon
<1>9. CASE UpsertAppDomain(q)  BY <1>1, <1>9, DomainSettles, Zenon
<1>10. CASE ensureDNSForService(q)  BY <1>1, <1>10, EnsureDnsSettles, Zenon
<1>11. CASE applyRawManifest(q)  BY <1>1, <1>11, RawSettles, Zenon
<1>12. CASE CreateApp(q)  BY <1>1, <1>12, CreateSettles, Zenon
<1>13. CASE recordRelease(q)  BY <1>1, <1>13, ReleaseSettles, Zenon
<1>14. CASE ensureAppCRDForPlan(q)  BY <1>1, <1>14, EnsureCrdSettles, Zenon
<1>15. CASE mirrorAppCRD(q)  BY <1>1, <1>15, MirrorSettles, Zenon
<1>16. CASE loadAppCRD(q)  BY <1>1, <1>16, LoadSettles, Zenon
<1>17. CASE UpdateCR(q)  BY <1>1, <1>17, UpdateCRSettles, Zenon
<1>18. CASE readAppDeployment(q)  BY <1>1, <1>18, ReadDeploymentSettles, Zenon
<1>19. CASE updateAppDeployment(q)  BY <1>1, <1>19, UpdateDeploymentSettles, Zenon
<1>20. CASE patchBySlug(q)  BY <1>1, <1>20, WebhookSettles, Zenon
<1>21. CASE ReadRows(q)  BY <1>1, <1>21, ReadRowsSettles, Zenon
<1>22. CASE CollectAppStatus(q)  BY <1>1, <1>22, CollectSettles, Zenon
<1>23. CASE domainStatuses(q)  BY <1>1, <1>23, NextAppSettles, Zenon
<1>24. CASE DeleteReads(q)  BY <1>1, <1>24, DeleteReadsSettles, Zenon
<1>25. CASE DeleteObjects(q)  BY <1>1, <1>25, DeleteObjectsSettles, Zenon
<1>26. CASE DeleteRecords(q)  BY <1>1, <1>26, DeleteRecordsSettles, Zenon
<1>27. CASE DeleteRows(q)  BY <1>1, <1>27, DeleteRowsSettles, Zenon
<1>. QED
  BY <1>2, <1>3, <1>4, <1>5, <1>6, <1>7, <1>8, <1>9, <1>10, <1>11, <1>12, <1>13, <1>14, <1>15,
     <1>16, <1>17, <1>18, <1>19, <1>20, <1>21, <1>22, <1>23, <1>24, <1>25, <1>26, <1>27, Zenon
  DEF Step

\* A new request takes the others' claim to be alone, and has yet to begin.
LEMMA BegunSettles ==
    ASSUME NEW q \in Procs, NEW op, NEW pc, NEW a, NEW v, Begun(q, op, pc, a, v),
           pc \notin Resting, Goes(req[q], a)'
    PROVE  SettleInv'
<1>1. req'[q].app = a /\ req'[q].solo = (\A x \in Procs \ {q} : Idle(x))  BY Zenon DEF Begun
<1>2. ASSUME NEW r \in Procs \ {q} PROVE req'[r].solo = FALSE
  BY <1>2, FreeSlot, Zenon DEF Begun
<1>3. ASSUME NEW r \in Procs \ {q}, Idle(r) PROVE Idle(r)'
  BY <1>3, FreeSlot, Zenon DEF Begun, Idle, Resting
<1>4. Alone'
  <2>. SUFFICES ASSUME NEW x \in Procs, req'[x].solo, NEW r \in Procs \ {x} PROVE Idle(r)'
    BY Zenon DEF Alone
  <2>1. x = q  BY <1>2, Zenon
  <2>. QED  BY <1>1, <1>3, <2>1, Zenon
<1>5. ASSUME NEW r \in Procs, OnItsOwn(r)' PROVE Goes(req[r], App(r))'
  <2>1. r = q  BY <1>2, <1>5, Zenon DEF OnItsOwn
  <2>. QED  BY <1>1, <2>1, Zenon DEF App
<1>. QED  BY <1>4, <1>5, Zenon DEF SettleInv

\* Every start: a deploy begins with nothing there.
LEMMA StartSettles ==
    ASSUME AppsInv, SettleInv, NEW q \in Procs, Start(q)
    PROVE  SettleInv'
<1>1. Types  BY Zenon DEF AppsInv
<1>2. CASE Asking(q)
  <2>1. PICK op \in AllOps \ {"deploy"}, pc \in {"gate", "depGet", "wRead", "sRead"},
             a \in Apps \cup {None}, v \in Vals, rv \in {0} \cup {cr[b].rv : b \in Apps} :
          /\ Begin(q, op, pc, a, v, rv) /\ UNCHANGED spec
          /\ (a \in Apps /\ row[a] # "absent") \/ (a = None /\ op = "list")
          /\ Direct(op, pc)
    BY <1>2, Zenon DEF Asking
  <2>2. Begun(q, op, pc, a, v)  BY <1>1, <2>1, BeginMoves, Zenon
  <2>3. pc \notin Resting  BY Zenon DEF Resting
  <2>4. req'[q].op = op /\ req'[q].pc = pc /\ req'[q].todo = {}  BY <2>2, Zenon DEF Begun
  <2>5. op \in UpdateOps /\ pc = "depGet" => FieldOf[op] \notin CRFields
    <3>1. \A x \in UpdateOps \ {"scale", "image"} : FieldOf[x] \notin CRFields
      BY DEF UpdateOps, FieldOf, CRFields
    <3>. QED  BY <2>1, <3>1, Zenon DEF Direct
  <2>6. DeployGoes(req[q], a)' /\ DeleteGoes(req[q], a)'
    BY <2>1, <2>4, Zenon
    DEF DeployGoes, DeleteGoes, NoWorkload, NoService, NoIngress, NoCert, NoDomain, NoMirror, Ended
  <2>7. UpdateGoes(req[q], a)'  BY <2>1, <2>4, <2>5, Zenon DEF UpdateGoes, Ended
  <2>8. StatusGoes(req[q], a)' /\ ListGoes(req[q], a)'
    BY <2>1, <2>4, Zenon DEF StatusGoes, ListGoes
  <2>. QED  BY <2>2, <2>3, <2>6, <2>7, <2>8, BegunSettles, Zenon DEF Goes
<1>3. CASE \E a \in Apps, s \in Specs : DeployApp(q, a, s)
  <2>1. PICK a \in Apps, s \in Specs : DeployApp(q, a, s)  BY <1>3, Zenon
  <2>2. Begin(q, "deploy", "gate", a, 0, 0) /\ spec[a] = None  BY <2>1, Zenon DEF DeployApp
  <2>3. Begun(q, "deploy", "gate", a, 0)  BY <1>1, <2>2, BeginMoves, Zenon
  <2>4. objs'[a] = {}  BY <2>2, Zenon DEF AppsInv, AppOK, Begin, cluster
  <2>5. req'[q].op = "deploy" /\ req'[q].pc = "gate" /\ req'[q].doc = 0  BY <2>3, Zenon DEF Begun
  <2>6. DeployGoes(req[q], a)'
    BY <2>4, <2>5, Zenon DEF DeployGoes, AfterRow, AfterRelease, Mirroring, Ended
  <2>7. /\ DeleteGoes(req[q], a)' /\ UpdateGoes(req[q], a)'
        /\ StatusGoes(req[q], a)' /\ ListGoes(req[q], a)'
    BY <2>5, Zenon DEF DeleteGoes, UpdateGoes, StatusGoes, ListGoes, UpdateOps, FieldOf
  <2>8. "gate" \notin Resting  BY Zenon DEF Resting
  <2>. QED  BY <2>3, <2>6, <2>7, <2>8, BegunSettles, Zenon DEF Goes
<1>. QED  BY <1>2, <1>3, StartIs, Zenon

\* What runs without a request: a deploy that is through keeps its objects, and
\* no address is assigned to a Service that is gone.
LEMMA BackgroundSettles ==
    ASSUME AppsInv, SettleInv, NEW a \in Apps, Background(a)
    PROVE  SettleInv'
<1>1. UNCHANGED <<served, spec, row, domains, released, mirror, objs, dep, cr, req>>
  BY Zenon DEF Background, store, cluster
<1>2. \A b : b \in addr' => b \in addr \/ "service" \in objs[b]
  <2>1. CASE addr' = addr  BY <2>1, Zenon
  <2>2. CASE AssignAddress(a)  BY <2>2, Zenon DEF AssignAddress, IsLB
  <2>. QED  BY <2>1, <2>2, Zenon DEF Background, cluster
<1>3. \A b : Mirrors(b) => Mirrors(b)'  BY <1>1, Zenon DEF Mirrors
<1>4. served' => served  BY <1>1
<1>5. ASSUME NEW q \in Procs, Goes(req[q], App(q)) PROVE Goes(req[q], App(q))'
  <2>1. DeployGoes(req[q], App(q))'  BY <1>1, <1>3, <1>4, <1>5, Zenon DEF Goes, DeployGoes, App
  <2>2. DeleteGoes(req[q], App(q))'  BY <1>1, <1>2, <1>5, Zenon DEF Goes, DeleteGoes, App
  <2>3. UpdateGoes(req[q], App(q))'  BY <1>1, <1>3, <1>5, Zenon DEF Goes, UpdateGoes, App
  <2>4. StatusGoes(req[q], App(q))' /\ ListGoes(req[q], App(q))'
    BY <1>1, <1>3, <1>5, Zenon DEF Goes, StatusGoes, ListGoes, App
  <2>. QED  BY <2>1, <2>2, <2>3, <2>4, Zenon DEF Goes
<1>6. Alone'  BY <1>1, Zenon DEF SettleInv, Alone, Idle
<1>. QED  BY <1>1, <1>5, <1>6, Zenon DEF SettleInv, OnItsOwn

\* Only mirrorAppCRD and DeleteApp write the rows of k8s_crds, and both leave
\* them with the mark.
LEMMA MarkableStep ==
    ASSUME AppsInv, Markable, [Next]_vars
    PROVE  Markable'
<1>1. CASE mirror' = mirror  BY <1>1, Zenon DEF Markable
<1>2. ASSUME NEW q \in Procs, mirrorAppCRD(q), mirror' # mirror PROVE Markable'
  <2>1. PICK new : new = [rv |-> req[q].saw.rv, f |-> req[q].saw.f, deleted |-> FALSE]  BY Zenon
  <2>2. mirror' = [mirror EXCEPT ![App(q)] = new]
    BY <1>2, <2>1, Zenon DEF mirrorAppCRD, GoDespiteError, store
  <2>3. "deleted" \in DOMAIN new  BY <2>1, Zenon
  <2>4. DOMAIN mirror = Apps  BY Zenon DEF AppsInv, Types
  <2>5. \A b \in Apps : mirror'[b] = mirror[b] \/ mirror'[b] = new  BY <2>2, <2>4, Zenon
  <2>. QED  BY <2>3, <2>5, Zenon DEF Markable
<1>3. ASSUME NEW q \in Procs, DeleteRows(q), mirror' # mirror PROVE Markable'
  <2>1. mirror[App(q)] # None /\ mirror' = [mirror EXCEPT ![App(q)].deleted = TRUE]
    BY <1>3, Zenon DEF DeleteRows, GoDespiteError, store
  <2>2. DOMAIN mirror = Apps  BY Zenon DEF AppsInv, Types
  <2>3. ASSUME NEW b \in Apps
        PROVE  mirror'[b] = mirror[b]
               \/ (b = App(q) /\ mirror'[b] = [mirror[b] EXCEPT !.deleted = TRUE])
    BY <2>1, <2>2, Zenon
  <2>. QED  BY <2>1, <2>3, Zenon DEF Markable
<1>4. ASSUME NEW q \in Procs, Step(q), ~mirrorAppCRD(q), ~DeleteRows(q) PROVE mirror' = mirror
  <2>1. CASE \/ Gate(q) \/ Event(q) \/ Stop(q) \/ planAppDeployment(q) \/ ApplyDeployment(q)
             \/ ApplyService(q) \/ ApplyIngress(q) \/ UpsertAppDomain(q)
             \/ ensureDNSForService(q) \/ applyRawManifest(q)
    BY <2>1, Zenon
    DEF Gate, Event, Stop, planAppDeployment, Error, ApplyDeployment, ApplyService, ApplyIngress,
        UpsertAppDomain, ensureDNSForService, applyRawManifest, GoDespiteError, store
  <2>2. CASE \/ CreateApp(q) \/ recordRelease(q) \/ ensureAppCRDForPlan(q) \/ loadAppCRD(q)
             \/ UpdateCR(q) \/ readAppDeployment(q) \/ updateAppDeployment(q) \/ patchBySlug(q)
    BY <2>2, Zenon
    DEF CreateApp, Error, recordRelease, ensureAppCRDForPlan, loadAppCRD, UpdateCR,
        readAppDeployment, updateAppDeployment, patchBySlug, GoDespiteError, store
  <2>3. CASE \/ ReadRows(q) \/ CollectAppStatus(q) \/ domainStatuses(q) \/ DeleteReads(q)
             \/ DeleteObjects(q) \/ DeleteRecords(q)
    BY <2>3, Zenon
    DEF ReadRows, CollectAppStatus, domainStatuses, DeleteReads, DeleteObjects, DeleteRecords,
        GoDespiteError, store
  <2>. QED  BY <1>4, <2>1, <2>2, <2>3, Zenon DEF Step
<1>5. ASSUME NEW q \in Procs, Start(q) PROVE mirror' = mirror
  <2>1. CASE Asking(q)  BY <2>1, ZenonT(60) DEF Asking, Begin, store
  <2>2. CASE \E a \in Apps, s \in Specs : DeployApp(q, a, s)
    BY <2>2, Zenon DEF DeployApp, Begin, store
  <2>. QED  BY <1>5, <2>1, <2>2, StartIs, Zenon
<1>6. ASSUME NEW a \in Apps, Background(a) PROVE mirror' = mirror
  BY <1>6, Zenon DEF Background, store
<1>7. ASSUME UNCHANGED vars PROVE mirror' = mirror  BY <1>7, Zenon DEF vars, store
<1>. QED  BY <1>1, <1>2, <1>3, <1>4, <1>5, <1>6, <1>7, Zenon DEF Next

\* A request that succeeded on its own has come all the way.
LEMMA SettledKeeps == AppsInv /\ SettleInv => RequestSettles
<1>. SUFFICES ASSUME AppsInv, SettleInv, NEW q \in Procs, At(q, "done"), req[q].solo, ~req[q].lost
              PROVE  Promise(q)
  BY Zenon DEF RequestSettles
<1>1. PICK a : a = App(q)  BY Zenon
<1>2. Goes(req[q], a) /\ req[q].pc = "done"  BY <1>1, Zenon DEF SettleInv, OnItsOwn, At
<1>3. req[q].op = "deploy" => Deployed(a)
  <2>. SUFFICES ASSUME req[q].op = "deploy" PROVE Deployed(a)  BY Zenon
  <2>1. /\ row[a] = "live" /\ a \in released /\ objs[a] = Full(spec[a])
        /\ spec[a].src = "image" => dep[a] # None
        /\ spec[a].src = "image" /\ served => cr[a] # None /\ Mirrors(a)
    BY <1>2, Zenon DEF Goes, DeployGoes, AfterRow, AfterRelease, Mirroring, Ended
  <2>. QED  BY <2>1, Zenon DEF Deployed, Full
<1>4. req[q].op = "delete" => Deleted(a)
  <2>. SUFFICES ASSUME req[q].op = "delete" PROVE Deleted(a)  BY Zenon
  <2>1. /\ row[a] = "deleted" /\ dep[a] = None /\ a \notin domains /\ a \notin addr
        /\ mirror[a] # None => mirror[a].deleted
        /\ objs[a] \cap {"workload", "service", "ingress", "cert"} = {}
    BY <1>2, Zenon
    DEF Goes, DeleteGoes, NoWorkload, NoService, NoIngress, NoCert, NoDomain, NoMirror, Ended
  <2>2. a \in Apps  BY <1>1, Zenon DEF AppsInv, Types, RequestOK, App
  <2>3. objs[a] \subseteq Kinds  BY <2>2, Zenon DEF AppsInv, Types
  <2>4. objs[a] \subseteq {"other"}  BY <2>1, <2>3 DEF Kinds, Docs
  <2>. QED  BY <2>1, <2>4, Zenon DEF Deleted
<1>5. req[q].op \in UpdateOps => Updated(q, a)
  BY <1>2, Zenon DEF Goes, UpdateGoes, Ended, Updated
<1>6. req[q].op = "status" /\ cr[a] # None => Mirrors(a)  BY <1>2, Zenon DEF Goes, StatusGoes
<1>7. req[q].op = "list" => \A b \in Apps : row[b] = "live" /\ cr[b] # None => Mirrors(b)
  BY <1>2, Zenon DEF Goes, ListGoes
<1>. QED  BY <1>1, <1>3, <1>4, <1>5, <1>6, <1>7, Zenon DEF Promise

\* At the start there is no request to hold to anything.
LEMMA SettleInit == Init => Markable /\ SettleInv
<1>. SUFFICES ASSUME Init PROVE Markable /\ SettleInv  OBVIOUS
<1>1. \A q \in Procs : req[q].solo = FALSE  BY FreeSlot, Zenon DEF Init
<1>2. SettleInv  BY <1>1, Zenon DEF SettleInv, Alone, OnItsOwn
<1>3. Markable  BY Zenon DEF Init, Markable
<1>. QED  BY <1>2, <1>3, Zenon

\* The invariant holds of every reachable state.
LEMMA SettleInductive == Spec => [](AppsInv /\ Markable /\ SettleInv)
<1>1. AppsInv /\ Markable /\ SettleInv /\ [Next]_vars => SettleInv'
  <2>1. ASSUME AppsInv, Markable, SettleInv, Next PROVE SettleInv'
    BY <2>1, StartSettles, StepSettles, BackgroundSettles, Zenon DEF Next
  <2>2. ASSUME SettleInv, UNCHANGED vars PROVE SettleInv'
    <3>1. UNCHANGED <<served, spec, row, domains, released, mirror, objs, dep, cr, addr, req>>
      BY <2>2, Zenon DEF vars, store, cluster
    <3>2. Alone'  BY <2>2, <3>1, Zenon DEF SettleInv, Alone, Idle
    <3>3. served' => served  BY <3>1
    <3>4. \A b : Mirrors(b) => Mirrors(b)'  BY <3>1, Zenon DEF Mirrors
    <3>5. ASSUME NEW q \in Procs, Goes(req[q], App(q)) PROVE Goes(req[q], App(q))'
      <4>1. DeployGoes(req[q], App(q))'  BY <3>1, <3>3, <3>4, <3>5, Zenon DEF Goes, DeployGoes, App
      <4>2. DeleteGoes(req[q], App(q))'  BY <3>1, <3>5, Zenon DEF Goes, DeleteGoes, App
      <4>3. UpdateGoes(req[q], App(q))'  BY <3>1, <3>4, <3>5, Zenon DEF Goes, UpdateGoes, App
      <4>4. StatusGoes(req[q], App(q))' /\ ListGoes(req[q], App(q))'
        BY <3>1, <3>4, <3>5, Zenon DEF Goes, StatusGoes, ListGoes, App
      <4>. QED  BY <4>1, <4>2, <4>3, <4>4, Zenon DEF Goes
    <3>. QED  BY <2>2, <3>1, <3>2, <3>5, Zenon DEF SettleInv, OnItsOwn
  <2>. QED  BY <2>1, <2>2, Zenon
<1>2. AppsInv /\ Markable /\ [Next]_vars => Markable'  BY MarkableStep, Zenon
<1>. QED  BY <1>1, <1>2, SettleInit, AppsInductive, PTL DEF Spec

\* RequestSettles: a request that succeeded with no other beside it or since,
\* and that dropped no error, leaves all that its operation promises, for any
\* number of apps, requests and faults before it (DeployApp, DeleteApp,
\* ScaleApp, UpdateAppImage, the attachments, GetAppStatus,
\* ListProjectAppsStatus).
THEOREM RequestsKeepPromises == Spec => []RequestSettles
<1>1. AppsInv /\ Markable /\ SettleInv => RequestSettles  BY SettledKeeps, Zenon
<1>. QED  BY <1>1, SettleInductive, PTL
=============================================================================
