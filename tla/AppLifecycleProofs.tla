------------------------- MODULE AppLifecycleProofs -------------------------
(***************************************************************************)
(* What is proved of module AppLifecycle, for any number of apps, requests *)
(* and faults: what a request can rely on while others run beside it       *)
(* (AppsInv), that a deleted app stays deleted, and that the DNS record of *)
(* a host follows the one app that uses it.                                *)
(***************************************************************************)
EXTENDS AppLifecycle, TLAPS

-----------------------------------------------------------------------------
(* Where a request can be, and what it holds.                              *)

Building == {"plan", "workload", "envFrom", "service", "cert", "ingress",
             "domain", "dns", "raw", "row"}
Deleting == {"dObjects", "dService", "dIngress", "dCert", "dDns", "dDomains", "dMirror", "dRow"}
Places ==
    Resting \cup Building \cup Deleting \cup
    {"gate", "release", "crApply", "crLoad", "mirror", "event", "uRead", "uLoad", "crPut",
     "depGet", "depPut", "wRead", "wPatch", "sRead", "sCollect", "sLoad", "sDomains", "dRead"}

\* Which operations pass through which places.
ControlOK(r) ==
    /\ r.pc \in Building \cup {"release", "crApply", "crLoad"} => r.op = "deploy"
    /\ r.pc \in Deleting \cup {"dRead"} => r.op = "delete"
    /\ r.pc \in {"uRead", "uLoad", "crPut"} => r.op \in {"scale", "image"}
    /\ r.pc \in {"depGet", "depPut"} => r.op \in UpdateOps
    /\ r.pc \in {"wRead", "wPatch"} => r.op = "webhook"
    /\ r.pc \in {"sRead", "sCollect", "sLoad", "sDomains"} => r.op \in {"status", "list"}
    /\ r.pc = "gate" => r.op \in {"deploy", "delete", "scale", "image", "restart"}
    /\ r.pc = "mirror" => r.op \in {"deploy", "scale", "image", "status", "list"}
    /\ r.pc = "event" => r.op \in UpdateOps \cup {"deploy", "delete"}

RequestFields ==
    {"op", "pc", "app", "arg", "rv", "saw", "host", "todo", "doc", "lost", "solo"}
RequestOK(r) ==
    /\ DOMAIN r = RequestFields
    /\ r.pc \in Places /\ ControlOK(r)
    /\ r.app \in Apps \cup {None}
    /\ r.op \notin {"none", "list"} => r.app \in Apps
    /\ r.pc \in {"sCollect", "sLoad", "mirror"} => r.app \in Apps
    /\ r.todo \subseteq Apps /\ r.arg \in Vals /\ r.doc \in Nat
    /\ r.lost \in BOOLEAN /\ r.solo \in BOOLEAN

Types ==
    /\ row \in [Apps -> {"absent", "live", "deleted"}]
    /\ spec \in [Apps -> Specs \cup {None}]
    /\ objs \in [Apps -> SUBSET Kinds]
    /\ dep \in [Apps -> Versioned(Fields) \cup {None}]
    /\ cr \in [Apps -> Versioned(CRFields) \cup {None}]
    /\ mirror = [a \in Apps |-> mirror[a]]
    /\ dns \in [Hosts -> Apps \cup {None}]
    /\ waiter \in [Apps -> {"none", "wait", "write"}]
    /\ domains \subseteq Apps /\ released \subseteq Apps /\ addr \subseteq Apps
    /\ blurred \subseteq Apps
    /\ DOMAIN req = Procs /\ \A q \in Procs : RequestOK(req[q])

BeforeRow == Building \cup {"gate"}

\* What was read of an object is its present state or an older version.
Older(saw, now) == saw.rv <= now.rv /\ (saw.rv = now.rv => saw.f = now.f)

\* What a request r on app a at its place can rely on, whatever runs beside it.
\* sp, rw, ob, dp and c are what the app was deployed with, its row, objects,
\* Deployment and App resource; bl the apps with a failed round trip.
HeldBy(r, a, sp, rw, ob, dp, c, bl) ==
    /\ r.op = "deploy" /\ r.pc \notin Resting =>
          /\ sp # None
          /\ r.pc \in BeforeRow <=> rw = "absent"
          /\ r.pc \in {"gate", "plan", "workload"} => dp = None
          /\ r.pc \in {"release", "crApply"} => c = None
    /\ r.op # "deploy" /\ r.pc \notin Resting =>
          /\ a \in Apps => rw # "absent"
          /\ r.host # None => r.op = "delete" /\ r.host = sp.host
    /\ r.pc = "envFrom" => dp # None
    /\ r.pc = "raw" => sp.src # "image"
    /\ r.pc = "cert" => CertManager
    /\ r.pc \in {"cert", "ingress", "domain", "dns"} => HasIngress(sp)
    /\ r.pc \in {"domain", "dns"} => "ingress" \in ob
    /\ r.pc = "depPut" /\ r.saw # None =>
          r.saw \in Versioned(Fields) /\ (dp # None => Older(r.saw, dp))
    /\ r.pc = "crPut" =>
          r.saw \in Versioned(CRFields) /\ c # None /\ Older(r.saw, c)
    /\ a \in Apps \ bl =>
          /\ r.pc \in Deleting \ {"dObjects"} => "workload" \notin ob
          /\ r.pc \in Deleting \ {"dObjects", "dService"} => "service" \notin ob
          /\ r.pc \in Deleting \ {"dObjects", "dService", "dIngress"} => "ingress" \notin ob
          /\ r.pc \in {"dDns", "dDomains", "dMirror", "dRow"} => "cert" \notin ob

\* A list of apps only holds apps that have a row.
Listed(r) ==
    r.op # "deploy" /\ r.pc \notin Resting => \A b \in r.todo : row[b] # "absent"

Held(r, a) ==
    HeldBy(r, a, spec[a], row[a], objs[a], dep[a], cr[a], blurred) /\ Listed(r)

\* How the parts of an app agree.
AppOK(a) ==
    /\ row[a] = "absent" => cr[a] = None
    /\ spec[a] = None =>
          row[a] = "absent" /\ objs[a] = {} /\ dep[a] = None /\ waiter[a] = "none" /\ a \notin addr
    /\ dep[a] # None => "workload" \in objs[a]
    /\ "cert" \in objs[a] => CertManager
    /\ "ingress" \in objs[a] \/ waiter[a] # "none" => HasIngress(spec[a])
    /\ row[a] = "deleted" /\ a \notin blurred => objs[a] \subseteq {"other"}

IsDeploy(q) == req[q].op = "deploy" /\ req[q].pc \notin Resting

\* An app is built by the one deploy that named it.
OneBuilder ==
    \A q \in Procs, r \in Procs : IsDeploy(q) /\ IsDeploy(r) /\ App(q) = App(r) => q = r

HostsOK == \A h \in Hosts : dns[h] # None => spec[dns[h]] # None /\ spec[dns[h]].host = h

AppsInv ==
    /\ Types
    /\ \A q \in Procs : Held(req[q], App(q))
    /\ \A a \in Apps : AppOK(a)
    /\ OneBuilder /\ HostsOK

\* What is read now is as old as what is there.
LEMMA OlderSelf ==
    ASSUME NEW F, NEW x \in Versioned(F)
    PROVE  Older(x, x)
  BY SMTT(20) DEF Older, Versioned

\* A version that is older than one is older than what replaces it.
LEMMA OlderStep ==
    ASSUME NEW F, NEW x \in Versioned(F), NEW y \in Versioned(F), NEW z \in Versioned(F),
           Older(x, y), z.rv > y.rv
    PROVE  Older(x, z)
<1>1. x.rv \in Nat /\ y.rv \in Nat /\ z.rv \in Nat  BY DEF Versioned
<1>. QED  BY <1>1 DEF Older

\* What a request can rely on outlives a new version of the App resource,
LEMMA HeldNewCR ==
    ASSUME NEW r, NEW a, NEW sp, NEW rw, NEW ob, NEW dp, NEW c, NEW d, NEW bl,
           HeldBy(r, a, sp, rw, ob, dp, c, bl), d # None,
           r.pc \in {"release", "crApply"} => r.op # "deploy",
           r.pc = "crPut" => r.saw \in Versioned(CRFields) /\ Older(r.saw, d)
    PROVE  HeldBy(r, a, sp, rw, ob, dp, d, bl)
  BY Zenon DEF HeldBy

\* of the Deployment,
LEMMA HeldNewDeployment ==
    ASSUME NEW r, NEW a, NEW sp, NEW rw, NEW ob, NEW dp, NEW c, NEW d, NEW bl,
           HeldBy(r, a, sp, rw, ob, dp, c, bl), d # None,
           r.pc \in {"gate", "plan", "workload"} => r.op # "deploy",
           r.pc = "depPut" /\ r.saw # None => r.saw \in Versioned(Fields) /\ Older(r.saw, d)
    PROVE  HeldBy(r, a, sp, rw, ob, d, c, bl)
  BY Zenon DEF HeldBy

\* the removal of objects, unless the request builds on them,
LEMMA HeldFewer ==
    ASSUME NEW r, NEW a, NEW sp, NEW rw, NEW ob, NEW dp, NEW c, NEW bl, NEW o, NEW d,
           HeldBy(r, a, sp, rw, ob, dp, c, bl), o \subseteq ob, d = dp \/ d = None,
           r.pc \notin Building
    PROVE  HeldBy(r, a, sp, rw, o, d, c, bl)
  BY Zenon DEF HeldBy, Building

\* a failed round trip of any request,
LEMMA HeldBlurred ==
    ASSUME NEW r, NEW a, NEW sp, NEW rw, NEW ob, NEW dp, NEW c, NEW bl, NEW b,
           HeldBy(r, a, sp, rw, ob, dp, c, bl), bl \subseteq b
    PROVE  HeldBy(r, a, sp, rw, ob, dp, c, b)
  BY Zenon DEF HeldBy

\* the loss of the other fields of the request,
LEMMA HeldAlike ==
    ASSUME NEW r, NEW a, NEW sp, NEW rw, NEW ob, NEW dp, NEW c, NEW bl, NEW s,
           HeldBy(r, a, sp, rw, ob, dp, c, bl),
           s.op = r.op, s.pc = r.pc, s.host = r.host, s.saw = r.saw
    PROVE  HeldBy(s, a, sp, rw, ob, dp, c, bl)
  BY SMTT(30) DEF HeldBy

\* and the mark on the row.
LEMMA HeldMarked ==
    ASSUME NEW r, NEW a, NEW sp, NEW rw, NEW ob, NEW dp, NEW c, NEW bl, NEW w,
           HeldBy(r, a, sp, rw, ob, dp, c, bl), rw # "absent", w # "absent"
    PROVE  HeldBy(r, a, sp, w, ob, dp, c, bl)
  BY Zenon DEF HeldBy

-----------------------------------------------------------------------------
(* How the steps of the model move a request.                              *)

\* The other requests keep their records.
Rest(q) == DOMAIN req' = Procs /\ \A r \in Procs \ {q} : req'[r] = req[r]

\* Only the place of the request changes, and perhaps what it saw.
Onward(q, pc) ==
    /\ Rest(q) /\ DOMAIN req'[q] = RequestFields /\ req'[q].pc = pc
    /\ req'[q].op = req[q].op /\ req'[q].app = req[q].app /\ req'[q].arg = req[q].arg
    /\ req'[q].host = req[q].host /\ req'[q].todo = req[q].todo /\ req'[q].doc = req[q].doc
    /\ req'[q].solo = req[q].solo
    /\ req'[q].lost = req[q].lost

\* Go replaces the place of a request and nothing else.
LEMMA GoMoves ==
    ASSUME Types, NEW q \in Procs, NEW pc, Go(q, pc)
    PROVE  Onward(q, pc) /\ req'[q].saw = req[q].saw
<1>1. DOMAIN req = Procs /\ DOMAIN req[q] = RequestFields  BY DEF Types, RequestOK
<1>2. req' = [req EXCEPT ![q].pc = pc]  BY DEF Go
<1>. DEFINE new == [req[q] EXCEPT !.pc = pc]
<1>3. req'[q] = new /\ Rest(q)  BY <1>1, <1>2 DEF Rest
<1>4. /\ DOMAIN new = RequestFields /\ new.pc = pc
      /\ new.op = req[q].op /\ new.app = req[q].app /\ new.arg = req[q].arg
      /\ new.host = req[q].host /\ new.todo = req[q].todo /\ new.doc = req[q].doc
      /\ new.solo = req[q].solo /\ new.lost = req[q].lost /\ new.saw = req[q].saw
  BY <1>1 DEF RequestFields
<1>. HIDE DEF new
<1>. QED  BY <1>3, <1>4 DEF Onward

\* Keep also stores the object that was read.
LEMMA KeepMoves ==
    ASSUME Types, NEW q \in Procs, NEW pc, NEW o, Keep(q, pc, o)
    PROVE  Onward(q, pc) /\ req'[q].saw = o
<1>1. DOMAIN req = Procs /\ DOMAIN req[q] = RequestFields  BY DEF Types, RequestOK
<1>2. req' = [req EXCEPT ![q].pc = pc, ![q].saw = o]  BY DEF Keep
<1>. DEFINE new == [req[q] EXCEPT !.pc = pc, !.saw = o]
<1>3. req'[q] = new /\ Rest(q)  BY <1>1, <1>2 DEF Rest
<1>4. /\ DOMAIN new = RequestFields /\ new.pc = pc
      /\ new.op = req[q].op /\ new.app = req[q].app /\ new.arg = req[q].arg
      /\ new.host = req[q].host /\ new.todo = req[q].todo /\ new.doc = req[q].doc
      /\ new.solo = req[q].solo /\ new.lost = req[q].lost /\ new.saw = o
  BY <1>1 DEF RequestFields
<1>. HIDE DEF new
<1>. QED  BY <1>3, <1>4 DEF Onward

\* Going on despite an error marks the request and its app.
LEMMA DespiteMoves ==
    ASSUME Types, NEW q \in Procs, NEW pc, GoDespiteError(q, pc)
    PROVE  /\ Rest(q) /\ DOMAIN req'[q] = RequestFields /\ req'[q].pc = pc
           /\ req'[q].op = req[q].op /\ req'[q].app = req[q].app /\ req'[q].arg = req[q].arg
           /\ req'[q].host = req[q].host /\ req'[q].todo = req[q].todo
           /\ req'[q].doc = req[q].doc /\ req'[q].saw = req[q].saw
           /\ req'[q].solo = req[q].solo
           /\ req'[q].lost = TRUE
           /\ blurred' = blurred \cup ({App(q)} \cap Apps)
           /\ UNCHANGED <<store, cluster, names, crowd, blind>>
<1>1. DOMAIN req = Procs /\ DOMAIN req[q] = RequestFields  BY DEF Types, RequestOK
<1>2. /\ req' = [req EXCEPT ![q].pc = pc, ![q].lost = TRUE]
      /\ blurred' = blurred \cup ({App(q)} \cap Apps)
      /\ UNCHANGED <<store, cluster, names, crowd, blind>>
  BY DEF GoDespiteError
<1>. DEFINE new == [req[q] EXCEPT !.pc = pc, !.lost = TRUE]
<1>3. req'[q] = new /\ Rest(q)  BY <1>1, <1>2 DEF Rest
<1>4. /\ DOMAIN new = RequestFields /\ new.pc = pc
      /\ new.op = req[q].op /\ new.app = req[q].app /\ new.arg = req[q].arg
      /\ new.host = req[q].host /\ new.todo = req[q].todo /\ new.doc = req[q].doc
      /\ new.saw = req[q].saw /\ new.solo = req[q].solo
  BY <1>1 DEF RequestFields
<1>5. new.lost = TRUE  BY <1>1, Zenon DEF RequestFields
<1>. HIDE DEF new
<1>. QED  BY <1>2, <1>3, <1>4, <1>5, Zenon

\* A request that fails leaves its slot free.
LEMMA FailMoves ==
    ASSUME Types, NEW q \in Procs, Fail(q)
    PROVE  Rest(q) /\ req'[q] = NoRequest
<1>1. DOMAIN req = Procs  BY DEF Types
<1>. QED  BY <1>1 DEF Fail, Rest

\* A request that succeeds leaves its slot free, or what its promise is about.
LEMMA FinishMoves ==
    ASSUME Types, NEW q \in Procs, Finish(q)
    PROVE  /\ Rest(q)
           /\ (req[q].lost \/ ~req[q].solo) => req'[q] = NoRequest
           /\ ~(req[q].lost \/ ~req[q].solo) =>
                /\ DOMAIN req'[q] = RequestFields /\ req'[q].pc = "done"
                /\ req'[q].op = req[q].op /\ req'[q].app = req[q].app
                /\ req'[q].arg = req[q].arg /\ req'[q].todo = {} /\ req'[q].doc = 0
                /\ req'[q].host = None /\ req'[q].saw = None
                /\ req'[q].solo = TRUE /\ req'[q].lost = FALSE
<1>1. DOMAIN req = Procs /\ DOMAIN req[q] = RequestFields  BY DEF Types, RequestOK
<1>. DEFINE new == [NoRequest EXCEPT !.op = req[q].op, !.app = req[q].app,
                                     !.arg = req[q].arg, !.pc = "done", !.solo = TRUE]
            old == req[q].lost \/ ~req[q].solo
<1>2. req' = [req EXCEPT ![q] = IF old THEN NoRequest ELSE new]  BY DEF Finish
<1>3. /\ DOMAIN new = RequestFields /\ new.pc = "done"
      /\ new.op = req[q].op /\ new.app = req[q].app
      /\ new.arg = req[q].arg /\ new.todo = {} /\ new.doc = 0
      /\ new.host = None /\ new.saw = None
  BY DEF RequestFields, NoRequest
<1>4. new.solo = TRUE  BY Zenon DEF NoRequest
<1>5. new.lost = FALSE  BY Zenon DEF NoRequest
<1>. HIDE DEF new
<1>6. Rest(q) /\ req'[q] = IF old THEN NoRequest ELSE new  BY <1>1, <1>2 DEF Rest
<1>7. ASSUME old PROVE req'[q] = NoRequest  BY <1>6, <1>7
<1>8. ASSUME ~old PROVE req'[q] = new  BY <1>6, <1>8
<1>. QED  BY <1>3, <1>4, <1>5, <1>6, <1>7, <1>8

\* The free slot.
LEMMA FreeSlot ==
    /\ RequestOK(NoRequest) /\ NoRequest.pc = "idle" /\ NoRequest.op = "none"
    /\ NoRequest.solo = FALSE
    /\ NoRequest.lost = FALSE
<1>1. DOMAIN NoRequest = RequestFields  BY DEF NoRequest, RequestFields
<1>2. /\ NoRequest.pc = "idle" /\ NoRequest.op = "none" /\ NoRequest.app = None
      /\ NoRequest.todo = {} /\ NoRequest.arg = 0 /\ NoRequest.doc = 0
  BY DEF NoRequest
<1>3. NoRequest.lost = FALSE  BY Zenon DEF NoRequest
<1>4. NoRequest.solo = FALSE  BY Zenon DEF NoRequest
<1>5. NoRequest.pc \in Places /\ ControlOK(NoRequest)
  BY <1>2 DEF Places, Resting, ControlOK, Building, Deleting
<1>6. NoRequest.lost \in BOOLEAN /\ NoRequest.solo \in BOOLEAN  BY <1>3, <1>4, Zenon
<1>7. RequestOK(NoRequest)  BY <1>1, <1>2, <1>5, <1>6 DEF RequestOK, Vals
<1>. QED  BY <1>2, <1>3, <1>4, <1>7

-----------------------------------------------------------------------------
(* Steps that leave the apps as they are.                                  *)

\* What such a step of request q leaves alone, and what it may touch.
Quiet(q) ==
    /\ UNCHANGED <<spec, row, objs, dep, cr, addr, dns, waiter>>
    /\ mirror' = [a \in Apps |-> mirror'[a]]
    /\ domains' \subseteq Apps /\ released' \subseteq Apps
    /\ blurred \subseteq blurred' /\ blurred' \subseteq Apps
    /\ Rest(q) /\ RequestOK(req'[q])
    /\ req'[q].op = "deploy" /\ req'[q].pc \notin Resting => IsDeploy(q) /\ req'[q].app = req[q].app

\* Such a step keeps the invariant if it keeps what the request itself holds.
LEMMA QuietKeeps ==
    ASSUME AppsInv, NEW q \in Procs, Quiet(q), Held(req[q], App(q))'
    PROVE  AppsInv'
<1>1. Types'  BY Zenon DEF AppsInv, Types, Quiet, Rest
<1>2. ASSUME NEW r \in Procs PROVE Held(req[r], App(r))'
  <2>1. CASE r = q  BY <2>1
  <2>2. CASE r # q
    <3>1. Held(req[r], App(r)) /\ req'[r] = req[r]  BY <2>2, Zenon DEF AppsInv, Quiet, Rest
    <3>2. HeldBy(req[r], App(r), spec[App(r)], row[App(r)], objs[App(r)], dep[App(r)],
                 cr[App(r)], blurred')
      BY <3>1, HeldBlurred, Zenon DEF Held, Quiet
    <3>. QED  BY <3>1, <3>2, Zenon DEF Held, Listed, Quiet, App
  <2>. QED  BY <2>1, <2>2
<1>3. ASSUME NEW a \in Apps PROVE AppOK(a)'  BY Zenon DEF AppsInv, AppOK, Quiet
<1>4. OneBuilder'  BY DEF AppsInv, OneBuilder, IsDeploy, App, Quiet, Rest
<1>5. HostsOK'  BY Zenon DEF AppsInv, HostsOK, Quiet
<1>. QED  BY <1>1, <1>2, <1>3, <1>4, <1>5, Zenon DEF AppsInv

\* In particular when the request ends.
LEMMA EndKeeps ==
    ASSUME AppsInv, NEW q \in Procs, Fail(q) \/ Finish(q),
           UNCHANGED <<spec, store, cluster, names>>,
           blurred \subseteq blurred', blurred' \subseteq Apps
    PROVE  AppsInv'
<1>1. Types /\ RequestOK(req[q])  BY Zenon DEF AppsInv, Types
<1>2. Rest(q) /\ RequestOK(req'[q]) /\ req'[q].pc \in Resting
  <2>1. ASSUME req'[q] = NoRequest PROVE RequestOK(req'[q]) /\ req'[q].pc \in Resting
    BY <2>1, FreeSlot, Zenon DEF Resting
  <2>2. CASE Fail(q)  BY <2>1, <2>2, <1>1, FailMoves, Zenon
  <2>3. CASE Finish(q) /\ (req[q].lost \/ ~req[q].solo)  BY <2>1, <2>3, <1>1, FinishMoves, Zenon
  <2>4. CASE Finish(q) /\ ~(req[q].lost \/ ~req[q].solo)
    <3>1. /\ Rest(q) /\ DOMAIN req'[q] = RequestFields /\ req'[q].pc = "done"
          /\ req'[q].op = req[q].op /\ req'[q].app = req[q].app
          /\ req'[q].arg = req[q].arg /\ req'[q].todo = {} /\ req'[q].doc = 0
          /\ req'[q].solo = TRUE /\ req'[q].lost = FALSE
      BY <2>4, <1>1, FinishMoves, Zenon
    <3>2. req'[q].lost \in BOOLEAN /\ req'[q].solo \in BOOLEAN  BY <3>1, Zenon
    <3>3. req'[q].pc \in Places /\ ControlOK(req'[q]) /\ req'[q].pc \in Resting
      BY <3>1, Zenon DEF ControlOK, Places, Resting, Building, Deleting
    <3>. QED  BY <3>1, <3>2, <3>3, <1>1 DEF RequestOK
  <2>. QED  BY <2>2, <2>3, <2>4, Zenon
<1>3. Quiet(q)  BY <1>1, <1>2, Zenon DEF Quiet, store, cluster, names, Types
<1>4. Held(req[q], App(q))'  BY <1>2, Zenon DEF Held, HeldBy, Listed, Resting, Building, Deleting
<1>. QED  BY <1>3, <1>4, QuietKeeps

\* Or when it goes on to a place where it holds no more than before.
LEMMA GoKeeps ==
    ASSUME AppsInv, NEW q \in Procs, NEW pc \in Places \ Resting, Onward(q, pc),
           ~Idle(q), ControlOK(req'[q]),
           pc \in {"sCollect", "sLoad", "mirror"} => App(q) \in Apps,
           UNCHANGED <<spec, row, cluster, dns, waiter, blurred>>,
           mirror' = [a \in Apps |-> mirror'[a]],
           domains' \subseteq Apps, released' \subseteq Apps,
           Held(req[q], App(q))'
    PROVE  AppsInv'
<1>1. Types /\ RequestOK(req[q])  BY Zenon DEF AppsInv, Types
<1>2. RequestOK(req'[q])  BY <1>1, Zenon DEF RequestOK, Onward, App
<1>3. Quiet(q)  BY <1>1, <1>2, Zenon DEF Quiet, cluster, Types, Onward, IsDeploy, Idle
<1>. QED  BY <1>3, QuietKeeps

\* Or when it goes on despite an error.
LEMMA DespiteKeeps ==
    ASSUME AppsInv, NEW q \in Procs, NEW pc \in Places \ Resting, GoDespiteError(q, pc),
           UNCHANGED spec, ~Idle(q), ControlOK(req'[q]),
           pc \in {"sCollect", "sLoad", "mirror"} => App(q) \in Apps,
           Held(req[q], App(q))'
    PROVE  AppsInv'
<1>1. Types /\ RequestOK(req[q])  BY Zenon DEF AppsInv, Types
<1>2. /\ Rest(q) /\ DOMAIN req'[q] = RequestFields /\ req'[q].pc = pc
      /\ req'[q].op = req[q].op /\ req'[q].app = req[q].app /\ req'[q].arg = req[q].arg
      /\ req'[q].host = req[q].host /\ req'[q].todo = req[q].todo
      /\ req'[q].doc = req[q].doc /\ req'[q].saw = req[q].saw
      /\ req'[q].solo = req[q].solo
      /\ req'[q].lost = TRUE
      /\ blurred' = blurred \cup ({App(q)} \cap Apps)
      /\ UNCHANGED <<store, cluster, names, crowd, blind>>
  BY <1>1, DespiteMoves, Zenon
<1>3. RequestOK(req'[q])  BY <1>1, <1>2, Zenon DEF RequestOK, App
<1>4. Quiet(q)  BY <1>1, <1>2, <1>3, Zenon DEF Quiet, store, cluster, names, Types, IsDeploy, Idle
<1>. QED  BY <1>4, QuietKeeps

-----------------------------------------------------------------------------
(* One lemma for each kind of step.                                        *)

\* ensureMaintenanceAllows.
LEMMA GateKeeps ==
    ASSUME AppsInv, NEW q \in Procs, Gate(q), UNCHANGED spec
    PROVE  AppsInv'
<1>1. /\ req[q].pc = "gate" /\ UNCHANGED <<store, cluster, names, history>>
      /\ Types /\ RequestOK(req[q]) /\ Held(req[q], App(q))
  BY Zenon DEF Gate, At, AppsInv, Types
<1>. DEFINE pc == CASE req[q].op = "deploy"  -> "plan"
                    [] req[q].op = "delete"  -> "dRead"
                    [] req[q].op = "restart" -> "depGet"
                    [] OTHER                 -> "uRead"
<1>2. CASE Fail(q)  BY <1>1, <1>2, EndKeeps, Zenon DEF history, Types
<1>3. CASE Go(q, pc)
  <2>1. Onward(q, pc) /\ req'[q].saw = req[q].saw  BY <1>1, <1>3, GoMoves, Zenon
  <2>2. req[q].op \in {"deploy", "delete", "scale", "image", "restart"}
    BY <1>1, Zenon DEF RequestOK, ControlOK
  <2>3. /\ req[q].op = "deploy" => pc = "plan"
        /\ req[q].op = "delete" => pc = "dRead"
        /\ req[q].op = "restart" => pc = "depGet"
        /\ req[q].op \in {"scale", "image"} => pc = "uRead"
    BY <2>2, Zenon
  <2>. HIDE DEF pc
  <2>4. pc \in Places \ Resting  BY <2>2, <2>3, Zenon DEF Places, Resting, Building
  <2>5. ControlOK(req'[q])
    BY <2>1, <2>2, <2>3, Zenon DEF Onward, ControlOK, Building, Deleting, UpdateOps, FieldOf
  <2>6. Held(req[q], App(q))'
    BY <1>1, <2>1, <2>2, <2>3, Zenon
    DEF Onward, Held, HeldBy, Listed, App, BeforeRow, Building, Deleting, Resting, store, cluster, history
  <2>. QED
    BY <1>1, <2>1, <2>2, <2>3, <2>4, <2>5, <2>6, GoKeeps, Zenon
    DEF Idle, Resting, store, cluster, names, history, Types
<1>. QED  BY <1>2, <1>3 DEF Gate

\* AppendProjectEvent ends a request.
LEMMA EventKeeps ==
    ASSUME AppsInv, NEW q \in Procs, Event(q), UNCHANGED spec
    PROVE  AppsInv'
BY EndKeeps, Zenon DEF Event, history, AppsInv, Types

\* A request that stops leaves what it had done.
LEMMA StopKeeps ==
    ASSUME AppsInv, NEW q \in Procs, Stop(q), UNCHANGED spec
    PROVE  AppsInv'
BY EndKeeps, Zenon DEF Stop, AppsInv, Types

\* planAppDeployment.
LEMMA PlanKeeps ==
    ASSUME AppsInv, NEW q \in Procs, planAppDeployment(q), UNCHANGED spec
    PROVE  AppsInv'
<1>. DEFINE pc == IF SpecOf(q).src = "image" THEN "workload" ELSE "raw"
<1>1. /\ req[q].pc = "plan" /\ UNCHANGED <<store, cluster, names, blurred>>
      /\ Types /\ RequestOK(req[q]) /\ Held(req[q], App(q))
      /\ Fail(q) \/ Go(q, pc)
  BY Zenon DEF planAppDeployment, Error, At, AppsInv, Types, history
<1>2. CASE Fail(q)  BY <1>1, <1>2, EndKeeps, Zenon DEF Types
<1>3. CASE Go(q, pc)
  <2>1. Onward(q, pc) /\ req'[q].saw = req[q].saw  BY <1>1, <1>3, GoMoves, Zenon
  <2>2. req[q].op = "deploy" /\ pc \in {"workload", "raw"} /\ (pc = "raw" => SpecOf(q).src # "image")
    BY <1>1, Zenon DEF RequestOK, ControlOK, Building
  <2>. HIDE DEF pc
  <2>4. pc \in Places \ Resting  BY <2>2, Zenon DEF Places, Resting, Building
  <2>5. ControlOK(req'[q])  BY <2>1, <2>2, Zenon DEF Onward, ControlOK, Building, Deleting
  <2>6. Held(req[q], App(q))'
    BY <1>1, <2>1, <2>2, Zenon
    DEF Onward, Held, HeldBy, Listed, App, SpecOf, BeforeRow, Building, Deleting, Resting, store,
        cluster
  <2>. QED
    BY <1>1, <2>1, <2>2, <2>4, <2>5, <2>6, GoKeeps, Zenon
    DEF Idle, Resting, store, cluster, names, Types
<1>. QED  BY <1>1, <1>2, <1>3, Zenon

\* UpsertAppDomain writes another table.
LEMMA DomainKeeps ==
    ASSUME AppsInv, NEW q \in Procs, UpsertAppDomain(q), UNCHANGED spec
    PROVE  AppsInv'
<1>1. /\ req[q].pc = "domain" /\ UNCHANGED <<row, mirror, released, cluster, names, history>>
      /\ Types /\ RequestOK(req[q]) /\ Held(req[q], App(q)) /\ Go(q, "dns")
      /\ domains' \subseteq domains \cup {App(q)}
  BY Zenon DEF UpsertAppDomain, At, AppsInv, Types
<1>2. req[q].op = "deploy" /\ App(q) \in Apps
  BY <1>1, Zenon DEF RequestOK, ControlOK, Building, App
<1>3. Onward(q, "dns") /\ req'[q].saw = req[q].saw  BY <1>1, GoMoves, Zenon
<1>4. "dns" \in Places \ Resting  BY Zenon DEF Places, Resting, Building
<1>5. ControlOK(req'[q])  BY <1>2, <1>3, Zenon DEF Onward, ControlOK, Building, Deleting
<1>6. Held(req[q], App(q))'
  BY <1>1, <1>2, <1>3, Zenon
  DEF Onward, Held, HeldBy, Listed, App, BeforeRow, Building, Deleting, Resting, cluster
<1>. QED
  BY <1>1, <1>2, <1>3, <1>4, <1>5, <1>6, GoKeeps, Zenon
  DEF Idle, Resting, cluster, names, history, Types

\* So does recordRelease.
LEMMA ReleaseKeeps ==
    ASSUME AppsInv, NEW q \in Procs, recordRelease(q), UNCHANGED spec
    PROVE  AppsInv'
<1>. DEFINE pc == IF SpecOf(q).src = "image" THEN "crApply" ELSE "event"
<1>1. /\ req[q].pc = "release" /\ UNCHANGED <<row, mirror, domains, cluster, names, history>>
      /\ Types /\ RequestOK(req[q]) /\ Held(req[q], App(q)) /\ Go(q, pc)
      /\ released' = released \cup {App(q)}
  BY Zenon DEF recordRelease, At, AppsInv, Types
<1>2. req[q].op = "deploy" /\ App(q) \in Apps /\ pc \in {"crApply", "event"}
  BY <1>1, Zenon DEF RequestOK, ControlOK, App
<1>3. Onward(q, pc) /\ req'[q].saw = req[q].saw  BY <1>1, GoMoves, Zenon
<1>. HIDE DEF pc
<1>4. pc \in Places \ Resting  BY <1>2 DEF Places, Resting, Building
<1>5. ControlOK(req'[q])  BY <1>2, <1>3, Zenon DEF Onward, ControlOK, Building, Deleting
<1>6. Held(req[q], App(q))'
  BY <1>1, <1>2, <1>3, Zenon
  DEF Onward, Held, HeldBy, Listed, App, BeforeRow, Building, Deleting, Resting, cluster
<1>. QED
  BY <1>1, <1>2, <1>3, <1>4, <1>5, <1>6, GoKeeps, Zenon
  DEF Idle, Resting, cluster, names, history, Types

\* mirrorAppCRD.
LEMMA MirrorKeeps ==
    ASSUME AppsInv, NEW q \in Procs, mirrorAppCRD(q), UNCHANGED spec
    PROVE  AppsInv'
<1>. DEFINE pc == IF req[q].op \in {"status", "list"} THEN "sDomains" ELSE "event"
<1>1. /\ req[q].pc = "mirror" /\ Types /\ RequestOK(req[q]) /\ Held(req[q], App(q))
      /\ \/ /\ mirror' = [mirror EXCEPT ![App(q)] =
                          [rv |-> req[q].saw.rv, f |-> req[q].saw.f, deleted |-> FALSE]]
            /\ Go(q, pc)
            /\ UNCHANGED <<row, domains, released, cluster, names, history>>
         \/ GoDespiteError(q, pc)
  BY Zenon DEF mirrorAppCRD, At, AppsInv, Types
<1>2. /\ req[q].op \in {"deploy", "scale", "image", "status", "list"} /\ App(q) \in Apps
      /\ req[q].op \in {"status", "list"} => pc = "sDomains"
      /\ req[q].op \notin {"status", "list"} => pc = "event"
  BY <1>1, Zenon DEF RequestOK, ControlOK, App
<1>. HIDE DEF pc
<1>4. pc \in Places \ Resting  BY <1>2, Zenon DEF Places, Resting, Building
<1>5. CASE Go(q, pc) /\ ~GoDespiteError(q, pc)
  <2>1. Onward(q, pc) /\ req'[q].saw = req[q].saw  BY <1>1, <1>5, GoMoves, Zenon
  <2>2. /\ UNCHANGED <<row, domains, released, cluster, names, history>>
        /\ mirror' = [mirror EXCEPT ![App(q)] =
                         [rv |-> req[q].saw.rv, f |-> req[q].saw.f, deleted |-> FALSE]]
    BY <1>1, <1>5, Zenon
  <2>3. mirror' = [a \in Apps |-> mirror'[a]]  BY <2>2, <1>1, Zenon DEF Types
  <2>4. ControlOK(req'[q])
    BY <1>2, <2>1, Zenon DEF Onward, ControlOK, Building, Deleting, UpdateOps, FieldOf
  <2>5. Held(req[q], App(q))'
    BY <1>1, <1>2, <2>1, <2>2, Zenon
    DEF Onward, Held, HeldBy, Listed, App, BeforeRow, Building, Deleting, Resting, cluster, history
  <2>. QED
    BY <1>1, <1>2, <1>4, <2>1, <2>2, <2>3, <2>4, <2>5, GoKeeps, Zenon
    DEF Idle, Resting, cluster, names, history, Types
<1>6. CASE GoDespiteError(q, pc)
  <2>1. /\ Rest(q) /\ req'[q].pc = pc
        /\ req'[q].op = req[q].op /\ req'[q].app = req[q].app
        /\ req'[q].host = req[q].host /\ req'[q].todo = req[q].todo
        /\ UNCHANGED <<store, cluster, names, crowd, blind>>
    BY <1>1, <1>6, DespiteMoves, Zenon
  <2>2. ControlOK(req'[q])
    BY <1>2, <2>1, Zenon DEF ControlOK, Building, Deleting, UpdateOps, FieldOf
  <2>3. Held(req[q], App(q))'
    BY <1>1, <1>2, <2>1, Zenon
    DEF Held, HeldBy, Listed, App, BeforeRow, Building, Deleting, Resting, store, cluster
  <2>. QED  BY <1>1, <1>2, <1>4, <1>6, <2>2, <2>3, DespiteKeeps, Zenon DEF Idle, Resting
<1>. QED  BY <1>1, <1>5, <1>6, Zenon

\* loadAppCRD.
LEMMA LoadKeeps ==
    ASSUME AppsInv, NEW q \in Procs, loadAppCRD(q), UNCHANGED spec
    PROVE  AppsInv'
<1>1. /\ req[q].pc \in {"uRead", "uLoad"} /\ UNCHANGED <<store, cluster, names, history>>
      /\ Types /\ RequestOK(req[q]) /\ Held(req[q], App(q))
      /\ \/ Fail(q) \/ Go(q, "uLoad")
         \/ req[q].pc = "uLoad" /\ Go(q, "depGet")
         \/ req[q].pc = "uLoad" /\ cr[App(q)] # None /\ Keep(q, "crPut", cr[App(q)])
  BY Zenon DEF loadAppCRD, At, AppsInv, Types
<1>2. req[q].op \in {"scale", "image"} /\ App(q) \in Apps
  BY <1>1, Zenon DEF RequestOK, ControlOK, App
<1>3. ASSUME NEW pc \in {"uLoad", "depGet", "crPut"}, Onward(q, pc), Held(req[q], App(q))'
      PROVE  AppsInv'
  <2>1. pc \in Places \ Resting  BY <1>3, Zenon DEF Places, Resting
  <2>2. ControlOK(req'[q])
    BY <1>2, <1>3, Zenon DEF Onward, ControlOK, Building, Deleting, UpdateOps, FieldOf
  <2>. QED
    BY <1>1, <1>2, <1>3, <2>1, <2>2, GoKeeps, Zenon
    DEF Idle, Resting, store, cluster, names, history, Types
<1>4. CASE Fail(q)  BY <1>1, <1>4, EndKeeps, Zenon DEF history, Types
<1>5. ASSUME NEW pc \in {"uLoad", "depGet"}, Go(q, pc) PROVE AppsInv'
  <2>1. Onward(q, pc)  BY <1>1, <1>5, GoMoves, Zenon
  <2>2. Held(req[q], App(q))'
    BY <1>1, <1>2, <1>5, <2>1, Zenon
    DEF Onward, Held, HeldBy, Listed, App, BeforeRow, Building, Deleting, Resting, store, cluster, history
  <2>. QED  BY <1>3, <1>5, <2>1, <2>2, Zenon
<1>6. CASE cr[App(q)] # None /\ Keep(q, "crPut", cr[App(q)])
  <2>1. Onward(q, "crPut") /\ req'[q].saw = cr[App(q)]  BY <1>1, <1>6, KeepMoves, Zenon
  <2>2. cr[App(q)] \in Versioned(CRFields)  BY <1>1, <1>2, <1>6, Zenon DEF Types
  <2>3. Older(cr[App(q)], cr[App(q)])  BY <2>2, OlderSelf, Zenon
  <2>4. Held(req[q], App(q))'
    BY <1>1, <1>2, <1>6, <2>1, <2>2, <2>3, Zenon
    DEF Onward, Held, HeldBy, Listed, App, Older, BeforeRow, Building, Deleting, Resting, store, cluster, history
  <2>. QED  BY <1>3, <2>1, <2>4, Zenon
<1>. QED  BY <1>1, <1>4, <1>5, <1>6, Zenon

\* updateAppDeployment reads the Deployment.
LEMMA ReadDeploymentKeeps ==
    ASSUME AppsInv, NEW q \in Procs, readAppDeployment(q), UNCHANGED spec
    PROVE  AppsInv'
<1>1. /\ req[q].pc = "depGet" /\ UNCHANGED <<store, cluster, names, history>>
      /\ Types /\ RequestOK(req[q]) /\ Held(req[q], App(q))
      /\ Fail(q) \/ Keep(q, "depPut", dep[App(q)])
  BY Zenon DEF readAppDeployment, At, AppsInv, Types
<1>2. req[q].op \in UpdateOps /\ App(q) \in Apps
  BY <1>1, Zenon DEF RequestOK, ControlOK, App, UpdateOps, FieldOf
<1>3. CASE Fail(q)  BY <1>1, <1>3, EndKeeps, Zenon DEF history, Types
<1>4. CASE Keep(q, "depPut", dep[App(q)])
  <2>1. Onward(q, "depPut") /\ req'[q].saw = dep[App(q)]  BY <1>1, <1>4, KeepMoves, Zenon
  <2>2. dep[App(q)] # None =>
          dep[App(q)] \in Versioned(Fields) /\ Older(dep[App(q)], dep[App(q)])
    BY <1>1, <1>2, OlderSelf, Zenon DEF Types
  <2>3. Held(req[q], App(q))'
    BY <1>1, <1>2, <2>1, <2>2, Zenon
    DEF Onward, Held, HeldBy, Listed, App, Older, BeforeRow, Building, Deleting, Resting, store, cluster, history,
        UpdateOps, FieldOf
  <2>4. "depPut" \in Places \ Resting /\ ControlOK(req'[q])
    BY <1>2, <2>1, Zenon DEF Onward, ControlOK, Building, Deleting, Places, Resting
  <2>. QED
    BY <1>1, <1>2, <2>1, <2>3, <2>4, GoKeeps, Zenon
    DEF Idle, Resting, store, cluster, names, history, Types
<1>. QED  BY <1>1, <1>3, <1>4, Zenon

\* HandleGitWebhook.
LEMMA WebhookKeeps ==
    ASSUME AppsInv, NEW q \in Procs, patchBySlug(q), UNCHANGED spec
    PROVE  AppsInv'
<1>1. /\ req[q].pc \in {"wRead", "wPatch"} /\ UNCHANGED <<store, cluster, names, history>>
      /\ Types /\ RequestOK(req[q]) /\ Held(req[q], App(q))
      /\ Finish(q) \/ Go(q, "wPatch")
  BY Zenon DEF patchBySlug, At, AppsInv, Types
<1>2. req[q].op = "webhook"  BY <1>1, Zenon DEF RequestOK, ControlOK
<1>3. CASE Finish(q)  BY <1>1, <1>3, EndKeeps, Zenon DEF history, Types
<1>4. CASE Go(q, "wPatch")
  <2>1. Onward(q, "wPatch")  BY <1>1, <1>4, GoMoves, Zenon
  <2>2. Held(req[q], App(q))'
    BY <1>1, <1>2, <2>1, Zenon
    DEF Onward, Held, HeldBy, Listed, App, BeforeRow, Building, Deleting, Resting, store, cluster, history
  <2>3. "wPatch" \in Places \ Resting /\ ControlOK(req'[q])
    BY <1>2, <2>1, Zenon DEF Onward, ControlOK, Building, Deleting, Places, Resting
  <2>. QED
    BY <1>1, <1>2, <2>1, <2>2, <2>3, GoKeeps, Zenon
    DEF Idle, Resting, store, cluster, names, history, Types
<1>. QED  BY <1>1, <1>3, <1>4, Zenon

\* DeleteApp reads the row.
LEMMA DeleteReadsKeeps ==
    ASSUME AppsInv, NEW q \in Procs, DeleteReads(q), UNCHANGED spec
    PROVE  AppsInv'
<1>1. /\ req[q].pc = "dRead" /\ UNCHANGED <<store, cluster, names, history>>
      /\ Types /\ RequestOK(req[q]) /\ Held(req[q], App(q))
      /\ Fail(q) \/ Go(q, "dObjects")
  BY Zenon DEF DeleteReads, At, AppsInv, Types
<1>2. req[q].op = "delete"  BY <1>1, Zenon DEF RequestOK, ControlOK
<1>3. CASE Fail(q)  BY <1>1, <1>3, EndKeeps, Zenon DEF history, Types
<1>4. CASE Go(q, "dObjects")
  <2>1. Onward(q, "dObjects")  BY <1>1, <1>4, GoMoves, Zenon
  <2>2. Held(req[q], App(q))'
    BY <1>1, <1>2, <2>1, Zenon
    DEF Onward, Held, HeldBy, Listed, App, BeforeRow, Building, Deleting, Resting, store, cluster, history
  <2>3. "dObjects" \in Places \ Resting /\ ControlOK(req'[q])
    BY <1>2, <2>1, Zenon DEF Onward, ControlOK, Building, Deleting, Places, Resting
  <2>. QED
    BY <1>1, <1>2, <2>1, <2>2, <2>3, GoKeeps, Zenon
    DEF Idle, Resting, store, cluster, names, history, Types
<1>. QED  BY <1>1, <1>3, <1>4, Zenon

\* GetAppStatus and ListProjectAppsStatus read the rows once.
LEMMA ReadRowsKeeps ==
    ASSUME AppsInv, NEW q \in Procs, ReadRows(q), UNCHANGED spec
    PROVE  AppsInv'
<1>. DEFINE live == {a \in Apps : row[a] = "live"}
<1>1. /\ req[q].pc = "sRead" /\ UNCHANGED <<store, cluster, names, history>>
      /\ Types /\ RequestOK(req[q]) /\ Held(req[q], App(q)) /\ DOMAIN req = Procs
      /\ IF req[q].op = "status"
           THEN IF App(q) \in live THEN Go(q, "sCollect") ELSE Fail(q)
           ELSE req' = [req EXCEPT ![q].todo = live, ![q].pc = "sDomains"]
  BY Zenon DEF ReadRows, At, AppsInv, Types
<1>2. req[q].op \in {"status", "list"}  BY <1>1, Zenon DEF RequestOK, ControlOK
<1>3. CASE Fail(q)  BY <1>1, <1>3, EndKeeps, Zenon DEF history, Types
<1>4. CASE App(q) \in live /\ Go(q, "sCollect")
  <2>1. Onward(q, "sCollect") /\ App(q) \in Apps  BY <1>1, <1>4, GoMoves
  <2>2. Held(req[q], App(q))'
    BY <1>1, <1>2, <2>1
    DEF Onward, Held, HeldBy, Listed, App, BeforeRow, Building, Deleting, Resting, store, cluster, history
  <2>3. "sCollect" \in Places \ Resting /\ ControlOK(req'[q])
    BY <1>2, <2>1, Zenon DEF Onward, ControlOK, Building, Deleting, Places, Resting
  <2>. QED
    BY <1>1, <1>2, <2>1, <2>2, <2>3, GoKeeps, Zenon
    DEF Idle, Resting, store, cluster, names, history, Types
<1>5. CASE req' = [req EXCEPT ![q].todo = live, ![q].pc = "sDomains"]
  <2>. DEFINE new == [req[q] EXCEPT !.todo = live, !.pc = "sDomains"]
  <2>1. req'[q] = new /\ Rest(q)  BY <1>1, <1>5, Zenon DEF Rest
  <2>2. DOMAIN req[q] = RequestFields  BY <1>1, Zenon DEF RequestOK
  <2>3. /\ DOMAIN new = RequestFields /\ new.pc = "sDomains" /\ new.todo = live
        /\ new.op = req[q].op /\ new.app = req[q].app /\ new.arg = req[q].arg
        /\ new.host = req[q].host /\ new.doc = req[q].doc
        /\ new.solo = req[q].solo /\ new.lost = req[q].lost
    BY <2>2, Zenon DEF RequestFields
  <2>4. live \subseteq Apps /\ \A b \in live : row[b] # "absent"  BY Zenon
  <2>. HIDE DEF new, live
  <2>5. RequestOK(new)
    BY <1>1, <1>2, <2>3, <2>4, Zenon DEF RequestOK, ControlOK, Building, Deleting, Places, Resting
  <2>6. Held(req[q], App(q))'
    BY <1>1, <1>2, <2>1, <2>3, <2>4, Zenon
    DEF Held, HeldBy, Listed, App, BeforeRow, Building, Deleting, Resting, store, cluster, history
  <2>7. Quiet(q)
    BY <1>1, <1>2, <2>1, <2>3, <2>5, Zenon DEF Quiet, store, cluster, names, history, Types
  <2>. QED  BY <2>6, <2>7, QuietKeeps, Zenon
<1>. QED  BY <1>1, <1>3, <1>4, <1>5, Zenon

\* A list goes on to an app it had read.
LEMMA NextAppKeeps ==
    ASSUME AppsInv, NEW q \in Procs, domainStatuses(q), UNCHANGED spec
    PROVE  AppsInv'
<1>1. /\ req[q].pc = "sDomains" /\ UNCHANGED <<store, cluster, names, history>>
      /\ Types /\ RequestOK(req[q]) /\ Held(req[q], App(q)) /\ DOMAIN req = Procs
      /\ \/ Finish(q)
         \/ \E a \in req[q].todo :
               req' = [req EXCEPT ![q].app = a, ![q].todo = @ \ {a}, ![q].pc = "sCollect"]
  BY Zenon DEF domainStatuses, At, AppsInv, Types
<1>2. req[q].op \in {"status", "list"}  BY <1>1, Zenon DEF RequestOK, ControlOK
<1>3. CASE Finish(q)  BY <1>1, <1>3, EndKeeps, Zenon DEF history, Types
<1>4. ASSUME NEW a \in req[q].todo,
             req' = [req EXCEPT ![q].app = a, ![q].todo = @ \ {a}, ![q].pc = "sCollect"]
      PROVE  AppsInv'
  <2>. DEFINE new == [req[q] EXCEPT !.app = a, !.todo = @ \ {a}, !.pc = "sCollect"]
  <2>1. req'[q] = new /\ Rest(q)  BY <1>1, <1>4, Zenon DEF Rest
  <2>2. DOMAIN req[q] = RequestFields /\ a \in Apps /\ row[a] # "absent"
    BY <1>1, <1>2, Zenon DEF RequestOK, Held, HeldBy, Listed, Resting
  <2>3. /\ DOMAIN new = RequestFields /\ new.pc = "sCollect" /\ new.todo = req[q].todo \ {a}
        /\ new.op = req[q].op /\ new.app = a /\ new.arg = req[q].arg
        /\ new.host = req[q].host /\ new.doc = req[q].doc
        /\ new.solo = req[q].solo /\ new.lost = req[q].lost
    BY <2>2, Zenon DEF RequestFields
  <2>. HIDE DEF new
  <2>4. RequestOK(new)
    BY <1>1, <1>2, <2>2, <2>3, Zenon DEF RequestOK, ControlOK, Building, Deleting, Places, Resting
  <2>5. Held(req[q], App(q))'
    <3>1. /\ \A b \in req[q].todo \ {a} : row[b] # "absent"
          /\ req[q].host = None
      BY <1>1, <1>2, Zenon DEF Held, HeldBy, Listed, Resting
    <3>. QED
      BY <1>1, <1>2, <2>1, <2>2, <2>3, <3>1, Zenon
      DEF Held, HeldBy, Listed, App, BeforeRow, Building, Deleting, Resting, store, cluster, history
  <2>6. Quiet(q)
    BY <1>1, <1>2, <2>1, <2>3, <2>4, Zenon DEF Quiet, store, cluster, names, history, Types
  <2>. QED  BY <2>5, <2>6, QuietKeeps, Zenon
<1>. QED  BY <1>1, <1>3, <1>4, Zenon

\* CollectAppStatus reads the App resource of the app at hand.
LEMMA CollectKeeps ==
    ASSUME AppsInv, NEW q \in Procs, CollectAppStatus(q), UNCHANGED spec
    PROVE  AppsInv'
<1>1. /\ req[q].pc \in {"sCollect", "sLoad"}
      /\ Types /\ RequestOK(req[q]) /\ Held(req[q], App(q))
      /\ \/ /\ Go(q, "sLoad") \/ Go(q, "sDomains") \/ Keep(q, "mirror", cr[App(q)])
            /\ UNCHANGED <<store, cluster, names, history>>
         \/ GoDespiteError(q, "sDomains")
  BY Zenon DEF CollectAppStatus, At, AppsInv, Types
<1>2. req[q].op \in {"status", "list"} /\ App(q) \in Apps
  BY <1>1, Zenon DEF RequestOK, ControlOK, App
<1>3. ASSUME NEW pc \in {"sLoad", "sDomains", "mirror"}, Onward(q, pc),
             UNCHANGED <<store, cluster, names, history>>
      PROVE  AppsInv'
  <2>1. pc \in Places \ Resting /\ ControlOK(req'[q])
    BY <1>2, <1>3, Zenon DEF Onward, ControlOK, Building, Deleting, Places, Resting
  <2>2. Held(req[q], App(q))'
    BY <1>1, <1>2, <1>3, Zenon
    DEF Onward, Held, HeldBy, Listed, App, BeforeRow, Building, Deleting, Resting, store, cluster, history
  <2>. QED
    BY <1>1, <1>2, <1>3, <2>1, <2>2, GoKeeps, Zenon
    DEF Idle, Resting, store, cluster, names, history, Types
<1>4. CASE GoDespiteError(q, "sDomains")
  <2>1. /\ Rest(q) /\ req'[q].pc = "sDomains"
        /\ req'[q].op = req[q].op /\ req'[q].app = req[q].app
        /\ req'[q].host = req[q].host /\ req'[q].todo = req[q].todo
        /\ UNCHANGED <<store, cluster, names, crowd, blind>>
    BY <1>1, <1>4, DespiteMoves, Zenon
  <2>2. "sDomains" \in Places \ Resting /\ ControlOK(req'[q])
    BY <1>2, <2>1, Zenon DEF ControlOK, Building, Deleting, Places, Resting
  <2>3. Held(req[q], App(q))'
    BY <1>1, <1>2, <2>1, Zenon
    DEF Held, HeldBy, Listed, App, BeforeRow, Building, Deleting, Resting, store, cluster
  <2>. QED  BY <1>1, <1>2, <1>4, <2>2, <2>3, DespiteKeeps, Zenon DEF Idle, Resting
<1>. QED  BY <1>1, <1>3, <1>4, GoMoves, KeepMoves, Zenon

-----------------------------------------------------------------------------
(* Steps that change one app.                                              *)

\* Such a step of request q keeps the invariant if it does for that app, for
\* the requests on it, and for the hosts.
LEMMA OneAppKeeps ==
    ASSUME AppsInv, NEW q \in Procs, NEW a \in Apps, Types', Rest(q), UNCHANGED <<spec, blurred>>,
           \A b \in Apps \ {a} :
              /\ row'[b] = row[b] /\ objs'[b] = objs[b] /\ dep'[b] = dep[b] /\ cr'[b] = cr[b]
              /\ waiter'[b] = waiter[b] /\ (b \in addr' => b \in addr),
           row[a] # "absent" => row'[a] # "absent",
           \A r \in Procs \ {q} : ~Idle(r) /\ App(r) = a =>
              HeldBy(req[r], a, spec[a], row'[a], objs'[a], dep'[a], cr'[a], blurred),
           AppOK(a)', HostsOK', Held(req[q], App(q))',
           IsDeploy(q)' => IsDeploy(q) /\ App(q)' = App(q)
    PROVE  AppsInv'
<1>1. Types /\ HostsOK /\ OneBuilder  BY Zenon DEF AppsInv
<1>2. ASSUME NEW r \in Procs PROVE Held(req[r], App(r))'
  <2>1. CASE r = q  BY <2>1, Zenon
  <2>2. CASE r # q /\ ~Idle(r) /\ App(r) = a
    <3>1. /\ HeldBy(req[r], a, spec[a], row'[a], objs'[a], dep'[a], cr'[a], blurred)
          /\ req'[r] = req[r] /\ Held(req[r], a) /\ RequestOK(req[r])
      BY <1>1, <2>2, Zenon DEF Rest, AppsInv, Types
    <3>2. Listed(req[r])'  BY <3>1, Zenon DEF Held, Listed, RequestOK
    <3>. QED  BY <3>1, <3>2, <2>2, Zenon DEF Held, App
  <2>3. CASE r # q /\ Idle(r)
    <3>1. req'[r] = req[r] /\ req[r].pc \in Resting  BY <2>3, Zenon DEF Rest, Idle
    <3>. QED  BY <3>1, Zenon DEF Held, HeldBy, Listed, Resting, Building, Deleting
  <2>4. CASE r # q /\ ~Idle(r) /\ App(r) # a
    <3>1. req'[r] = req[r] /\ Held(req[r], App(r)) /\ RequestOK(req[r]) /\ req[r].pc \notin Resting
      BY <2>4, <1>1, Zenon DEF Rest, AppsInv, Types, Idle
    <3>2. \A b \in req[r].todo : row[b] # "absent" => row'[b] # "absent"
      BY <3>1, Zenon DEF RequestOK
    <3>3. CASE App(r) \in Apps
      <4>1. /\ App(r)' = App(r) /\ row'[App(r)] = row[App(r)] /\ objs'[App(r)] = objs[App(r)]
            /\ dep'[App(r)] = dep[App(r)] /\ cr'[App(r)] = cr[App(r)]
        BY <3>1, <3>3, <2>4, Zenon DEF App
      <4>2. Listed(req[r])'  BY <3>1, <3>2, Zenon DEF Held, Listed
      <4>. QED  BY <3>1, <4>1, <4>2, Zenon DEF Held
    <3>4. CASE App(r) \notin Apps
      <4>1. req[r].op = "list"
        BY <3>1, <3>4, Zenon DEF RequestOK, ControlOK, App, Places, Building, Deleting, UpdateOps, FieldOf
      <4>2. req[r].pc \in {"sRead", "sCollect", "sLoad", "sDomains", "mirror"}
        BY <3>1, <4>1, Zenon DEF RequestOK, ControlOK, Places, Building, Deleting, UpdateOps, FieldOf
      <4>. QED
        BY <3>1, <3>2, <3>4, <4>1, <4>2, Zenon DEF Held, HeldBy, Listed, App, BeforeRow, Building, Deleting
    <3>. QED  BY <3>3, <3>4, Zenon
  <2>. QED  BY <2>1, <2>2, <2>3, <2>4, Zenon
<1>3. ASSUME NEW b \in Apps PROVE AppOK(b)'
  <2>1. CASE b = a  BY <2>1, Zenon
  <2>2. CASE b # a
    <3>1. /\ AppOK(b) /\ row'[b] = row[b] /\ objs'[b] = objs[b] /\ dep'[b] = dep[b]
          /\ cr'[b] = cr[b] /\ waiter'[b] = waiter[b] /\ (b \in addr' => b \in addr)
      BY <2>2, Zenon DEF AppsInv
    <3>. QED  BY <3>1, Zenon DEF AppOK
  <2>. QED  BY <2>1, <2>2, Zenon
<1>4. OneBuilder'  BY <1>1 DEF OneBuilder, IsDeploy, App, Rest
<1>. QED  BY <1>2, <1>3, <1>4, Zenon DEF AppsInv

\* Until its row is written, a deploy is alone on its app.
LEMMA AloneBefore ==
    ASSUME AppsInv, NEW q \in Procs, req[q].op = "deploy", req[q].pc \in BeforeRow,
           NEW r \in Procs \ {q}, ~Idle(r)
    PROVE  App(r) # App(q)
<1>1. Held(req[q], App(q)) /\ Held(req[r], App(r)) /\ OneBuilder
      /\ RequestOK(req[q]) /\ RequestOK(req[r])
  BY Zenon DEF AppsInv, Types
<1>2. IsDeploy(q) /\ row[App(q)] = "absent" /\ App(q) \in Apps
  BY <1>1, Zenon DEF IsDeploy, Held, HeldBy, Listed, BeforeRow, Building, Resting, RequestOK, App
<1>3. CASE req[r].op = "deploy"  BY <1>1, <1>2, <1>3, Zenon DEF OneBuilder, IsDeploy, Idle
<1>4. CASE req[r].op # "deploy"  BY <1>1, <1>2, <1>4, Zenon DEF Held, HeldBy, Listed, Idle
<1>. QED  BY <1>3, <1>4, Zenon

\* What a deploy does to its app before the row is written.
LEMMA BuildKeeps ==
    ASSUME AppsInv, NEW q \in Procs, NEW a \in Apps, a = App(q),
           req[q].op = "deploy", req[q].pc \in BeforeRow,
           Rest(q), RequestOK(req'[q]), req'[q].op = "deploy", req'[q].app = req[q].app,
           UNCHANGED <<spec, cr, addr, mirror, domains, released, blurred>>,
           Types', HostsOK',
           \A b \in Apps \ {a} :
              row'[b] = row[b] /\ objs'[b] = objs[b] /\ dep'[b] = dep[b] /\ waiter'[b] = waiter[b],
           AppOK(a)', Held(req[q], App(q))'
    PROVE  AppsInv'
<1>1. RequestOK(req[q]) /\ Held(req[q], App(q))  BY Zenon DEF AppsInv, Types
<1>2. /\ App(q) \in Apps /\ row[App(q)] = "absent" /\ IsDeploy(q)
      /\ App(q)' = App(q)
  BY <1>1, Zenon DEF RequestOK, Held, HeldBy, Listed, BeforeRow, Building, Resting, App, IsDeploy
<1>3. \A r \in Procs \ {q} : ~Idle(r) => App(r) # App(q)  BY AloneBefore, Zenon
<1>. QED  BY <1>2, <1>3, OneAppKeeps, Zenon

\* The Deployment of a deploy, first without and then with the Secrets.
LEMMA DeploymentKeeps ==
    ASSUME AppsInv, NEW q \in Procs, ApplyDeployment(q), UNCHANGED spec
    PROVE  AppsInv'
<1>. PICK a : a = App(q)  BY Zenon
<1>. DEFINE after == AfterWorkload(SpecOf(q))
<1>1. /\ Types /\ RequestOK(req[q]) /\ Held(req[q], a) /\ (a \in Apps => AppOK(a))
      /\ UNCHANGED <<cr, addr, store, names, history>> /\ HostsOK
      /\ objs' = [objs EXCEPT ![a] = @ \cup {"workload"}]
      /\ \/ /\ req[q].pc = "workload"
            /\ dep' = [dep EXCEPT ![a] = [rv |-> 1, f |-> [x \in Fields |-> 0]]]
            /\ Go(q, "envFrom") \/ Go(q, after)
         \/ /\ req[q].pc = "envFrom"
            /\ dep' = [dep EXCEPT ![a] = [rv |-> dep[a].rv + 1,
                                          f |-> [dep[a].f EXCEPT !["secret"] = 1]]]
            /\ Go(q, after)
  BY Zenon DEF ApplyDeployment, At, AppsInv, Types
<1>2. req[q].op = "deploy" /\ a \in Apps /\ req[q].pc \in BeforeRow /\ after \in {"service", "row"}
  BY <1>1, Zenon DEF RequestOK, ControlOK, App, BeforeRow, Building, AfterWorkload
<1>3. AppOK(a) /\ spec[a] # None /\ row[a] = "absent"
  BY <1>1, <1>2, Zenon DEF Held, HeldBy, Listed, BeforeRow, Building, Resting
<1>4. PICK pc \in {"envFrom", "service", "row"} : Go(q, pc)  BY <1>1, <1>2, Zenon
<1>5. Onward(q, pc)  BY <1>1, <1>4, GoMoves, Zenon
<1>6. dep' \in [Apps -> Versioned(Fields) \cup {None}] /\ dep'[a] \in Versioned(Fields)
      /\ \A b \in Apps \ {a} : dep'[b] = dep[b]
  <2>1. CASE req[q].pc = "workload"
    <3>. DEFINE new == [rv |-> 1, f |-> [x \in Fields |-> 0]]
    <3>1. new \in Versioned(Fields)  BY Zenon DEF Versioned, Vals
    <3>2. dep' = [dep EXCEPT ![a] = new]  BY <1>1, <2>1, Zenon
    <3>. HIDE DEF new
    <3>. QED  BY <1>1, <1>2, <3>1, <3>2, Zenon DEF Types
  <2>2. CASE req[q].pc = "envFrom"
    <3>. DEFINE new == [rv |-> dep[a].rv + 1, f |-> [dep[a].f EXCEPT !["secret"] = 1]]
    <3>1. dep[a] \in Versioned(Fields)
      BY <1>1, <1>2, <2>2, Zenon DEF Held, HeldBy, Listed, Types
    <3>2. new \in Versioned(Fields)  BY <3>1 DEF Versioned, Vals, Fields
    <3>3. dep' = [dep EXCEPT ![a] = new]  BY <1>1, <2>2, Zenon
    <3>. HIDE DEF new
    <3>. QED  BY <1>1, <1>2, <3>2, <3>3, Zenon DEF Types
  <2>. QED  BY <1>1, <2>1, <2>2, Zenon
<1>7. objs' \in [Apps -> SUBSET Kinds] /\ objs'[a] = objs[a] \cup {"workload"}
      /\ \A b \in Apps \ {a} : objs'[b] = objs[b]
  BY <1>1, <1>2, Zenon DEF Types, Kinds, Docs
<1>8. RequestOK(req'[q])
  BY <1>1, <1>2, <1>5, Zenon DEF RequestOK, ControlOK, Onward, Places, Building, Deleting, Resting
<1>9. Types'  BY <1>1, <1>5, <1>6, <1>7, <1>8, Zenon DEF Types, Onward, Rest, store, names, history
<1>10. AppOK(a)'
  BY <1>1, <1>3, <1>7, Zenon DEF AppOK, store, names, history
<1>11. Held(req[q], App(q))'
  <2>1. dep'[a] # None  BY <1>6, AppsAssumption, Zenon
  <2>. QED
    BY <1>1, <1>2, <1>3, <1>5, <2>1, Zenon
    DEF Held, HeldBy, Listed, App, Onward, BeforeRow, Building, Deleting, Resting, store, history
<1>12. HostsOK'  BY <1>1, Zenon DEF HostsOK, names
<1>. QED
  BY <1>1, <1>2, <1>5, <1>6, <1>7, <1>8, <1>9, <1>10, <1>11, <1>12, BuildKeeps, Zenon
  DEF Onward, store, names, history

\* An object that a deploy adds.
LEMMA GrowKeeps ==
    ASSUME AppsInv, NEW q \in Procs, req[q].op = "deploy", req[q].pc \in BeforeRow,
           Rest(q), RequestOK(req'[q]), req'[q].op = "deploy", req'[q].app = req[q].app,
           NEW k \in Kinds, objs' = [objs EXCEPT ![App(q)] = @ \cup {k}],
           k = "cert" => CertManager, k = "ingress" => HasIngress(spec[App(q)]),
           UNCHANGED <<spec, dep, cr, addr, store, names, blurred>>,
           Held(req[q], App(q))'
    PROVE  AppsInv'
<1>. PICK a : a = App(q)  BY Zenon
<1>1. Types /\ RequestOK(req[q]) /\ Held(req[q], a) /\ HostsOK  BY Zenon DEF AppsInv, Types
<1>2. a \in Apps /\ spec[a] # None /\ row[a] = "absent"
  BY <1>1, Zenon DEF RequestOK, App, Held, HeldBy, Listed, BeforeRow, Building, Resting
<1>3. AppOK(a)  BY <1>2, Zenon DEF AppsInv
<1>4. /\ objs' \in [Apps -> SUBSET Kinds] /\ objs'[a] = objs[a] \cup {k}
      /\ \A b \in Apps \ {a} : objs'[b] = objs[b]
  BY <1>1, <1>2, Zenon DEF Types
<1>5. Types'  BY <1>1, <1>4, Zenon DEF Types, Rest, store, names
<1>6. AppOK(a)'  BY <1>2, <1>3, <1>4, Zenon DEF AppOK, store, names
<1>7. HostsOK'  BY <1>1, Zenon DEF HostsOK, names
<1>. QED  BY <1>4, <1>5, <1>6, <1>7, BuildKeeps DEF store, names

\* ApplyService adds the Service.
LEMMA ServiceKeeps ==
    ASSUME AppsInv, NEW q \in Procs, ApplyService(q), UNCHANGED spec
    PROVE  AppsInv'
<1>. DEFINE pc == AfterService(SpecOf(q))
<1>1. /\ Types /\ RequestOK(req[q]) /\ Held(req[q], App(q))
      /\ req[q].pc = "service" /\ Go(q, pc)
      /\ UNCHANGED <<dep, cr, addr, store, names, history>>
      /\ objs' = [objs EXCEPT ![App(q)] = @ \cup {"service"}]
  BY Zenon DEF ApplyService, At, AppsInv, Types
<1>2. /\ req[q].op = "deploy" /\ req[q].pc \in BeforeRow /\ App(q) \in Apps
      /\ pc \in {"row", "cert", "ingress"}
      /\ pc # "row" => HasIngress(spec[App(q)])
      /\ pc = "cert" => CertManager
  BY <1>1, Zenon DEF RequestOK, ControlOK, BeforeRow, Building, AfterService, SpecOf, App
<1>3. Onward(q, pc)  BY <1>1, GoMoves, Zenon
<1>. HIDE DEF pc
<1>4. RequestOK(req'[q])
  BY <1>1, <1>2, <1>3, Zenon DEF RequestOK, ControlOK, Onward, Places, Building, Deleting, Resting
<1>5. Held(req[q], App(q))'
  BY <1>1, <1>2, <1>3, Zenon
  DEF Held, HeldBy, Listed, App, Onward, BeforeRow, Building, Deleting, Resting, store, history
<1>. QED
  BY <1>1, <1>2, <1>3, <1>4, <1>5, GrowKeeps, Zenon DEF Onward, Kinds, Docs, history

\* ApplyIngress adds the Certificate and the Ingress.
LEMMA IngressKeeps ==
    ASSUME AppsInv, NEW q \in Procs, ApplyIngress(q), UNCHANGED spec
    PROVE  AppsInv'
<1>1. /\ Types /\ RequestOK(req[q]) /\ Held(req[q], App(q)) /\ req[q].pc \in {"cert", "ingress"}
      /\ \/ /\ req[q].pc = "cert"
            /\ objs' = [objs EXCEPT ![App(q)] = @ \cup {"cert"}]
            /\ Go(q, "ingress")
            /\ UNCHANGED <<dep, cr, addr, store, names, history>>
         \/ req[q].pc = "cert" /\ GoDespiteError(q, "ingress")
         \/ /\ req[q].pc = "ingress"
            /\ objs' = [objs EXCEPT ![App(q)] = @ \cup {"ingress"}]
            /\ Go(q, "domain")
            /\ UNCHANGED <<dep, cr, addr, store, names, history>>
  BY Zenon DEF ApplyIngress, At, AppsInv, Types
<1>2. /\ req[q].op = "deploy" /\ req[q].pc \in BeforeRow /\ App(q) \in Apps
      /\ HasIngress(spec[App(q)]) /\ (req[q].pc = "cert" => CertManager)
  BY <1>1, Zenon DEF RequestOK, ControlOK, BeforeRow, Building, App, Held, HeldBy, Listed
<1>3. ASSUME NEW k \in {"cert", "ingress"}, NEW pc \in {"ingress", "domain"},
             k = "cert" => CertManager, pc = "domain" => k = "ingress",
             objs' = [objs EXCEPT ![App(q)] = @ \cup {k}], Go(q, pc),
             UNCHANGED <<dep, cr, addr, store, names, history>>
      PROVE  AppsInv'
  <2>1. Onward(q, pc)  BY <1>1, <1>3, GoMoves, Zenon
  <2>2. RequestOK(req'[q])
    BY <1>1, <1>2, <1>3, <2>1, Zenon DEF RequestOK, ControlOK, Onward, Places, Building, Deleting, Resting
  <2>3. objs'[App(q)] = objs[App(q)] \cup {k}  BY <1>1, <1>2, <1>3, Zenon DEF Types
  <2>4. Held(req[q], App(q))'
    BY <1>1, <1>2, <1>3, <2>1, <2>3, Zenon
    DEF Held, HeldBy, Listed, App, Onward, BeforeRow, Building, Deleting, Resting, store, history
  <2>. QED
    BY <1>2, <1>3, <2>1, <2>2, <2>4, GrowKeeps, Zenon DEF Onward, Kinds, Docs, history
<1>4. CASE req[q].pc = "cert" /\ GoDespiteError(q, "ingress")
  <2>1. /\ req'[q].pc = "ingress" /\ req'[q].op = req[q].op /\ req'[q].app = req[q].app
        /\ UNCHANGED <<store, cluster, names, crowd, blind>>
    BY <1>1, <1>4, DespiteMoves, Zenon
  <2>2. "ingress" \in Places \ Resting /\ ControlOK(req'[q])
    BY <1>2, <2>1, Zenon DEF ControlOK, Building, Deleting, Places, Resting
  <2>3. Held(req[q], App(q))'
    BY <1>1, <1>2, <1>4, <2>1, Zenon
    DEF Held, HeldBy, Listed, App, BeforeRow, Building, Deleting, Resting, store, cluster
  <2>. QED  BY <1>1, <1>2, <1>4, <2>2, <2>3, DespiteKeeps, Zenon DEF Idle, Resting
<1>. QED  BY <1>1, <1>2, <1>3, <1>4, Zenon

\* applyRawManifest.
LEMMA RawKeeps ==
    ASSUME AppsInv, NEW q \in Procs, applyRawManifest(q), UNCHANGED spec
    PROVE  AppsInv'
<1>. DEFINE docs == SpecOf(q).docs
            i == req[q].doc + 1
<1>1. /\ Types /\ RequestOK(req[q]) /\ Held(req[q], App(q)) /\ req[q].pc = "raw"
      /\ UNCHANGED <<dep, cr, addr, store, names, history>>
      /\ IF i > Len(docs)
           THEN Go(q, "row") /\ UNCHANGED objs
           ELSE /\ objs' = [objs EXCEPT ![App(q)] = @ \cup {docs[i]}]
                /\ req' = [req EXCEPT ![q].doc = i]
  BY DEF applyRawManifest, At, AppsInv, Types
<1>2. req[q].op = "deploy" /\ req[q].pc \in BeforeRow /\ App(q) \in Apps /\ spec[App(q)] # None
  BY <1>1, Zenon DEF RequestOK, ControlOK, BeforeRow, Building, Resting, App, Held, HeldBy, Listed
<1>3. CASE i > Len(docs)
  <2>1. Onward(q, "row") /\ "row" \in Places \ Resting
    BY <1>1, <1>3, GoMoves DEF Places, Building, Resting
  <2>2. ControlOK(req'[q])  BY <1>2, <2>1, Zenon DEF Onward, ControlOK, Building, Deleting
  <2>3. Held(req[q], App(q))'
    BY <1>1, <1>2, <1>3, <2>1
    DEF Onward, Held, HeldBy, Listed, App, BeforeRow, Building, Deleting, Resting, store, history
  <2>. QED
    BY <1>1, <1>2, <1>3, <2>1, <2>2, <2>3, GoKeeps
    DEF Idle, Resting, store, cluster, names, history, Types
<1>4. CASE ~(i > Len(docs))
  <2>. DEFINE new == [req[q] EXCEPT !.doc = i]
  <2>1. DOMAIN req = Procs /\ DOMAIN req[q] = RequestFields /\ req[q].doc \in Nat
    BY <1>1 DEF Types, RequestOK
  <2>2. req'[q] = new /\ Rest(q)  BY <1>1, <1>4, <2>1 DEF Rest
  <2>3. /\ DOMAIN new = RequestFields /\ new.pc = req[q].pc /\ new.doc = i
        /\ new.op = req[q].op /\ new.app = req[q].app /\ new.arg = req[q].arg
        /\ new.todo = req[q].todo /\ new.solo = req[q].solo /\ new.lost = req[q].lost
    BY <2>1 DEF RequestFields
  <2>4. docs \in Seq(Docs)
    BY <1>1, <1>2, AppsAssumption DEF Types, AppSpec, SpecOf
  <2>5. docs[i] \in Docs  BY <1>4, <2>1, <2>4
  <2>6. docs[i] \in Kinds /\ docs[i] \notin {"cert", "ingress"}  BY <2>5, Zenon DEF Docs, Kinds
  <2>7. i \in Nat  BY <2>1
  <2>. HIDE DEF new, docs, i
  <2>8. RequestOK(req'[q])  BY <1>1, <2>2, <2>3, <2>7 DEF RequestOK, ControlOK
  <2>9. Held(req[q], App(q))'
    BY <1>1, <1>2, <2>2, <2>3
    DEF Held, HeldBy, Listed, App, BeforeRow, Building, Deleting, Resting, store, history
  <2>. QED  BY <1>1, <1>2, <1>4, <2>2, <2>3, <2>6, <2>8, <2>9, GrowKeeps DEF history
<1>. QED  BY <1>3, <1>4, Zenon

\* ensureDNSForService writes the record or starts the goroutine.
LEMMA EnsureDnsKeeps ==
    ASSUME AppsInv, NEW q \in Procs, ensureDNSForService(q), UNCHANGED spec
    PROVE  AppsInv'
<1>. PICK a : a = App(q)  OBVIOUS
<1>1. /\ Types /\ RequestOK(req[q]) /\ Held(req[q], a) /\ HostsOK /\ req[q].pc = "dns"
      /\ \/ /\ Go(q, "row")
            /\ \/ UNCHANGED <<dns, waiter>>
               \/ dns' = [dns EXCEPT ![spec[a].host] = a] /\ UNCHANGED waiter
               \/ waiter' = [waiter EXCEPT ![a] = "wait"] /\ UNCHANGED dns
            /\ UNCHANGED <<store, cluster, late, expired, history>>
         \/ GoDespiteError(q, "row")
  BY Zenon DEF ensureDNSForService, At, AppsInv, Types
<1>2. /\ req[q].op = "deploy" /\ req[q].pc \in BeforeRow /\ a \in Apps
      /\ HasIngress(spec[a]) /\ spec[a] # None
  BY <1>1, Zenon DEF RequestOK, ControlOK, BeforeRow, Building, Resting, App, Held, HeldBy, Listed
<1>3. AppOK(a)  BY <1>2, Zenon DEF AppsInv
<1>4. CASE Go(q, "row") /\ ~GoDespiteError(q, "row")
  <2>1. Onward(q, "row") /\ UNCHANGED <<store, cluster, late, expired, history>>
    BY <1>1, <1>4, GoMoves, Zenon
  <2>2. RequestOK(req'[q])
    BY <1>1, <1>2, <2>1, Zenon DEF RequestOK, ControlOK, Onward, Places, Building, Deleting, Resting
  <2>3. /\ dns' \in [Hosts -> Apps \cup {None}] /\ waiter' \in [Apps -> {"none", "wait", "write"}]
        /\ \A b \in Apps \ {a} : waiter'[b] = waiter[b]
        /\ \A h \in Hosts : dns'[h] = dns[h] \/ (h = spec[a].host /\ dns'[h] = a)
    BY <1>1, <1>2, <1>4 DEF Types
  <2>4. Types'  BY <1>1, <2>1, <2>2, <2>3, Zenon DEF Types, Onward, Rest, store, cluster, history
  <2>5. HostsOK'  BY <1>1, <1>2, <2>3, Zenon DEF HostsOK
  <2>6. AppOK(a)'  BY <1>2, <1>3, <2>1, Zenon DEF AppOK, store, cluster, history
  <2>7. Held(req[q], App(q))'
    BY <1>1, <1>2, <2>1, Zenon
    DEF Held, HeldBy, Listed, App, Onward, BeforeRow, Building, Deleting, Resting, store, cluster, history
  <2>. QED
    BY <1>1, <1>2, <2>1, <2>2, <2>3, <2>4, <2>5, <2>6, <2>7, BuildKeeps, Zenon
    DEF Onward, store, cluster, history
<1>5. CASE GoDespiteError(q, "row")
  <2>1. /\ req'[q].pc = "row" /\ req'[q].op = req[q].op /\ req'[q].app = req[q].app
        /\ UNCHANGED <<store, cluster, names, crowd, blind>>
    BY <1>1, <1>5, DespiteMoves, Zenon
  <2>2. "row" \in Places \ Resting /\ ControlOK(req'[q])
    BY <1>2, <2>1, Zenon DEF ControlOK, Building, Deleting, Places, Resting
  <2>3. Held(req[q], App(q))'
    BY <1>1, <1>2, <1>5, <2>1, Zenon
    DEF Held, HeldBy, Listed, App, BeforeRow, Building, Deleting, Resting, store, cluster
  <2>. QED  BY <1>1, <1>2, <1>5, <2>2, <2>3, DespiteKeeps, Zenon DEF Idle, Resting
<1>. QED  BY <1>1, <1>4, <1>5, Zenon

\* CreateApp writes the row.
LEMMA CreateKeeps ==
    ASSUME AppsInv, NEW q \in Procs, CreateApp(q), UNCHANGED spec
    PROVE  AppsInv'
<1>. PICK a : a = App(q)  OBVIOUS
<1>1. /\ Types /\ RequestOK(req[q]) /\ Held(req[q], a) /\ HostsOK /\ req[q].pc = "row"
      /\ \/ Error(q)
         \/ /\ row' = [row EXCEPT ![a] = "live"]
            /\ Go(q, "release")
            /\ UNCHANGED <<domains, released, mirror, cluster, names, history>>
  BY Zenon DEF CreateApp, At, AppsInv, Types
<1>2. /\ req[q].op = "deploy" /\ req[q].pc \in BeforeRow /\ a \in Apps
      /\ spec[a] # None /\ row[a] = "absent"
  BY <1>1, Zenon DEF RequestOK, ControlOK, BeforeRow, Building, Resting, App, Held, HeldBy, Listed
<1>3. AppOK(a)  BY <1>2, Zenon DEF AppsInv
<1>4. CASE Error(q)  BY <1>1, <1>4, EndKeeps, Zenon DEF Error, history, Types
<1>5. CASE ~Error(q)
  <2>1. /\ Onward(q, "release") /\ UNCHANGED <<domains, released, mirror, cluster, names, history>>
        /\ row' = [row EXCEPT ![a] = "live"]
    BY <1>1, <1>5, GoMoves, Zenon
  <2>2. RequestOK(req'[q])
    BY <1>1, <1>2, <2>1, Zenon DEF RequestOK, ControlOK, Onward, Places, Building, Deleting, Resting
  <2>3. /\ row' \in [Apps -> {"absent", "live", "deleted"}] /\ row'[a] = "live"
        /\ \A b \in Apps \ {a} : row'[b] = row[b]
    BY <1>1, <1>2, <2>1, Zenon DEF Types
  <2>4. Types'  BY <1>1, <2>1, <2>2, <2>3 DEF Types, Onward, Rest, cluster, names, history
  <2>5. HostsOK'  BY <1>1, <2>1, Zenon DEF HostsOK, names
  <2>6. AppOK(a)'  BY <1>2, <1>3, <2>1, <2>3, Zenon DEF AppOK, cluster, names, history
  <2>7. Held(req[q], App(q))'
    BY <1>1, <1>2, <1>3, <2>1, <2>3, Zenon
    DEF Held, HeldBy, Listed, AppOK, App, Onward, BeforeRow, Building, Deleting, Resting, cluster, history
  <2>. QED
    BY <1>1, <1>2, <2>1, <2>2, <2>3, <2>4, <2>5, <2>6, <2>7, BuildKeeps, Zenon
    DEF Onward, cluster, names, history
<1>. QED  BY <1>4, <1>5

\* ensureAppCRDForPlan.
LEMMA EnsureCrdKeeps ==
    ASSUME AppsInv, NEW q \in Procs, ensureAppCRDForPlan(q), UNCHANGED spec
    PROVE  AppsInv'
<1>. PICK a : a = App(q)  OBVIOUS
<1>. DEFINE new == [rv |-> 1, f |-> [x \in CRFields |-> 0]]
<1>1. /\ Types /\ RequestOK(req[q]) /\ Held(req[q], a) /\ HostsOK
      /\ req[q].pc \in {"crApply", "crLoad"}
      /\ \/ /\ req[q].pc = "crApply" /\ cr' = [cr EXCEPT ![a] = new] /\ Go(q, "crLoad")
            /\ UNCHANGED <<objs, dep, addr, store, names, history>>
         \/ /\ Go(q, "event") \/ Keep(q, "mirror", cr[a])
            /\ UNCHANGED <<store, cluster, names, history>>
         \/ GoDespiteError(q, "event")
  BY Zenon DEF ensureAppCRDForPlan, At, AppsInv, Types, cluster
<1>2. /\ req[q].op = "deploy" /\ a \in Apps /\ spec[a] # None /\ row[a] # "absent"
      /\ req[q].pc = "crApply" => cr[a] = None
  BY <1>1, Zenon DEF RequestOK, ControlOK, BeforeRow, Building, Resting, App, Held, HeldBy, Listed
<1>3. AppOK(a)  BY <1>2, Zenon DEF AppsInv
<1>4. CASE /\ req[q].pc = "crApply" /\ cr' = [cr EXCEPT ![a] = new] /\ Go(q, "crLoad")
           /\ UNCHANGED <<objs, dep, addr, store, names, history>>
  <2>1. Onward(q, "crLoad")  BY <1>1, <1>4, GoMoves, Zenon
  <2>2. RequestOK(req'[q])
    BY <1>1, <1>2, <2>1, Zenon DEF RequestOK, ControlOK, Onward, Places, Building, Deleting, Resting
  <2>3. new \in Versioned(CRFields)  BY Zenon DEF Versioned, Vals
  <2>. HIDE DEF new
  <2>4. /\ cr' \in [Apps -> Versioned(CRFields) \cup {None}]
        /\ \A b \in Apps \ {a} : cr'[b] = cr[b]
    BY <1>1, <1>2, <1>4, <2>3, Zenon DEF Types
  <2>5. Types'  BY <1>1, <1>4, <2>1, <2>2, <2>4, Zenon DEF Types, Onward, Rest, store, names, history
  <2>6. HostsOK'  BY <1>1, <1>4, Zenon DEF HostsOK, names
  <2>7. AppOK(a)'  BY <1>2, <1>3, <1>4, Zenon DEF AppOK, store, names, history
  <2>8. Held(req[q], App(q))'
    BY <1>1, <1>2, <1>4, <2>1, Zenon
    DEF Held, HeldBy, Listed, App, Onward, BeforeRow, Building, Deleting, Resting, store, history
  <2>9. ASSUME NEW r \in Procs \ {q}, ~Idle(r), App(r) = a
        PROVE  HeldBy(req[r], a, spec[a], row'[a], objs'[a], dep'[a], cr'[a], blurred)
    <3>1. HeldBy(req[r], a, spec[a], row[a], objs[a], dep[a], cr[a], blurred)
      BY <2>9, Zenon DEF AppsInv, Held
    <3>2. req[r].op # "deploy"
      <4>1. OneBuilder /\ IsDeploy(q)
        BY <1>1, <1>2, Zenon DEF AppsInv, IsDeploy, Resting
      <4>. QED  BY <2>9, <4>1, Zenon DEF OneBuilder, IsDeploy, Idle
    <3>3. req[r].pc # "crPut"  BY <1>2, <1>4, <3>1, Zenon DEF HeldBy
    <3>4. cr'[a] # None  BY <1>1, <1>2, <1>4, <2>3, AppsAssumption, Zenon DEF Types
    <3>5. row' = row /\ objs' = objs /\ dep' = dep  BY <1>4, Zenon DEF store
    <3>. QED  BY <3>1, <3>2, <3>3, <3>4, <3>5, HeldNewCR, Zenon
  <2>. QED
    BY <1>2, <1>4, <2>1, <2>4, <2>5, <2>6, <2>7, <2>8, <2>9, OneAppKeeps, Zenon
    DEF Onward, store, names, history, IsDeploy, App, Resting
<1>5. ASSUME NEW pc \in {"event", "mirror"}, Onward(q, pc),
             UNCHANGED <<store, cluster, names, history>>
      PROVE  AppsInv'
  <2>1. pc \in Places \ Resting /\ ControlOK(req'[q])
    BY <1>2, <1>5, Zenon DEF Onward, ControlOK, Building, Deleting, Places, Resting
  <2>2. Held(req[q], App(q))'
    BY <1>1, <1>2, <1>5, Zenon
    DEF Onward, Held, HeldBy, Listed, App, BeforeRow, Building, Deleting, Resting, store, cluster, history
  <2>. QED
    BY <1>1, <1>2, <1>5, <2>1, <2>2, GoKeeps, Zenon
    DEF Idle, Resting, store, cluster, names, history, Types
<1>6. CASE GoDespiteError(q, "event")
  <2>1. /\ req'[q].pc = "event" /\ req'[q].op = req[q].op /\ req'[q].app = req[q].app
        /\ UNCHANGED <<store, cluster, names, crowd, blind>>
    BY <1>1, <1>6, DespiteMoves, Zenon
  <2>2. "event" \in Places \ Resting /\ ControlOK(req'[q])
    BY <1>2, <2>1, Zenon DEF ControlOK, Building, Deleting, Places, Resting
  <2>3. Held(req[q], App(q))'
    BY <1>1, <1>2, <1>6, <2>1, Zenon
    DEF Held, HeldBy, Listed, App, BeforeRow, Building, Deleting, Resting, store, cluster
  <2>. QED  BY <1>1, <1>2, <1>6, <2>2, <2>3, DespiteKeeps, Zenon DEF Idle, Resting
<1>. QED  BY <1>1, <1>4, <1>5, <1>6, GoMoves, KeepMoves, Zenon

\* The App resource is updated only in the version that was read.
LEMMA UpdateCRKeeps ==
    ASSUME AppsInv, NEW q \in Procs, UpdateCR(q), UNCHANGED spec
    PROVE  AppsInv'
<1>. PICK a : a = App(q)  OBVIOUS
<1>. DEFINE saw == req[q].saw
            new == [rv |-> saw.rv + 1,
                    f |-> [saw.f EXCEPT ![FieldOf[req[q].op]] = req[q].arg]]
<1>1. /\ Types /\ RequestOK(req[q]) /\ Held(req[q], a) /\ HostsOK /\ req[q].pc = "crPut"
      /\ UNCHANGED <<objs, dep, addr, store, names, history>>
      /\ \/ cr[a].rv = saw.rv /\ cr' = [cr EXCEPT ![a] = new] /\ Keep(q, "mirror", new)
         \/ Fail(q) /\ UNCHANGED cr
  BY Zenon DEF UpdateCR, At, AppsInv, Types
<1>2. /\ req[q].op \in {"scale", "image"} /\ a \in Apps /\ row[a] # "absent"
      /\ saw \in Versioned(CRFields) /\ cr[a] # None /\ req[q].arg \in Vals
  BY <1>1, Zenon DEF RequestOK, ControlOK, App, Held, HeldBy, Listed, Resting
<1>3. AppOK(a) /\ spec[a] # None  BY <1>2, Zenon DEF AppsInv, AppOK
<1>4. CASE Fail(q) /\ UNCHANGED cr  BY <1>1, <1>4, EndKeeps, Zenon DEF cluster, history, Types
<1>5. CASE cr[a].rv = saw.rv /\ cr' = [cr EXCEPT ![a] = new] /\ Keep(q, "mirror", new)
  <2>1. Onward(q, "mirror")  BY <1>1, <1>5, KeepMoves, Zenon
  <2>2. RequestOK(req'[q])
    BY <1>1, <1>2, <2>1, Zenon DEF RequestOK, ControlOK, Onward, Places, Building, Deleting, Resting, App
  <2>3. FieldOf[req[q].op] \in CRFields  BY <1>2 DEF FieldOf, CRFields
  <2>4. new \in Versioned(CRFields) /\ new.rv > saw.rv
    BY <1>2, <2>3 DEF Versioned
  <2>. HIDE DEF new
  <2>5. /\ cr' \in [Apps -> Versioned(CRFields) \cup {None}] /\ cr'[a] = new
        /\ \A b \in Apps \ {a} : cr'[b] = cr[b]
    BY <1>1, <1>2, <1>5, <2>4 DEF Types
  <2>6. Types'  BY <1>1, <1>5, <2>1, <2>2, <2>5 DEF Types, Onward, Rest, store, names, history
  <2>7. HostsOK'  BY <1>1, Zenon DEF HostsOK, names
  <2>8. AppOK(a)'  BY <1>1, <1>2, <1>3, Zenon DEF AppOK, store, names, history
  <2>9. Held(req[q], App(q))'
    BY <1>1, <1>2, <1>5, <2>1, Zenon
    DEF Held, HeldBy, Listed, App, Onward, BeforeRow, Building, Deleting, Resting, store, history
  <2>10. ASSUME NEW r \in Procs \ {q}, ~Idle(r), App(r) = a
         PROVE  HeldBy(req[r], a, spec[a], row'[a], objs'[a], dep'[a], cr'[a], blurred)
    <3>1. HeldBy(req[r], a, spec[a], row[a], objs[a], dep[a], cr[a], blurred)
      BY <2>10, Zenon DEF AppsInv, Held
    <3>2. req[r].pc \in {"release", "crApply"} => req[r].op # "deploy"
      BY <1>2, <3>1, Zenon DEF HeldBy, Resting
    <3>3. cr'[a] # None  BY <2>4, <2>5, AppsAssumption, Zenon
    <3>4. req[r].pc = "crPut" => req[r].saw \in Versioned(CRFields) /\ Older(req[r].saw, cr'[a])
      <4>. SUFFICES ASSUME req[r].pc = "crPut"
                    PROVE  req[r].saw \in Versioned(CRFields) /\ Older(req[r].saw, cr'[a])
        BY Zenon
      <4>1. req[r].saw \in Versioned(CRFields) /\ Older(req[r].saw, cr[a])
        BY <3>1, Zenon DEF HeldBy
      <4>2. cr[a] \in Versioned(CRFields)  BY <1>1, <1>2, <1>5, Zenon DEF Types
      <4>3. cr'[a] \in Versioned(CRFields) /\ cr'[a].rv > cr[a].rv  BY <1>5, <2>4, <2>5, Zenon
      <4>. QED  BY <4>1, <4>2, <4>3, OlderStep, Zenon
    <3>5. row' = row /\ objs' = objs /\ dep' = dep  BY <1>1, Zenon DEF store
    <3>. QED  BY <3>1, <3>2, <3>3, <3>4, <3>5, HeldNewCR, Zenon
  <2>. QED
    BY <1>1, <1>2, <2>1, <2>5, <2>6, <2>7, <2>8, <2>9, <2>10, OneAppKeeps, Zenon
    DEF Onward, store, names, history, IsDeploy, App, Resting
<1>. QED  BY <1>1, <1>4, <1>5, Zenon

\* So is the Deployment.
LEMMA UpdateDeploymentKeeps ==
    ASSUME AppsInv, NEW q \in Procs, updateAppDeployment(q), UNCHANGED spec
    PROVE  AppsInv'
<1>. PICK a : a = App(q)  OBVIOUS
<1>. DEFINE saw == req[q].saw
            new == [rv |-> saw.rv + 1,
                    f |-> [saw.f EXCEPT ![FieldOf[req[q].op]] = req[q].arg]]
<1>1. /\ Types /\ RequestOK(req[q]) /\ Held(req[q], a) /\ HostsOK /\ req[q].pc = "depPut"
      /\ UNCHANGED <<objs, cr, addr, store, names, history>>
      /\ \/ /\ saw # None /\ dep[a] # None /\ dep[a].rv = saw.rv
            /\ dep' = [dep EXCEPT ![a] = new] /\ Go(q, "event")
         \/ Fail(q) /\ UNCHANGED dep
  BY Zenon DEF updateAppDeployment, At, AppsInv, Types
<1>2. /\ req[q].op \in UpdateOps /\ req[q].op # "deploy" /\ a \in Apps /\ row[a] # "absent"
      /\ saw # None => saw \in Versioned(Fields)
      /\ req[q].arg \in Vals
  BY <1>1, Zenon DEF RequestOK, ControlOK, App, Held, HeldBy, Listed, Resting, UpdateOps, FieldOf
<1>3. AppOK(a) /\ spec[a] # None  BY <1>2, Zenon DEF AppsInv, AppOK
<1>4. CASE Fail(q) /\ UNCHANGED dep  BY <1>1, <1>4, EndKeeps, Zenon DEF cluster, history, Types
<1>5. CASE /\ saw # None /\ dep[a] # None /\ dep[a].rv = saw.rv
           /\ dep' = [dep EXCEPT ![a] = new] /\ Go(q, "event")
  <2>1. Onward(q, "event")  BY <1>1, <1>5, GoMoves, Zenon
  <2>2. RequestOK(req'[q])
    BY <1>1, <1>2, <2>1, Zenon DEF RequestOK, ControlOK, Onward, Places, Building, Deleting, Resting, App
  <2>3. FieldOf[req[q].op] \in Fields  BY <1>2, SMTT(40) DEF FieldOf, Fields, UpdateOps
  <2>4. new \in Versioned(Fields) /\ new.rv > saw.rv
    BY <1>2, <1>5, <2>3, SMTT(40) DEF Versioned
  <2>. HIDE DEF new
  <2>5. /\ dep' \in [Apps -> Versioned(Fields) \cup {None}] /\ dep'[a] = new
        /\ \A b \in Apps \ {a} : dep'[b] = dep[b]
    BY <1>1, <1>2, <1>5, <2>4, Zenon DEF Types
  <2>6. Types'  BY <1>1, <1>5, <2>1, <2>2, <2>5 DEF Types, Onward, Rest, store, names, history
  <2>7. HostsOK'  BY <1>1, Zenon DEF HostsOK, names
  <2>8. AppOK(a)'  BY <1>1, <1>2, <1>3, <1>5, Zenon DEF AppOK, store, names, history
  <2>9. Held(req[q], App(q))'
    BY <1>1, <1>2, <1>5, <2>1, ZenonT(60)
    DEF Held, HeldBy, Listed, App, Onward, BeforeRow, Building, Deleting, Resting, store, history
  <2>10. ASSUME NEW r \in Procs \ {q}, ~Idle(r), App(r) = a
         PROVE  HeldBy(req[r], a, spec[a], row'[a], objs'[a], dep'[a], cr'[a], blurred)
    <3>1. HeldBy(req[r], a, spec[a], row[a], objs[a], dep[a], cr[a], blurred)
      BY <2>10, Zenon DEF AppsInv, Held
    <3>2. req[r].pc \in {"gate", "plan", "workload"} => req[r].op # "deploy"
      BY <1>2, <3>1, Zenon DEF HeldBy, BeforeRow, Building, Resting
    <3>3. dep'[a] # None  BY <2>4, <2>5, AppsAssumption, Zenon
    <3>4. req[r].pc = "depPut" /\ req[r].saw # None =>
             req[r].saw \in Versioned(Fields) /\ Older(req[r].saw, dep'[a])
      <4>. SUFFICES ASSUME req[r].pc = "depPut", req[r].saw # None
                    PROVE  req[r].saw \in Versioned(Fields) /\ Older(req[r].saw, dep'[a])
        BY Zenon
      <4>1. req[r].saw \in Versioned(Fields) /\ Older(req[r].saw, dep[a])
        BY <1>5, <3>1, Zenon DEF HeldBy
      <4>2. dep[a] \in Versioned(Fields)  BY <1>1, <1>2, <1>5, Zenon DEF Types
      <4>3. dep'[a] \in Versioned(Fields) /\ dep'[a].rv > dep[a].rv  BY <1>5, <2>4, <2>5, Zenon
      <4>. QED  BY <4>1, <4>2, <4>3, OlderStep, Zenon
    <3>5. row' = row /\ objs' = objs /\ cr' = cr  BY <1>1, Zenon DEF store
    <3>. QED  BY <3>1, <3>2, <3>3, <3>4, <3>5, HeldNewDeployment, Zenon
  <2>. QED
    BY <1>1, <1>2, <2>1, <2>5, <2>6, <2>7, <2>8, <2>9, <2>10, OneAppKeeps, Zenon
    DEF Onward, store, names, history, IsDeploy, App, Resting
<1>. QED  BY <1>1, <1>4, <1>5, Zenon

\* What a delete takes away.
LEMMA ShrinkKeeps ==
    ASSUME AppsInv, NEW q \in Procs, req[q].op = "delete", ~Idle(q),
           Rest(q), RequestOK(req'[q]), req'[q].op = "delete", req'[q].app = req[q].app,
           UNCHANGED <<spec, cr, store, names, blurred>>,
           objs' \in [Apps -> SUBSET Kinds], objs'[App(q)] \subseteq objs[App(q)],
           dep' \in [Apps -> Versioned(Fields) \cup {None}], addr' \subseteq addr,
           dep'[App(q)] = dep[App(q)] \/ dep'[App(q)] = None,
           \A b \in Apps \ {App(q)} : objs'[b] = objs[b] /\ dep'[b] = dep[b],
           dep'[App(q)] # None => "workload" \in objs'[App(q)],
           Held(req[q], App(q))'
    PROVE  AppsInv'
<1>. PICK a : a = App(q)  BY Zenon
<1>1. Types /\ RequestOK(req[q]) /\ Held(req[q], a) /\ HostsOK  BY Zenon DEF AppsInv, Types
<1>2. a \in Apps /\ row[a] # "absent"  BY <1>1, Zenon DEF RequestOK, App, Held, HeldBy, Listed, Idle
<1>3. AppOK(a) /\ spec[a] # None  BY <1>2, Zenon DEF AppsInv, AppOK
<1>4. Types'  BY <1>1, Zenon DEF Types, Rest, store, names
<1>5. AppOK(a)'  BY <1>2, <1>3, Zenon DEF AppOK, store, names
<1>6. HostsOK'  BY <1>1, Zenon DEF HostsOK, names
<1>7. ASSUME NEW r \in Procs \ {q}, ~Idle(r), App(r) = a
      PROVE  HeldBy(req[r], a, spec[a], row'[a], objs'[a], dep'[a], cr'[a], blurred)
  <2>1. HeldBy(req[r], a, spec[a], row[a], objs[a], dep[a], cr[a], blurred) /\ RequestOK(req[r])
    BY <1>1, <1>7, Zenon DEF AppsInv, Held, Types
  <2>2. req[r].pc \in Building => req[r].op # "deploy"
    BY <1>2, <1>7, <2>1, Zenon DEF HeldBy, BeforeRow, Idle
  <2>3. req[r].pc \notin Building  BY <2>1, <2>2, Zenon DEF RequestOK, ControlOK
  <2>4. row' = row /\ cr' = cr  BY Zenon DEF store
  <2>5. objs'[a] \subseteq objs[a] /\ (dep'[a] = dep[a] \/ dep'[a] = None)  BY Zenon
  <2>. QED  BY <2>1, <2>3, <2>4, <2>5, HeldFewer, ZenonT(60)
<1>. QED
  BY <1>2, <1>4, <1>5, <1>6, <1>7, OneAppKeeps, Zenon DEF store, names, IsDeploy

\* DeleteApp removes the objects kind by kind.
LEMMA DeleteObjectsKeeps ==
    ASSUME AppsInv, NEW q \in Procs, DeleteObjects(q), UNCHANGED spec
    PROVE  AppsInv'
<1>. PICK a : a = App(q)  OBVIOUS
<1>1. /\ Types /\ RequestOK(req[q]) /\ Held(req[q], a)
      /\ req[q].pc \in {"dObjects", "dService", "dIngress", "dCert"}
  BY Zenon DEF DeleteObjects, At, AppsInv, Types
<1>2. req[q].op = "delete" /\ a \in Apps /\ row[a] # "absent" /\ ~Idle(q)
  BY <1>1, Zenon DEF RequestOK, ControlOK, Deleting, App, Held, HeldBy, Listed, Resting, Idle
<1>3. AppOK(a) /\ spec[a] # None  BY <1>2, Zenon DEF AppsInv, AppOK
<1>4. CASE /\ At(q, "dObjects")
           /\ objs' = [objs EXCEPT ![a] = @ \ {"workload"}]
           /\ dep' = IF "workload" \in objs[a] THEN [dep EXCEPT ![a] = None] ELSE dep
           /\ Go(q, "dService")
           /\ UNCHANGED <<cr, addr, store, names, history>>
  <2>1. Onward(q, "dService")  BY <1>1, <1>4, GoMoves, Zenon
  <2>2. RequestOK(req'[q])
    BY <1>1, <1>2, <2>1, Zenon DEF RequestOK, ControlOK, Onward, Places, Building, Deleting, Resting, App
  <2>3. /\ objs' \in [Apps -> SUBSET Kinds] /\ objs'[a] = objs[a] \ {"workload"}
        /\ \A b \in Apps \ {a} : objs'[b] = objs[b]
    BY <1>1, <1>2, <1>4 DEF Types
  <2>4. /\ dep' \in [Apps -> Versioned(Fields) \cup {None}] /\ dep'[a] = None
        /\ \A b \in Apps \ {a} : dep'[b] = dep[b]
    BY <1>1, <1>2, <1>3, <1>4 DEF Types, AppOK
  <2>5. Held(req[q], App(q))'
    BY <1>1, <1>2, <1>4, <2>1, <2>3, Zenon
    DEF Held, HeldBy, Listed, App, Onward, BeforeRow, Building, Deleting, Resting, store, history
  <2>. QED
    BY <1>2, <1>4, <2>1, <2>2, <2>3, <2>4, <2>5, ShrinkKeeps, Zenon DEF Onward, history
<1>5. CASE /\ At(q, "dService")
           /\ objs' = [objs EXCEPT ![a] = @ \ {"service"}]
           /\ addr' = addr \ {a}
           /\ Go(q, "dIngress")
           /\ UNCHANGED <<dep, cr, store, names, history>>
  <2>1. Onward(q, "dIngress") /\ req[q].pc = "dService"  BY <1>1, <1>5, GoMoves, Zenon DEF At
  <2>2. RequestOK(req'[q])
    BY <1>1, <1>2, <2>1, Zenon DEF RequestOK, ControlOK, Onward, Places, Building, Deleting, Resting, App
  <2>3. /\ objs' \in [Apps -> SUBSET Kinds] /\ objs'[a] = objs[a] \ {"service"}
        /\ \A b \in Apps \ {a} : objs'[b] = objs[b]
    BY <1>1, <1>2, <1>5 DEF Types
  <2>4. Held(req[q], App(q))'
    BY <1>1, <1>2, <1>5, <2>1, <2>3, Zenon
    DEF Held, HeldBy, Listed, App, Onward, BeforeRow, Building, Deleting, Resting, store, history
  <2>. QED
    BY <1>1, <1>2, <1>3, <1>5, <2>1, <2>2, <2>3, <2>4, ShrinkKeeps
    DEF Onward, history, AppOK, Types
<1>6. CASE /\ At(q, "dIngress")
           /\ objs' = [objs EXCEPT ![a] = @ \ {"ingress"}]
           /\ req' = [req EXCEPT ![q].pc = "dCert",
                                 ![q].host = IF "ingress" \in objs[a] THEN spec[a].host
                                             ELSE None]
           /\ UNCHANGED <<dep, cr, addr, store, names, history>>
  <2>. DEFINE host == IF "ingress" \in objs[a] THEN spec[a].host ELSE None
              new == [req[q] EXCEPT !.pc = "dCert", !.host = host]
  <2>1. DOMAIN req = Procs /\ DOMAIN req[q] = RequestFields /\ req[q].pc = "dIngress"
    BY <1>1, <1>6 DEF Types, RequestOK, At
  <2>2. req'[q] = new /\ Rest(q)  BY <1>6, <2>1 DEF Rest
  <2>3. /\ DOMAIN new = RequestFields /\ new.pc = "dCert" /\ new.host = host
        /\ new.op = req[q].op /\ new.app = req[q].app /\ new.arg = req[q].arg
        /\ new.todo = req[q].todo /\ new.doc = req[q].doc
        /\ new.solo = req[q].solo /\ new.lost = req[q].lost
    BY <2>1 DEF RequestFields
  <2>4. host # None => host = spec[a].host  BY Zenon
  <2>. HIDE DEF new, host
  <2>5. RequestOK(req'[q])
    BY <1>1, <1>2, <2>2, <2>3, Zenon DEF RequestOK, ControlOK, Places, Building, Deleting, Resting, App
  <2>6. /\ objs' \in [Apps -> SUBSET Kinds] /\ objs'[a] = objs[a] \ {"ingress"}
        /\ \A b \in Apps \ {a} : objs'[b] = objs[b]
    BY <1>1, <1>2, <1>6 DEF Types
  <2>7. Held(req[q], App(q))'
    BY <1>1, <1>2, <1>6, <2>1, <2>2, <2>3, <2>4, <2>6, SMTT(40)
    DEF Held, HeldBy, Listed, App, BeforeRow, Building, Deleting, Resting, store, history
  <2>. QED
    BY <1>1, <1>2, <1>3, <1>6, <2>2, <2>3, <2>5, <2>6, <2>7, ShrinkKeeps
    DEF history, AppOK, Types
<1>7. CASE /\ At(q, "dCert")
           /\ objs' = [objs EXCEPT ![a] = IF CertManager THEN @ \ {"cert"} ELSE @]
           /\ Go(q, "dDns")
           /\ UNCHANGED <<dep, cr, addr, store, names, history>>
  <2>1. Onward(q, "dDns") /\ req[q].pc = "dCert"  BY <1>1, <1>7, GoMoves, Zenon DEF At
  <2>2. RequestOK(req'[q])
    BY <1>1, <1>2, <2>1, Zenon DEF RequestOK, ControlOK, Onward, Places, Building, Deleting, Resting, App
  <2>3. /\ objs' \in [Apps -> SUBSET Kinds] /\ objs'[a] = objs[a] \ {"cert"}
        /\ \A b \in Apps \ {a} : objs'[b] = objs[b]
    BY <1>1, <1>2, <1>3, <1>7 DEF Types, AppOK
  <2>4. Held(req[q], App(q))'
    BY <1>1, <1>2, <1>7, <2>1, <2>3, ZenonT(60)
    DEF Held, HeldBy, Listed, App, Onward, BeforeRow, Building, Deleting, Resting, store, history
  <2>. QED
    BY <1>1, <1>2, <1>3, <1>7, <2>1, <2>2, <2>3, <2>4, ShrinkKeeps, Zenon
    DEF Onward, history, AppOK, Types
<1>8. ASSUME NEW pc \in {"dService", "dIngress", "dCert", "dDns"}, GoDespiteError(q, pc)
      PROVE  AppsInv'
  <2>1. /\ req'[q].pc = pc /\ req'[q].op = req[q].op /\ req'[q].app = req[q].app
        /\ req'[q].host = req[q].host /\ req'[q].todo = req[q].todo
        /\ blurred' = blurred \cup ({App(q)} \cap Apps)
        /\ UNCHANGED <<store, cluster, names, crowd, blind>>
    BY <1>1, <1>8, DespiteMoves, Zenon
  <2>2. pc \in Places \ Resting /\ ControlOK(req'[q])
    BY <1>2, <2>1, Zenon DEF ControlOK, Building, Deleting, Places, Resting
  <2>3. Held(req[q], App(q))'
    BY <1>1, <1>2, <2>1, Zenon
    DEF Held, HeldBy, Listed, App, BeforeRow, Building, Deleting, Resting, store, cluster
  <2>. QED  BY <1>2, <1>8, <2>2, <2>3, DespiteKeeps, Zenon
<1>. QED  BY <1>4, <1>5, <1>6, <1>7, <1>8, Zenon DEF DeleteObjects

\* DeleteRecords removes a DNS record.
LEMMA DeleteRecordsKeeps ==
    ASSUME AppsInv, NEW q \in Procs, DeleteRecords(q), UNCHANGED spec
    PROVE  AppsInv'
<1>. PICK a : a = App(q)  OBVIOUS
<1>1. /\ Types /\ RequestOK(req[q]) /\ Held(req[q], a) /\ HostsOK /\ req[q].pc = "dDns"
      /\ \/ /\ dns' = IF req[q].host = None THEN dns ELSE [dns EXCEPT ![req[q].host] = None]
            /\ Go(q, "dDomains")
            /\ UNCHANGED <<waiter, store, cluster, history>>
         \/ GoDespiteError(q, "dDomains")
  BY Zenon DEF DeleteRecords, At, AppsInv, Types
<1>2. req[q].op = "delete" /\ a \in Apps /\ row[a] # "absent" /\ ~Idle(q)
  BY <1>1, Zenon DEF RequestOK, ControlOK, Deleting, App, Held, HeldBy, Listed, Resting, Idle
<1>3. CASE /\ dns' = IF req[q].host = None THEN dns ELSE [dns EXCEPT ![req[q].host] = None]
           /\ Go(q, "dDomains")
           /\ UNCHANGED <<waiter, store, cluster, history>>
  <2>1. Onward(q, "dDomains")  BY <1>1, <1>3, GoMoves, Zenon
  <2>2. RequestOK(req'[q])
    BY <1>1, <1>2, <2>1, Zenon DEF RequestOK, ControlOK, Onward, Places, Building, Deleting, Resting, App
  <2>3. /\ dns' \in [Hosts -> Apps \cup {None}]
        /\ \A h \in Hosts : dns'[h] = dns[h] \/ dns'[h] = None
    BY <1>1, <1>3, Zenon DEF Types
  <2>4. Types'  BY <1>1, <1>3, <2>1, <2>2, <2>3, Zenon DEF Types, Onward, Rest, store, cluster, history
  <2>5. HostsOK'  BY <1>1, <2>3, Zenon DEF HostsOK
  <2>6. AppOK(a)'  BY <1>2, <1>3, Zenon DEF AppsInv, AppOK, store, cluster, history
  <2>7. Held(req[q], App(q))'
    BY <1>1, <1>2, <1>3, <2>1, Zenon
    DEF Held, HeldBy, Listed, App, Onward, BeforeRow, Building, Deleting, Resting, store, cluster, history
  <2>8. ASSUME NEW r \in Procs \ {q}, ~Idle(r), App(r) = a
        PROVE  HeldBy(req[r], a, spec[a], row'[a], objs'[a], dep'[a], cr'[a], blurred)
    <3>1. HeldBy(req[r], a, spec[a], row[a], objs[a], dep[a], cr[a], blurred)
      BY <2>8, Zenon DEF AppsInv, Held
    <3>. QED  BY <1>3, <3>1, Zenon DEF store, cluster
  <2>. QED
    BY <1>2, <1>3, <2>1, <2>4, <2>5, <2>6, <2>7, <2>8, OneAppKeeps, Zenon
    DEF Onward, store, cluster, history, IsDeploy, App
<1>4. CASE GoDespiteError(q, "dDomains")
  <2>1. /\ req'[q].pc = "dDomains" /\ req'[q].op = req[q].op /\ req'[q].app = req[q].app
        /\ req'[q].host = req[q].host /\ req'[q].todo = req[q].todo
        /\ blurred' = blurred \cup ({App(q)} \cap Apps)
        /\ UNCHANGED <<store, cluster, names, crowd, blind>>
    BY <1>1, <1>4, DespiteMoves, Zenon
  <2>2. "dDomains" \in Places \ Resting /\ ControlOK(req'[q])
    BY <1>2, <2>1, Zenon DEF ControlOK, Building, Deleting, Places, Resting
  <2>3. Held(req[q], App(q))'
    BY <1>1, <1>2, <2>1, Zenon
    DEF Held, HeldBy, Listed, App, BeforeRow, Building, Deleting, Resting, store, cluster
  <2>. QED  BY <1>2, <1>4, <2>2, <2>3, DespiteKeeps, Zenon
<1>. QED  BY <1>1, <1>3, <1>4, Zenon

\* The rows that DeleteApp removes or marks, the app's own last.
LEMMA DeleteRowsKeeps ==
    ASSUME AppsInv, NEW q \in Procs, DeleteRows(q), UNCHANGED spec
    PROVE  AppsInv'
<1>. PICK a : a = App(q)  OBVIOUS
<1>1. /\ Types /\ RequestOK(req[q]) /\ Held(req[q], a) /\ HostsOK
      /\ req[q].pc \in {"dDomains", "dMirror", "dRow"}
  BY DEF DeleteRows, At, AppsInv, Types
<1>2. req[q].op = "delete" /\ a \in Apps /\ row[a] # "absent" /\ ~Idle(q)
  BY <1>1, Zenon DEF RequestOK, ControlOK, Deleting, App, Held, HeldBy, Listed, Resting, Idle
<1>3. AppOK(a) /\ spec[a] # None  BY <1>2, Zenon DEF AppsInv, AppOK
<1>4. ASSUME NEW pc \in {"dMirror", "dRow"}, Go(q, pc), req[q].pc # "dRow",
             domains' \subseteq domains, mirror' = [b \in Apps |-> mirror'[b]],
             UNCHANGED <<row, released, cluster, names, history>>
      PROVE  AppsInv'
  <2>1. Onward(q, pc)  BY <1>1, <1>4, GoMoves
  <2>2. pc \in Places \ Resting /\ ControlOK(req'[q])
    BY <1>2, <2>1, Zenon DEF ControlOK, Building, Deleting, Places, Resting, Onward
  <2>3. Held(req[q], App(q))'
    BY <1>1, <1>2, <1>4, <2>1, Zenon
    DEF Held, HeldBy, Listed, App, Onward, BeforeRow, Building, Deleting, Resting, cluster, history
  <2>. QED
    BY <1>1, <1>2, <1>4, <2>1, <2>2, <2>3, GoKeeps, Zenon DEF names, history, Types
<1>5. CASE /\ At(q, "dDomains")
           /\ domains' = domains \ {a}
           /\ Go(q, "dMirror")
           /\ UNCHANGED <<row, released, mirror, cluster, names, history>>
  BY <1>1, <1>4, <1>5, Zenon DEF At, Types
<1>6. CASE /\ At(q, "dMirror")
           /\ mirror' = IF mirror[a] = None THEN mirror
                        ELSE [mirror EXCEPT ![a].deleted = TRUE]
           /\ Go(q, "dRow")
           /\ UNCHANGED <<row, domains, released, cluster, names, history>>
  <2>1. mirror' = [b \in Apps |-> mirror'[b]]  BY <1>1, <1>6, Zenon DEF Types
  <2>. QED  BY <1>4, <1>6, <2>1 DEF At
<1>7. CASE /\ At(q, "dRow")
           /\ row' = [row EXCEPT ![a] = IF @ = "live" THEN "deleted" ELSE @]
           /\ Go(q, "event")
           /\ UNCHANGED <<domains, released, mirror, cluster, names, history>>
  <2>1. Onward(q, "event") /\ req[q].pc = "dRow"  BY <1>1, <1>7, GoMoves, Zenon DEF At
  <2>2. RequestOK(req'[q])
    BY <1>1, <1>2, <2>1, Zenon DEF RequestOK, ControlOK, Onward, Places, Building, Deleting, Resting, App
  <2>3. /\ row' \in [Apps -> {"absent", "live", "deleted"}] /\ row'[a] = "deleted"
        /\ \A b \in Apps \ {a} : row'[b] = row[b]
    BY <1>1, <1>2, <1>7 DEF Types
  <2>4. Types'
    BY <1>1, <1>7, <2>1, <2>2, <2>3 DEF Types, Onward, Rest, cluster, names, history
  <2>5. HostsOK'  BY <1>1, <1>7, Zenon DEF HostsOK, names
  <2>6. a \notin blurred => objs[a] \subseteq {"other"}
    BY <1>1, <1>2, <2>1 DEF Held, HeldBy, Listed, Deleting, Types, Kinds, Docs
  <2>7. AppOK(a)'  BY <1>2, <1>3, <1>7, <2>3, <2>6, Zenon DEF AppOK, cluster, names, history
  <2>8. Held(req[q], App(q))'
    BY <1>1, <1>2, <1>7, <2>1, <2>3, ZenonT(60)
    DEF Held, HeldBy, Listed, App, Onward, BeforeRow, Building, Deleting, Resting, cluster, history, RequestOK
  <2>9. ASSUME NEW r \in Procs \ {q}, ~Idle(r), App(r) = a
        PROVE  HeldBy(req[r], a, spec[a], row'[a], objs'[a], dep'[a], cr'[a], blurred)
    <3>1. HeldBy(req[r], a, spec[a], row[a], objs[a], dep[a], cr[a], blurred)
      BY <2>9, Zenon DEF AppsInv, Held
    <3>2. HeldBy(req[r], a, spec[a], row'[a], objs[a], dep[a], cr[a], blurred)
      BY <1>2, <2>3, <3>1, HeldMarked, Zenon
    <3>. QED  BY <1>7, <3>2, Zenon DEF cluster
  <2>. QED
    BY <1>2, <1>7, <2>1, <2>3, <2>4, <2>5, <2>7, <2>8, <2>9, OneAppKeeps, Zenon
    DEF Onward, cluster, names, history, IsDeploy, App
<1>8. ASSUME NEW pc \in {"dMirror", "dRow", "event"}, GoDespiteError(q, pc)
      PROVE  AppsInv'
  <2>1. /\ req'[q].pc = pc /\ req'[q].op = req[q].op /\ req'[q].app = req[q].app
        /\ req'[q].host = req[q].host /\ req'[q].todo = req[q].todo
        /\ blurred' = blurred \cup ({App(q)} \cap Apps)
        /\ UNCHANGED <<store, cluster, names, crowd, blind>>
    BY <1>1, <1>8, DespiteMoves, Zenon
  <2>2. pc \in Places \ Resting /\ ControlOK(req'[q])
    BY <1>2, <2>1, Zenon DEF ControlOK, Building, Deleting, Places, Resting
  <2>3. Held(req[q], App(q))'
    BY <1>1, <1>2, <2>1, Zenon
    DEF Held, HeldBy, Listed, App, BeforeRow, Building, Deleting, Resting, store, cluster
  <2>. QED  BY <1>2, <1>8, <2>2, <2>3, DespiteKeeps, Zenon
<1>. QED  BY <1>5, <1>6, <1>7, <1>8 DEF DeleteRows

-----------------------------------------------------------------------------
(* New requests, and what runs without one.                                *)

\* What a new request makes of the requests: it takes its slot, the slots of
\* finished requests are freed, and those in flight are no longer alone.
Begun(q, op, pc, a, v) ==
    /\ DOMAIN req' = Procs
    /\ DOMAIN req'[q] = RequestFields
    /\ req'[q].op = op /\ req'[q].pc = pc /\ req'[q].app = a /\ req'[q].arg = v
    /\ req'[q].host = None /\ req'[q].todo = {} /\ req'[q].doc = 0 /\ req'[q].saw = None
    /\ req'[q].solo = (\A x \in Procs \ {q} : Idle(x))
    /\ req'[q].lost = FALSE
    /\ \A r \in Procs \ {q} :
          /\ Idle(r) => req'[r] = NoRequest
          /\ ~Idle(r) =>
               /\ DOMAIN req'[r] = RequestFields
               /\ req'[r].op = req[r].op /\ req'[r].pc = req[r].pc /\ req'[r].app = req[r].app
               /\ req'[r].arg = req[r].arg /\ req'[r].host = req[r].host
               /\ req'[r].todo = req[r].todo /\ req'[r].doc = req[r].doc
               /\ req'[r].saw = req[r].saw
               /\ req'[r].solo = FALSE
               /\ req'[r].lost = req[r].lost

\* That is what Begin does.
LEMMA BeginMoves ==
    ASSUME Types, NEW q \in Procs, NEW op, NEW pc, NEW a, NEW v, NEW rv,
           Begin(q, op, pc, a, v, rv)
    PROVE  Begun(q, op, pc, a, v)
<1>. DEFINE alone == \A x \in Procs \ {q} : Idle(x)
            mine == [NoRequest EXCEPT !.op = op, !.pc = pc, !.app = a, !.arg = v,
                                      !.rv = rv, !.solo = alone]
            its(r) == [req[r] EXCEPT !.solo = FALSE]
<1>1. req' = [r \in Procs |-> IF r = q THEN mine
                              ELSE IF Idle(r) THEN NoRequest ELSE its(r)]
  BY Zenon DEF Begin
<1>2. /\ DOMAIN mine = RequestFields /\ mine.op = op /\ mine.pc = pc /\ mine.app = a
      /\ mine.arg = v /\ mine.host = None /\ mine.todo = {} /\ mine.doc = 0 /\ mine.saw = None
  BY DEF NoRequest, RequestFields
<1>3. mine.solo = alone  BY Zenon DEF NoRequest
<1>4. mine.lost = FALSE  BY Zenon DEF NoRequest
<1>5. ASSUME NEW r \in Procs
      PROVE  /\ DOMAIN its(r) = RequestFields
             /\ its(r).op = req[r].op /\ its(r).pc = req[r].pc /\ its(r).app = req[r].app
             /\ its(r).arg = req[r].arg /\ its(r).host = req[r].host
             /\ its(r).todo = req[r].todo /\ its(r).doc = req[r].doc
             /\ its(r).saw = req[r].saw /\ its(r).lost = req[r].lost
  <2>1. DOMAIN req[r] = RequestFields  BY Zenon DEF Types, RequestOK
  <2>. QED  BY <2>1 DEF RequestFields
<1>6. ASSUME NEW r \in Procs PROVE its(r).solo = FALSE
  <2>1. DOMAIN req[r] = RequestFields  BY DEF Types, RequestOK
  <2>. QED  BY <2>1, Zenon DEF RequestFields
<1>. HIDE DEF mine, its, alone
<1>7. DOMAIN req' = Procs /\ req'[q] = mine  BY <1>1, Zenon
<1>8. \A r \in Procs \ {q} : (Idle(r) => req'[r] = NoRequest) /\ (~Idle(r) => req'[r] = its(r))
  BY <1>1
<1>9. req'[q].solo = alone /\ req'[q].lost = FALSE  BY <1>3, <1>4, <1>7
<1>10. ASSUME NEW r \in Procs \ {q}, ~Idle(r)
       PROVE   /\ DOMAIN req'[r] = RequestFields
               /\ req'[r].op = req[r].op /\ req'[r].pc = req[r].pc /\ req'[r].app = req[r].app
               /\ req'[r].arg = req[r].arg /\ req'[r].host = req[r].host
               /\ req'[r].todo = req[r].todo /\ req'[r].doc = req[r].doc
               /\ req'[r].saw = req[r].saw
               /\ req'[r].solo = FALSE
               /\ req'[r].lost = req[r].lost
  <2>1. req'[r] = its(r)  BY <1>8, <1>10, Zenon
  <2>2. its(r).solo = FALSE  BY <1>6, Zenon
  <2>3. /\ DOMAIN its(r) = RequestFields
        /\ its(r).op = req[r].op /\ its(r).pc = req[r].pc /\ its(r).app = req[r].app
        /\ its(r).arg = req[r].arg /\ its(r).host = req[r].host
        /\ its(r).todo = req[r].todo /\ its(r).doc = req[r].doc
        /\ its(r).saw = req[r].saw /\ its(r).lost = req[r].lost
    BY <1>5, Zenon
  <2>. QED  BY <2>1, <2>2, <2>3, Zenon
<1>. USE DEF alone
<1>. QED  BY <1>2, <1>7, <1>8, <1>9, <1>10, Zenon DEF Begun

\* The request that a Begin starts, and those it finds, are well formed.
LEMMA BegunTypes ==
    ASSUME Types, NEW q \in Procs, NEW op, NEW pc \in Places \ Resting, NEW a, NEW v \in Vals,
           Begun(q, op, pc, a, v), ControlOK(req'[q]), a \in Apps \/ (a = None /\ op = "list"),
           pc \notin {"sCollect", "sLoad", "mirror"}
    PROVE  \A r \in Procs : RequestOK(req'[r])
<1>1. (\A x \in Procs \ {q} : Idle(x)) \in BOOLEAN  BY Zenon
<1>2. req'[q].solo \in BOOLEAN /\ req'[q].lost \in BOOLEAN  BY <1>1, Zenon DEF Begun
<1>3. RequestOK(req'[q])  BY <1>2 DEF Begun, RequestOK
<1>4. ASSUME NEW r \in Procs \ {q}, Idle(r) PROVE RequestOK(req'[r])
  BY <1>4, FreeSlot, Zenon DEF Begun
<1>5. ASSUME NEW r \in Procs \ {q}, ~Idle(r) PROVE RequestOK(req'[r])
  <2>1. RequestOK(req[r])  BY DEF Types
  <2>2. req'[r].solo = FALSE /\ req'[r].lost = req[r].lost  BY <1>5, Zenon DEF Begun
  <2>3. req'[r].solo \in BOOLEAN /\ req'[r].lost \in BOOLEAN  BY <2>1, <2>2, Zenon DEF RequestOK
  <2>4. ControlOK(req'[r])  BY <1>5, <2>1, Zenon DEF Begun, RequestOK, ControlOK
  <2>. QED  BY <1>5, <2>1, <2>3, <2>4, Zenon DEF Begun, RequestOK
<1>. QED  BY <1>3, <1>4, <1>5

\* Starting a request on a deployed app, or a list of all apps.
LEMMA AskKeeps ==
    ASSUME AppsInv, NEW q \in Procs, NEW op \in AllOps \ {"deploy"}, NEW pc \in Places \ Resting,
           NEW a, NEW v \in Vals, NEW rv, Begin(q, op, pc, a, v, rv), UNCHANGED spec,
           (a \in Apps /\ row[a] # "absent") \/ (a = None /\ op = "list"),
           ControlOK([op |-> op, pc |-> pc]), pc \in {"gate", "depGet", "wRead", "sRead"}
    PROVE  AppsInv'
<1>1. Types /\ HostsOK /\ OneBuilder  BY Zenon DEF AppsInv
<1>2. Begun(q, op, pc, a, v)  BY <1>1, BeginMoves, Zenon
<1>3. UNCHANGED <<served, store, cluster, names, blind, blurred, faults>>  BY Zenon DEF Begin
<1>4. ControlOK(req'[q])  BY <1>2, Zenon DEF ControlOK, Begun
<1>5. \A r \in Procs : RequestOK(req'[r])  BY <1>1, <1>2, <1>4, BegunTypes, Zenon
<1>6. Types'  BY <1>1, <1>2, <1>3, <1>5, Zenon DEF Types, Begun, store, cluster, names
<1>7. Held(req[q], App(q))'
  <2>1. /\ req'[q].op = op /\ req'[q].pc = pc /\ req'[q].app = a
        /\ req'[q].host = None /\ req'[q].todo = {}
    BY <1>2, Zenon DEF Begun
  <2>2. a \in Apps => row'[a] # "absent"  BY <1>3, AppsAssumption, Zenon DEF store
  <2>. QED  BY <2>1, <2>2, Zenon DEF Held, HeldBy, Listed, App, BeforeRow, Building, Deleting
<1>8. ASSUME NEW r \in Procs \ {q} PROVE Held(req[r], App(r))'
  <2>1. CASE Idle(r)
    <3>1. req'[r].pc = "idle" /\ req'[r].op = "none"  BY <1>2, <2>1, FreeSlot, Zenon DEF Begun
    <3>. QED  BY <3>1, Zenon DEF Held, HeldBy, Listed, Resting, Building, Deleting
  <2>2. CASE ~Idle(r)
    <3>1. Held(req[r], App(r))  BY DEF AppsInv
    <3>2. /\ req'[r].op = req[r].op /\ req'[r].pc = req[r].pc /\ req'[r].app = req[r].app
          /\ req'[r].host = req[r].host /\ req'[r].todo = req[r].todo /\ req'[r].saw = req[r].saw
      BY <1>2, <2>2, Zenon DEF Begun
    <3>3. HeldBy(req'[r], App(r), spec[App(r)], row[App(r)], objs[App(r)], dep[App(r)],
                 cr[App(r)], blurred)
      BY <3>1, <3>2, HeldAlike, Zenon DEF Held
    <3>4. Listed(req[r])'  BY <1>3, <3>1, <3>2, Zenon DEF Held, Listed, store
    <3>. QED  BY <1>3, <3>2, <3>3, <3>4, Zenon DEF Held, App, store, cluster
  <2>. QED  BY <2>1, <2>2, Zenon
<1>9. \A b \in Apps : AppOK(b)'  BY <1>3, Zenon DEF AppsInv, AppOK, store, cluster, names
<1>10. ASSUME NEW r \in Procs, IsDeploy(r)' PROVE IsDeploy(r) /\ r # q /\ App(r)' = App(r)
  BY <1>2, <1>10, FreeSlot, Zenon DEF Begun, IsDeploy, App, Idle
<1>11. OneBuilder'  BY <1>1, <1>10, Zenon DEF OneBuilder
<1>12. HostsOK'  BY <1>1, <1>3, Zenon DEF HostsOK, names
<1>. QED  BY <1>6, <1>7, <1>8, <1>9, <1>11, <1>12, Zenon DEF AppsInv

\* A deploy takes an app that no request is on.
LEMMA DeployKeeps ==
    ASSUME AppsInv, NEW q \in Procs, NEW a \in Apps, NEW s \in Specs, DeployApp(q, a, s)
    PROVE  AppsInv'
<1>1. Types /\ HostsOK /\ OneBuilder  BY Zenon DEF AppsInv
<1>2. Begin(q, "deploy", "gate", a, 0, 0) /\ spec[a] = None /\ spec' = [spec EXCEPT ![a] = s]
  BY DEF DeployApp
<1>3. Begun(q, "deploy", "gate", a, 0)  BY <1>1, <1>2, BeginMoves
<1>4. UNCHANGED <<served, store, cluster, names, blind, blurred, faults>>  BY <1>2, Zenon DEF Begin
<1>5. ControlOK(req'[q])
  BY <1>3, Zenon DEF ControlOK, Begun, Building, Deleting
<1>6. \A r \in Procs : RequestOK(req'[r])
  <2>1. "gate" \in Places \ Resting  BY Zenon DEF Places, Resting
  <2>2. 0 \in Vals  BY DEF Vals
  <2>. QED  BY <1>1, <1>3, <1>5, <2>1, <2>2, BegunTypes, Zenon
<1>7. /\ spec' \in [Apps -> Specs \cup {None}] /\ spec'[a] = s /\ s # None
      /\ \A b \in Apps \ {a} : spec'[b] = spec[b]
  BY <1>1, <1>2, AppsAssumption DEF Types
<1>8. Types'  BY <1>1, <1>3, <1>4, <1>6, <1>7, Zenon DEF Types, Begun, store, cluster, names
<1>9. /\ row[a] = "absent" /\ objs[a] = {} /\ dep[a] = None /\ cr[a] = None
      /\ waiter[a] = "none" /\ a \notin addr
  BY <1>2, Zenon DEF AppsInv, AppOK
<1>10. Held(req[q], App(q))'
  <2>1. /\ req'[q].op = "deploy" /\ req'[q].pc = "gate" /\ req'[q].app = a
        /\ req'[q].host = None /\ req'[q].todo = {}
    BY <1>3, Zenon DEF Begun
  <2>. QED
    BY <1>4, <1>7, <1>9, <2>1, Zenon
    DEF Held, HeldBy, Listed, App, BeforeRow, Building, Deleting, Resting, store, cluster
<1>11. ASSUME NEW r \in Procs, ~Idle(r) PROVE App(r) # a
  BY <1>2, <1>9, <1>11, Zenon DEF AppsInv, Held, HeldBy, Listed, Idle, App
<1>12. ASSUME NEW r \in Procs \ {q} PROVE Held(req[r], App(r))'
  <2>1. CASE Idle(r)
    <3>1. req'[r].pc = "idle" /\ req'[r].op = "none"  BY <1>3, <2>1, FreeSlot, Zenon DEF Begun
    <3>. QED  BY <3>1, Zenon DEF Held, HeldBy, Listed, Resting, Building, Deleting
  <2>2. CASE ~Idle(r)
    <3>1. Held(req[r], App(r)) /\ RequestOK(req[r]) /\ App(r) # a
      BY <1>1, <1>11, <2>2 DEF AppsInv, Types
    <3>2. /\ req'[r].op = req[r].op /\ req'[r].pc = req[r].pc /\ req'[r].app = req[r].app
          /\ req'[r].host = req[r].host /\ req'[r].todo = req[r].todo /\ req'[r].saw = req[r].saw
      BY <1>3, <2>2, Zenon DEF Begun
    <3>3. CASE App(r) \in Apps
      <4>1. spec'[App(r)] = spec[App(r)]  BY <1>7, <3>1, <3>3
      <4>2. HeldBy(req'[r], App(r), spec[App(r)], row[App(r)], objs[App(r)], dep[App(r)],
                   cr[App(r)], blurred)
        BY <3>1, <3>2, HeldAlike, Zenon DEF Held
      <4>3. Listed(req[r])'  BY <1>4, <3>1, <3>2, Zenon DEF Held, Listed, store
      <4>. QED  BY <1>4, <3>2, <4>1, <4>2, <4>3, Zenon DEF Held, App, store, cluster
    <3>4. CASE App(r) \notin Apps
      <4>1. req[r].op = "list"
        BY <2>2, <3>1, <3>4, Zenon
        DEF RequestOK, ControlOK, App, Places, Building, Deleting, UpdateOps, FieldOf, Idle
      <4>2. req[r].pc \in {"sRead", "sCollect", "sLoad", "sDomains", "mirror"}
        BY <2>2, <3>1, <4>1, Zenon
        DEF RequestOK, ControlOK, Places, Building, Deleting, UpdateOps, FieldOf, Idle
      <4>. QED
        BY <1>4, <3>1, <3>2, <3>4, <4>1, <4>2, Zenon
        DEF Held, HeldBy, Listed, App, BeforeRow, Building, Deleting, Resting, store, cluster
    <3>. QED  BY <3>3, <3>4
  <2>. QED  BY <2>1, <2>2
<1>13. ASSUME NEW b \in Apps PROVE AppOK(b)'
  <2>1. CASE b = a  BY <1>4, <1>7, <1>9, <2>1, Zenon DEF AppOK, store, cluster, names
  <2>2. CASE b # a  BY <1>4, <1>7, <2>2, Zenon DEF AppsInv, AppOK, store, cluster, names
  <2>. QED  BY <2>1, <2>2
<1>14. ASSUME NEW r \in Procs, IsDeploy(r)'
       PROVE  \/ r = q
              \/ r # q /\ IsDeploy(r) /\ App(r)' = App(r) /\ App(r) # a
  BY <1>3, <1>11, <1>14, FreeSlot, Zenon DEF Begun, IsDeploy, App, Idle
<1>15. App(q)' = a  BY <1>3, Zenon DEF Begun, App
<1>16. OneBuilder'  BY <1>1, <1>14, <1>15 DEF OneBuilder
<1>17. HostsOK'
  <2>1. dns' = dns  BY <1>4 DEF names
  <2>2. ASSUME NEW h \in Hosts, dns[h] # None PROVE dns[h] \in Apps \ {a}
    BY <1>1, <1>2, <2>2 DEF HostsOK, Types
  <2>. QED  BY <1>1, <1>7, <2>1, <2>2, Zenon DEF HostsOK
<1>. QED  BY <1>8, <1>10, <1>12, <1>13, <1>16, <1>17, Zenon DEF AppsInv

\* The goroutine that waits for an address, and the address itself.
LEMMA BackgroundKeeps ==
    ASSUME AppsInv, NEW a \in Apps, Background(a)
    PROVE  AppsInv'
<1>1. Types /\ HostsOK /\ OneBuilder /\ AppOK(a)  BY DEF AppsInv
<1>2. /\ UNCHANGED <<spec, store, objs, dep, cr, req, blurred>>
      /\ addr' \subseteq Apps /\ addr \subseteq addr'
      /\ waiter' \in [Apps -> {"none", "wait", "write"}]
      /\ dns' \in [Hosts -> Apps \cup {None}]
      /\ \A b \in Apps :
            /\ waiter'[b] # "none" => waiter[b] # "none"
            /\ b \in addr' => b \in addr \/ spec[b] # None
      /\ \A h \in Hosts : dns'[h] # None =>
            dns'[h] = dns[h] \/ (spec[dns'[h]] # None /\ spec[dns'[h]].host = h)
  <2>1. CASE waitForLoadBalancerAddrs(a) /\ UNCHANGED <<history, spec, store, cluster, req>>
    BY <1>1, <2>1 DEF waitForLoadBalancerAddrs, history, cluster, Types
  <2>2. CASE waitForServiceDNS(a) /\ UNCHANGED <<history, spec, store, cluster, req>>
    <3>1. spec[a] # None  BY <1>1, <2>2, Zenon DEF AppOK, waitForServiceDNS
    <3>. QED  BY <1>1, <2>2, <3>1, Zenon DEF waitForServiceDNS, history, cluster, Types
  <2>3. CASE WaiterGivesUp(a) /\ UNCHANGED <<spec, store, cluster, req>>
    BY <1>1, <2>3 DEF WaiterGivesUp, cluster, Types
  <2>4. CASE AssignAddress(a) /\ UNCHANGED <<spec, store, objs, dep, cr, names, req, history>>
    <3>1. addr' = addr \cup {a} /\ spec[a] # None
      BY <1>1, <2>4, Zenon DEF AssignAddress, IsLB, AppOK
    <3>. QED  BY <1>1, <2>4, <3>1, Zenon DEF names, history, Types
  <2>. QED  BY <2>1, <2>2, <2>3, <2>4, Zenon DEF Background
<1>3. Types'  BY <1>1, <1>2, Zenon DEF Types, store
<1>4. \A q \in Procs : Held(req[q], App(q))'  BY <1>2, Zenon DEF AppsInv, Held, Listed, App, store
<1>5. \A b \in Apps : AppOK(b)'  BY <1>2, Zenon DEF AppsInv, AppOK, store
<1>6. OneBuilder'  BY <1>1, <1>2, Zenon DEF OneBuilder, IsDeploy, App
<1>7. HostsOK'  BY <1>1, <1>2 DEF HostsOK
<1>. QED  BY <1>3, <1>4, <1>5, <1>6, <1>7, Zenon DEF AppsInv

-----------------------------------------------------------------------------
(* The invariant, and what follows from it.                                *)

\* Every step of a request keeps the invariant.
LEMMA StepKeeps ==
    ASSUME AppsInv, NEW q \in Procs, Step(q)
    PROVE  AppsInv'
<1>1. UNCHANGED spec  BY Zenon DEF Step
<1>2. CASE Gate(q)  BY <1>1, <1>2, GateKeeps
<1>3. CASE Event(q)  BY <1>1, <1>3, EventKeeps
<1>4. CASE Stop(q)  BY <1>1, <1>4, StopKeeps
<1>5. CASE planAppDeployment(q)  BY <1>1, <1>5, PlanKeeps
<1>6. CASE ApplyDeployment(q)  BY <1>1, <1>6, DeploymentKeeps
<1>7. CASE ApplyService(q)  BY <1>1, <1>7, ServiceKeeps
<1>8. CASE ApplyIngress(q)  BY <1>1, <1>8, IngressKeeps
<1>9. CASE UpsertAppDomain(q)  BY <1>1, <1>9, DomainKeeps
<1>10. CASE ensureDNSForService(q)  BY <1>1, <1>10, EnsureDnsKeeps
<1>11. CASE applyRawManifest(q)  BY <1>1, <1>11, RawKeeps
<1>12. CASE CreateApp(q)  BY <1>1, <1>12, CreateKeeps
<1>13. CASE recordRelease(q)  BY <1>1, <1>13, ReleaseKeeps
<1>14. CASE ensureAppCRDForPlan(q)  BY <1>1, <1>14, EnsureCrdKeeps
<1>15. CASE mirrorAppCRD(q)  BY <1>1, <1>15, MirrorKeeps
<1>16. CASE loadAppCRD(q)  BY <1>1, <1>16, LoadKeeps
<1>17. CASE UpdateCR(q)  BY <1>1, <1>17, UpdateCRKeeps
<1>18. CASE readAppDeployment(q)  BY <1>1, <1>18, ReadDeploymentKeeps
<1>19. CASE updateAppDeployment(q)  BY <1>1, <1>19, UpdateDeploymentKeeps
<1>20. CASE patchBySlug(q)  BY <1>1, <1>20, WebhookKeeps
<1>21. CASE ReadRows(q)  BY <1>1, <1>21, ReadRowsKeeps
<1>22. CASE CollectAppStatus(q)  BY <1>1, <1>22, CollectKeeps
<1>23. CASE domainStatuses(q)  BY <1>1, <1>23, NextAppKeeps
<1>24. CASE DeleteReads(q)  BY <1>1, <1>24, DeleteReadsKeeps
<1>25. CASE DeleteObjects(q)  BY <1>1, <1>25, DeleteObjectsKeeps
<1>26. CASE DeleteRecords(q)  BY <1>1, <1>26, DeleteRecordsKeeps
<1>27. CASE DeleteRows(q)  BY <1>1, <1>27, DeleteRowsKeeps
<1>. QED
  BY <1>2, <1>3, <1>4, <1>5, <1>6, <1>7, <1>8, <1>9, <1>10, <1>11, <1>12, <1>13, <1>14, <1>15,
     <1>16, <1>17, <1>18, <1>19, <1>20, <1>21, <1>22, <1>23, <1>24, <1>25, <1>26, <1>27, Zenon
  DEF Step

\* Only an update of what the App resource does not have begins with the
\* Deployment.
Direct(op, pc) == pc = "depGet" => op \notin {"scale", "image"}

\* The requests that name a deployed app, or all apps: every start but a
\* deploy is one of these.
Asking(q) ==
    \E op \in AllOps \ {"deploy"}, pc \in {"gate", "depGet", "wRead", "sRead"},
       a \in Apps \cup {None}, v \in Vals, rv \in {0} \cup {cr[b].rv : b \in Apps} :
          /\ Begin(q, op, pc, a, v, rv) /\ UNCHANGED spec
          /\ (a \in Apps /\ row[a] # "absent") \/ (a = None /\ op = "list")
          /\ ControlOK([op |-> op, pc |-> pc])
          /\ Direct(op, pc)

\* A start is a deploy or asks about what is deployed.
LEMMA StartIs ==
    ASSUME NEW q \in Procs, Start(q)
    PROVE  Asking(q) \/ \E a \in Apps, s \in Specs : DeployApp(q, a, s)
<1>1. ASSUME NEW op \in UpdateOps, NEW pc \in {"gate", "depGet"}, NEW a \in Apps, NEW v \in Vals,
             UpdateApp(q, op, pc, a, v),
             pc = "gate" => op \in {"scale", "image", "restart"},
             pc = "depGet" => op \notin {"scale", "image"}
      PROVE  Asking(q)
  <2>. DEFINE rv == IF cr[a] = None THEN 0 ELSE cr[a].rv
  <2>1. rv \in {0} \cup {cr[b].rv : b \in Apps}  OBVIOUS
  <2>2. Begin(q, op, pc, a, v, rv) /\ UNCHANGED spec /\ row[a] # "absent"
    BY <1>1, Zenon DEF UpdateApp
  <2>3. op \in AllOps \ {"deploy"} /\ ControlOK([op |-> op, pc |-> pc])
    BY <1>1, Zenon DEF AllOps, ControlOK, UpdateOps, FieldOf, Building, Deleting
  <2>4. Direct(op, pc)  BY <1>1, Zenon DEF Direct
  <2>. HIDE DEF rv
  <2>. QED  BY <2>1, <2>2, <2>3, <2>4, Zenon DEF Asking
<1>2. ASSUME NEW op \in {"webhook", "status", "delete", "list"},
             NEW pc \in {"gate", "wRead", "sRead"}, NEW a \in Apps \cup {None},
             Begin(q, op, pc, a, 0, 0), UNCHANGED spec,
             (a \in Apps /\ row[a] # "absent") \/ (a = None /\ op = "list"),
             pc = "gate" => op = "delete", pc = "wRead" => op = "webhook",
             pc = "sRead" => op \in {"status", "list"}
      PROVE  Asking(q)
  <2>1. op \in AllOps \ {"deploy"} /\ ControlOK([op |-> op, pc |-> pc])
    BY <1>2, Zenon DEF AllOps, ControlOK, UpdateOps, FieldOf, Building, Deleting
  <2>2. 0 \in Vals /\ 0 \in {0} \cup {cr[b].rv : b \in Apps}  BY DEF Vals
  <2>3. Direct(op, pc)  BY <1>2, Zenon DEF Direct
  <2>. QED  BY <1>2, <2>1, <2>2, <2>3, Zenon DEF Asking
<1>3. ASSUME NEW a \in Apps, NEW v \in Vals \ {0}, ScaleApp(q, a, v) \/ UpdateAppImage(q, a, v)
      PROVE  Asking(q)
  BY <1>1, <1>3, Zenon DEF ScaleApp, UpdateAppImage, UpdateOps, FieldOf
<1>4. ASSUME NEW a \in Apps,
             RolloutRestartApp(q, a) \/ AttachConfigMapToApp(q, a) \/ DetachConfigMapFromApp(q, a)
             \/ AttachSecretToApp(q, a) \/ DetachSecretFromApp(q, a)
      PROVE  Asking(q)
  BY <1>1, <1>4
  DEF RolloutRestartApp, AttachConfigMapToApp, DetachConfigMapFromApp, AttachSecretToApp,
      DetachSecretFromApp, UpdateOps, FieldOf, Vals
<1>5. ASSUME NEW a \in Apps, HandleGitWebhook(q, a) \/ GetAppStatus(q, a) \/ DeleteApp(q, a)
      PROVE  Asking(q)
  BY <1>2, <1>5 DEF HandleGitWebhook, GetAppStatus, DeleteApp
<1>6. ASSUME ListProjectAppsStatus(q) PROVE Asking(q)
  BY <1>2, <1>6 DEF ListProjectAppsStatus
<1>. QED  BY <1>3, <1>4, <1>5, <1>6 DEF Start

\* Every start keeps the invariant.
LEMMA StartKeeps ==
    ASSUME AppsInv, NEW q \in Procs, Start(q)
    PROVE  AppsInv'
<1>1. CASE Asking(q)
  <2>1. PICK op \in AllOps \ {"deploy"}, pc \in {"gate", "depGet", "wRead", "sRead"},
             a \in Apps \cup {None}, v \in Vals, rv \in {0} \cup {cr[b].rv : b \in Apps} :
          /\ Begin(q, op, pc, a, v, rv) /\ UNCHANGED spec
          /\ (a \in Apps /\ row[a] # "absent") \/ (a = None /\ op = "list")
          /\ ControlOK([op |-> op, pc |-> pc])
    BY <1>1, Zenon DEF Asking
  <2>2. pc \in Places \ Resting  BY Zenon DEF Places, Resting
  <2>. QED  BY <2>1, <2>2, AskKeeps, Zenon
<1>2. CASE \E a \in Apps, s \in Specs : DeployApp(q, a, s)  BY <1>2, DeployKeeps
<1>. QED  BY <1>1, <1>2, StartIs

\* At the start there are no apps and no requests.
LEMMA AppsInit == Init => AppsInv
<1>. SUFFICES ASSUME Init PROVE AppsInv  OBVIOUS
<1>1. \A q \in Procs : req[q] = NoRequest  BY DEF Init
<1>2. Types
  <2>1. DOMAIN req = Procs /\ \A q \in Procs : RequestOK(req[q])  BY <1>1, FreeSlot DEF Init
  <2>. QED  BY <2>1, Zenon DEF Types, Init
<1>3. \A q \in Procs : Held(req[q], App(q))
  <2>1. \A q \in Procs : req[q].pc = "idle" /\ req[q].op = "none"  BY <1>1, FreeSlot, Zenon
  <2>. QED  BY <2>1, Zenon DEF Held, HeldBy, Listed, Resting, Building, Deleting
<1>4. \A a \in Apps : AppOK(a)  BY DEF Init, AppOK
<1>5. OneBuilder /\ HostsOK  BY <1>1, FreeSlot DEF OneBuilder, IsDeploy, HostsOK, Init
<1>. QED  BY <1>2, <1>3, <1>4, <1>5 DEF AppsInv

\* The invariant holds of every reachable state.
THEOREM AppsInductive == Spec => []AppsInv
<1>1. Init => AppsInv  BY AppsInit
<1>2. AppsInv /\ [Next]_vars => AppsInv'
  <2>1. ASSUME AppsInv, Next PROVE AppsInv'
    BY <2>1, StartKeeps, StepKeeps, BackgroundKeeps DEF Next
  <2>2. ASSUME AppsInv, UNCHANGED vars PROVE AppsInv'
    <3>1. UNCHANGED <<spec, row, domains, released, mirror, objs, dep, cr, addr, dns, waiter,
                      req, blurred>>
      BY <2>2 DEF vars, store, cluster, names, history
    <3>2. Types'  BY <2>2, <3>1, Zenon DEF AppsInv, Types
    <3>3. \A q \in Procs : Held(req[q], App(q))'
      BY <2>2, <3>1, Zenon DEF AppsInv, Held, Listed, App
    <3>4. \A a \in Apps : AppOK(a)'  BY <2>2, <3>1, Zenon DEF AppsInv, AppOK
    <3>5. OneBuilder' /\ HostsOK'
      BY <2>2, <3>1, Zenon DEF AppsInv, OneBuilder, HostsOK, IsDeploy, App
    <3>. QED  BY <3>2, <3>3, <3>4, <3>5, Zenon DEF AppsInv
  <2>. QED  BY <2>1, <2>2
<1>. QED  BY <1>1, <1>2, PTL DEF Spec

\* DeletedStaysDeleted: once the row of an app is marked deleted, none of its
\* labelled objects is there or comes back, for any number of apps and of
\* overlapping requests (DeleteApp, updateAppDeployment).
THEOREM DeletedIsFinal == Spec => []DeletedStaysDeleted
<1>1. AppsInv => DeletedStaysDeleted
  BY Zenon DEF AppsInv, AppOK, DeletedStaysDeleted
<1>. QED  BY <1>1, AppsInductive, PTL

-----------------------------------------------------------------------------
(* The DNS record of an app.                                               *)

\* A request is about to remove the record of the app's host.
Erases(r, h) == r.pc \in {"dCert", "dDns"} /\ r.host = h
Erasing(a) == \E q \in Procs : App(q) = a /\ Erases(req[q], spec[a].host)
AtRow(a) == \E q \in Procs : App(q) = a /\ req[q].pc = "row"

\* The record is there or on its way; it is gone for good.
Wired(a) == dns[spec[a].host] = a \/ waiter[a] # "none" \/ a \in expired
Cleaned(a) == a \in late \/ (dns[spec[a].host] # a /\ waiter[a] # "write")

\* The Ingress stands for the record: from the last step of the deploy on the
\* record of a load balancer is there or on its way, and once the Ingress is
\* gone a delete that found it has yet to remove the record, or has.
Routed(a) ==
    OwnHost(a) /\ a \notin blurred =>
      /\ AtRow(a) => "ingress" \in objs[a]
      /\ (row[a] # "absent" \/ AtRow(a)) /\ IsLB(a) => Wired(a)
      /\ row[a] # "absent" /\ "ingress" \notin objs[a] =>
           "service" \notin objs[a] /\ (Erasing(a) \/ Cleaned(a))

\* What a step may do to an app without disturbing this.
LEMMA RoutedStays ==
    ASSUME NEW b \in Apps, Routed(b), spec'[b] = spec[b], OwnHost(b)' => OwnHost(b),
           blurred \subseteq blurred', row'[b] = "absent" <=> row[b] = "absent",
           "ingress" \in objs'[b] <=> "ingress" \in objs[b],
           "service" \in objs'[b] => "service" \in objs[b],
           AtRow(b)' => AtRow(b), Erasing(b) => b \in blurred' \/ Erasing(b)',
           OwnHost(b) => (Wired(b) => Wired(b)') /\ (Cleaned(b) => Cleaned(b)')
    PROVE  Routed(b)'
<1>. SUFFICES ASSUME OwnHost(b)', b \notin blurred'
              PROVE  /\ AtRow(b)' => "ingress" \in objs'[b]
                     /\ (row'[b] # "absent" \/ AtRow(b)') /\ IsLB(b)' => Wired(b)'
                     /\ row'[b] # "absent" /\ "ingress" \notin objs'[b] =>
                          "service" \notin objs'[b] /\ (Erasing(b)' \/ Cleaned(b)')
  BY Zenon DEF Routed
<1>1. OwnHost(b) /\ b \notin blurred  BY Zenon
<1>2. IsLB(b)' => IsLB(b)  BY Zenon DEF IsLB
<1>. QED  BY <1>1, <1>2, Zenon DEF Routed

\* What a request may do.
LEMMA RequestRoutes ==
    ASSUME NEW q \in Procs, NEW b \in Apps, Routed(b), spec' = spec, Rest(q),
           blurred \subseteq blurred', row'[b] = "absent" <=> row[b] = "absent",
           "ingress" \in objs'[b] <=> "ingress" \in objs[b],
           "service" \in objs'[b] => "service" \in objs[b],
           req'[q].app = b /\ req'[q].pc = "row" => req[q].app = b /\ req[q].pc = "row",
           req[q].app = b /\ Erases(req[q], spec[b].host) =>
              b \in blurred' \/ (req'[q].app = b /\ Erases(req'[q], spec[b].host)),
           OwnHost(b) => (Wired(b) => Wired(b)') /\ (Cleaned(b) => Cleaned(b)')
    PROVE  Routed(b)'
<1>1. AtRow(b)' => AtRow(b)
  <2>. SUFFICES ASSUME NEW r \in Procs, req'[r].app = b, req'[r].pc = "row"
                PROVE  req[r].app = b /\ req[r].pc = "row"
    BY Zenon DEF AtRow, App
  <2>1. CASE r = q  BY <2>1, Zenon
  <2>2. CASE r # q
    <3>1. req'[r] = req[r]  BY <2>2, Zenon DEF Rest
    <3>. QED  BY <3>1, Zenon
  <2>. QED  BY <2>1, <2>2, Zenon
<1>2. Erasing(b) => b \in blurred' \/ Erasing(b)'
  <2>. SUFFICES ASSUME NEW r \in Procs, req[r].app = b, Erases(req[r], spec[b].host), b \notin blurred'
                PROVE  req'[r].app = b /\ Erases(req'[r], spec[b].host)
    BY Zenon DEF Erasing, App
  <2>1. CASE r = q  BY <2>1, Zenon
  <2>2. CASE r # q
    <3>1. req'[r] = req[r]  BY <2>2, Zenon DEF Rest
    <3>. QED  BY <3>1, Zenon
  <2>. QED  BY <2>1, <2>2, Zenon
<1>3. spec'[b] = spec[b] /\ (OwnHost(b)' => OwnHost(b))  BY Zenon DEF OwnHost
<1>. QED  BY <1>1, <1>2, <1>3, RoutedStays, Zenon

\* A request that neither reaches the insert of the row nor was about to
\* remove a record, and touches none of this.
LEMMA MovesRoute ==
    ASSUME AppsInv, \A b \in Apps : Routed(b), NEW q \in Procs, ~Idle(q), spec' = spec,
           \/ \E pc \in Places \ {"row"} :
                 Go(q, pc) \/ GoDespiteError(q, pc) \/ \E o : Keep(q, pc, o)
           \/ Fail(q) \/ Finish(q),
           req[q].pc \in {"dCert", "dDns"} => App(q) \in blurred',
           blurred \subseteq blurred', UNCHANGED <<objs, dns, waiter, late, expired>>,
           \A b \in Apps : row'[b] = "absent" <=> row[b] = "absent"
    PROVE  \A b \in Apps : Routed(b)'
<1>1. Types  BY Zenon DEF AppsInv
<1>2. Rest(q) /\ req'[q].pc # "row"
  <2>1. ASSUME NEW pc \in Places \ {"row"}, Go(q, pc) \/ GoDespiteError(q, pc) \/ \E o : Keep(q, pc, o)
        PROVE  Rest(q) /\ req'[q].pc # "row"
    <3>1. Rest(q) /\ req'[q].pc = pc
      BY <1>1, <2>1, GoMoves, DespiteMoves, KeepMoves, ZenonT(60) DEF Onward
    <3>. QED  BY <3>1, Zenon
  <2>2. ASSUME Fail(q) PROVE Rest(q) /\ req'[q].pc # "row"
    BY <1>1, <2>2, FailMoves, FreeSlot, Zenon
  <2>3. ASSUME Finish(q) PROVE Rest(q) /\ req'[q].pc # "row"
    <3>1. Rest(q) /\ (req'[q].pc = "idle" \/ req'[q].pc = "done")
      BY <1>1, <2>3, FinishMoves, FreeSlot, Zenon
    <3>. QED  BY <3>1, Zenon
  <2>. QED  BY <2>1, <2>2, <2>3, Zenon
<1>. SUFFICES ASSUME NEW b \in Apps PROVE Routed(b)'
  BY Zenon
<1>3. (Wired(b) => Wired(b)') /\ (Cleaned(b) => Cleaned(b)')  BY Zenon DEF Wired, Cleaned
<1>4. req[q].app = b /\ Erases(req[q], spec[b].host) => b \in blurred'  BY Zenon DEF Erases, App
<1>. QED  BY <1>2, <1>3, <1>4, RequestRoutes, Zenon

\* What a deploy does to its app before the row: only the insert of the row is
\* told apart.
LEMMA BuildRoutes ==
    ASSUME AppsInv, \A b \in Apps : Routed(b), NEW q \in Procs, req[q].pc \in Building, spec' = spec,
           Rest(q), req'[q].app = req[q].app,
           req'[q].pc = "row" => ~HasIngress(spec[App(q)]), req'[q].pc \notin {"dCert", "dDns"},
           row' = row, \A b \in Apps : b # App(q) => objs'[b] = objs[b],
           UNCHANGED <<blurred, dns, waiter, late, expired>>
    PROVE  \A b \in Apps : Routed(b)'
<1>. PICK a : a = App(q)  BY Zenon
<1>1. RequestOK(req[q]) /\ Held(req[q], App(q))  BY Zenon DEF AppsInv, Types
<1>2. /\ req[q].op = "deploy" /\ req[q].pc \in BeforeRow /\ a \in Apps
      /\ req[q].pc \notin {"dCert", "dDns"}
  BY <1>1, Zenon DEF RequestOK, ControlOK, BeforeRow, Building, App
<1>3. row[a] = "absent"
  BY <1>1, <1>2, Zenon DEF Held, HeldBy, BeforeRow, Building, Resting
<1>4. Routed(a)'
  <2>. SUFFICES ASSUME OwnHost(a)' PROVE ~AtRow(a)'
    BY <1>3, Zenon DEF Routed
  <2>1. HasIngress(spec[a])  BY Zenon DEF OwnHost
  <2>. SUFFICES ASSUME NEW r \in Procs, req'[r].app = a, req'[r].pc = "row" PROVE FALSE
    BY Zenon DEF AtRow, App
  <2>2. r # q  BY <2>1, Zenon
  <2>3. req[r].app = a /\ req[r].pc = "row"  BY <2>2, Zenon DEF Rest
  <2>4. ~Idle(r)  BY <2>3, Zenon DEF Idle, Resting
  <2>. QED  BY <1>2, <2>2, <2>3, <2>4, AloneBefore, Zenon DEF App
<1>5. ASSUME NEW b \in Apps, b # a PROVE Routed(b)'
  <2>1. (Wired(b) => Wired(b)') /\ (Cleaned(b) => Cleaned(b)')  BY Zenon DEF Wired, Cleaned
  <2>2. req'[q].app # b /\ req[q].app # b  BY <1>5, Zenon DEF App
  <2>. QED  BY <1>5, <2>1, <2>2, RequestRoutes, Zenon
<1>. QED  BY <1>4, <1>5, Zenon

\* The record written for a load balancer that has its address, or the
\* goroutine that waits for one.
LEMMA EnsureDnsRoutes ==
    ASSUME AppsInv, \A b \in Apps : Routed(b), NEW q \in Procs, ensureDNSForService(q), spec' = spec
    PROVE  \A b \in Apps : Routed(b)'
<1>. PICK a : a = App(q)  BY Zenon
<1>1. RequestOK(req[q]) /\ Held(req[q], App(q)) /\ Types /\ req[q].pc = "dns"
  BY Zenon DEF AppsInv, Types, ensureDNSForService, At
<1>2. /\ req[q].op = "deploy" /\ a \in Apps /\ HasIngress(spec[a]) /\ "ingress" \in objs[a]
      /\ row[a] = "absent" /\ spec[a] # None
  BY <1>1, Zenon
  DEF RequestOK, ControlOK, Building, App, Held, HeldBy, BeforeRow, Resting
<1>3. spec[a].host \in Hosts
  <2>1. spec[a] \in AppSpec  BY <1>1, <1>2, AppsAssumption, Zenon DEF Types
  <2>2. spec[a].host \in Hosts \cup {None}  BY <2>1 DEF AppSpec
  <2>. QED  BY <1>2, <2>2, Zenon DEF HasIngress
<1>4. CASE GoDespiteError(q, "row")
  <2>1. /\ Rest(q) /\ req'[q].app = req[q].app /\ a \in blurred' /\ blurred \subseteq blurred'
        /\ UNCHANGED <<objs, row, dns, waiter, late, expired>>
    BY <1>1, <1>2, <1>4, DespiteMoves, Zenon DEF store, cluster, names
  <2>2. Routed(a)'  BY <2>1, Zenon DEF Routed
  <2>3. ASSUME NEW b \in Apps, b # a PROVE Routed(b)'
    <3>1. (Wired(b) => Wired(b)') /\ (Cleaned(b) => Cleaned(b)')  BY <2>1, Zenon DEF Wired, Cleaned
    <3>2. req'[q].app # b /\ req[q].app # b  BY <2>1, <2>3, Zenon DEF App
    <3>. QED  BY <2>1, <2>3, <3>1, <3>2, RequestRoutes, Zenon
  <2>. QED  BY <2>2, <2>3, Zenon
<1>5. ASSUME Go(q, "row"), UNCHANGED <<objs, row, late, expired, blurred>>,
             IF ~IsLB(a) THEN UNCHANGED <<dns, waiter>>
             ELSE IF a \in addr
                    THEN dns' = [dns EXCEPT ![spec[a].host] = a] /\ UNCHANGED waiter
                    ELSE waiter' = [waiter EXCEPT ![a] = "wait"] /\ UNCHANGED dns
      PROVE  \A b \in Apps : Routed(b)'
  <2>1. Rest(q) /\ req'[q].app = req[q].app  BY <1>1, <1>5, GoMoves, Zenon DEF Onward
  <2>2. Routed(a)'
    <3>1. IsLB(a) => Wired(a)'
      <4>1. CASE IsLB(a) /\ a \in addr
        <5>1. dns'[spec'[a].host] = a  BY <1>1, <1>3, <1>5, <4>1, Zenon DEF Types
        <5>. QED  BY <5>1, Zenon DEF Wired
      <4>2. CASE IsLB(a) /\ a \notin addr
        <5>1. waiter'[a] = "wait"  BY <1>1, <1>2, <1>5, <4>2, Zenon DEF Types
        <5>. QED  BY <5>1, Zenon DEF Wired
      <4>. QED  BY <4>1, <4>2, Zenon
    <3>2. IsLB(a)' => IsLB(a)  BY <1>5, Zenon DEF IsLB
    <3>. QED  BY <1>2, <1>5, <3>1, <3>2, Zenon DEF Routed
  <2>3. ASSUME NEW b \in Apps, b # a PROVE Routed(b)'
    <3>1. ASSUME OwnHost(b) PROVE (Wired(b) => Wired(b)') /\ (Cleaned(b) => Cleaned(b)')
      <4>1. spec[b].host # spec[a].host  BY <1>2, <2>3, <3>1, Zenon DEF OwnHost
      <4>2. dns'[spec'[b].host] = dns[spec[b].host] /\ waiter'[b] = waiter[b]
        <5>1. spec[b] \in AppSpec /\ spec[b].host # None
          BY <1>1, <3>1, AppsAssumption, Zenon DEF Types, OwnHost, HasIngress
        <5>2. spec[b].host \in Hosts  BY <5>1 DEF AppSpec
        <5>. QED  BY <1>1, <1>5, <2>3, <4>1, <5>2, Zenon DEF Types
      <4>. QED  BY <1>5, <4>2, Zenon DEF Wired, Cleaned
    <3>2. req'[q].app # b /\ req[q].app # b  BY <2>1, <2>3, Zenon DEF App
    <3>. QED  BY <1>5, <2>1, <2>3, <3>1, <3>2, RequestRoutes, Zenon
  <2>. QED  BY <2>2, <2>3, Zenon
<1>6. CASE ~GoDespiteError(q, "row")
  <2>1. /\ Go(q, "row") /\ UNCHANGED <<objs, row, late, expired, blurred>>
        /\ IF ~IsLB(a) THEN UNCHANGED <<dns, waiter>>
           ELSE IF a \in addr
                  THEN dns' = [dns EXCEPT ![spec[a].host] = a] /\ UNCHANGED waiter
                  ELSE waiter' = [waiter EXCEPT ![a] = "wait"] /\ UNCHANGED dns
    BY <1>6, Zenon DEF ensureDNSForService, store, cluster, history
  <2>. QED  BY <1>5, <2>1, Zenon
<1>. QED  BY <1>4, <1>6, Zenon

\* The row is inserted while the Ingress is there.
LEMMA CreateRoutes ==
    ASSUME AppsInv, \A b \in Apps : Routed(b), NEW q \in Procs, CreateApp(q), spec' = spec
    PROVE  \A b \in Apps : Routed(b)'
<1>. PICK a : a = App(q)  BY Zenon
<1>1. RequestOK(req[q]) /\ Types /\ req[q].pc = "row"  BY Zenon DEF AppsInv, Types, CreateApp, At
<1>2. req[q].op = "deploy" /\ a \in Apps /\ AtRow(a) /\ Routed(a)
  BY <1>1, Zenon DEF RequestOK, ControlOK, Building, App, AtRow
<1>3. CASE Error(q)
  <2>1. /\ Fail(q) /\ ~Idle(q) /\ UNCHANGED <<objs, row, dns, waiter, late, expired, blurred>>
    BY <1>1, <1>3, Zenon DEF Error, store, cluster, names, history, Idle, Resting
  <2>. QED  BY <1>1, <2>1, MovesRoute, Zenon
<1>4. CASE ~Error(q)
  <2>1. /\ row' = [row EXCEPT ![a] = "live"] /\ Go(q, "release")
        /\ UNCHANGED <<objs, dns, waiter, late, expired, blurred>>
    BY <1>4, Zenon DEF CreateApp, cluster, names, history
  <2>2. Rest(q) /\ req'[q].pc = "release" /\ req'[q].app = req[q].app
    BY <1>1, <2>1, GoMoves, Zenon DEF Onward
  <2>3. Routed(a)'
    <3>1. (OwnHost(a)' => OwnHost(a)) /\ (IsLB(a)' => IsLB(a)) /\ (Wired(a) => Wired(a)')
      BY <2>1, Zenon DEF OwnHost, IsLB, Wired
    <3>. QED  BY <1>2, <2>1, <3>1, Zenon DEF Routed
  <2>4. ASSUME NEW b \in Apps, b # a PROVE Routed(b)'
    <3>1. (Wired(b) => Wired(b)') /\ (Cleaned(b) => Cleaned(b)')  BY <2>1, Zenon DEF Wired, Cleaned
    <3>2. req'[q].app # b /\ req[q].app # b  BY <2>2, <2>4, Zenon DEF App
    <3>3. row'[b] = row[b]  BY <1>1, <2>1, <2>4, Zenon DEF Types
    <3>. QED  BY <2>1, <2>2, <2>4, <3>1, <3>2, <3>3, RequestRoutes, Zenon
  <2>. QED  BY <2>3, <2>4, Zenon
<1>. QED  BY <1>3, <1>4, Zenon

\* An app with a row is no longer being built.
LEMMA PastRow ==
    ASSUME AppsInv, NEW a \in Apps, row[a] # "absent"
    PROVE  ~AtRow(a)
<1>. SUFFICES ASSUME NEW r \in Procs, App(r) = a, req[r].pc = "row" PROVE FALSE
  BY Zenon DEF AtRow
<1>1. RequestOK(req[r]) /\ Held(req[r], App(r))  BY Zenon DEF AppsInv, Types
<1>2. req[r].op = "deploy"  BY <1>1, Zenon DEF RequestOK, ControlOK, Building
<1>. QED  BY <1>1, <1>2, Zenon DEF Held, HeldBy, BeforeRow, Building, Resting

\* A delete removes the Ingress and remembers its host, after the Service.
LEMMA DeleteObjectsRoutes ==
    ASSUME AppsInv, \A b \in Apps : Routed(b), NEW q \in Procs, DeleteObjects(q), spec' = spec
    PROVE  \A b \in Apps : Routed(b)'
<1>. PICK a : a = App(q)  BY Zenon
<1>1. /\ RequestOK(req[q]) /\ Held(req[q], App(q)) /\ Types
      /\ req[q].pc \in {"dObjects", "dService", "dIngress", "dCert"}
  BY Zenon DEF AppsInv, Types, DeleteObjects, At
<1>2. req[q].op = "delete" /\ a \in Apps /\ ~Idle(q)
  BY <1>1, Zenon DEF RequestOK, ControlOK, Deleting, App, Idle, Resting
<1>3. row[a] # "absent"  BY <1>1, <1>2, Zenon DEF Held, HeldBy, Idle
<1>4. CASE \E pc \in {"dService", "dIngress", "dCert", "dDns"} : GoDespiteError(q, pc)
  <2>1. PICK pc \in {"dService", "dIngress", "dCert", "dDns"} : GoDespiteError(q, pc)
    BY <1>4, Zenon
  <2>2. /\ a \in blurred' /\ blurred \subseteq blurred'
        /\ UNCHANGED <<objs, row, dns, waiter, late, expired>>
    BY <1>1, <1>2, <2>1, DespiteMoves, Zenon DEF store, cluster, names
  <2>3. pc \in Places \ {"row"}  BY Zenon DEF Places, Deleting
  <2>. QED  BY <1>2, <2>1, <2>2, <2>3, MovesRoute, Zenon
<1>5. ASSUME NEW S, objs' = [objs EXCEPT ![a] = S], NEW pc \in {"dService", "dIngress", "dDns"},
             Go(q, pc), "ingress" \in S <=> "ingress" \in objs[a],
             "service" \in S => "service" \in objs[a], req[q].pc = "dCert" => pc = "dDns",
             UNCHANGED <<row, dns, waiter, late, expired, blurred>>
      PROVE  \A b \in Apps : Routed(b)'
  <2>1. /\ Rest(q) /\ req'[q].pc = pc /\ req'[q].app = req[q].app /\ req'[q].host = req[q].host
    BY <1>1, <1>5, GoMoves, Zenon DEF Onward
  <2>. SUFFICES ASSUME NEW b \in Apps PROVE Routed(b)'
    BY Zenon
  <2>2. (Wired(b) => Wired(b)') /\ (Cleaned(b) => Cleaned(b)')  BY <1>5, Zenon DEF Wired, Cleaned
  <2>3. /\ "ingress" \in objs'[b] <=> "ingress" \in objs[b]
        /\ "service" \in objs'[b] => "service" \in objs[b]
    <3>1. CASE b = a  BY <1>1, <1>2, <1>5, <3>1, Zenon DEF Types
    <3>2. CASE b # a  BY <1>1, <1>2, <1>5, <3>2, Zenon DEF Types
    <3>. QED  BY <3>1, <3>2, Zenon
  <2>4. Erases(req[q], spec[b].host) => Erases(req'[q], spec[b].host)
    BY <1>1, <1>5, <2>1, Zenon DEF Erases
  <2>5. req'[q].pc # "row"  BY <2>1, Zenon
  <2>. QED  BY <1>5, <2>1, <2>2, <2>3, <2>4, <2>5, RequestRoutes, Zenon
<1>6. CASE /\ At(q, "dObjects") /\ Go(q, "dService")
           /\ objs' = [objs EXCEPT ![a] = @ \ {"workload"}]
           /\ UNCHANGED <<cr, addr, store, names, history>>
  <2>1. /\ objs' = [objs EXCEPT ![a] = objs[a] \ {"workload"}] /\ req[q].pc # "dCert"
        /\ UNCHANGED <<row, dns, waiter, late, expired, blurred>>
    BY <1>6, Zenon DEF At, store, names, history
  <2>. QED  BY <1>5, <1>6, <2>1, ZenonT(60)
<1>7. CASE /\ At(q, "dService") /\ Go(q, "dIngress")
           /\ objs' = [objs EXCEPT ![a] = @ \ {"service"}]
           /\ UNCHANGED <<dep, cr, store, names, history>>
  <2>1. /\ objs' = [objs EXCEPT ![a] = objs[a] \ {"service"}] /\ req[q].pc # "dCert"
        /\ UNCHANGED <<row, dns, waiter, late, expired, blurred>>
    BY <1>7, Zenon DEF At, store, names, history
  <2>. QED  BY <1>5, <1>7, <2>1, Zenon
<1>8. CASE /\ At(q, "dCert") /\ Go(q, "dDns")
           /\ objs' = [objs EXCEPT ![a] = IF CertManager THEN @ \ {"cert"} ELSE @]
           /\ UNCHANGED <<dep, cr, addr, store, names, history>>
  <2>. DEFINE S == IF CertManager THEN objs[a] \ {"cert"} ELSE objs[a]
  <2>1. objs' = [objs EXCEPT ![a] = S] /\ UNCHANGED <<row, dns, waiter, late, expired, blurred>>
    BY <1>8, Zenon DEF store, names, history
  <2>2. /\ "ingress" \in S <=> "ingress" \in objs[a]
        /\ "service" \in S => "service" \in objs[a]
    BY Zenon
  <2>. HIDE DEF S
  <2>. QED  BY <1>5, <1>8, <2>1, <2>2, Zenon
<1>9. ASSUME At(q, "dIngress"), objs' = [objs EXCEPT ![a] = @ \ {"ingress"}],
             req' = [req EXCEPT ![q].pc = "dCert",
                                ![q].host = IF "ingress" \in objs[a] THEN spec[a].host ELSE None],
             UNCHANGED <<row, dns, waiter, late, expired, blurred>>
      PROVE  \A b \in Apps : Routed(b)'
  <2>. DEFINE h == IF "ingress" \in objs[a] THEN spec[a].host ELSE None
              new == [req[q] EXCEPT !.pc = "dCert", !.host = h]
  <2>1. DOMAIN req = Procs /\ DOMAIN req[q] = RequestFields  BY <1>1, Zenon DEF Types, RequestOK
  <2>2. new.pc = "dCert" /\ new.host = h /\ new.app = req[q].app  BY <2>1 DEF RequestFields
  <2>3. req'[q] = new /\ Rest(q)  BY <1>9, <2>1 DEF Rest
  <2>. HIDE DEF new
  <2>4. objs'[a] = objs[a] \ {"ingress"} /\ \A b \in Apps \ {a} : objs'[b] = objs[b]
    BY <1>1, <1>2, <1>9, Zenon DEF Types
  <2>5. Routed(a)'
    <3>. SUFFICES ASSUME OwnHost(a)', a \notin blurred'
                  PROVE  /\ ~AtRow(a)' /\ "service" \notin objs'[a]
                         /\ Erasing(a)' \/ Cleaned(a)'
      BY Zenon DEF Routed, IsLB
    <3>1. OwnHost(a) /\ a \notin blurred  BY <1>9, Zenon DEF OwnHost
    <3>2. ~AtRow(a)'
      <4>. SUFFICES ASSUME NEW r \in Procs, req'[r].app = a, req'[r].pc = "row" PROVE FALSE
        BY Zenon DEF AtRow, App
      <4>1. r # q  BY <2>2, <2>3, Zenon
      <4>2. req[r].app = a /\ req[r].pc = "row"  BY <2>3, <4>1, Zenon DEF Rest
      <4>. QED  BY <1>2, <1>3, <4>2, PastRow, Zenon DEF AtRow, App
    <3>3. "service" \notin objs[a]
      BY <1>1, <1>2, <1>9, <3>1, Zenon DEF Held, HeldBy, Deleting, At
    <3>4. Erasing(a)' \/ Cleaned(a)'
      <4>1. CASE "ingress" \in objs[a]
        <5>1. App(q)' = a /\ Erases(req'[q], spec'[a].host)
          BY <2>2, <2>3, <4>1, Zenon DEF App, Erases
        <5>. QED  BY <5>1, Zenon DEF Erasing
      <4>2. CASE "ingress" \notin objs[a]
        <5>1. Erasing(a) \/ Cleaned(a)  BY <1>2, <1>3, <3>1, <4>2, Zenon DEF Routed
        <5>2. CASE Cleaned(a)  BY <1>9, <5>2, Zenon DEF Cleaned
        <5>3. CASE Erasing(a)
          <6>1. PICK r \in Procs : App(r) = a /\ Erases(req[r], spec[a].host)
            BY <5>3, Zenon DEF Erasing
          <6>2. r # q  BY <1>9, <6>1, Zenon DEF Erases, At
          <6>3. req'[r] = req[r]  BY <2>3, <6>2, Zenon DEF Rest
          <6>. QED  BY <6>1, <6>3, Zenon DEF Erasing, App
        <5>. QED  BY <5>1, <5>2, <5>3, Zenon
      <4>. QED  BY <4>1, <4>2, Zenon
    <3>. QED  BY <2>4, <3>2, <3>3, <3>4, Zenon
  <2>6. ASSUME NEW b \in Apps, b # a PROVE Routed(b)'
    <3>1. (Wired(b) => Wired(b)') /\ (Cleaned(b) => Cleaned(b)')  BY <1>9, Zenon DEF Wired, Cleaned
    <3>2. req'[q].app # b /\ req[q].app # b  BY <2>2, <2>3, <2>6, Zenon DEF App
    <3>. QED  BY <1>9, <2>3, <2>4, <2>6, <3>1, <3>2, RequestRoutes, Zenon
  <2>. QED  BY <2>5, <2>6, Zenon
<1>10. CASE /\ At(q, "dIngress") /\ objs' = [objs EXCEPT ![a] = @ \ {"ingress"}]
            /\ req' = [req EXCEPT ![q].pc = "dCert",
                                  ![q].host = IF "ingress" \in objs[a] THEN spec[a].host ELSE None]
            /\ UNCHANGED <<dep, cr, addr, store, names, history>>
  BY <1>9, <1>10, Zenon DEF store, names, history
<1>. QED  BY <1>4, <1>6, <1>7, <1>8, <1>10, Zenon DEF DeleteObjects

\* The delete that remembers the host removes the record; another leaves it.
LEMMA DeleteRecordsRoutes ==
    ASSUME AppsInv, \A b \in Apps : Routed(b), NEW q \in Procs, DeleteRecords(q), spec' = spec
    PROVE  \A b \in Apps : Routed(b)'
<1>. PICK a : a = App(q)  BY Zenon
<1>1. RequestOK(req[q]) /\ Held(req[q], App(q)) /\ Types /\ req[q].pc = "dDns"
  BY Zenon DEF AppsInv, Types, DeleteRecords, At
<1>2. req[q].op = "delete" /\ a \in Apps /\ ~Idle(q)
  BY <1>1, Zenon DEF RequestOK, ControlOK, Deleting, App, Idle, Resting
<1>3. row[a] # "absent" /\ (req[q].host # None => req[q].host = spec[a].host)
  BY <1>1, <1>2, Zenon DEF Held, HeldBy, Idle
<1>4. CASE GoDespiteError(q, "dDomains")
  <2>1. /\ a \in blurred' /\ blurred \subseteq blurred'
        /\ UNCHANGED <<objs, row, dns, waiter, late, expired>>
    BY <1>1, <1>2, <1>4, DespiteMoves, Zenon DEF store, cluster, names
  <2>2. "dDomains" \in Places \ {"row"}  BY Zenon DEF Places, Deleting
  <2>. QED  BY <1>2, <1>4, <2>1, <2>2, MovesRoute, Zenon
<1>5. CASE ~GoDespiteError(q, "dDomains")
  <2>1. /\ dns' = IF req[q].host = None THEN dns ELSE [dns EXCEPT ![req[q].host] = None]
        /\ late' = IF waiter[a] = "write" THEN late \cup {a} ELSE late
        /\ Go(q, "dDomains") /\ UNCHANGED <<waiter, expired, row, objs, blurred>>
    BY <1>5, Zenon DEF DeleteRecords, store, cluster, history
  <2>2. Rest(q) /\ req'[q].pc = "dDomains" /\ req'[q].app = req[q].app
    BY <1>1, <2>1, GoMoves, Zenon DEF Onward
  <2>3. late \subseteq late' /\ (waiter[a] = "write" => a \in late')  BY <2>1, Zenon
  <2>4. ASSUME NEW b \in Apps, OwnHost(b) PROVE spec[b].host \in Hosts
    <3>1. spec[b] \in AppSpec /\ spec[b].host # None
      BY <1>1, <2>4, AppsAssumption, Zenon DEF Types, OwnHost, HasIngress
    <3>. QED  BY <3>1 DEF AppSpec
  <2>5. Routed(a)'
    <3>. SUFFICES ASSUME OwnHost(a)', a \notin blurred'
                  PROVE  /\ ~AtRow(a)' /\ "service" \notin objs'[a]
                         /\ Erasing(a)' \/ Cleaned(a)'
      BY Zenon DEF Routed, IsLB
    <3>1. OwnHost(a) /\ a \notin blurred  BY <2>1, Zenon DEF OwnHost
    <3>2. ~AtRow(a)'
      <4>. SUFFICES ASSUME NEW r \in Procs, req'[r].app = a, req'[r].pc = "row" PROVE FALSE
        BY Zenon DEF AtRow, App
      <4>1. r # q  BY <2>2, Zenon
      <4>2. req[r].app = a /\ req[r].pc = "row"  BY <2>2, <4>1, Zenon DEF Rest
      <4>. QED  BY <1>2, <1>3, <4>2, PastRow, Zenon DEF AtRow, App
    <3>3. "service" \notin objs[a] /\ "ingress" \notin objs[a]
      BY <1>1, <1>2, <3>1, Zenon DEF Held, HeldBy, Deleting
    <3>4. CASE req[q].host = None
      <4>1. Erasing(a) \/ Cleaned(a)  BY <1>2, <1>3, <3>1, <3>3, Zenon DEF Routed
      <4>2. CASE Cleaned(a)
        <5>1. dns' = dns  BY <2>1, <3>4, Zenon
        <5>2. Cleaned(a)'  BY <2>1, <2>3, <4>2, <5>1, Zenon DEF Cleaned
        <5>. QED  BY <2>1, <3>2, <3>3, <5>2, Zenon
      <4>3. CASE Erasing(a)
        <5>1. PICK r \in Procs : App(r) = a /\ Erases(req[r], spec[a].host)
          BY <4>3, Zenon DEF Erasing
        <5>2. r # q  BY <3>1, <3>4, <5>1, Zenon DEF Erases, OwnHost, HasIngress
        <5>3. req'[r] = req[r]  BY <2>2, <5>2, Zenon DEF Rest
        <5>4. Erasing(a)'  BY <5>1, <5>3, Zenon DEF Erasing, App
        <5>. QED  BY <2>1, <3>2, <3>3, <5>4, Zenon
      <4>. QED  BY <4>1, <4>2, <4>3, Zenon
    <3>5. CASE req[q].host # None
      <4>1. spec[a].host \in Hosts  BY <1>2, <2>4, <3>1, Zenon
      <4>2. dns'[spec'[a].host] = None  BY <1>1, <1>3, <2>1, <3>5, <4>1, Zenon DEF Types
      <4>3. a # None  BY <1>2, AppsAssumption, Zenon
      <4>4. Cleaned(a)'  BY <2>1, <2>3, <4>2, <4>3, Zenon DEF Cleaned
      <4>. QED  BY <2>1, <3>2, <3>3, <4>4, Zenon
    <3>. QED  BY <3>4, <3>5, Zenon
  <2>6. ASSUME NEW b \in Apps, b # a PROVE Routed(b)'
    <3>1. ASSUME OwnHost(b) PROVE (Wired(b) => Wired(b)') /\ (Cleaned(b) => Cleaned(b)')
      <4>1. spec[b].host \in Hosts  BY <2>4, <3>1, Zenon
      <4>2. req[q].host # None => spec[b].host # req[q].host
        <5>1. spec[a] # None  BY <1>2, <1>3, Zenon DEF AppsInv, AppOK
        <5>. QED  BY <1>2, <1>3, <2>6, <3>1, <5>1, Zenon DEF OwnHost
      <4>3. dns'[spec'[b].host] = dns[spec[b].host]
        BY <1>1, <2>1, <4>1, <4>2, Zenon DEF Types
      <4>. QED  BY <2>1, <2>3, <4>3, Zenon DEF Wired, Cleaned
    <3>2. req'[q].app # b /\ req[q].app # b  BY <2>2, <2>6, Zenon DEF App
    <3>. QED  BY <2>1, <2>2, <2>6, <3>1, <3>2, RequestRoutes, Zenon
  <2>. QED  BY <2>5, <2>6, Zenon
<1>. QED  BY <1>4, <1>5, Zenon

\* Every step of a request keeps the record of every app.
LEMMA StepRoutes ==
    ASSUME AppsInv, \A b \in Apps : Routed(b), NEW q \in Procs, Step(q)
    PROVE  \A b \in Apps : Routed(b)'
<1>. PICK a : a = App(q)  BY Zenon
<1>1. spec' = spec /\ Types /\ RequestOK(req[q]) /\ Held(req[q], App(q))
  BY Zenon DEF Step, AppsInv, Types
<1>2. CASE ensureDNSForService(q)  BY <1>1, <1>2, EnsureDnsRoutes, Zenon
<1>3. CASE CreateApp(q)  BY <1>1, <1>3, CreateRoutes, Zenon
<1>4. CASE DeleteObjects(q)  BY <1>1, <1>4, DeleteObjectsRoutes, Zenon
<1>5. CASE DeleteRecords(q)  BY <1>1, <1>5, DeleteRecordsRoutes, Zenon
<1>6. ASSUME ~Idle(q), UNCHANGED <<objs, row, dns, waiter, late, expired>>, blurred \subseteq blurred',
             req[q].pc \notin {"dCert", "dDns"},
             \/ \E pc \in Places \ {"row"} :
                   Go(q, pc) \/ GoDespiteError(q, pc) \/ \E o : Keep(q, pc, o)
             \/ Fail(q) \/ Finish(q)
      PROVE  \A b \in Apps : Routed(b)'
  BY <1>1, <1>6, MovesRoute, Zenon
<1>7. CASE Gate(q)
  <2>1. /\ ~Idle(q) /\ UNCHANGED <<objs, row, dns, waiter, late, expired, blurred>>
        /\ req[q].pc \notin {"dCert", "dDns"}
        /\ \/ Fail(q)
           \/ Go(q, "plan") \/ Go(q, "dRead") \/ Go(q, "depGet") \/ Go(q, "uRead")
    BY <1>7, Zenon DEF Gate, At, Idle, Resting, store, cluster, names, history
  <2>2. {"plan", "dRead", "depGet", "uRead"} \subseteq Places \ {"row"}
    BY Zenon DEF Places, Building
  <2>. QED  BY <1>6, <2>1, <2>2, Zenon
<1>8. CASE Event(q) \/ patchBySlug(q)
  <2>1. /\ ~Idle(q) /\ UNCHANGED <<objs, row, dns, waiter, late, expired, blurred>>
        /\ req[q].pc \notin {"dCert", "dDns"}
        /\ Finish(q) \/ Go(q, "wPatch")
    BY <1>8, Zenon DEF Event, patchBySlug, At, Idle, Resting, store, cluster, names, history
  <2>2. "wPatch" \in Places \ {"row"}  BY Zenon DEF Places
  <2>. QED  BY <1>6, <2>1, <2>2, Zenon
<1>9. CASE Stop(q)
  <2>1. /\ ~Idle(q) /\ Fail(q) /\ UNCHANGED <<objs, row, dns, waiter, late, expired>>
        /\ blurred' = blurred \cup ({a} \cap Apps)
    BY <1>9, Zenon DEF Stop, store, cluster, names
  <2>2. req[q].pc \in {"dCert", "dDns"} => a \in blurred'
    BY <1>1, <2>1, Zenon DEF RequestOK, ControlOK, Deleting, App
  <2>. QED  BY <1>1, <2>1, <2>2, MovesRoute, Zenon
<1>10. CASE planAppDeployment(q)
  <2>1. /\ ~Idle(q) /\ UNCHANGED <<objs, row, dns, waiter, late, expired, blurred>>
        /\ req[q].pc \notin {"dCert", "dDns"}
        /\ Fail(q) \/ Go(q, "workload") \/ Go(q, "raw")
    BY <1>10, Zenon
    DEF planAppDeployment, Error, At, Idle, Resting, store, cluster, names, history
  <2>2. {"workload", "raw"} \subseteq Places \ {"row"}  BY Zenon DEF Places, Building
  <2>. QED  BY <1>6, <2>1, <2>2, Zenon
<1>11. CASE UpsertAppDomain(q) \/ recordRelease(q)
  <2>1. /\ ~Idle(q) /\ UNCHANGED <<objs, row, dns, waiter, late, expired, blurred>>
        /\ req[q].pc \notin {"dCert", "dDns"}
        /\ Go(q, "dns") \/ Go(q, "crApply") \/ Go(q, "event")
    BY <1>11, Zenon
    DEF UpsertAppDomain, recordRelease, At, Idle, Resting, cluster, names, history
  <2>2. {"dns", "crApply", "event"} \subseteq Places \ {"row"}  BY Zenon DEF Places, Building
  <2>. QED  BY <1>6, <2>1, <2>2, Zenon
<1>12. CASE ensureAppCRDForPlan(q) \/ mirrorAppCRD(q)
  <2>1. /\ ~Idle(q) /\ UNCHANGED <<objs, row, dns, waiter, late, expired>>
        /\ blurred \subseteq blurred' /\ req[q].pc \notin {"dCert", "dDns"}
        /\ \/ Go(q, "crLoad") \/ Go(q, "event") \/ (\E o : Keep(q, "mirror", o))
           \/ GoDespiteError(q, "event") \/ Go(q, "sDomains") \/ GoDespiteError(q, "sDomains")
    BY <1>12, Zenon
    DEF ensureAppCRDForPlan, mirrorAppCRD, GoDespiteError, At, Idle, Resting, store, cluster, names,
        history
  <2>2. {"crLoad", "event", "mirror", "sDomains"} \subseteq Places \ {"row"}  BY Zenon DEF Places
  <2>. QED  BY <1>6, <2>1, <2>2, Zenon
<1>13. CASE loadAppCRD(q) \/ readAppDeployment(q)
  <2>1. /\ ~Idle(q) /\ UNCHANGED <<objs, row, dns, waiter, late, expired, blurred>>
        /\ req[q].pc \notin {"dCert", "dDns"}
        /\ \/ Fail(q) \/ Go(q, "uLoad") \/ Go(q, "depGet")
           \/ (\E o : Keep(q, "crPut", o)) \/ (\E o : Keep(q, "depPut", o))
    BY <1>13, Zenon
    DEF loadAppCRD, readAppDeployment, At, Idle, Resting, store, cluster, names, history
  <2>2. {"uLoad", "depGet", "crPut", "depPut"} \subseteq Places \ {"row"}  BY Zenon DEF Places
  <2>. QED  BY <1>6, <2>1, <2>2, Zenon
<1>14. CASE UpdateCR(q) \/ updateAppDeployment(q)
  <2>1. /\ ~Idle(q) /\ UNCHANGED <<objs, row, dns, waiter, late, expired, blurred>>
        /\ req[q].pc \notin {"dCert", "dDns"}
        /\ Fail(q) \/ Go(q, "event") \/ (\E o : Keep(q, "mirror", o))
    BY <1>14, Zenon
    DEF UpdateCR, updateAppDeployment, At, Idle, Resting, store, names, history
  <2>2. {"event", "mirror"} \subseteq Places \ {"row"}  BY Zenon DEF Places
  <2>. QED  BY <1>6, <2>1, <2>2, Zenon
<1>15. CASE CollectAppStatus(q) \/ DeleteReads(q)
  <2>1. /\ ~Idle(q) /\ UNCHANGED <<objs, row, dns, waiter, late, expired>>
        /\ blurred \subseteq blurred' /\ req[q].pc \notin {"dCert", "dDns"}
        /\ \/ Fail(q)
           \/ \E pc \in {"sLoad", "sDomains", "mirror", "dObjects"} :
                 Go(q, pc) \/ GoDespiteError(q, pc) \/ \E o : Keep(q, pc, o)
    BY <1>15, Zenon
    DEF CollectAppStatus, DeleteReads, GoDespiteError, At, Idle, Resting, store, cluster, names,
        history
  <2>2. {"sLoad", "sDomains", "mirror", "dObjects"} \subseteq Places \ {"row"}
    BY Zenon DEF Places, Deleting
  <2>. QED  BY <1>6, <2>1, <2>2, Zenon
<1>16. CASE DeleteRows(q)
  <2>1. /\ ~Idle(q) /\ UNCHANGED <<objs, dns, waiter, late, expired>>
        /\ blurred \subseteq blurred' /\ req[q].pc \in {"dDomains", "dMirror", "dRow"}
        /\ \E pc \in {"dMirror", "dRow", "event"} : Go(q, pc) \/ GoDespiteError(q, pc)
        /\ row' = row \/ row' = [row EXCEPT ![a] = IF @ = "live" THEN "deleted" ELSE @]
    BY <1>16, Zenon
    DEF DeleteRows, GoDespiteError, At, Idle, Resting, store, cluster, names, history
  <2>2. {"dMirror", "dRow", "event"} \subseteq Places \ {"row"}  BY Zenon DEF Places, Deleting
  <2>3. \A b \in Apps : row'[b] = "absent" <=> row[b] = "absent"
    <3>1. ASSUME NEW b \in Apps, row' = [row EXCEPT ![a] = IF @ = "live" THEN "deleted" ELSE @]
          PROVE  row'[b] = "absent" <=> row[b] = "absent"
      <4>1. CASE b = a  BY <1>1, <3>1, <4>1, Zenon DEF Types
      <4>2. CASE b # a  BY <1>1, <3>1, <4>2, Zenon DEF Types
      <4>. QED  BY <4>1, <4>2, Zenon
    <3>. QED  BY <2>1, <3>1, Zenon
  <2>4. req[q].pc \notin {"dCert", "dDns"}  BY <2>1, Zenon
  <2>. QED  BY <1>1, <2>1, <2>2, <2>3, <2>4, MovesRoute, Zenon
<1>17. CASE ReadRows(q) \/ domainStatuses(q)
  <2>1. /\ ~Idle(q) /\ UNCHANGED <<objs, row, dns, waiter, late, expired, blurred>>
        /\ req[q].pc \in {"sRead", "sDomains"}
    BY <1>17, Zenon
    DEF ReadRows, domainStatuses, At, Idle, Resting, store, cluster, names, history
  <2>2. CASE Go(q, "sCollect") \/ Fail(q) \/ Finish(q)
    <3>1. "sCollect" \in Places \ {"row"} /\ req[q].pc \notin {"dCert", "dDns"}
      BY <2>1, Zenon DEF Places
    <3>. QED  BY <1>6, <2>1, <2>2, <3>1, Zenon
  <2>3. ASSUME NEW new, req' = [req EXCEPT ![q] = new], new.pc \in {"sDomains", "sCollect"}
        PROVE  \A b \in Apps : Routed(b)'
    <3>1. DOMAIN req = Procs  BY <1>1, Zenon DEF Types
    <3>2. req'[q] = new /\ Rest(q)  BY <2>3, <3>1, Zenon DEF Rest
    <3>. SUFFICES ASSUME NEW b \in Apps PROVE Routed(b)'
      BY Zenon
    <3>3. (Wired(b) => Wired(b)') /\ (Cleaned(b) => Cleaned(b)')  BY <1>1, <2>1, Zenon DEF Wired, Cleaned
    <3>4. req'[q].pc # "row" /\ ~Erases(req[q], spec[b].host)
      BY <2>1, <2>3, <3>2, Zenon DEF Erases
    <3>. QED  BY <1>1, <2>1, <3>2, <3>3, <3>4, RequestRoutes, Zenon
  <2>4. CASE \E t : req' = [req EXCEPT ![q].todo = t, ![q].pc = "sDomains"]
    <3>1. PICK t : req' = [req EXCEPT ![q].todo = t, ![q].pc = "sDomains"]  BY <2>4, Zenon
    <3>2. DOMAIN req[q] = RequestFields  BY <1>1, Zenon DEF RequestOK
    <3>. DEFINE new == [req[q] EXCEPT !.todo = t, !.pc = "sDomains"]
    <3>3. new.pc = "sDomains"  BY <3>2 DEF RequestFields
    <3>4. req' = [req EXCEPT ![q] = new]  BY <3>1, Zenon
    <3>. HIDE DEF new
    <3>. QED  BY <2>3, <3>3, <3>4, Zenon
  <2>5. CASE \E b \in req[q].todo :
                req' = [req EXCEPT ![q].app = b, ![q].todo = @ \ {b}, ![q].pc = "sCollect"]
    <3>1. PICK b \in req[q].todo :
                 req' = [req EXCEPT ![q].app = b, ![q].todo = @ \ {b}, ![q].pc = "sCollect"]
      BY <2>5, Zenon
    <3>2. DOMAIN req[q] = RequestFields  BY <1>1, Zenon DEF RequestOK
    <3>. DEFINE new == [req[q] EXCEPT !.app = b, !.todo = @ \ {b}, !.pc = "sCollect"]
    <3>3. new.pc = "sCollect"  BY <3>2 DEF RequestFields
    <3>4. req' = [req EXCEPT ![q] = new]  BY <3>1, Zenon
    <3>. HIDE DEF new
    <3>. QED  BY <2>3, <3>3, <3>4, Zenon
  <2>. QED  BY <1>17, <2>2, <2>4, <2>5, Zenon DEF ReadRows, domainStatuses
<1>18. ASSUME req[q].pc \in Building, NEW pc, Go(q, pc), pc = "row" => ~HasIngress(spec[a]),
              pc \notin {"dCert", "dDns"}, NEW k, objs' = [objs EXCEPT ![a] = @ \cup {k}],
              UNCHANGED <<row, blurred, dns, waiter, late, expired>>
       PROVE  \A b \in Apps : Routed(b)'
  <2>1. Rest(q) /\ req'[q].pc = pc /\ req'[q].app = req[q].app
    BY <1>1, <1>18, GoMoves, Zenon DEF Onward
  <2>2. \A b \in Apps : b # a => objs'[b] = objs[b]  BY <1>1, <1>18, Zenon DEF Types
  <2>3. (req'[q].pc = "row" => ~HasIngress(spec[App(q)])) /\ req'[q].pc \notin {"dCert", "dDns"}
    BY <1>18, <2>1, Zenon
  <2>. QED  BY <1>1, <1>18, <2>1, <2>2, <2>3, BuildRoutes, Zenon
<1>19. CASE ApplyDeployment(q) \/ ApplyService(q)
  <2>1. /\ UNCHANGED <<row, blurred, dns, waiter, late, expired>>
        /\ req[q].pc \in {"workload", "envFrom", "service"}
        /\ \E k : objs' = [objs EXCEPT ![a] = @ \cup {k}]
        /\ Go(q, "envFrom") \/ Go(q, AfterWorkload(spec[a])) \/ Go(q, AfterService(spec[a]))
    BY <1>19, Zenon DEF ApplyDeployment, ApplyService, At, store, names, history, SpecOf
  <2>2. req[q].pc \in Building  BY <2>1, Zenon DEF Building
  <2>3. ASSUME NEW pc \in {"envFrom", AfterWorkload(spec[a]), AfterService(spec[a])}
        PROVE  (pc = "row" => ~HasIngress(spec[a])) /\ pc \notin {"dCert", "dDns"}
    BY Zenon DEF AfterWorkload, AfterService, HasIngress
  <2>. QED  BY <1>18, <2>1, <2>2, <2>3, Zenon
<1>20. CASE ApplyIngress(q)
  <2>1. CASE At(q, "cert") /\ GoDespiteError(q, "ingress")
    <3>1. /\ ~Idle(q) /\ UNCHANGED <<objs, row, dns, waiter, late, expired>>
          /\ blurred \subseteq blurred' /\ req[q].pc \notin {"dCert", "dDns"}
      BY <2>1, Zenon DEF GoDespiteError, At, Idle, Resting, store, cluster, names
    <3>2. "ingress" \in Places \ {"row"}  BY Zenon DEF Places, Building
    <3>. QED  BY <1>6, <2>1, <3>1, <3>2, Zenon
  <2>2. CASE ~(At(q, "cert") /\ GoDespiteError(q, "ingress"))
    <3>1. /\ UNCHANGED <<row, blurred, dns, waiter, late, expired>>
          /\ req[q].pc \in {"cert", "ingress"}
          /\ \E k : objs' = [objs EXCEPT ![a] = @ \cup {k}]
          /\ \E pc \in {"ingress", "domain"} : Go(q, pc)
      BY <1>20, <2>2, Zenon DEF ApplyIngress, At, store, names, history
    <3>2. req[q].pc \in Building  BY <3>1, Zenon DEF Building
    <3>. QED  BY <1>18, <3>1, <3>2, Zenon
  <2>. QED  BY <2>1, <2>2, Zenon
<1>21. CASE applyRawManifest(q)
  <2>1. /\ UNCHANGED <<row, blurred, dns, waiter, late, expired>> /\ req[q].pc = "raw"
        /\ Go(q, "row") \/ (\E i : req' = [req EXCEPT ![q].doc = i])
        /\ objs' = objs \/ \E k : objs' = [objs EXCEPT ![a] = @ \cup {k}]
    BY <1>21, Zenon DEF applyRawManifest, At, store, names, history
  <2>2. req[q].pc \in Building /\ ~HasIngress(spec[a])
    BY <1>1, <2>1, Zenon DEF Building, Held, HeldBy, HasIngress
  <2>3. Rest(q) /\ req'[q].app = req[q].app /\ req'[q].pc \in {"row", "raw"}
    <3>1. CASE Go(q, "row")  BY <1>1, <3>1, GoMoves, Zenon DEF Onward
    <3>2. CASE \E i : req' = [req EXCEPT ![q].doc = i]
      <4>1. PICK i : req' = [req EXCEPT ![q].doc = i]  BY <3>2, Zenon
      <4>2. DOMAIN req = Procs /\ DOMAIN req[q] = RequestFields
        BY <1>1, Zenon DEF Types, RequestOK
      <4>. DEFINE new == [req[q] EXCEPT !.doc = i]
      <4>3. new.pc = req[q].pc /\ new.app = req[q].app  BY <4>2 DEF RequestFields
      <4>4. req'[q] = new /\ Rest(q)  BY <4>1, <4>2 DEF Rest
      <4>. HIDE DEF new
      <4>. QED  BY <2>1, <4>3, <4>4, Zenon
    <3>. QED  BY <2>1, <3>1, <3>2, Zenon
  <2>4. \A b \in Apps : b # a => objs'[b] = objs[b]  BY <1>1, <2>1, Zenon DEF Types
  <2>5. req'[q].pc \notin {"dCert", "dDns"}  BY <2>3, Zenon
  <2>. QED  BY <1>1, <2>1, <2>2, <2>3, <2>4, <2>5, BuildRoutes, Zenon
<1>. QED
  BY <1>2, <1>3, <1>4, <1>5, <1>7, <1>8, <1>9, <1>10, <1>11, <1>12, <1>13, <1>14, <1>15, <1>16,
     <1>17, <1>19, <1>20, <1>21, Zenon
  DEF Step

\* So does the goroutine: it writes the record of an app whose Ingress is
\* there, or was there when DeleteApp removed the record.
LEMMA BackgroundRoutes ==
    ASSUME AppsInv, \A b \in Apps : Routed(b), NEW a \in Apps, Background(a)
    PROVE  \A b \in Apps : Routed(b)'
<1>1. Types /\ AppOK(a) /\ Routed(a)  BY Zenon DEF AppsInv
<1>2. UNCHANGED <<spec, row, objs, req, blurred>>
  BY Zenon DEF Background, WaiterGivesUp, AssignAddress, store, cluster, history
<1>3. ASSUME NEW b \in Apps, OwnHost(b) => (Wired(b) => Wired(b)') /\ (Cleaned(b) => Cleaned(b)')
      PROVE  Routed(b)'
  <2>1. (OwnHost(b)' => OwnHost(b)) /\ (AtRow(b)' => AtRow(b)) /\ (Erasing(b) => Erasing(b)')
    BY <1>2, Zenon DEF OwnHost, AtRow, Erasing, App
  <2>. QED  BY <1>2, <1>3, <2>1, RoutedStays, Zenon
<1>4. CASE AssignAddress(a) /\ UNCHANGED names
  <2>1. UNCHANGED <<dns, waiter, late, expired>>  BY <1>4, Zenon DEF names
  <2>. QED  BY <1>2, <1>3, <2>1, Zenon DEF Wired, Cleaned
<1>5. CASE WaiterGivesUp(a)
  <2>1. /\ waiter' = [waiter EXCEPT ![a] = "none"] /\ expired' = expired \cup {a}
        /\ UNCHANGED <<dns, late>>
    BY <1>5, Zenon DEF WaiterGivesUp
  <2>2. waiter'[a] = "none" /\ \A b \in Apps \ {a} : waiter'[b] = waiter[b]
    BY <1>1, <2>1, Zenon DEF Types
  <2>3. ASSUME NEW b \in Apps PROVE (Wired(b) => Wired(b)') /\ (Cleaned(b) => Cleaned(b)')
    <3>1. CASE b = a  BY <1>2, <2>1, <2>2, <3>1, Zenon DEF Wired, Cleaned
    <3>2. CASE b # a  BY <1>2, <2>1, <2>2, <3>2, Zenon DEF Wired, Cleaned
    <3>. QED  BY <3>1, <3>2, Zenon
  <2>. QED  BY <1>3, <2>3, Zenon
<1>6. ASSUME NEW w \in {"none", "write"}, waiter' = [waiter EXCEPT ![a] = w],
             UNCHANGED <<late, expired>>, Routed(a)',
             \A b \in Apps : b # a /\ OwnHost(b) => dns'[spec[b].host] = dns[spec[b].host]
      PROVE  \A b \in Apps : Routed(b)'
  <2>. SUFFICES ASSUME NEW b \in Apps, b # a PROVE Routed(b)'
    BY <1>6, Zenon
  <2>1. waiter'[b] = waiter[b]  BY <1>1, <1>6, Zenon DEF Types
  <2>. QED  BY <1>2, <1>3, <1>6, <2>1, Zenon DEF Wired, Cleaned
<1>7. CASE waitForLoadBalancerAddrs(a)
  <2>1. PICK w \in {"none", "write"} :
          /\ waiter' = [waiter EXCEPT ![a] = w] /\ (IsLB(a) <=> w = "write")
          /\ UNCHANGED <<dns, late, expired>>
    BY <1>7, Zenon DEF waitForLoadBalancerAddrs
  <2>2. waiter'[a] = w  BY <1>1, <2>1, Zenon DEF Types
  <2>3. Routed(a)'
    <3>. SUFFICES ASSUME OwnHost(a)', a \notin blurred'
                  PROVE  /\ AtRow(a)' => "ingress" \in objs'[a]
                         /\ (row'[a] # "absent" \/ AtRow(a)') /\ IsLB(a)' => Wired(a)'
                         /\ row'[a] # "absent" /\ "ingress" \notin objs'[a] =>
                              "service" \notin objs'[a] /\ (Erasing(a)' \/ Cleaned(a)')
      BY Zenon DEF Routed
    <3>1. /\ OwnHost(a) /\ a \notin blurred /\ (AtRow(a)' => AtRow(a))
          /\ (Erasing(a) => Erasing(a)') /\ (IsLB(a)' => IsLB(a))
      BY <1>2, Zenon DEF OwnHost, AtRow, Erasing, App, IsLB
    <3>2. IsLB(a) => Wired(a)'  BY <2>1, <2>2, Zenon DEF Wired
    <3>3. ASSUME Cleaned(a), "service" \notin objs[a] PROVE Cleaned(a)'
      <4>1. w = "none"  BY <2>1, <3>3, Zenon DEF IsLB
      <4>. QED  BY <1>2, <2>1, <2>2, <3>3, <4>1, Zenon DEF Cleaned
    <3>. QED  BY <1>1, <1>2, <3>1, <3>2, <3>3, Zenon DEF Routed
  <2>. QED  BY <1>6, <2>1, <2>3, Zenon
<1>8. CASE waitForServiceDNS(a)
  <2>1. /\ waiter[a] = "write" /\ waiter' = [waiter EXCEPT ![a] = "none"]
        /\ dns' = [dns EXCEPT ![spec[a].host] = a] /\ UNCHANGED <<late, expired>>
    BY <1>8, Zenon DEF waitForServiceDNS
  <2>2. spec[a] # None  BY <1>1, <2>1, Zenon DEF AppOK
  <2>3. ASSUME NEW b \in Apps, OwnHost(b) PROVE spec[b].host \in Hosts
    <3>1. spec[b] \in AppSpec /\ spec[b].host # None
      BY <1>1, <2>3, AppsAssumption, Zenon DEF Types, OwnHost, HasIngress
    <3>. QED  BY <3>1, Zenon DEF AppSpec
  <2>4. ASSUME NEW b \in Apps, b # a, OwnHost(b) PROVE dns'[spec[b].host] = dns[spec[b].host]
    <3>1. spec[b].host # spec[a].host /\ spec[b].host \in Hosts
      BY <2>2, <2>3, <2>4, Zenon DEF OwnHost
    <3>. QED  BY <1>1, <2>1, <3>1, Zenon DEF Types
  <2>5. ASSUME OwnHost(a) PROVE Wired(a)' /\ (Cleaned(a) => Cleaned(a)')
    <3>1. dns'[spec'[a].host] = a  BY <1>1, <1>2, <2>1, <2>3, <2>5, Zenon DEF Types
    <3>. QED  BY <2>1, <3>1, Zenon DEF Wired, Cleaned
  <2>6. Routed(a)'  BY <1>3, <2>5, Zenon
  <2>. QED  BY <1>6, <2>1, <2>4, <2>6, Zenon
<1>. QED  BY <1>4, <1>5, <1>7, <1>8, Zenon DEF Background

\* And every start: a host that becomes shared is no longer followed.
LEMMA StartRoutes ==
    ASSUME AppsInv, \A b \in Apps : Routed(b), NEW q \in Procs, Start(q)
    PROVE  \A b \in Apps : Routed(b)'
<1>1. ASSUME NEW op, NEW pc, pc # "row", NEW a, NEW v, NEW rv, Begin(q, op, pc, a, v, rv)
      PROVE  /\ UNCHANGED <<row, objs, dns, waiter, late, expired, blurred>>
             /\ \A b \in Apps : AtRow(b)' => AtRow(b)
             /\ \A b \in Apps : spec'[b] = spec[b] /\ Erasing(b) => Erasing(b)'
  <2>1. Idle(q) /\ UNCHANGED <<row, objs, dns, waiter, late, expired, blurred>>
    BY <1>1, Zenon DEF Begin, store, cluster, names
  <2>2. Begun(q, op, pc, a, v)  BY <1>1, BeginMoves, Zenon DEF AppsInv
  <2>3. ASSUME NEW b \in Apps, NEW r \in Procs, req'[r].app = b, req'[r].pc = "row"
        PROVE  req[r].app = b /\ req[r].pc = "row"
    <3>1. r # q  BY <1>1, <2>2, <2>3, Zenon DEF Begun
    <3>2. ~Idle(r)  BY <2>2, <2>3, <3>1, FreeSlot, Zenon DEF Begun
    <3>. QED  BY <2>2, <2>3, <3>1, <3>2, Zenon DEF Begun
  <2>4. ASSUME NEW b \in Apps, spec'[b] = spec[b], NEW r \in Procs, req[r].app = b,
               Erases(req[r], spec[b].host)
        PROVE  req'[r].app = b /\ Erases(req'[r], spec'[b].host)
    <3>1. ~Idle(r)  BY <2>4, Zenon DEF Erases, Idle, Resting
    <3>2. r # q  BY <2>1, <3>1, Zenon
    <3>3. req'[r].app = req[r].app /\ req'[r].pc = req[r].pc /\ req'[r].host = req[r].host
      BY <2>2, <3>1, <3>2, Zenon DEF Begun
    <3>. QED  BY <2>4, <3>3, Zenon DEF Erases
  <2>. QED  BY <2>1, <2>3, <2>4, Zenon DEF AtRow, Erasing, App
<1>2. CASE Asking(q)
  <2>1. PICK op \in AllOps \ {"deploy"}, pc \in {"gate", "depGet", "wRead", "sRead"},
             a \in Apps \cup {None}, v \in Vals, rv \in {0} \cup {cr[b].rv : b \in Apps} :
          /\ Begin(q, op, pc, a, v, rv) /\ UNCHANGED spec
          /\ (a \in Apps /\ row[a] # "absent") \/ (a = None /\ op = "list")
          /\ ControlOK([op |-> op, pc |-> pc])
    BY <1>2, Zenon DEF Asking
  <2>2. pc # "row"  BY Zenon
  <2>3. /\ UNCHANGED <<row, objs, dns, waiter, late, expired, blurred, spec>>
        /\ \A b \in Apps : (AtRow(b)' => AtRow(b)) /\ (Erasing(b) => Erasing(b)')
    BY <1>1, <2>1, <2>2, Zenon
  <2>. SUFFICES ASSUME NEW b \in Apps PROVE Routed(b)'
    BY Zenon
  <2>4. /\ OwnHost(b)' => OwnHost(b)
        /\ (Wired(b) => Wired(b)') /\ (Cleaned(b) => Cleaned(b)')
    BY <2>3, Zenon DEF OwnHost, Wired, Cleaned
  <2>. QED  BY <2>3, <2>4, RoutedStays, Zenon
<1>3. CASE \E a \in Apps, s \in Specs : DeployApp(q, a, s)
  <2>1. PICK a \in Apps, s \in Specs : DeployApp(q, a, s)  BY <1>3, Zenon
  <2>2. /\ Begin(q, "deploy", "gate", a, 0, 0) /\ spec[a] = None
        /\ spec' = [spec EXCEPT ![a] = s]
    BY <2>1, Zenon DEF DeployApp
  <2>3. /\ UNCHANGED <<row, objs, dns, waiter, late, expired, blurred>>
        /\ \A b \in Apps : AtRow(b)' => AtRow(b)
        /\ \A b \in Apps : spec'[b] = spec[b] /\ Erasing(b) => Erasing(b)'
    BY <1>1, <2>2, Zenon
  <2>4. \A b \in Apps \ {a} : spec'[b] = spec[b]  BY <2>2, Zenon DEF AppsInv, Types
  <2>5. Routed(a)'
    <3>1. row'[a] = "absent"  BY <2>2, <2>3, Zenon DEF AppsInv, AppOK
    <3>2. ~AtRow(a)
      <4>. SUFFICES ASSUME NEW r \in Procs, App(r) = a, req[r].pc = "row" PROVE FALSE
        BY Zenon DEF AtRow
      <4>1. RequestOK(req[r]) /\ Held(req[r], App(r))  BY Zenon DEF AppsInv, Types
      <4>2. req[r].op = "deploy"  BY <4>1, Zenon DEF RequestOK, ControlOK, Building
      <4>. QED  BY <2>2, <4>1, <4>2, Zenon DEF Held, HeldBy, Resting
    <3>. QED  BY <2>3, <3>1, <3>2, Zenon DEF Routed
  <2>6. ASSUME NEW b \in Apps, b # a PROVE Routed(b)'
    <3>1. spec'[b] = spec[b]  BY <2>4, <2>6, Zenon
    <3>2. OwnHost(b)' => OwnHost(b)
      <4>. SUFFICES ASSUME OwnHost(b)', NEW c \in Apps \ {b}, spec[c] # None
                    PROVE  spec[c].host # spec[b].host
        BY <3>1, Zenon DEF OwnHost
      <4>1. spec'[c] = spec[c]  BY <2>2, <2>4, Zenon
      <4>. QED  BY <3>1, <4>1, Zenon DEF OwnHost
    <3>3. (Wired(b) => Wired(b)') /\ (Cleaned(b) => Cleaned(b)')
      BY <2>3, <3>1, Zenon DEF Wired, Cleaned
    <3>. QED  BY <2>3, <2>6, <3>1, <3>2, <3>3, RoutedStays, Zenon
  <2>. QED  BY <2>5, <2>6, Zenon
<1>. QED  BY <1>2, <1>3, StartIs, Zenon

\* DnsTracksApp: the record of a host that one app uses is there, or a
\* goroutine is on its way to write it, as long as the app lives with its load
\* balancer, and it is gone for good with the app, for any number of apps,
\* hosts and overlapping requests (ensureDNSForService, waitForServiceDNS,
\* DeleteApp).
THEOREM RecordsFollowApps == Spec => []DnsTracksApp
<1>. DEFINE AllRouted == \A b \in Apps : Routed(b)
<1>1. Init => AllRouted
  <2>. SUFFICES ASSUME Init, NEW b \in Apps PROVE Routed(b)
    BY Zenon
  <2>1. spec[b] = None  BY Zenon DEF Init
  <2>. QED  BY <2>1, Zenon DEF Routed, OwnHost
<1>2. AppsInv /\ AllRouted /\ [Next]_vars => AllRouted'
  <2>. SUFFICES ASSUME AppsInv, AllRouted, [Next]_vars PROVE AllRouted'
    BY Zenon
  <2>1. CASE UNCHANGED vars
    <3>1. UNCHANGED <<spec, row, objs, req, blurred, dns, waiter, late, expired>>
      BY <2>1, Zenon DEF vars, store, cluster, names, history
    <3>. SUFFICES ASSUME NEW b \in Apps PROVE Routed(b)'
      BY Zenon
    <3>2. /\ OwnHost(b)' => OwnHost(b)
          /\ (AtRow(b)' => AtRow(b)) /\ (Erasing(b) => Erasing(b)')
          /\ (Wired(b) => Wired(b)') /\ (Cleaned(b) => Cleaned(b)')
      BY <3>1, Zenon DEF OwnHost, AtRow, Erasing, App, Wired, Cleaned
    <3>. QED  BY <3>1, <3>2, RoutedStays, Zenon
  <2>2. CASE Next
    BY <2>2, StartRoutes, StepRoutes, BackgroundRoutes, Zenon DEF Next
  <2>. QED  BY <2>1, <2>2, Zenon
<1>3. AppsInv /\ AllRouted => DnsTracksApp
  <2>. SUFFICES ASSUME AppsInv, AllRouted, NEW a \in Apps, OwnHost(a), NoRequestOn(a), a \notin blurred
                PROVE  /\ row[a] = "deleted" => dns[spec[a].host] # a \/ a \in late
                       /\ row[a] = "live" /\ IsLB(a) =>
                            dns[spec[a].host] = a \/ waiter[a] # "none" \/ a \in expired
    BY Zenon DEF DnsTracksApp
  <2>1. ~Erasing(a)
    BY Zenon DEF Erasing, Erases, NoRequestOn, Idle, Resting
  <2>2. row[a] = "deleted" => "ingress" \notin objs[a]
    BY Zenon DEF AppsInv, AppOK
  <2>. QED  BY <2>1, <2>2, Zenon DEF Routed, Wired, Cleaned
<1>. QED  BY <1>1, <1>2, <1>3, AppsInductive, PTL DEF Spec
=============================================================================
