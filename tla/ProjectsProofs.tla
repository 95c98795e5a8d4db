--------------------------- MODULE ProjectsProofs ---------------------------
(***************************************************************************)
(* What is proved of the projects and of what tenants bring to them.       *)
(* Projects: for every number of projects, namespaces, quota values and    *)
(* requests, in dedicated and in shared mode. DnsProviders: a call that    *)
(* runs alone leaves exactly the records it wants. Credentials: what is    *)
(* stored can be used, and is used for its owner only. Admission: no       *)
(* admitted object lets a tenant reach into another.                       *)
(***************************************************************************)
EXTENDS Projects, DnsProviders, Credentials, Admission, TLAPS

-----------------------------------------------------------------------------
(* The inductive invariant.                                                *)

\* Where each operation can be.
Route ==
    [create |-> {"gate", "place", "apply", "space", "limits", "insert", "event"},
     suspend |-> {"gate", "read", "apply", "store", "event"},
     unsuspend |-> {"gate", "read", "apply", "store", "event"},
     quota |-> {"gate", "read", "apply", "store", "event"},
     delete |-> {"gate", "read", "drop", "softDelete", "event"},
     deleteUser |-> {"drop", "softDelete"}]

Changing == {"suspend", "unsuspend", "quota"}

Control(q) ==
    /\ ~Idle(q) => /\ req[q].op \in AllOps \ {"maintenance"}
                   /\ req[q].pc \in Route[req[q].op]
    /\ req[q].pc # "idle" => req[q].op \in AllOps \ {"maintenance"}
    /\ req[q].pc # "idle" /\ req[q].op # "deleteUser" => req[q].proj \in Projects
    /\ req[q].pc # "gate" /\ req[q].pc # "failed" /\ req[q].op \in Changing => ~shared
    /\ req[q].pc \in {"space", "limits"} => shared

\* A request under maintenance has not passed the gate.
Gated(q) ==
    req[q].under => maint /\ (req[q].op # "deleteUser" => req[q].pc \in {"gate", "failed"})

\* Nobody else is in flight.
Alone(q) == req[q].solo => \A r \in Procs : r # q => Idle(r)

\* How far a request that runs alone has brought its project.
Progress(q) ==
    LET p == req[q].proj
        n == Place(q) IN
    req[q].solo =>
        /\ req[q].op = "create" /\ req[q].pc \in {"space", "limits", "insert"} =>
              n \in ns /\ quota[n] = IF shared THEN Default ELSE req[q].arg
        /\ req[q].op = "create" /\ req[q].pc = "insert" /\ shared => p \in limits
        /\ req[q].op = "suspend" /\ req[q].pc = "store" => quota[n] = "zero"
        /\ req[q].op = "unsuspend" /\ req[q].pc = "apply" => req[q].saw = overrides[p]
        /\ req[q].op = "unsuspend" /\ req[q].pc = "store" => quota[n] = overrides[p]
        /\ req[q].op = "quota" /\ req[q].pc = "store" => quota[n] = req[q].arg
        /\ req[q].op = "delete" /\ req[q].pc \in {"drop", "softDelete"} => row[p] = "live"
        /\ req[q].op = "delete" /\ req[q].pc = "softDelete" =>
              IF shared THEN req[q].lost \/ p \notin limits
                        ELSE n \notin ns /\ quota[n] = None
        /\ req[q].pc \in {"event", "done"} => Settled(q)

IInv ==
    /\ TypeOK
    /\ \A q \in Procs : Control(q) /\ Gated(q) /\ Alone(q) /\ Progress(q)

-----------------------------------------------------------------------------
(* A step of one request.                                                  *)

\* What every step of a request that is under way keeps.
Moved(q) ==
    /\ req' \in [Procs -> Request]
    /\ calm' \in BOOLEAN
    /\ \A r \in Procs : r # q => req'[r] = req[r]
    /\ req'[q].op = req[q].op /\ req'[q].proj = req[q].proj
    /\ req'[q].arg = req[q].arg /\ req'[q].solo = req[q].solo
    /\ req'[q].under = req[q].under

\* Going to another place keeps the locals.
LEMMA GoFacts ==
    ASSUME TypeOK, NEW q \in Procs, NEW x \in Pcs, Go(q, x)
    PROVE  /\ Moved(q) /\ req'[q].pc = x
           /\ req'[q].saw = req[q].saw /\ req'[q].lost = req[q].lost
  BY Zenon DEF TypeOK, Go, Request, Moved

\* So does going on after an error that is dropped, which is remembered.
LEMMA GoDespiteFacts ==
    ASSUME TypeOK, NEW q \in Procs, NEW x \in Pcs, GoDespiteError(q, x)
    PROVE  /\ Moved(q) /\ req'[q].pc = x
           /\ req'[q].saw = req[q].saw /\ req'[q].lost = TRUE
  <1>1. req'[q] = [req[q] EXCEPT !.pc = x, !.lost = TRUE]
    BY DEF TypeOK, GoDespiteError
  <1>2. \A r \in Procs : r # q => req'[r] = req[r]
    BY DEF TypeOK, GoDespiteError
  <1>3. req'[q] \in Request
    BY <1>1, Zenon DEF TypeOK, Request
  <1>4. req' \in [Procs -> Request]
    BY <1>2, <1>3 DEF TypeOK, GoDespiteError
  <1>5. calm' \in BOOLEAN
    BY Zenon DEF GoDespiteError
  <1> QED BY <1>1, <1>2, <1>4, <1>5 DEF TypeOK, Request, Moved

\* Rows and objects stay in their domains; the flag is not touched.
StoresTyped ==
    /\ row' \in [Projects -> {"absent", "live", "deleted"}]
    /\ suspended' \in [Projects -> BOOLEAN]
    /\ overrides' \in [Projects -> Quotas]
    /\ space' \subseteq Namespaces
    /\ ns' \subseteq Namespaces
    /\ quota' \in [Namespaces -> Quotas \cup {"zero", None}]
    /\ limits' \subseteq Projects
    /\ maint' = maint /\ shared' = shared

\* A step that leaves the stores alone.
LEMMA SameStores == TypeOK /\ UNCHANGED <<tables, cluster, maint>> => StoresTyped
  BY DEF TypeOK, StoresTyped, tables, cluster

\* Nobody else's progress depends on a step of q: a request that runs alone
\* has nobody under way beside it.
LEMMA MoveStep ==
    ASSUME IInv, NEW q \in Procs, ~Idle(q), Moved(q), StoresTyped,
           Control(q)', req[q].under => req'[q].pc \in {"gate", "failed"}
                                        \/ req[q].op = "deleteUser",
           Progress(q)'
    PROVE  IInv'
  <1>1. TypeOK'
    BY DEF IInv, TypeOK, Moved, StoresTyped
  <1>2. ASSUME NEW r \in Procs PROVE Control(r)'
    BY <1>2, Zenon DEF StoresTyped, IInv, Control, Moved, Idle
  <1>3. ASSUME NEW r \in Procs PROVE Gated(r)'
    BY <1>3 DEF IInv, Gated, Moved, StoresTyped
  <1>4. ASSUME NEW r \in Procs PROVE Alone(r)'
    BY <1>4 DEF IInv, Alone, Moved, Idle
  <1>5. ASSUME NEW r \in Procs, r # q PROVE Progress(r)'
    <2>1. ~req[r].solo /\ req'[r] = req[r]
      BY <1>5 DEF IInv, Alone, Moved
    <2> QED BY <2>1, Zenon DEF Progress
  <1> QED BY <1>1, <1>2, <1>3, <1>4, <1>5 DEF IInv

\* A request that fails keeps nothing of its progress.
LEMMA ErrorStep ==
    ASSUME IInv, NEW q \in Procs, ~Idle(q), Error(q), StoresTyped
    PROVE  IInv'
  <1>1. Moved(q) /\ req'[q].pc = "failed"
    <2>1. req'[q] = [req[q] EXCEPT !.pc = "failed"]
      BY DEF IInv, TypeOK, Error
    <2>2. req' \in [Procs -> Request] /\ \A r \in Procs : r # q => req'[r] = req[r]
      BY DEF IInv, TypeOK, Error, Request, Pcs, Resting
    <2>3. calm' \in BOOLEAN
      BY DEF IInv, TypeOK, Error
    <2> QED BY <2>1, <2>2, <2>3 DEF IInv, TypeOK, Moved, Request
  <1>2. Control(q)' /\ Progress(q)'
    BY <1>1, Zenon DEF IInv, Control, Progress, Idle, Resting, Moved
  <1> QED BY <1>1, <1>2, MoveStep

\* Facts about a request under way.
LEMMA Underway ==
    ASSUME IInv, NEW q \in Procs, ~Idle(q)
    PROVE  /\ req[q] \in Request
           /\ req[q].op \in AllOps \ {"maintenance"} /\ req[q].pc \in Route[req[q].op]
           /\ req[q].op # "deleteUser" => req[q].proj \in Projects /\ Place(q) \in Namespaces
           /\ req[q].under /\ req[q].op # "deleteUser" => req[q].pc = "gate"
  <1>1. req[q].pc \notin Resting /\ Control(q) /\ Gated(q)
    BY DEF IInv, Idle
  <1> QED BY <1>1, Zenon DEF IInv, TypeOK, Control, Gated, Resting, Place, Home, Namespaces

-----------------------------------------------------------------------------
(* The actions.                                                            *)

\* The gate lets a request pass only while maintenance is off.
LEMMA GateStep == ASSUME IInv, NEW q \in Procs, Gate(q) PROVE IInv'
  <1> DEFINE x == IF req[q].op = "create" THEN "place" ELSE "read"
  <1>1. ~Idle(q) /\ req[q].pc = "gate" /\ StoresTyped
    BY SameStores DEF Gate, At, Idle, Resting, IInv
  <1>2. CASE Error(q)
    BY <1>1, <1>2, ErrorStep
  <1>3. CASE Go(q, x) /\ ~maint /\ ~(shared /\ req[q].op \in Changing)
    <2>1. Moved(q) /\ req'[q].pc = x
      BY <1>3, GoFacts DEF IInv, Pcs
    <2>2. req[q].op \in {"create", "suspend", "unsuspend", "quota", "delete"}
          /\ req[q].proj \in Projects
      BY <1>1, Underway DEF Route, AllOps
    <2>3. Control(q)'
      BY <1>1, <1>3, <2>1, <2>2 DEF StoresTyped, Control, Route, AllOps, Moved, Changing
    <2>4. Progress(q)'
      BY <2>1, <2>2, Zenon DEF Progress, Moved
    <2>5. ~req[q].under
      BY <1>3, Zenon DEF IInv, Gated
    <2> QED BY <1>1, <2>1, <2>3, <2>4, <2>5, MoveStep
  <1> QED BY <1>2, <1>3 DEF Gate, Changing

\* Applying the namespace promises nothing yet.
LEMMA ApplyNamespaceStep == ASSUME IInv, NEW q \in Procs, ApplyNamespace(q) PROVE IInv'
  <1>1. ~Idle(q) /\ req[q].pc = "place"
    BY DEF ApplyNamespace, At, Idle, Resting
  <1>2. req[q].op = "create" /\ req[q].proj \in Projects /\ Place(q) \in Namespaces /\ ~req[q].under
    BY <1>1, Underway DEF Route, AllOps
  <1>3. StoresTyped
    BY <1>2 DEF ApplyNamespace, StoresTyped, IInv, TypeOK, tables
  <1>4. Moved(q) /\ req'[q].pc = "apply"
    BY GoFacts DEF IInv, ApplyNamespace, Pcs
  <1>5. Control(q)' /\ Progress(q)'
    BY <1>2, <1>4 DEF Control, Progress, Route, AllOps, Moved, Changing
  <1> QED BY <1>1, <1>2, <1>3, <1>4, <1>5, MoveStep

\* Storing the user_spaces row leaves the cluster as it was.
LEMMA StoreSpaceStep == ASSUME IInv, NEW q \in Procs, StoreSpace(q) PROVE IInv'
  <1>1. ~Idle(q) /\ req[q].pc = "space"
    BY DEF StoreSpace, At, Idle, Resting
  <1>2. /\ req[q].op = "create" /\ req[q].proj \in Projects /\ Place(q) \in Namespaces
        /\ ~req[q].under /\ shared /\ Progress(q)
    BY <1>1, Underway DEF Route, AllOps, IInv, Control
  <1>3. StoresTyped /\ ns' = ns /\ quota' = quota
    BY <1>2 DEF StoreSpace, StoresTyped, IInv, TypeOK, cluster
  <1>4. Moved(q) /\ req'[q].pc = "limits"
    BY GoFacts, Zenon DEF IInv, StoreSpace, Pcs
  <1>5. Control(q)'
    BY <1>3, <1>2, <1>4, SMTT(40) DEF StoresTyped, Control, Route, AllOps, Moved, Changing
  <1>6. Progress(q)'
    BY <1>1, <1>2, <1>3, <1>4, Zenon DEF StoresTyped, Progress, Moved, Place, Home
  <1> QED BY <1>1, <1>2, <1>3, <1>4, <1>5, <1>6, MoveStep, Zenon

\* The LimitRange is applied, or the creation fails.
LEMMA ApplyProjectLimitsStep ==
    ASSUME IInv, NEW q \in Procs, ApplyProjectLimits(q) PROVE IInv'
  <1>1. ~Idle(q) /\ req[q].pc = "limits"
    BY Zenon DEF ApplyProjectLimits, At, Idle, Resting
  <1>2. /\ req[q].op = "create" /\ req[q].proj \in Projects /\ Place(q) \in Namespaces
        /\ ~req[q].under /\ Progress(q)
    BY <1>1, Underway DEF Route, AllOps, IInv
  <1>3. StoresTyped /\ ns' = ns /\ quota' = quota
    BY <1>2 DEF ApplyProjectLimits, StoresTyped, IInv, TypeOK, tables
  <1>4. CASE Error(q)
    BY <1>1, <1>3, <1>4, ErrorStep
  <1>5. CASE Go(q, "insert") /\ limits' = limits \cup {req[q].proj}
    <2>1. Moved(q) /\ req'[q].pc = "insert"
      BY <1>5, GoFacts, Zenon DEF IInv, Pcs
    <2>2. Control(q)'
      BY <1>2, <2>1 DEF Control, Route, AllOps, Moved, Changing
    <2>3. Progress(q)'
      BY <1>1, <1>2, <1>3, <1>5, <2>1, Zenon DEF StoresTyped, Progress, Moved, Place, Home
    <2> QED BY <1>1, <1>2, <1>3, <2>1, <2>2, <2>3, MoveStep
  <1> QED BY <1>4, <1>5 DEF ApplyProjectLimits

\* The row goes in last, so a creation that runs alone is settled by it.
LEMMA InsertProjectStep == ASSUME IInv, NEW q \in Procs, InsertProject(q) PROVE IInv'
  <1> DEFINE p == req[q].proj
  <1>1. ~Idle(q) /\ req[q].pc = "insert"
    BY Zenon DEF InsertProject, At, Idle, Resting
  <1>2. /\ req[q].op = "create" /\ p \in Projects /\ Place(q) \in Namespaces
        /\ ~req[q].under /\ Progress(q) /\ req[q].arg \in Quotas
    BY <1>1, Underway DEF Route, AllOps, IInv, Request
  <1>3. StoresTyped /\ ns' = ns /\ quota' = quota /\ limits' = limits
    BY <1>2, Zenon DEF InsertProject, StoresTyped, IInv, TypeOK, cluster
  <1>4. CASE Error(q)
    BY <1>1, <1>3, <1>4, ErrorStep, Zenon
  <1>5. CASE /\ row' = [row EXCEPT ![p] = "live"]
             /\ suspended' = [suspended EXCEPT ![p] = FALSE]
             /\ overrides' = [overrides EXCEPT ![p] = req[q].arg]
             /\ Go(q, "event")
    <2>1. Moved(q) /\ req'[q].pc = "event"
      BY <1>5, GoFacts, Zenon DEF IInv, Pcs
    <2>2. Control(q)'
      BY <1>2, <2>1 DEF Control, Route, AllOps, Moved, Changing
    <2>3. row'[p] = "live" /\ ~suspended'[p] /\ overrides'[p] = req[q].arg
      BY <1>2, <1>5 DEF IInv, TypeOK
    <2>4. req[q].solo => Settled(q)'
      BY <1>1, <1>2, <1>3, <2>1, <2>3 DEF StoresTyped, Settled, Progress, Moved, Place, Home
    <2>5. Progress(q)'
      BY <1>2, <2>1, <2>4, Zenon DEF Progress, Moved
    <2> QED BY <1>1, <1>2, <1>3, <2>1, <2>2, <2>5, MoveStep, Zenon
  <1> QED BY <1>4, <1>5 DEF InsertProject

\* What GetProject returns stays current while nobody else runs.
LEMMA GetProjectStep == ASSUME IInv, NEW q \in Procs, GetProject(q) PROVE IInv'
  <1> DEFINE p == req[q].proj
             x == IF req[q].op = "delete" THEN "drop" ELSE "apply"
  <1>1. ~Idle(q) /\ req[q].pc = "read" /\ StoresTyped
    BY SameStores DEF GetProject, At, Idle, Resting, IInv
  <1>2. /\ req[q].op \in {"suspend", "unsuspend", "quota", "delete"}
        /\ p \in Projects /\ ~req[q].under /\ Control(q)
    BY <1>1, Underway DEF Route, AllOps, IInv
  <1>3. CASE Error(q)
    BY <1>1, <1>3, ErrorStep
  <1>4. CASE /\ row[p] = "live"
             /\ req' = [req EXCEPT ![q].saw = overrides[p], ![q].pc = x]
    <2>1. req'[q] = [req[q] EXCEPT !.saw = overrides[p], !.pc = x]
      BY <1>4 DEF IInv, TypeOK
    <2>2. overrides[p] \in Quotas /\ x \in Pcs /\ req[q] \in Request
      BY <1>2 DEF IInv, TypeOK, Pcs
    <2>3. \A r \in Procs : r # q => req'[r] = req[r]
      BY <1>4 DEF IInv, TypeOK
    <2>4. req'[q] \in Request
      BY <2>1, <2>2, Zenon DEF Request
    <2>5. req' \in [Procs -> Request]
      BY <1>4, <2>3, <2>4 DEF IInv, TypeOK
    <2>6. Moved(q) /\ req'[q].pc = x /\ req'[q].saw = overrides[p]
      <3>1. calm' \in BOOLEAN
        BY <1>1, <1>4 DEF IInv, TypeOK, GetProject, Error
      <3> QED BY <3>1, <2>1, <2>2, <2>3, <2>5 DEF Moved, Request
    <2>7. Control(q)'
      BY <1>1, <1>2, <2>6, SMTT(40) DEF StoresTyped, Control, Route, AllOps, Moved, Changing
    <2>8. row' = row /\ overrides' = overrides
      BY DEF GetProject, tables
    <2>9. Progress(q)'
      BY <1>2, <1>4, <2>6, <2>8 DEF Progress, Moved
    <2> QED BY <1>1, <1>2, <2>6, <2>7, <2>9, MoveStep, Zenon
  <1> QED BY <1>3, <1>4 DEF GetProject

\* The quota a solo request applies is the one its next step relies on.
LEMMA ApplyQuotaStep == ASSUME IInv, NEW q \in Procs, ApplyQuota(q) PROVE IInv'
  <1> DEFINE p == req[q].proj
             n == Place(q)
             x == CASE req[q].op # "create" -> "store"
                    [] req[q].op = "create" /\ ~shared -> "insert"
                    [] req[q].op = "create" /\ shared ->
                         IF n \in space THEN "limits" ELSE "space"
  <1>1. ~Idle(q) /\ req[q].pc = "apply"
    BY DEF ApplyQuota, At, Idle, Resting
  <1>2. /\ req[q].op \in {"create", "suspend", "unsuspend", "quota"}
        /\ p \in Projects /\ n \in Namespaces /\ ~req[q].under
        /\ Control(q) /\ Progress(q) /\ req[q] \in Request
    BY <1>1, Underway, SMTT(40) DEF Route, AllOps, IInv
  <1>3. Hard(q) \in Quotas \cup {"zero", None}
    BY <1>2, ProjectsAssumption DEF Hard, Request
  <1>4. StoresTyped /\ ns' = ns /\ overrides' = overrides
    BY <1>2, <1>3 DEF ApplyQuota, StoresTyped, IInv, TypeOK, tables
  <1>5. CASE Error(q)
    BY <1>1, <1>4, <1>5, ErrorStep
  <1>6. CASE n \in ns /\ quota' = [quota EXCEPT ![n] = Hard(q)] /\ Go(q, x)
    <2>1. x \in Pcs
      BY <1>2, ProjectsAssumption DEF Pcs
    <2>2. Moved(q) /\ req'[q].pc = x
      BY <1>6, <2>1, GoFacts DEF IInv
    <2>3. Control(q)'
      BY <1>4, <1>1, <1>2, <2>2, ProjectsAssumption DEF StoresTyped, Control, Route, AllOps, Moved, Changing
    <2>4. quota'[n] = Hard(q) /\ Place(q)' = n
      BY <1>4, <1>2, <1>6, <2>2, Zenon DEF StoresTyped, IInv, TypeOK, Moved, Place, Home
    <2>5. Progress(q)'
      <3>1. CASE req[q].op = "create"
        BY <1>2, <1>4, <1>6, <2>2, <2>4, <3>1, ProjectsAssumption, Zenon DEF StoresTyped, Progress, Moved, Hard
      <3>2. CASE req[q].op # "create"
        BY <1>1, <1>2, <1>4, <2>2, <2>4, <3>2, Zenon DEF Progress, Moved, Hard, Control, Changing
      <3> QED BY <3>1, <3>2
    <2> QED BY <1>1, <1>2, <1>4, <2>2, <2>3, <2>5, MoveStep
  <1> QED BY <1>5, <1>6 DEF ApplyQuota

\* The column is stored last, so the change is settled by it.
LEMMA StoreColumnStep == ASSUME IInv, NEW q \in Procs, StoreColumn(q) PROVE IInv'
  <1> DEFINE p == req[q].proj
  <1>1. ~Idle(q) /\ req[q].pc = "store"
    BY Zenon DEF StoreColumn, At, Idle, Resting
  <1>2. /\ req[q].op \in {"suspend", "unsuspend", "quota"}
        /\ p \in Projects /\ ~req[q].under /\ Control(q) /\ Progress(q)
        /\ req[q].arg \in Quotas
    BY <1>1, Underway, SMTT(40) DEF Route, AllOps, IInv, Request
  <1>3. StoresTyped /\ quota' = quota
    BY <1>2, Zenon DEF StoreColumn, StoresTyped, IInv, TypeOK, cluster
  <1>4. Moved(q) /\ req'[q].pc = "event"
    BY GoFacts, Zenon DEF IInv, StoreColumn, Pcs
  <1>5. Control(q)'
    BY <1>3, <1>1, <1>2, <1>4, SMTT(40) DEF StoresTyped, Control, Route, AllOps, Moved, Changing
  <1>6. /\ req[q].op = "suspend" => suspended'[p] = TRUE
        /\ req[q].op = "unsuspend" => suspended'[p] = FALSE /\ overrides' = overrides
        /\ req[q].op = "quota" => overrides'[p] = req[q].arg
    BY <1>2, Zenon DEF StoreColumn, IInv, TypeOK
  <1>7. req[q].solo => Settled(q)'
    BY <1>1, <1>2, <1>3, <1>4, <1>6, ZenonT(60) DEF StoresTyped, Settled, Progress, Moved, Place, Home
  <1>8. Progress(q)'
    BY <1>2, <1>4, <1>7, Zenon DEF Progress, Moved
  <1> QED BY <1>1, <1>2, <1>3, <1>4, <1>5, <1>8, MoveStep, Zenon

\* The event changes nothing of what is settled.
LEMMA AppendEventStep == ASSUME IInv, NEW q \in Procs, AppendEvent(q) PROVE IInv'
  <1>1. ~Idle(q) /\ req[q].pc = "event" /\ StoresTyped
    BY SameStores, Zenon DEF AppendEvent, At, Idle, Resting, IInv
  <1>2. /\ req[q].op \in AllOps \ {"maintenance", "deleteUser"}
        /\ req[q].proj \in Projects /\ ~req[q].under /\ Control(q) /\ Progress(q)
    BY <1>1, Underway, SMTT(40) DEF Route, AllOps, IInv
  <1>3. Moved(q) /\ req'[q].pc = "done" /\ req'[q].lost = req[q].lost
    BY GoFacts, Zenon DEF IInv, AppendEvent, Pcs, Resting
  <1>4. Control(q)'
    BY <1>1, <1>2, <1>3, Zenon DEF StoresTyped, Control, Idle, Resting, Moved, Changing
  <1>5. req[q].solo => Settled(q)
    BY <1>1, <1>2, Zenon DEF Progress
  <1>6. Settled(q) => Settled(q)'
    BY <1>3, Zenon DEF AppendEvent, Settled, Moved, Place, Home, tables, cluster
  <1>7. Progress(q)'
    BY <1>3, <1>5, <1>6, Zenon DEF Progress, Moved
  <1> QED BY <1>1, <1>2, <1>3, <1>4, <1>7, MoveStep, Zenon

\* The objects of the project go, or the loss is on record.
LEMMA DropObjectsStep ==
    ASSUME IInv, NEW q \in Procs, req[q].op = "delete", DropObjects(q) PROVE IInv'
  <1> DEFINE p == req[q].proj
             n == Place(q)
  <1>1. ~Idle(q) /\ req[q].pc = "drop"
    BY Zenon DEF DropObjects, At, Idle, Resting
  <1>2. p \in Projects /\ n \in Namespaces /\ ~req[q].under /\ Progress(q)
    BY <1>1, Underway, Zenon DEF IInv
  <1>3. StoresTyped /\ row' = row
    BY <1>2, Zenon DEF DropObjects, StoresTyped, IInv, TypeOK, tables, cluster
  <1>4. Moved(q) /\ req'[q].pc = "softDelete"
    BY GoFacts, GoDespiteFacts, Zenon DEF IInv, DropObjects, Pcs
  <1>5. IF shared THEN req'[q].lost = TRUE \/ p \notin limits'
                  ELSE n \notin ns' /\ quota'[n] = None
    BY <1>2, GoDespiteFacts, Zenon DEF IInv, TypeOK, DropObjects, Pcs
  <1>6. Control(q)'
    BY <1>2, <1>4, SMTT(40) DEF Control, Route, AllOps, Moved, Changing
  <1>7. Progress(q)'
    BY <1>1, <1>2, <1>3, <1>4, <1>5, Zenon DEF StoresTyped, Progress, Moved, Place, Home
  <1> QED BY <1>1, <1>2, <1>3, <1>4, <1>6, <1>7, MoveStep, Zenon

\* The row goes after the objects.
LEMMA SoftDeleteStep ==
    ASSUME IInv, NEW q \in Procs, req[q].op = "delete", SoftDelete(q) PROVE IInv'
  <1> DEFINE p == req[q].proj
  <1>1. ~Idle(q) /\ req[q].pc = "softDelete"
    BY Zenon DEF SoftDelete, At, Idle, Resting
  <1>2. p \in Projects /\ ~req[q].under /\ Progress(q)
    BY <1>1, Underway, Zenon DEF IInv
  <1>3. StoresTyped /\ ns' = ns /\ quota' = quota /\ limits' = limits
    BY <1>2, Zenon DEF SoftDelete, StoresTyped, IInv, TypeOK, cluster
  <1>4. Moved(q) /\ req'[q].pc = "event" /\ req'[q].lost = req[q].lost
    BY GoFacts, Zenon DEF IInv, SoftDelete, Pcs
  <1>5. row[p] = "live" => row'[p] = "deleted"
    BY <1>2, Zenon DEF SoftDelete
  <1>6. Control(q)'
    BY <1>2, <1>4, SMTT(40) DEF Control, Route, AllOps, Moved, Changing
  <1>7. req[q].solo => Settled(q)'
    BY <1>1, <1>2, <1>3, <1>4, <1>5, Zenon DEF StoresTyped, Settled, Progress, Moved, Place, Home
  <1>8. Progress(q)'
    BY <1>4, <1>7, Zenon DEF Progress, Moved
  <1> QED BY <1>1, <1>2, <1>3, <1>4, <1>6, <1>8, MoveStep, Zenon

\* DeleteUser drops the namespaces of the spaces.
LEMMA DropSpacesStep ==
    ASSUME IInv, NEW q \in Procs, req[q].op = "deleteUser", DropSpaces(q) PROVE IInv'
  <1>1. ~Idle(q) /\ req[q].pc = "drop"
    BY Zenon DEF DropSpaces, At, Idle, Resting
  <1>2. StoresTyped
    BY Zenon DEF DropSpaces, StoresTyped, IInv, TypeOK, tables, cluster
  <1>3. Moved(q) /\ req'[q].pc = "softDelete"
    BY GoFacts, GoDespiteFacts, Zenon DEF IInv, DropSpaces, Pcs
  <1>4. Control(q)' /\ Progress(q)'
    BY <1>3, SMTT(40) DEF Control, Progress, Route, AllOps, Moved, Changing
  <1> QED BY <1>1, <1>2, <1>3, <1>4, MoveStep, Zenon

\* DeleteUser ends with the rows of all projects.
LEMMA SoftDeleteAllStep ==
    ASSUME IInv, NEW q \in Procs, req[q].op = "deleteUser", SoftDeleteAll(q) PROVE IInv'
  <1>1. ~Idle(q) /\ req[q].pc = "softDelete"
    BY DEF SoftDeleteAll, At, Idle, Resting
  <1>2. StoresTyped
    BY Zenon DEF SoftDeleteAll, StoresTyped, IInv, TypeOK, cluster
  <1>3. Moved(q) /\ req'[q].pc = "done"
    BY GoFacts, GoDespiteFacts, Zenon DEF IInv, SoftDeleteAll, Pcs, Resting
  <1>4. req'[q].lost = TRUE \/ \A r \in Projects : row'[r] # "live"
    BY GoDespiteFacts, Zenon DEF IInv, SoftDeleteAll, Pcs, Resting
  <1>5. Control(q)'
    BY <1>3, Zenon DEF Control, Idle, Resting, AllOps, Moved, Changing
  <1>6. Settled(q)'
    BY <1>3, <1>4 DEF Settled, Moved
  <1>7. Progress(q)'
    BY <1>3, <1>6, Zenon DEF Progress, Moved
  <1> QED BY <1>1, <1>2, <1>3, <1>5, <1>7, MoveStep, Zenon

\* A request may stop anywhere.
LEMMA StopStep == ASSUME IInv, NEW q \in Procs, Stop(q) PROVE IInv'
  BY SameStores, ErrorStep, Zenon DEF IInv, Stop

-----------------------------------------------------------------------------
(* Requests begin; maintenance is switched.                                *)

\* A new request takes the solo mark from all others.
LEMMA BeginStep ==
    ASSUME IInv, NEW q \in Procs, NEW op \in AllOps \ {"maintenance"}, NEW pc \in Pcs,
           NEW p \in Projects \cup {None}, NEW o \in Quotas,
           Begin(q, op, pc, p, o),
           IF op = "deleteUser" THEN pc = "drop" ELSE pc = "gate" /\ p \in Projects
    PROVE  IInv'
  <1>1. /\ req'[q].op = op /\ req'[q].pc = pc /\ req'[q].proj = p
        /\ req'[q].under = maint /\ req'[q].solo = \A x \in Procs \ {q} : Idle(x)
    BY Zenon DEF Begin
  <1>2. \A r \in Procs : r # q => req'[r] = [req[r] EXCEPT !.solo = FALSE]
    BY DEF Begin
  <1>3. \A r \in Procs : r # q =>
           /\ req'[r] \in Request
           /\ req'[r].op = req[r].op /\ req'[r].pc = req[r].pc
           /\ req'[r].proj = req[r].proj /\ req'[r].under = req[r].under
           /\ req'[r].solo = FALSE
    <2> SUFFICES ASSUME NEW r \in Procs, r # q
                 PROVE  /\ req'[r] \in Request
                        /\ req'[r].op = req[r].op /\ req'[r].pc = req[r].pc
                        /\ req'[r].proj = req[r].proj /\ req'[r].under = req[r].under
                        /\ req'[r].solo = FALSE
      BY Zenon
    <2>1. req[r] \in Request /\ req'[r] = [req[r] EXCEPT !.solo = FALSE]
      BY <1>2 DEF IInv, TypeOK
    <2> QED BY <2>1, Zenon DEF Request
  <1>4. req'[q] \in Request
    <2>1. req'[q] = [op |-> op, pc |-> pc, proj |-> p, arg |-> o,
                     saw |-> Default, lost |-> FALSE, under |-> maint,
                     solo |-> \A x \in Procs \ {q} : Idle(x)]
      BY DEF Begin
    <2>2. (\A x \in Procs \ {q} : Idle(x)) \in BOOLEAN
      OBVIOUS
    <2> QED BY <2>1, <2>2, ProjectsAssumption, SMTT(40) DEF Request, IInv, TypeOK
  <1>5. TypeOK'
    <2>1. req' \in [Procs -> Request]
      BY <1>3, <1>4, Zenon DEF Begin
    <2> QED BY <2>1 DEF IInv, TypeOK, Begin, tables, cluster
  <1>6. maint' = maint /\ shared' = shared
    BY DEF Begin, tables
  <1>7. \A r \in Procs : r # q => Control(r)' /\ Gated(r)' /\ Alone(r)' /\ Progress(r)'
    <2> SUFFICES ASSUME NEW r \in Procs, r # q
                 PROVE  Control(r)' /\ Gated(r)' /\ Alone(r)' /\ Progress(r)'
      BY Zenon
    <2>1. /\ req'[r].op = req[r].op /\ req'[r].pc = req[r].pc
          /\ req'[r].proj = req[r].proj /\ req'[r].under = req[r].under
          /\ req'[r].solo = FALSE
      BY <1>3, Zenon
    <2>2. Control(r)'
      BY <1>6, <2>1, Zenon DEF IInv, Control, Idle
    <2>3. Gated(r)'
      BY <1>6, <2>1, Zenon DEF IInv, Gated
    <2>4. Alone(r)' /\ Progress(r)'
      BY <2>1, Zenon DEF Alone, Progress
    <2> QED BY <2>2, <2>3, <2>4, Zenon
  <1>8. Control(q)'
    BY <1>1 DEF Control, Route, AllOps, Changing, Idle, Resting
  <1>9. Gated(q)' /\ Progress(q)'
    BY <1>1, <1>6, Zenon DEF IInv, TypeOK, Gated, Progress
  <1>10. Alone(q)'
    BY <1>1, <1>3, Zenon DEF Alone, Idle
  <1> QED BY <1>5, <1>7, <1>8, <1>9, <1>10, Zenon DEF IInv

\* The requests clients send.
LEMMA ClientStep == ASSUME IInv, NEW q \in Procs, Client(q) PROVE IInv'
  <1> USE DEF AllOps, Pcs
  <1>1. CASE CreateBegin(q)
    <2>1. PICK p \in Projects, o \in Quotas : Begin(q, "create", "gate", p, o)
      BY <1>1, Zenon DEF CreateBegin
    <2> QED BY <2>1, BeginStep
  <1>2. CASE ChangeBegin(q)
    <2>1. PICK p \in Projects, op \in {"suspend", "unsuspend", "delete"} :
             Begin(q, op, "gate", p, Default)
      BY <1>2 DEF ChangeBegin
    <2> QED BY <2>1, BeginStep, ProjectsAssumption, Zenon
  <1>3. CASE QuotaBegin(q)
    <2>1. PICK p \in Projects, o \in Quotas : Begin(q, "quota", "gate", p, o)
      BY <1>3 DEF QuotaBegin
    <2> QED BY <2>1, BeginStep
  <1>4. CASE DeleteUserBegin(q)
    <2>1. Begin(q, "deleteUser", "drop", None, Default)
      BY <1>4 DEF DeleteUserBegin
    <2> QED BY <2>1, BeginStep, ProjectsAssumption, Zenon
  <1> QED BY <1>1, <1>2, <1>3, <1>4 DEF Client

\* Changing one field of a request leaves the others alone.
LEMMA UnderField ==
    ASSUME NEW r \in Request, NEW b \in BOOLEAN, NEW s,
           s = [r EXCEPT !.under = b]
    PROVE  /\ s \in Request /\ s.under = b
           /\ s.op = r.op /\ s.pc = r.pc /\ s.proj = r.proj /\ s.arg = r.arg
           /\ s.saw = r.saw /\ s.lost = r.lost /\ s.solo = r.solo
  <1>1. s \in Request
    BY DEF Request
  <1>2. s.under = b
    BY DEF Request
  <1>3. s.op = r.op /\ s.pc = r.pc /\ s.proj = r.proj /\ s.arg = r.arg
    BY DEF Request
  <1>4. s.saw = r.saw /\ s.lost = r.lost /\ s.solo = r.solo
    BY DEF Request
  <1> QED BY <1>1, <1>2, <1>3, <1>4

\* Switching maintenance touches one history mark of the requests.
LEMMA UnderOnly ==
    ASSUME TypeOK, NEW on \in BOOLEAN, SetMaintenance(on)
    PROVE  \A q \in Procs :
           /\ req'[q] \in Request
           /\ req'[q].op = req[q].op /\ req'[q].pc = req[q].pc
           /\ req'[q].proj = req[q].proj /\ req'[q].arg = req[q].arg
           /\ req'[q].saw = req[q].saw /\ req'[q].lost = req[q].lost
           /\ req'[q].solo = req[q].solo
           /\ req'[q].under = (req[q].under /\ on)
  <1>1. \A q \in Procs : req'[q] = [req[q] EXCEPT !.under = @ /\ on]
    BY DEF SetMaintenance
  <1> TAKE q \in Procs
  <1>2. req[q] \in Request
    BY DEF TypeOK
  <1> DEFINE b == req[q].under /\ on
  <1>3. b \in BOOLEAN
    BY Zenon
  <1>4. req'[q] = [req[q] EXCEPT !.under = b]
    BY <1>1, Zenon
  <1> HIDE DEF b
  <1>5. /\ req'[q] \in Request /\ req'[q].under = b
        /\ req'[q].op = req[q].op /\ req'[q].pc = req[q].pc
        /\ req'[q].proj = req[q].proj /\ req'[q].arg = req[q].arg
        /\ req'[q].saw = req[q].saw /\ req'[q].lost = req[q].lost
        /\ req'[q].solo = req[q].solo
    BY <1>2, <1>3, <1>4, UnderField
  <1> QED BY <1>5, Zenon DEF b

\* Turning maintenance off ends the claim that it lasted.
LEMMA SetMaintenanceStep ==
    ASSUME IInv, NEW on \in BOOLEAN, SetMaintenance(on) PROVE IInv'
  <1>2. \A q \in Procs :
           /\ req'[q] \in Request
           /\ req'[q].op = req[q].op /\ req'[q].pc = req[q].pc
           /\ req'[q].proj = req[q].proj /\ req'[q].arg = req[q].arg
           /\ req'[q].saw = req[q].saw /\ req'[q].lost = req[q].lost
           /\ req'[q].solo = req[q].solo
           /\ req'[q].under = (req[q].under /\ on)
    BY UnderOnly, Zenon DEF IInv
  <1>3. TypeOK'
    <2>1. req' \in [Procs -> Request]
      BY <1>2 DEF SetMaintenance
    <2> QED BY <2>1 DEF IInv, TypeOK, SetMaintenance, tables, cluster
  <1>4. ASSUME NEW q \in Procs PROVE Control(q)' /\ Alone(q)'
    BY <1>2, <1>4, ZenonT(60) DEF IInv, Control, Alone, Idle, SetMaintenance, tables
  <1>5. ASSUME NEW q \in Procs PROVE Gated(q)'
    BY <1>2, <1>5, ZenonT(60) DEF IInv, Gated, SetMaintenance, TypeOK
  <1>6. ASSUME NEW q \in Procs PROVE Progress(q)'
    <2>1. /\ req'[q].op = req[q].op /\ req'[q].proj = req[q].proj
          /\ req'[q].arg = req[q].arg /\ req'[q].lost = req[q].lost
      BY <1>2, <1>6, Zenon
    <2>2. UNCHANGED <<shared, row, suspended, overrides, ns, quota, limits>>
      BY DEF SetMaintenance, tables, cluster
    <2>3. Settled(q) => Settled(q)'
      BY <2>1, <2>2, Zenon DEF Settled, Place, Home
    <2> QED BY <1>2, <2>3, SMTT(40) DEF IInv, Progress, Place, Home, SetMaintenance, tables, cluster
  <1> QED BY <1>3, <1>4, <1>5, <1>6 DEF IInv

-----------------------------------------------------------------------------
(* The theorems.                                                           *)

\* The invariant holds at first,
LEMMA InitIInv == Init => IInv
  <1> SUFFICES ASSUME Init PROVE IInv
    OBVIOUS
  <1>1. TypeOK
    BY ProjectsAssumption, Zenon DEF Init, TypeOK, Request, Pcs, Resting
  <1>2. ASSUME NEW q \in Procs PROVE Control(q) /\ Gated(q) /\ Alone(q) /\ Progress(q)
    BY <1>2, Zenon DEF Init, Control, Gated, Alone, Progress, Idle, Resting, Changing
  <1> QED BY <1>1, <1>2 DEF IInv

\* survives stuttering
LEMMA Stutter == IInv /\ UNCHANGED vars => IInv'
  <1> SUFFICES ASSUME IInv, UNCHANGED vars PROVE IInv'
    OBVIOUS
  <1>1. TypeOK'
    BY Zenon DEF IInv, TypeOK, vars
  <1>2. ASSUME NEW q \in Procs PROVE Control(q)' /\ Gated(q)' /\ Alone(q)'
    BY <1>2, SMTT(30), Zenon DEF IInv, Control, Gated, Alone, Idle, vars
  <1>3. ASSUME NEW q \in Procs PROVE Progress(q)'
    <2>1. Settled(q) => Settled(q)'
      BY Zenon DEF Settled, Place, Home, vars
    <2> QED BY <2>1, Zenon DEF IInv, Progress, Place, Home, vars
  <1> QED BY <1>1, <1>2, <1>3 DEF IInv

\* and every step.
LEMMA NextStep == IInv /\ Next => IInv'
  <1> SUFFICES ASSUME IInv, Next PROVE IInv'
    OBVIOUS
  <1>1. CASE \E on \in BOOLEAN : SetMaintenance(on)
    BY <1>1, SetMaintenanceStep
  <1>2. ASSUME NEW q \in Procs, Client(q) \/ Step(q) \/ Stop(q) PROVE IInv'
    BY <1>2, ClientStep, StopStep, GateStep, ApplyNamespaceStep, StoreSpaceStep,
       ApplyProjectLimitsStep, InsertProjectStep, GetProjectStep, ApplyQuotaStep,
       StoreColumnStep, AppendEventStep, DropObjectsStep, SoftDeleteStep,
       DropSpacesStep, SoftDeleteAllStep, Zenon DEF Step
  <1> QED BY <1>1, <1>2 DEF Next

\* The invariant holds of every behaviour.
THEOREM Inductive == Spec => []IInv
  BY InitIInv, NextStep, Stutter, PTL DEF Spec

\* Rows, objects and requests stay in their domains.
THEOREM TypeCorrect == Spec => []TypeOK
  <1>1. IInv => TypeOK
    BY DEF IInv
  <1> QED BY <1>1, Inductive, PTL

\* For any number of projects and requests, in both placement modes: an
\* operation that runs alone to its end leaves row and cluster as it promises,
\* whatever interrupted or overlapping requests left behind.
THEOREM SoloSettles == Spec => []SoloRequestSettles
  <1>1. IInv => SoloRequestSettles
    BY Zenon DEF IInv, SoloRequestSettles, Progress, At
  <1> QED BY <1>1, Inductive, PTL

\* No gated request that begins under maintenance passes the gate while
\* maintenance lasts.
THEOREM MaintenanceSafe == Spec => []MaintenanceHolds
  <1>1. IInv => MaintenanceHolds
    BY Zenon DEF IInv, MaintenanceHolds, Gated
  <1> QED BY <1>1, Inductive, PTL

-----------------------------------------------------------------------------
(* Requests that neither overlap nor fail half-way.                        *)

\* A request between its change to the objects of a namespace and the change
\* of the row that goes with it.
Touches(q, n) ==
    \/ req[q].op = "deleteUser" /\ req[q].pc = "softDelete"
    \/ /\ \/ req[q].op = "create" /\ req[q].pc \in {"space", "limits", "insert"}
          \/ req[q].op \in Changing /\ req[q].pc = "store"
          \/ req[q].op = "delete" /\ req[q].pc = "softDelete"
       /\ Place(q) = n

Matches(p) ==
    /\ Home(p) \in ns
    /\ ~shared => \/ quota[Home(p)] = overrides[p]
                  \/ suspended[p] /\ quota[Home(p)] = "zero"

\* idx_projects_cluster_namespace.
OneLive == \A p, r \in Projects : row[p] = "live" /\ row[r] = "live" /\ Home(p) = Home(r) => p = r

\* What a change to a project found is still so.
StillThere(q) ==
    req[q].op \in Changing =>
        /\ req[q].pc \in {"apply", "store"} => row[req[q].proj] = "live"
        /\ req[q].pc = "store" => Place(q) \in ns

CalmInv ==
    /\ OneLive
    /\ calm => /\ \A q \in Procs : (~Idle(q) => req[q].solo) /\ StillThere(q)
               /\ \A p \in Projects : row[p] = "live" =>
                     Matches(p) \/ \E q \in Procs : Touches(q, Home(p))

\* Only the request under way can be between two changes.
LEMMA OnlyRequest ==
    ASSUME IInv, CalmInv, calm, NEW q \in Procs, ~Idle(q)
    PROVE  /\ req[q].solo /\ Progress(q) /\ StillThere(q)
           /\ \A p \in Projects : row[p] = "live" => Matches(p) \/ Touches(q, Home(p))
  <1>1. req[q].solo /\ Progress(q) /\ StillThere(q) /\ \A r \in Procs : r # q => Idle(r)
    BY Zenon DEF CalmInv, IInv, Alone
  <1>2. ASSUME NEW r \in Procs, NEW n, Touches(r, n) PROVE r = q
    <2>1. req[r].pc \notin Resting
      BY <1>2, Zenon DEF Touches, Resting
    <2> QED BY <1>1, <2>1 DEF Idle
  <1> QED BY <1>1, <1>2, Zenon DEF CalmInv

\* A step of the request under way.
LEMMA CalmMove ==
    ASSUME IInv, CalmInv, NEW q \in Procs, ~Idle(q), Moved(q), shared' = shared, OneLive',
           calm' => /\ calm /\ StillThere(q)'
                    /\ \A p \in Projects : row'[p] = "live" =>
                          Matches(p)' \/ Touches(q, Home(p))'
    PROVE  CalmInv'
  <1> SUFFICES ASSUME calm'
               PROVE  /\ \A r \in Procs : (~Idle(r)' => req'[r].solo) /\ StillThere(r)'
                      /\ \A p \in Projects : row'[p] = "live" =>
                            Matches(p)' \/ \E r \in Procs : Touches(r, Home(p))'
    BY Zenon DEF CalmInv
  <1>1. req[q].solo /\ \A r \in Procs : r # q => Idle(r)
    BY Zenon DEF CalmInv, IInv, Alone
  <1>2. req'[q].solo = req[q].solo /\ \A r \in Procs : r # q => req'[r] = req[r]
    BY Zenon DEF Moved
  <1>3. ASSUME NEW r \in Procs, r # q PROVE Idle(r)' /\ StillThere(r)'
    <2>1. req'[r].pc \in Resting
      BY <1>1, <1>2, <1>3, Zenon DEF Idle
    <2> QED BY <2>1, Zenon DEF Idle, StillThere, Resting
  <1> QED BY <1>1, <1>2, <1>3, Zenon

\* A step that leaves rows and objects alone, outside the two changes.
LEMMA CalmQuiet ==
    ASSUME IInv, CalmInv, NEW q \in Procs, ~Idle(q), Moved(q),
           UNCHANGED <<shared, row, suspended, overrides, quota>>, ns \subseteq ns',
           calm' => calm /\ StillThere(q)' /\ \A n \in Namespaces : ~Touches(q, n)
    PROVE  CalmInv'
  <1>1. OneLive'
    BY Zenon DEF CalmInv, OneLive, Home
  <1>2. ASSUME calm', NEW p \in Projects, row'[p] = "live" PROVE Matches(p)'
    <2>1. Home(p) \in Namespaces
      BY Zenon DEF Home, Namespaces
    <2>2. Matches(p)
      BY <1>2, <2>1, OnlyRequest, Zenon
    <2> QED BY <2>2, Zenon DEF Matches, Home
  <1> QED BY <1>1, <1>2, CalmMove, Zenon

\* A request that fails past the gate ends the calm.
LEMMA CalmError ==
    ASSUME IInv, CalmInv, NEW q \in Procs, ~Idle(q), Error(q),
           UNCHANGED <<shared, row, suspended, overrides, ns, quota>>
    PROVE  CalmInv'
  <1>1. Moved(q) /\ req'[q].pc = "failed"
    <2>1. req'[q] = [req[q] EXCEPT !.pc = "failed"]
      BY DEF IInv, TypeOK, Error
    <2>2. req' \in [Procs -> Request] /\ \A r \in Procs : r # q => req'[r] = req[r]
      BY DEF IInv, TypeOK, Error, Request, Pcs, Resting
    <2>3. calm' \in BOOLEAN
      BY DEF IInv, TypeOK, Error
    <2> QED BY <2>1, <2>2, <2>3 DEF IInv, TypeOK, Moved, Request
  <1>2. calm' => calm /\ req[q].pc = "gate"
    BY Zenon DEF IInv, TypeOK, Error, At
  <1>3. StillThere(q)'
    BY <1>1, Zenon DEF StillThere
  <1>4. req[q].pc = "gate" => \A n \in Namespaces : ~Touches(q, n)
    BY Zenon DEF Touches
  <1> QED BY <1>1, <1>2, <1>3, <1>4, CalmQuiet, Zenon

\* The steps before and after the changes: the gate, the namespace, the read
\* and the event.
LEMMA CalmQuietSteps ==
    ASSUME IInv, CalmInv, NEW q \in Procs,
           Gate(q) \/ ApplyNamespace(q) \/ GetProject(q) \/ AppendEvent(q)
    PROVE  CalmInv'
  <1>1. /\ ~Idle(q) /\ req[q].pc \in {"gate", "place", "read", "event"}
        /\ \A n \in Namespaces : ~Touches(q, n)
    BY DEF Gate, ApplyNamespace, GetProject, AppendEvent, At, Idle, Resting, Touches
  <1>2. UNCHANGED <<shared, row, suspended, overrides, quota>> /\ ns \subseteq ns'
    BY DEF Gate, ApplyNamespace, GetProject, AppendEvent, tables, cluster
  <1>3. CASE Error(q)
    <2>1. ns' = ns
      <3>1. CASE ApplyNamespace(q)
        <4>1. Go(q, "apply")
          BY <3>1, Zenon DEF ApplyNamespace
        <4>2. req'[q].pc = "apply" /\ req'[q].pc = "failed"
          BY <1>3, <4>1, GoFacts DEF IInv, TypeOK, Pcs, Error, Request
        <4> QED BY <4>2, Zenon
      <3> QED BY <3>1 DEF Gate, GetProject, AppendEvent, cluster
    <2> QED BY <1>1, <1>2, <1>3, <2>1, CalmError, Zenon
  <1>4. ASSUME NEW x \in Pcs, Go(q, x), x \in {"place", "read", "done"} \/ ApplyNamespace(q)
        PROVE  CalmInv'
    <2>1. Moved(q) /\ req'[q].pc = x /\ calm' = calm
      BY <1>4, GoFacts, Zenon DEF IInv, Go
    <2>2. StillThere(q)'
      <3>1. CASE ApplyNamespace(q)
        <4>1. req[q].op = "create"
          BY <1>1, <3>1, Underway, SMTT(40) DEF ApplyNamespace, At, Route, AllOps
        <4> QED BY <2>1, <4>1, Zenon DEF StillThere, Moved, Changing
      <3>2. CASE x \in {"place", "read", "done"}
        BY <2>1, <3>2, Zenon DEF StillThere
      <3> QED BY <1>4, <3>1, <3>2, Zenon
    <2> QED BY <1>1, <1>2, <2>1, <2>2, CalmQuiet, Zenon
  <1>5. CASE GetProject(q) /\ ~Error(q)
    <2> DEFINE x == IF req[q].op = "delete" THEN "drop" ELSE "apply"
               saw == overrides[req[q].proj]
    <2>1. /\ req' = [req EXCEPT ![q].saw = saw, ![q].pc = x] /\ calm' = calm
          /\ row[req[q].proj] = "live"
      BY <1>5 DEF GetProject
    <2>2. req[q].proj \in Projects /\ req[q] \in Request
      BY <1>1, <1>5, Underway DEF GetProject, At, Route, AllOps
    <2>3. saw \in Quotas /\ x \in Pcs
      BY <2>2, Zenon DEF IInv, TypeOK, Pcs
    <2>4. x \in {"drop", "apply"}
      BY Zenon
    <2> HIDE DEF saw, x
    <2>5. req'[q] = [req[q] EXCEPT !.saw = saw, !.pc = x]
      BY <2>1 DEF IInv, TypeOK
    <2>6. /\ req'[q] \in Request /\ req'[q].pc = x /\ req'[q].op = req[q].op
          /\ req'[q].proj = req[q].proj /\ req'[q].arg = req[q].arg
          /\ req'[q].solo = req[q].solo /\ req'[q].under = req[q].under
      BY <2>2, <2>3, <2>5, Zenon DEF Request
    <2>7. \A r \in Procs : r # q => req'[r] = req[r]
      BY <2>1 DEF IInv, TypeOK
    <2>8. req' \in [Procs -> Request]
      BY <2>1, <2>6, <2>7 DEF IInv, TypeOK
    <2>9. Moved(q)
      BY <2>1, <2>6, <2>7, <2>8, Zenon DEF Moved, IInv, TypeOK
    <2>10. StillThere(q)'
      BY <1>2, <2>1, <2>4, <2>6, Zenon DEF StillThere
    <2> QED BY <1>1, <1>2, <2>1, <2>9, <2>10, CalmQuiet
  <1>6. ApplyNamespace(q) => Go(q, "apply")
    BY Zenon DEF ApplyNamespace
  <1>7. AppendEvent(q) => Go(q, "done")
    BY Zenon DEF AppendEvent
  <1>8. Gate(q) => Error(q) \/ Go(q, "place") \/ Go(q, "read")
    BY Zenon DEF Gate
  <1> QED BY <1>3, <1>4, <1>5, <1>6, <1>7, <1>8, Zenon DEF Pcs, Resting

\* Creating a space and limits stays between the two changes.
LEMMA CalmCreating ==
    ASSUME IInv, CalmInv, NEW q \in Procs, StoreSpace(q) \/ ApplyProjectLimits(q)
    PROVE  CalmInv'
  <1>1. /\ ~Idle(q) /\ req[q].pc \in {"space", "limits"}
        /\ UNCHANGED <<shared, row, suspended, overrides, quota, ns>>
    BY Zenon DEF StoreSpace, ApplyProjectLimits, At, Idle, Resting, tables, cluster
  <1>2. req[q].op = "create"
    BY <1>1, Underway, SMTT(40) DEF Route, AllOps
  <1>3. CASE Error(q)
    BY <1>1, <1>3, CalmError, Zenon
  <1>4. ASSUME NEW x \in {"limits", "insert"}, Go(q, x) PROVE CalmInv'
    <2>1. Moved(q) /\ req'[q].pc = x /\ calm' = calm
      BY <1>4, GoFacts, Zenon DEF IInv, Go, Pcs
    <2>2. OneLive'
      BY <1>1, Zenon DEF CalmInv, OneLive, Home
    <2>3. StillThere(q)'
      BY <1>2, <2>1, Zenon DEF StillThere, Moved, Changing
    <2>4. ASSUME calm', NEW p \in Projects, row'[p] = "live"
          PROVE  Matches(p)' \/ Touches(q, Home(p))'
      <3>1. Matches(p) \/ Touches(q, Home(p))
        BY <1>1, <2>1, <2>4, OnlyRequest, Zenon
      <3>2. Matches(p) => Matches(p)'
        BY <1>1, Zenon DEF Matches, Home
      <3>3. Touches(q, Home(p)) => Touches(q, Home(p))'
        BY <1>1, <1>2, <2>1, Zenon DEF Touches, Moved, Place, Home, Changing
      <3> QED BY <3>1, <3>2, <3>3, Zenon
    <2> QED BY <1>1, <2>1, <2>2, <2>3, <2>4, CalmMove, Zenon
  <1> QED BY <1>3, <1>4, Zenon DEF StoreSpace, ApplyProjectLimits

\* Limits that are applied no longer match the row of the project.
LEMMA CalmApply ==
    ASSUME IInv, CalmInv, NEW q \in Procs, ApplyQuota(q)
    PROVE  CalmInv'
  <1>1. ~Idle(q) /\ req[q].pc = "apply" /\ UNCHANGED <<shared, row, suspended, overrides, ns>>
    BY DEF ApplyQuota, At, Idle, Resting, tables
  <1>2. req[q].op \in Changing \cup {"create"} /\ Place(q) \in Namespaces
    BY <1>1, Underway, SMTT(40) DEF Route, AllOps, Changing
  <1>3. CASE Place(q) \notin ns
    BY <1>1, <1>3, CalmError DEF ApplyQuota
  <1>4. CASE Place(q) \in ns
    <2> DEFINE x == CASE req[q].op # "create" -> "store"
                      [] req[q].op = "create" /\ ~shared -> "insert"
                      [] req[q].op = "create" /\ shared ->
                           IF Place(q) \in space THEN "limits" ELSE "space"
    <2>1. Go(q, x) /\ \A n \in Namespaces : n # Place(q) => quota'[n] = quota[n]
      BY <1>4 DEF ApplyQuota, IInv, TypeOK
    <2>2. x \in {"store", "space", "limits", "insert"}
          /\ (req[q].op = "create" => x # "store") /\ (req[q].op # "create" => x = "store")
      BY DEF IInv, TypeOK
    <2> HIDE DEF x
    <2>3. Moved(q) /\ req'[q].pc = x /\ calm' = calm
      BY <2>1, <2>2, GoFacts, Zenon DEF IInv, Go, Pcs
    <2>4. OneLive'
      BY <1>1, Zenon DEF CalmInv, OneLive, Home
    <2>5. calm' => StillThere(q)'
      <3>1. calm' => StillThere(q)
        BY <1>1, <2>3, OnlyRequest, Zenon
      <3> QED BY <1>1, <1>4, <2>3, <3>1, Zenon DEF StillThere, Moved, Place, Home
    <2>6. ASSUME calm', NEW p \in Projects, row'[p] = "live"
          PROVE  Matches(p)' \/ Touches(q, Home(p))'
      <3>1. CASE Home(p) = Place(q)
        <4>1. req'[q].op = req[q].op /\ Place(q)' = Place(q) /\ Home(p)' = Home(p)
          BY <1>1, <2>3, Zenon DEF Moved, Place, Home
        <4> QED BY <1>2, <2>2, <2>3, <3>1, <4>1, Zenon DEF Touches, Changing
      <3>2. CASE Home(p) # Place(q)
        <4>1. Matches(p)
          BY <1>1, <2>3, <2>6, <3>2, OnlyRequest, Zenon DEF Touches
        <4>2. Home(p) \in Namespaces /\ Home(p)' = Home(p)
          BY <1>1, Zenon DEF Home, Namespaces
        <4> QED BY <1>1, <2>1, <3>2, <4>1, <4>2, Zenon DEF Matches
      <3> QED BY <3>1, <3>2, Zenon
    <2> QED BY <1>1, <2>3, <2>4, <2>5, <2>6, CalmMove, Zenon
  <1> QED BY <1>3, <1>4

\* A new row carries the limits that were applied for it.
LEMMA CalmInsert ==
    ASSUME IInv, CalmInv, NEW q \in Procs, InsertProject(q)
    PROVE  CalmInv'
  <1> DEFINE o == req[q].proj
  <1>1. ~Idle(q) /\ req[q].pc = "insert" /\ UNCHANGED <<shared, ns, quota>>
    BY Zenon DEF InsertProject, At, Idle, Resting, cluster
  <1>2. req[q].op = "create" /\ o \in Projects /\ req[q].arg \in Quotas
    BY <1>1, Underway, SMTT(40) DEF Route, AllOps, Request
  <1>3. CASE \E r \in Projects : row[r] = "live" /\ Home(r) = Home(o)
    BY <1>1, <1>3, CalmError, Zenon DEF InsertProject
  <1>4. CASE ~\E r \in Projects : row[r] = "live" /\ Home(r) = Home(o)
    <2>1. /\ Go(q, "event")
          /\ row' = [row EXCEPT ![o] = "live"] /\ suspended' = [suspended EXCEPT ![o] = FALSE]
          /\ overrides' = [overrides EXCEPT ![o] = req[q].arg]
      BY <1>4, Zenon DEF InsertProject
    <2>2. Moved(q) /\ req'[q].pc = "event" /\ calm' = calm
      BY <2>1, GoFacts, Zenon DEF IInv, Go, Pcs
    <2>3. \A p \in Projects : /\ Home(p)' = Home(p)
                              /\ row'[p] = "live" => p = o \/ row[p] = "live"
      BY <1>1, <1>2, <2>1, Zenon DEF Home, IInv, TypeOK
    <2>4. OneLive'
      BY <1>2, <1>4, <2>3, SMTT(40) DEF CalmInv, OneLive
    <2>5. StillThere(q)'
      BY <2>2, Zenon DEF StillThere
    <2>6. ASSUME calm', NEW p \in Projects, row'[p] = "live" PROVE Matches(p)'
      <3>1. CASE p = o
        <4>1. Home(p) \in ns /\ (~shared => quota[Home(p)] = req[q].arg)
          BY <1>1, <1>2, <2>2, <2>6, <3>1, OnlyRequest, Zenon DEF Progress, Place
        <4>2. overrides'[p] = req[q].arg
          BY <1>2, <2>1, <3>1, Zenon DEF IInv, TypeOK
        <4> QED BY <1>1, <2>3, <4>1, <4>2, Zenon DEF Matches
      <3>2. CASE p # o
        <4>1. row[p] = "live" /\ Home(p) # Home(o)
          BY <1>4, <2>3, <2>6, <3>2, Zenon
        <4>2. Matches(p)
          BY <1>1, <1>2, <2>2, <2>6, <4>1, OnlyRequest, Zenon DEF Touches, Place
        <4>3. overrides'[p] = overrides[p] /\ suspended'[p] = suspended[p]
          BY <1>2, <2>1, <3>2, Zenon DEF IInv, TypeOK
        <4> QED BY <1>1, <2>3, <4>2, <4>3, Zenon DEF Matches
      <3> QED BY <3>1, <3>2
    <2> QED BY <1>1, <2>2, <2>4, <2>5, <2>6, CalmMove, Zenon
  <1> QED BY <1>3, <1>4, Zenon

\* The column stored is the one whose limits were applied.
LEMMA CalmStore ==
    ASSUME IInv, CalmInv, NEW q \in Procs, StoreColumn(q)
    PROVE  CalmInv'
  <1> DEFINE o == req[q].proj
  <1>1. ~Idle(q) /\ req[q].pc = "store" /\ Go(q, "event") /\ UNCHANGED <<shared, row, ns, quota>>
    BY Zenon DEF StoreColumn, At, Idle, Resting, cluster
  <1>2. req[q].op \in Changing /\ o \in Projects /\ req[q].arg \in Quotas
    BY <1>1, Underway, SMTT(40) DEF Route, AllOps, Request, Changing
  <1>3. Moved(q) /\ req'[q].pc = "event" /\ calm' = calm
    BY <1>1, GoFacts, Zenon DEF IInv, Go, Pcs
  <1>4. OneLive' /\ \A p \in Projects : Home(p)' = Home(p)
    BY <1>1, Zenon DEF CalmInv, OneLive, Home
  <1>5. StillThere(q)'
    BY <1>3, Zenon DEF StillThere
  <1>6. ASSUME calm', NEW p \in Projects, row'[p] = "live" PROVE Matches(p)'
    <2>1. /\ req[q].solo /\ Progress(q) /\ StillThere(q)
          /\ Matches(p) \/ Touches(q, Home(p))
      BY <1>1, <1>3, <1>6, OnlyRequest, Zenon
    <2>2. CASE p = o
      <3>1. Home(p) \in ns
        BY <1>1, <1>2, <2>1, <2>2, Zenon DEF StillThere, Place
      <3>2. CASE req[q].op = "suspend"
        <4>1. quota[Home(p)] = "zero"
          BY <1>1, <2>1, <2>2, <3>2, Zenon DEF Progress, Place
        <4>2. suspended' = [suspended EXCEPT ![o] = TRUE]
          BY <3>2, Zenon DEF StoreColumn
        <4>3. suspended'[p]
          BY <2>2, <4>2, Zenon DEF IInv, TypeOK
        <4> QED BY <1>1, <1>4, <3>1, <4>1, <4>3, Zenon DEF Matches
      <3>3. CASE req[q].op = "unsuspend"
        <4>1. quota[Home(p)] = overrides[p] /\ overrides' = overrides
          BY <1>1, <2>1, <2>2, <3>3, Zenon DEF Progress, Place, StoreColumn
        <4> QED BY <1>1, <1>4, <3>1, <4>1, Zenon DEF Matches
      <3>4. CASE req[q].op = "quota"
        <4>1. quota[Home(p)] = req[q].arg
          BY <1>1, <2>1, <2>2, <3>4, Zenon DEF Progress, Place
        <4>2. overrides'[p] = req[q].arg
          BY <2>2, <3>4, Zenon DEF StoreColumn, IInv, TypeOK
        <4> QED BY <1>1, <1>4, <3>1, <4>1, <4>2, Zenon DEF Matches
      <3> QED BY <1>2, <3>2, <3>3, <3>4, Zenon DEF Changing
    <2>3. CASE p # o
      <3>1. row[o] = "live" /\ row[p] = "live"
        BY <1>1, <1>2, <1>6, <2>1, Zenon DEF StillThere
      <3>2. Home(p) # Place(q)
        BY <1>2, <2>3, <3>1, Zenon DEF CalmInv, OneLive, Place
      <3>3. Matches(p)
        BY <1>1, <1>2, <2>1, <3>2, Zenon DEF Touches, Changing
      <3>4. overrides'[p] = overrides[p] /\ suspended'[p] = suspended[p]
        BY <1>2, <2>3, Zenon DEF StoreColumn, IInv, TypeOK
      <3> QED BY <1>1, <1>4, <3>3, <3>4, Zenon DEF Matches
    <2> QED BY <2>2, <2>3
  <1> QED BY <1>1, <1>3, <1>4, <1>5, <1>6, CalmMove, Zenon

\* A deletion takes the row of the project whose objects it dropped.
LEMMA CalmDelete ==
    ASSUME IInv, CalmInv, NEW q \in Procs, req[q].op = "delete", DropObjects(q) \/ SoftDelete(q)
    PROVE  CalmInv'
  <1> DEFINE o == req[q].proj
  <1>1. /\ ~Idle(q) /\ req[q].pc \in {"drop", "softDelete"}
        /\ UNCHANGED <<shared, suspended, overrides>> /\ \A p \in Projects : Home(p)' = Home(p)
    BY SMTT(40) DEF DropObjects, SoftDelete, At, Idle, Resting, tables, Home
  <1>2. o \in Projects /\ Place(q) \in Namespaces
    BY <1>1, Underway, Zenon
  <1>3. CASE DropObjects(q)
    <2>1. Moved(q) /\ req'[q].pc = "softDelete" /\ row' = row /\ req[q].pc = "drop"
      BY <1>3, GoFacts, GoDespiteFacts, Zenon DEF DropObjects, IInv, Pcs, tables, At
    <2>2. calm' => /\ calm
                   /\ \A n \in Namespaces : n # Place(q) => quota'[n] = quota[n]
                                                            /\ (n \in ns => n \in ns')
      BY <1>3, Zenon DEF DropObjects, Go, GoDespiteError, IInv, TypeOK
    <2>3. OneLive' /\ StillThere(q)'
      <3>1. OneLive'
        BY <1>1, <2>1, Zenon DEF CalmInv, OneLive
      <3>2. StillThere(q)'
        BY <2>1, Zenon DEF StillThere
      <3> QED BY <3>1, <3>2, Zenon
    <2>4. ASSUME calm', NEW p \in Projects, row'[p] = "live"
          PROVE  Matches(p)' \/ Touches(q, Home(p))'
      <3>1. CASE Home(p) = Place(q)
        <4>1. req'[q].op = "delete" /\ Place(q)' = Place(q)
          BY <1>1, <2>1, Zenon DEF Moved, Place, Home
        <4> QED BY <1>1, <2>1, <3>1, <4>1, Zenon DEF Touches
      <3>2. CASE Home(p) # Place(q)
        <4>1. Matches(p)
          BY <1>1, <2>1, <2>2, <2>4, <3>2, OnlyRequest, Zenon DEF Touches
        <4>2. Home(p) \in Namespaces
          BY Zenon DEF Home, Namespaces
        <4> QED BY <1>1, <2>2, <2>4, <3>2, <4>1, <4>2, Zenon DEF Matches
      <3> QED BY <3>1, <3>2, Zenon
    <2> QED BY <1>1, <2>1, <2>2, <2>3, <2>4, CalmMove, Zenon
  <1>4. CASE SoftDelete(q)
    <2>1. Moved(q) /\ req'[q].pc = "event" /\ calm' = calm /\ req[q].pc = "softDelete"
      BY <1>4, GoFacts, Zenon DEF SoftDelete, IInv, Pcs, Go, At
    <2>2. /\ UNCHANGED <<ns, quota>>
          /\ \A p \in Projects : row'[p] = "live" => row[p] = "live" /\ p # o
      BY <1>4, Zenon DEF SoftDelete, cluster
    <2>3. OneLive' /\ StillThere(q)'
      <3>1. OneLive'
        BY <1>1, <2>1, <2>2, SMTT(40) DEF CalmInv, OneLive
      <3>2. StillThere(q)'
        BY <2>1, Zenon DEF StillThere
      <3> QED BY <3>1, <3>2, Zenon
    <2>4. ASSUME calm', NEW p \in Projects, row'[p] = "live" PROVE Matches(p)'
      <3>1. row[o] = "live" /\ row[p] = "live" /\ p # o
        BY <1>1, <2>1, <2>2, <2>4, OnlyRequest, Zenon DEF Progress
      <3>2. Home(p) # Place(q)
        BY <1>2, <3>1, Zenon DEF CalmInv, OneLive, Place
      <3>3. Matches(p)
        BY <1>1, <2>1, <2>4, <3>1, <3>2, OnlyRequest, Zenon DEF Touches
      <3> QED BY <1>1, <2>2, <3>3, Zenon DEF Matches
    <2> QED BY <1>1, <2>1, <2>3, <2>4, CalmMove, Zenon
  <1> QED BY <1>3, <1>4, Zenon

\* Deleting the user takes every row.
LEMMA CalmDeleteUser ==
    ASSUME IInv, CalmInv, NEW q \in Procs, req[q].op = "deleteUser",
           DropSpaces(q) \/ SoftDeleteAll(q)
    PROVE  CalmInv'
  <1>1. /\ ~Idle(q) /\ shared' = shared /\ \A p \in Projects : Home(p)' = Home(p)
    BY DEF DropSpaces, SoftDeleteAll, At, Idle, Resting, tables, Home
  <1>2. CASE DropSpaces(q)
    <2>1. Moved(q) /\ req'[q].pc = "softDelete" /\ row' = row /\ (calm' => calm)
      <3>1. Moved(q) /\ req'[q].pc = "softDelete"
        BY <1>2, GoFacts, GoDespiteFacts, Zenon DEF DropSpaces, IInv, Pcs
      <3>2. row' = row /\ (calm' => calm)
        BY <1>2 DEF DropSpaces, tables, Go, GoDespiteError
      <3> QED BY <3>1, <3>2, Zenon
    <2>2. OneLive' /\ StillThere(q)'
      <3>1. OneLive'
        BY <1>1, <2>1, Zenon DEF CalmInv, OneLive
      <3>2. StillThere(q)'
        BY <2>1, Zenon DEF StillThere
      <3> QED BY <3>1, <3>2, Zenon
    <2>3. \A p \in Projects : Touches(q, Home(p))'
      BY <2>1, Zenon DEF Touches, Moved
    <2> QED BY <1>1, <2>1, <2>2, <2>3, CalmMove, Zenon
  <1>3. CASE SoftDeleteAll(q)
    <2>1. Moved(q) /\ req'[q].pc = "done"
      BY <1>3, GoFacts, GoDespiteFacts, Zenon DEF SoftDeleteAll, IInv, Pcs, Resting
    <2>2. /\ calm' => calm /\ \A p \in Projects : row'[p] # "live"
          /\ \A p \in Projects : row'[p] = "live" => row[p] = "live"
      BY <1>3 DEF SoftDeleteAll, Go, GoDespiteError, IInv, TypeOK
    <2>3. OneLive' /\ StillThere(q)'
      <3>1. OneLive'
        BY <1>1, <2>1, <2>2, ZenonT(60) DEF CalmInv, OneLive
      <3>2. StillThere(q)'
        BY <2>1, Zenon DEF StillThere
      <3> QED BY <3>1, <3>2
    <2> QED BY <1>1, <2>1, <2>2, <2>3, CalmMove, Zenon
  <1> QED BY <1>2, <1>3, Zenon

\* The calm lasts only when a request begins with no other under way.
LEMMA CalmBegin ==
    ASSUME IInv, CalmInv, NEW q \in Procs, Client(q)
    PROVE  CalmInv'
  <1>1. PICK op, pc, p, o : Begin(q, op, pc, p, o) /\ pc \in {"gate", "drop"}
    BY Zenon DEF Client, CreateBegin, ChangeBegin, QuotaBegin, DeleteUserBegin
  <1>2. UNCHANGED <<shared, row, suspended, overrides, ns, quota>> /\ req[q].pc \in Resting
    BY <1>1 DEF Begin, tables, cluster, Idle
  <1>3. OneLive' /\ \A x \in Projects : Matches(x) => Matches(x)'
    BY <1>2, Zenon DEF CalmInv, OneLive, Home, Matches
  <1>4. ASSUME calm' PROVE calm /\ \A r \in Procs : Idle(r)
    BY <1>1, <1>4, Zenon DEF Begin, IInv, TypeOK
  <1>5. ASSUME calm' PROVE \A r \in Procs : (~Idle(r)' => req'[r].solo) /\ StillThere(r)'
    <2>1. req'[q].pc = pc /\ req'[q].solo
      BY <1>1, <1>4, <1>5 DEF Begin
    <2>2. ASSUME NEW r \in Procs, r # q PROVE req'[r].pc \in Resting
      <3>1. req[r] \in Request /\ req'[r] = [req[r] EXCEPT !.solo = FALSE]
        BY <1>1, <2>2 DEF Begin, IInv, TypeOK
      <3>2. req'[r].pc = req[r].pc
        BY <3>1 DEF Request
      <3> QED BY <1>4, <1>5, <3>2, Zenon DEF Idle
    <2> QED BY <1>1, <2>1, <2>2, Zenon DEF Idle, StillThere, Resting
  <1>6. ASSUME calm', NEW x \in Projects, row'[x] = "live" PROVE Matches(x)'
    <2>1. \A r \in Procs : ~Touches(r, Home(x))
      BY <1>4, <1>6, Zenon DEF Idle, Resting, Touches
    <2> QED BY <1>2, <1>3, <1>4, <1>6, <2>1, Zenon DEF CalmInv
  <1> QED BY <1>3, <1>5, <1>6, Zenon DEF CalmInv

\* Nothing of this depends on maintenance.
LEMMA CalmMaintenance ==
    ASSUME IInv, CalmInv, NEW on \in BOOLEAN, SetMaintenance(on)
    PROVE  CalmInv'
  <1>1. \A q \in Procs : /\ req'[q].op = req[q].op /\ req'[q].pc = req[q].pc
                         /\ req'[q].proj = req[q].proj /\ req'[q].solo = req[q].solo
    BY UnderOnly, Zenon DEF IInv
  <1>2. UNCHANGED <<shared, row, suspended, overrides, ns, quota, calm>>
    BY DEF SetMaintenance, tables, cluster
  <1>3. OneLive' /\ \A p \in Projects : Home(p)' = Home(p) /\ (Matches(p) => Matches(p)')
    BY <1>2, Zenon DEF CalmInv, OneLive, Home, Matches
  <1>4. ASSUME NEW q \in Procs
        PROVE  /\ Idle(q)' = Idle(q) /\ (StillThere(q) => StillThere(q)')
               /\ \A p \in Projects : Touches(q, Home(p)) => Touches(q, Home(p))'
    BY <1>1, <1>2, <1>4, Zenon DEF Idle, StillThere, Touches, Place, Home
  <1> QED BY <1>1, <1>2, <1>3, <1>4, Zenon DEF CalmInv

\* The stronger invariant is kept by every step
LEMMA CalmNext == IInv /\ CalmInv /\ Next => CalmInv'
  <1> SUFFICES ASSUME IInv, CalmInv, Next PROVE CalmInv'
    OBVIOUS
  <1>1. ASSUME NEW q \in Procs, Stop(q) PROVE CalmInv'
    BY <1>1, CalmError, Zenon DEF Stop, tables, cluster
  <1>2. ASSUME NEW q \in Procs, Client(q) \/ Step(q) PROVE CalmInv'
    BY <1>2, CalmBegin, CalmQuietSteps, CalmCreating, CalmApply, CalmInsert, CalmStore,
       CalmDelete, CalmDeleteUser, Zenon DEF Step
  <1> QED BY <1>1, <1>2, CalmMaintenance DEF Next

\* and by none.
LEMMA CalmStutter == CalmInv /\ UNCHANGED vars => CalmInv'
  <1> SUFFICES ASSUME CalmInv, UNCHANGED vars PROVE CalmInv'
    OBVIOUS
  <1>1. UNCHANGED <<shared, row, suspended, overrides, ns, quota, calm, req>>
    BY Zenon DEF vars
  <1> QED BY <1>1, SMTT(40) DEF CalmInv, OneLive, Matches, Touches, StillThere, Place, Home, Idle

\* As long as requests neither overlap nor fail half-way, whatever their order
\* and number, between them every live project has its namespace and, in
\* dedicated mode, the limits its row names (or zero while it is suspended).
THEOREM LimitsFollowRow == Spec => []LimitsMatchRow
  <1>1. Init => CalmInv
    BY DEF Init, CalmInv, OneLive, Idle, Resting, StillThere, Changing
  <1>2. CalmInv => LimitsMatchRow
    <2> SUFFICES ASSUME CalmInv, calm, \A q \in Procs : Idle(q),
                        NEW p \in Projects, row[p] = "live"
                 PROVE  Matches(p)
      BY Zenon DEF LimitsMatchRow, Matches
    <2>1. \A q \in Procs : ~Touches(q, Home(p))
      BY Zenon DEF Idle, Resting, Touches
    <2> QED BY <2>1, Zenon DEF CalmInv
  <1> QED BY <1>1, <1>2, CalmNext, CalmStutter, Inductive, PTL DEF Spec

-----------------------------------------------------------------------------
(* DNS records of a host.                                                  *)

DnsCallType ==
    [op : {"none", "ensure", "delete"}, pc : {"idle", "send", "list", "delete", "create", "done"},
     want : SUBSET AddressRecords, seen : SUBSET (AddressRecords \cup {Foreign}),
     todo : SUBSET AddressRecords, solo : BOOLEAN]

DnsTypeOK ==
    /\ provider \in {"none", "http", "cloudflare", "powerdns"}
    /\ zone \in SUBSET (AddressRecords \cup {Foreign}) /\ Foreign \in zone
    /\ dnsCall \in [DnsWorkers -> DnsCallType]

\* The steps of a call are those of its provider, and a deletion wants nothing.
OfProvider(w) ==
    /\ dnsCall[w].pc \in {"list", "delete", "create"} => provider = "cloudflare"
    /\ dnsCall[w].pc = "send" => provider \in {"http", "powerdns"}
    /\ dnsCall[w].pc # "idle" => dnsCall[w].op \in {"ensure", "delete"} /\ provider # "none"
    /\ dnsCall[w].op = "delete" => dnsCall[w].want = {}

\* The records a call is answerable for.
Mine(w) == IF provider = "powerdns" /\ dnsCall[w].op = "ensure"
             THEN {r \in AddressRecords : r.type \in Families(dnsCall[w].want)}
             ELSE AddressRecords

\* What a call that runs alone has brought about: what it has not deleted yet
\* is on its list, then what it has not created yet is.
RecordsSoFar(w) ==
    LET k == dnsCall[w] IN
    /\ k.pc = "delete" => /\ zone \cap AddressRecords \subseteq k.want \cup k.todo
                          /\ k.seen \cap k.want \subseteq zone /\ k.todo \cap k.want = {}
    /\ k.pc = "create" => /\ zone \cap AddressRecords \subseteq k.want
                          /\ k.want \ zone \subseteq k.todo /\ k.todo \subseteq k.want
    /\ k.pc = "done" => zone \cap Mine(w) = k.want

\* Beside a call that runs alone, every other one rests.
RunsAlone(w) == \A y \in DnsWorkers \ {w} : dnsCall[y].pc \in {"idle", "done"} /\ ~dnsCall[y].solo

DnsInv ==
    /\ DnsTypeOK
    /\ \A w \in DnsWorkers : OfProvider(w) /\ (dnsCall[w].solo => RecordsSoFar(w) /\ RunsAlone(w))

-----------------------------------------------------------------------------

\* No address record is the record of others.
LEMMA ForeignIsForeign == Foreign \notin AddressRecords
  BY Zenon DEF Foreign, AddressRecords, ARecords, AAAARecords

\* The record of no call.
LEMMA NoDnsCallFacts ==
    /\ NoDnsCall \in DnsCallType /\ NoDnsCall.op = "none" /\ NoDnsCall.pc = "idle"
    /\ NoDnsCall.solo = FALSE /\ NoDnsCall.want = {}
  BY Zenon DEF NoDnsCall, DnsCallType

\* Initially no provider is configured and nothing is in flight.
LEMMA InitDnsInv == DnsInit => DnsInv
  <1> SUFFICES ASSUME DnsInit PROVE DnsInv
    OBVIOUS
  <1>1. DnsTypeOK
    BY NoDnsCallFacts, Zenon DEF DnsInit, DnsTypeOK
  <1>2. \A w \in DnsWorkers : OfProvider(w) /\ ~dnsCall[w].solo
    BY NoDnsCallFacts, Zenon DEF DnsInit, OfProvider
  <1> QED BY <1>1, <1>2, Zenon DEF DnsInv

\* A step of one call: the others rest if it runs alone, and have nothing to
\* keep if it does not.
LEMMA OneCallStep ==
    ASSUME DnsInv, NEW w \in DnsWorkers, ~Resting_(w), NEW new \in DnsCallType,
           dnsCall' = [dnsCall EXCEPT ![w] = new], provider' = provider,
           zone' \in SUBSET (AddressRecords \cup {Foreign}), Foreign \in zone',
           OfProvider(w)', new.solo => dnsCall[w].solo, new.solo => RecordsSoFar(w)'
    PROVE  DnsInv'
  <1>1. dnsCall'[w] = new /\ \A y \in DnsWorkers \ {w} : dnsCall'[y] = dnsCall[y]
    BY Zenon DEF DnsInv, DnsTypeOK
  <1>2. DnsTypeOK'
    BY Zenon DEF DnsInv, DnsTypeOK
  <1>3. \A y \in DnsWorkers \ {w} : ~dnsCall[y].solo /\ OfProvider(y)
    BY Zenon DEF DnsInv, RunsAlone, Resting_
  <1>4. \A y \in DnsWorkers \ {w} : OfProvider(y)' /\ ~dnsCall'[y].solo
    BY <1>1, <1>3, Zenon DEF OfProvider
  <1>5. new.solo => RunsAlone(w)'
    BY <1>1, Zenon DEF DnsInv, RunsAlone
  <1> QED BY <1>1, <1>2, <1>4, <1>5, Zenon DEF DnsInv

\* A call begins: the calls at rest are forgotten, the others no longer run alone.
LEMMA DnsBeginStep ==
    ASSUME DnsInv, NEW w \in DnsWorkers, NEW op \in {"ensure", "delete"},
           NEW want \in SUBSET AddressRecords, op = "delete" => want = {}, BeginDns(w, op, want)
    PROVE  DnsInv'
  <1> DEFINE pc == IF provider = "cloudflare" THEN "list" ELSE "send"
             solo == \A y \in DnsWorkers \ {w} : Resting_(y)
             new == [NoDnsCall EXCEPT !.op = op, !.want = want, !.pc = pc, !.solo = solo]
  <1>1. /\ dnsCall' = [x \in DnsWorkers |->
                         IF x = w THEN new
                         ELSE IF Resting_(x) THEN NoDnsCall ELSE [dnsCall[x] EXCEPT !.solo = FALSE]]
        /\ UNCHANGED <<provider, zone>> /\ provider # "none"
    BY Zenon DEF BeginDns
  <1>2. pc \in {"list", "send"} /\ solo \in BOOLEAN
    BY Zenon
  <1> HIDE DEF pc, solo
  <1>3. /\ new.op = op /\ new.want = want /\ new.pc = pc /\ new.solo = solo
    BY DEF NoDnsCall
  <1>4. new \in DnsCallType
    BY <1>2, Zenon DEF NoDnsCall, DnsCallType
  <1> HIDE DEF new
  <1>5. /\ dnsCall'[w] = new
        /\ \A x \in DnsWorkers \ {w} :
             dnsCall'[x] = IF Resting_(x) THEN NoDnsCall ELSE [dnsCall[x] EXCEPT !.solo = FALSE]
    BY <1>1
  <1>6. ASSUME NEW x \in DnsWorkers \ {w}
        PROVE  dnsCall'[x] \in DnsCallType /\ dnsCall'[x].solo = FALSE /\ OfProvider(x)'
    <2>1. CASE Resting_(x)
      BY <1>5, <2>1, NoDnsCallFacts, Zenon DEF OfProvider
    <2>2. CASE ~Resting_(x)
      <3> DEFINE old == [dnsCall[x] EXCEPT !.solo = FALSE]
      <3>1. /\ old \in DnsCallType /\ old.solo = FALSE /\ old.op = dnsCall[x].op
            /\ old.pc = dnsCall[x].pc /\ old.want = dnsCall[x].want
        BY Zenon DEF DnsInv, DnsTypeOK, DnsCallType
      <3>2. dnsCall'[x] = old
        BY <1>5, <2>2
      <3> HIDE DEF old
      <3> QED BY <1>1, <3>1, <3>2, Zenon DEF OfProvider, DnsInv
    <2> QED BY <2>1, <2>2, Zenon
  <1>7. DnsTypeOK'
    <2>1. \A x \in DnsWorkers : dnsCall'[x] \in DnsCallType
      BY <1>4, <1>5, <1>6, Zenon
    <2>2. dnsCall' \in [DnsWorkers -> DnsCallType]
      BY <1>1, <2>1
    <2> QED BY <1>1, <2>2 DEF DnsInv, DnsTypeOK
  <1>8. OfProvider(w)' /\ RecordsSoFar(w)'
    BY <1>1, <1>2, <1>3, <1>5, Zenon DEF OfProvider, RecordsSoFar, pc, DnsInv, DnsTypeOK
  <1>9. solo => RunsAlone(w)'
    BY <1>5, <1>6, NoDnsCallFacts, Zenon DEF RunsAlone, solo
  <1> QED BY <1>3, <1>5, <1>6, <1>7, <1>8, <1>9, Zenon DEF DnsInv

\* A call fails.
LEMMA FailStep == ASSUME DnsInv, NEW w \in DnsWorkers, DnsCallFails(w) PROVE DnsInv'
  <1>1. dnsCall' = [dnsCall EXCEPT ![w] = NoDnsCall] /\ dnsCall'[w] = NoDnsCall
    BY Zenon DEF DnsCallFails, DnsInv, DnsTypeOK
  <1>2. OfProvider(w)'
    BY <1>1, NoDnsCallFacts, Zenon DEF OfProvider
  <1> QED BY <1>1, <1>2, NoDnsCallFacts, OneCallStep, Zenon DEF DnsCallFails, DnsInv, DnsTypeOK

\* A single request settles the records at once.
LEMMA SentStep ==
    ASSUME DnsInv, NEW w \in DnsWorkers, dnsCall[w].pc = "send", Advance_(w, "done"),
           NEW dropped \in SUBSET AddressRecords, dropped = Mine(w),
           zone' = (zone \ dropped) \cup dnsCall[w].want, provider' = provider
    PROVE  DnsInv'
  <1> DEFINE k == dnsCall[w]
             new == [k EXCEPT !.pc = "done"]
  <1>1. k \in DnsCallType /\ OfProvider(w) /\ ~Resting_(w)
    BY Zenon DEF DnsInv, DnsTypeOK, Resting_
  <1>2. /\ new \in DnsCallType /\ new.op = k.op /\ new.pc = "done" /\ new.want = k.want
        /\ new.solo = k.solo
    BY <1>1, Zenon DEF DnsCallType
  <1>3. dnsCall' = [dnsCall EXCEPT ![w] = new]
    BY DEF Advance_
  <1> HIDE DEF new
  <1>4. dnsCall'[w] = new
    BY <1>3, Zenon DEF DnsInv, DnsTypeOK
  <1>5. zone' \in SUBSET (AddressRecords \cup {Foreign}) /\ Foreign \in zone'
    BY <1>1, ForeignIsForeign, Zenon DEF DnsInv, DnsTypeOK, DnsCallType
  <1>6. OfProvider(w)'
    BY <1>1, <1>2, <1>4, Zenon DEF OfProvider
  <1>7. Mine(w)' = dropped /\ k.want \subseteq dropped
    <2>1. Mine(w)' = dropped
      BY <1>2, <1>4, Zenon DEF Mine
    <2>2. k.want \subseteq Mine(w)
      BY <1>1, Zenon DEF Mine, Families, DnsCallType
    <2> QED BY <2>1, <2>2, Zenon
  <1>8. RecordsSoFar(w)'
    BY <1>2, <1>4, <1>7, Zenon DEF RecordsSoFar
  <1> QED BY <1>1, <1>2, <1>3, <1>5, <1>6, <1>8, OneCallStep, Zenon

\* HTTPProvider and PowerDNSProvider.
LEMMA SendSteps == ASSUME DnsInv, NEW w \in DnsWorkers, sendHTTP(w) \/ patchZone(w) PROVE DnsInv'
  <1>1. CASE sendHTTP(w)
    <2>1. Mine(w) = AddressRecords
      BY <1>1, Zenon DEF sendHTTP, Mine
    <2> QED BY <1>1, <2>1, SentStep, Zenon DEF sendHTTP
  <1>2. CASE patchZone(w)
    <2> DEFINE dropped == IF dnsCall[w].op = "delete" THEN AddressRecords
                          ELSE {r \in AddressRecords : \E x \in dnsCall[w].want : x.type = r.type}
    <2>1. /\ provider = "powerdns" /\ dnsCall[w].pc = "send" /\ Advance_(w, "done")
          /\ zone' = (zone \ dropped) \cup dnsCall[w].want /\ provider' = provider
      BY <1>2, Zenon DEF patchZone
    <2>2. dnsCall[w].op \in {"ensure", "delete"}
      BY <2>1, Zenon DEF DnsInv, OfProvider
    <2>3. dropped = Mine(w) /\ dropped \in SUBSET AddressRecords
      BY <2>1, <2>2, Zenon DEF Mine, Families
    <2> HIDE DEF dropped
    <2> QED BY <2>1, <2>3, SentStep, Zenon
  <1> QED BY <1>1, <1>2

\* CloudflareProvider: the list is taken.
LEMMA DnsListStep == ASSUME DnsInv, NEW w \in DnsWorkers, listRecords(w) PROVE DnsInv'
  <1> DEFINE k == dnsCall[w]
             todo == (zone \cap AddressRecords) \ k.want
             new == [k EXCEPT !.seen = zone, !.pc = "delete", !.todo = todo]
  <1>1. k \in DnsCallType /\ OfProvider(w) /\ ~Resting_(w) /\ k.pc = "list"
    BY DEF DnsInv, DnsTypeOK, Resting_, listRecords
  <1>2. /\ new.op = k.op /\ new.pc = "delete" /\ new.want = k.want /\ new.solo = k.solo
        /\ new.seen = zone /\ new.todo = todo
    BY <1>1 DEF DnsCallType
  <1>3. new \in DnsCallType
    BY <1>1, Zenon DEF DnsCallType, DnsInv, DnsTypeOK
  <1>4. dnsCall' = [dnsCall EXCEPT ![w] = new] /\ UNCHANGED <<provider, zone>>
    BY Zenon DEF listRecords
  <1> HIDE DEF new
  <1>5. dnsCall'[w] = new
    BY <1>4, Zenon DEF DnsInv, DnsTypeOK
  <1>6. OfProvider(w)'
    BY <1>1, <1>2, <1>4, <1>5, Zenon DEF OfProvider
  <1>7. RecordsSoFar(w)'
    BY <1>2, <1>4, <1>5, Zenon DEF RecordsSoFar
  <1> QED BY <1>1, <1>2, <1>3, <1>4, <1>6, <1>7, OneCallStep, Zenon DEF DnsInv, DnsTypeOK

\* One record less to delete or to create.
LEMMA RecordStep ==
    ASSUME DnsInv, NEW w \in DnsWorkers, dnsCall[w].pc \in {"delete", "create"},
           NEW r \in dnsCall[w].todo, dnsCall' = [dnsCall EXCEPT ![w].todo = @ \ {r}],
           zone' = IF dnsCall[w].pc = "delete" THEN zone \ {r} ELSE zone \cup {r},
           provider' = provider
    PROVE  DnsInv'
  <1> DEFINE k == dnsCall[w]
             todo == k.todo \ {r}
             new == [k EXCEPT !.todo = todo]
  <1>1. k \in DnsCallType /\ OfProvider(w) /\ ~Resting_(w)
    BY DEF DnsInv, DnsTypeOK, Resting_
  <1>2. todo \in SUBSET AddressRecords /\ r \in AddressRecords
    BY <1>1 DEF DnsCallType
  <1>3. dnsCall' = [dnsCall EXCEPT ![w] = new]
    OBVIOUS
  <1>4. /\ new \in DnsCallType /\ new.op = k.op /\ new.pc = k.pc /\ new.want = k.want
        /\ new.solo = k.solo /\ new.seen = k.seen /\ new.todo = todo
    BY <1>1, <1>2, Zenon DEF DnsCallType
  <1> HIDE DEF new
  <1>5. dnsCall'[w] = new
    BY <1>3 DEF DnsInv, DnsTypeOK
  <1>6. zone' \in SUBSET (AddressRecords \cup {Foreign}) /\ Foreign \in zone'
    BY <1>2, ForeignIsForeign DEF DnsInv, DnsTypeOK
  <1>7. OfProvider(w)'
    BY <1>1, <1>4, <1>5, Zenon DEF OfProvider
  <1>8. new.solo => RecordsSoFar(w)'
    <2> SUFFICES ASSUME k.solo PROVE RecordsSoFar(w)'
      BY <1>4
    <2>1. RecordsSoFar(w)
      BY DEF DnsInv
    <2>2. CASE k.pc = "delete"
      BY <1>4, <1>5, <2>1, <2>2 DEF RecordsSoFar
    <2>3. CASE k.pc = "create"
      BY <1>4, <1>5, <2>1, <2>3, Zenon DEF RecordsSoFar
    <2> QED BY <2>2, <2>3
  <1> QED BY <1>1, <1>3, <1>4, <1>6, <1>7, <1>8, OneCallStep, Zenon

\* Nothing is left to delete: what is missing is created.
LEMMA DeletedStep == ASSUME DnsInv, NEW w \in DnsWorkers, deleteRecord(w) PROVE DnsInv'
  <1> DEFINE k == dnsCall[w]
             todo == k.want \ k.seen
             new == [k EXCEPT !.pc = "create", !.todo = todo]
  <1>1. /\ k \in DnsCallType /\ OfProvider(w) /\ ~Resting_(w) /\ k.pc = "delete"
        /\ provider' = provider
    BY DEF DnsInv, DnsTypeOK, Resting_, deleteRecord
  <1>2. ASSUME NEW r \in k.todo, zone' = zone \ {r},
               dnsCall' = [dnsCall EXCEPT ![w].todo = @ \ {r}]
        PROVE  DnsInv'
    BY <1>1, <1>2, RecordStep, Zenon
  <1>3. CASE /\ k.todo = {} /\ zone' = zone
             /\ dnsCall' = [dnsCall EXCEPT ![w].pc = "create", ![w].todo = todo]
    <2>1. dnsCall' = [dnsCall EXCEPT ![w] = new]
      BY <1>3, Zenon
    <2>2. todo \in SUBSET AddressRecords
      BY <1>1, Zenon DEF DnsCallType
    <2>3. /\ new \in DnsCallType /\ new.op = k.op /\ new.pc = "create" /\ new.want = k.want
          /\ new.solo = k.solo /\ new.todo = todo
      BY <1>1, <2>2, Zenon DEF DnsCallType
    <2> HIDE DEF new
    <2>4. dnsCall'[w] = new
      BY <2>1, Zenon DEF DnsInv, DnsTypeOK
    <2>5. OfProvider(w)'
      BY <1>1, <2>3, <2>4, Zenon DEF OfProvider
    <2>6. k.todo = {} /\ zone' = zone
      BY <1>3
    <2>7. new.solo => RecordsSoFar(w)'
      BY <1>1, <2>3, <2>4, <2>6, Zenon DEF RecordsSoFar, DnsInv
    <2> QED BY <1>1, <2>1, <2>3, <2>5, <2>6, <2>7, OneCallStep, Zenon DEF DnsInv, DnsTypeOK
  <1> QED BY <1>2, <1>3, Zenon DEF deleteRecord

\* Nothing is left to create: the call is done.
LEMMA CreatedStep == ASSUME DnsInv, NEW w \in DnsWorkers, createRecord(w) PROVE DnsInv'
  <1> DEFINE k == dnsCall[w]
             new == [k EXCEPT !.pc = "done"]
  <1>1. /\ k \in DnsCallType /\ OfProvider(w) /\ ~Resting_(w) /\ k.pc = "create"
        /\ provider' = provider
    BY DEF DnsInv, DnsTypeOK, Resting_, createRecord
  <1>2. ASSUME NEW r \in k.todo, zone' = zone \cup {r},
               dnsCall' = [dnsCall EXCEPT ![w].todo = @ \ {r}]
        PROVE  DnsInv'
    BY <1>1, <1>2, RecordStep, Zenon
  <1>3. CASE k.todo = {} /\ zone' = zone /\ Advance_(w, "done")
    <2>1. dnsCall' = [dnsCall EXCEPT ![w] = new]
      BY <1>3 DEF Advance_
    <2>2. /\ new \in DnsCallType /\ new.op = k.op /\ new.pc = "done" /\ new.want = k.want
          /\ new.solo = k.solo
      BY <1>1, Zenon DEF DnsCallType
    <2> HIDE DEF new
    <2>3. dnsCall'[w] = new
      BY <2>1, Zenon DEF DnsInv, DnsTypeOK
    <2>4. OfProvider(w)'
      BY <1>1, <2>2, <2>3, Zenon DEF OfProvider
    <2>5. Mine(w)' = AddressRecords /\ k.want \subseteq AddressRecords
      BY <1>1, Zenon DEF Mine, OfProvider, DnsCallType
    <2>6. k.todo = {} /\ zone' = zone
      BY <1>3, Zenon
    <2>7. new.solo => RecordsSoFar(w)'
      BY <1>1, <2>2, <2>3, <2>5, <2>6, Zenon DEF RecordsSoFar, DnsInv
    <2> QED BY <1>1, <2>1, <2>2, <2>4, <2>6, <2>7, OneCallStep, Zenon DEF DnsInv, DnsTypeOK
  <1> QED BY <1>2, <1>3 DEF createRecord

\* The provider is chosen before any call.
LEMMA ProviderStep == ASSUME DnsInv, NewProvider PROVE DnsInv'
  <1>1. DnsTypeOK'
    BY Zenon DEF NewProvider, DnsInv, DnsTypeOK
  <1>2. \A w \in DnsWorkers : OfProvider(w) /\ dnsCall[w].pc = "idle"
    BY Zenon DEF NewProvider, DnsInv, OfProvider
  <1>3. \A w \in DnsWorkers : OfProvider(w)' /\ RecordsSoFar(w)'
    BY <1>2, Zenon DEF NewProvider, OfProvider, RecordsSoFar
  <1>4. \A w \in DnsWorkers : dnsCall'[w].solo => RunsAlone(w)'
    BY Zenon DEF NewProvider, DnsInv, RunsAlone
  <1> QED BY <1>1, <1>3, <1>4, Zenon DEF DnsInv

\* Every step keeps the invariant.
LEMMA NextDnsInv == DnsInv /\ [DnsNext]_dnsVars => DnsInv'
  <1> SUFFICES ASSUME DnsInv, [DnsNext]_dnsVars PROVE DnsInv'
    BY Zenon
  <1>1. CASE UNCHANGED dnsVars
    BY <1>1, Zenon DEF dnsVars, DnsInv, DnsTypeOK, OfProvider, RecordsSoFar, Mine, RunsAlone
  <1>2. ASSUME NEW w \in DnsWorkers, NEW want \in SUBSET AddressRecords, EnsureRecords(w, want)
        PROVE  DnsInv'
    BY <1>2, DnsBeginStep, Zenon DEF EnsureRecords
  <1>3. ASSUME NEW w \in DnsWorkers, DeleteHostRecords(w)
        PROVE  DnsInv'
    BY <1>3, DnsBeginStep DEF DeleteHostRecords
  <1> QED BY <1>1, <1>2, <1>3, ProviderStep, FailStep, SendSteps, DnsListStep, DeletedStep,
             CreatedStep, Zenon DEF DnsNext

\* A call that succeeded with no other beside it or since leaves the address
\* records asked for and the records of others (EnsureRecords, DeleteRecords).
THEOREM CallsSettle == DnsSpec => []DnsCallSettles
  <1>1. DnsInv => DnsCallSettles
    BY Zenon DEF DnsInv, DnsTypeOK, RecordsSoFar, Mine, DnsCallSettles
  <1> QED BY InitDnsInv, NextDnsInv, <1>1, PTL DEF DnsSpec

-----------------------------------------------------------------------------
(* Stored credentials.                                                     *)

\* What the tables hold was complete when it was accepted; ids are unique; a
\* deploy past the check holds a row of the project or of its user.
Complete(x) ==
    /\ x.table \in {"git", "registry"}
    /\ x.auth \in AuthTypes[x.table] /\ SecretOf(x.auth) \subseteq x.has
CredInv ==
    /\ drawn \in Nat
    /\ \A x \in creds : x.id \in 1..drawn /\ Complete(x.row)
    /\ \A x, y \in creds : x.id = y.id => x = y
    /\ credCall = [c \in CredCallers |-> credCall[c]]
    /\ \A c \in CredCallers :
         /\ credCall[c].pc = "insert" => Complete(credCall[c].row)
         /\ credCall[c].pc = "fetch" =>
              credCall[c].row.scope \in {credCall[c].project, OwnerOf[credCall[c].project]}

\* A request that moves on, and leaves the tables alone.
LEMMA CallMoves ==
    ASSUME CredInv, NEW c \in CredCallers, NEW r, SetCall(c, r), UNCHANGED <<creds, drawn>>,
           r.pc = "insert" => Complete(r.row),
           r.pc = "fetch" => r.row.scope \in {r.project, OwnerOf[r.project]}
    PROVE  CredInv'
  <1>1. credCall' = [credCall EXCEPT ![c] = r] /\ credCall = [o \in CredCallers |-> credCall[o]]
    BY Zenon DEF SetCall, CredInv
  <1>2. /\ credCall' = [o \in CredCallers |-> credCall'[o]] /\ credCall'[c] = r
        /\ \A o \in CredCallers : o # c => credCall'[o] = credCall[o]
    BY <1>1, Zenon
  <1>3. \A o \in CredCallers :
          /\ credCall'[o].pc = "insert" => Complete(credCall'[o].row)
          /\ credCall'[o].pc = "fetch" =>
               credCall'[o].row.scope \in {credCall'[o].project, OwnerOf[credCall'[o].project]}
    BY <1>2, Zenon DEF CredInv
  <1>4. \A x : Complete(x)' = Complete(x)
    BY DEF Complete, AuthTypes, SecretOf
  <1> QED BY <1>2, <1>3, Zenon DEF CredInv, Complete

\* A request that ends; the tables are what they have become.
LEMMA CallEnds ==
    ASSUME CredInv, NEW c \in CredCallers, EndCall(c),
           drawn' \in Nat, \A x \in creds' : x.id \in 1..drawn' /\ Complete(x.row),
           \A x, y \in creds' : x.id = y.id => x = y
    PROVE  CredInv'
  <1>1. credCall' = [credCall EXCEPT ![c] = NoCredCall] /\ credCall = [o \in CredCallers |-> credCall[o]]
    BY Zenon DEF EndCall, SetCall, CredInv
  <1>2. /\ credCall' = [o \in CredCallers |-> credCall'[o]] /\ credCall'[c].pc = "idle"
        /\ \A o \in CredCallers : o # c => credCall'[o] = credCall[o]
    BY <1>1, Zenon DEF NoCredCall
  <1>3. \A o \in CredCallers :
          /\ credCall'[o].pc = "insert" => Complete(credCall'[o].row)
          /\ credCall'[o].pc = "fetch" =>
               credCall'[o].row.scope \in {credCall'[o].project, OwnerOf[credCall'[o].project]}
    BY <1>2, Zenon DEF CredInv
  <1> QED BY <1>2, <1>3, Zenon DEF CredInv, Complete

\* A credential is accepted only when it has what its kind of secret needs.
LEMMA CreateCredentialStep ==
    ASSUME CredInv, NEW c \in CredCallers, NEW table \in {"git", "registry"}, NEW registry,
           CreateCredential(c, table, registry)
    PROVE  CredInv'
  <1>1. PICK auth \in {"TOKEN", "BASIC", "SSH"}, given \in Given_, scope \in Scopes_,
             name \in CredNames :
          /\ auth \in AuthTypes[table]
          /\ SetCall(c, [pc |-> "insert",
                         row |-> [table |-> table, auth |-> auth, scope |-> scope, name |-> name,
                                  registry |-> registry, key |-> encKey,
                                  has |-> SecretOf(auth) \cup (given \cap {"garbled"})]])
    BY Zenon DEF CreateCredential
  <1> DEFINE made == [table |-> table, auth |-> auth, scope |-> scope, name |-> name,
                     registry |-> registry, key |-> encKey,
                     has |-> SecretOf(auth) \cup (given \cap {"garbled"})]
             r == [pc |-> "insert", row |-> made]
  <1>2. Complete(made)
    BY <1>1, Zenon DEF Complete
  <1>3. SetCall(c, r) /\ UNCHANGED <<creds, drawn>>
    BY <1>1, Zenon DEF CreateCredential
  <1> HIDE DEF made
  <1>4. r.pc = "insert" /\ r.row = made
    BY Zenon
  <1> HIDE DEF r
  <1> QED BY <1>2, <1>3, <1>4, CallMoves, Zenon

\* The row that is inserted has an id of its own.
LEMMA InsertCredentialStep ==
    ASSUME CredInv, NEW c \in CredCallers, NEW table, InsertCredential(c, table)
    PROVE  CredInv'
  <1>1. EndCall(c) /\ Complete(credCall[c].row)
    BY Zenon DEF InsertCredential, CredInv
  <1>2. CASE UNCHANGED <<creds, drawn>>
    BY <1>1, <1>2, CallEnds, Zenon DEF CredInv
  <1>3. CASE /\ creds' = creds \cup {[id |-> drawn + 1, row |-> credCall[c].row]}
             /\ drawn' = drawn + 1
    <2> DEFINE x == [id |-> drawn + 1, row |-> credCall[c].row]
    <2>1. x.id = drawn + 1 /\ x.row = credCall[c].row
      BY Zenon
    <2> HIDE DEF x
    <2>2. drawn' \in Nat /\ creds' = creds \cup {x}
      BY <1>3 DEF CredInv, x
    <2>3. \A y \in creds' : y.id \in 1..drawn' /\ Complete(y.row)
      BY <1>1, <1>3, <2>1, <2>2 DEF CredInv
    <2>4. \A y \in creds : y.id # x.id
      BY <2>1 DEF CredInv
    <2>5. \A y, z \in creds' : y.id = z.id => y = z
      BY <2>2, <2>4, Zenon DEF CredInv
    <2> QED BY <1>1, <2>2, <2>3, <2>5, CallEnds, Zenon
  <1> QED BY <1>2, <1>3, Zenon DEF InsertCredential

\* A deploy goes on only with the row it has checked.
LEMMA ReadCredentialStep == ASSUME CredInv, NEW c \in CredCallers, ReadCredential(c) PROVE CredInv'
  <1> DEFINE u == credCall[c]
             Found(x) == x.id = u.id /\ InScope(x.row, u.project) /\ Authenticates(x.row, u.registry)
  <1>1. UNCHANGED <<creds, drawn>>
    BY Zenon DEF ReadCredential
  <1>2. CASE \E x \in creds : Found(x)
    <2>1. PICK x \in creds : x.id = u.id /\ InScope(x.row, u.project)
      BY <1>2, Zenon
    <2> DEFINE y == CHOOSE y \in creds : y.id = u.id
               r == [pc |-> "fetch", project |-> u.project, row |-> y.row]
    <2>2. y \in creds /\ y.id = u.id
      BY <2>1, Zenon
    <2>3. y = x
      BY <2>1, <2>2 DEF CredInv
    <2>4. y.row.scope \in {u.project, OwnerOf[u.project]}
      BY <2>1, <2>3, Zenon DEF InScope
    <2>5. SetCall(c, r)
      BY <1>2, Zenon DEF ReadCredential
    <2> HIDE DEF y
    <2>6. r.pc = "fetch" /\ r.row = y.row /\ r.project = u.project
      BY Zenon
    <2> HIDE DEF r
    <2> QED BY <1>1, <2>4, <2>5, <2>6, CallMoves, Zenon
  <1>3. CASE ~\E x \in creds : Found(x)
    <2>1. SetCall(c, NoCredCall) /\ NoCredCall.pc = "idle"
      BY <1>3, Zenon DEF ReadCredential, NoCredCall
    <2> QED BY <1>1, <2>1, CallMoves, Zenon
  <1> QED BY <1>2, <1>3, Zenon

\* Deleting, using and the rest.
LEMMA OtherCredentialSteps ==
    ASSUME CredInv, NEW c \in CredCallers,
           \/ \E id \in 1..drawn : DeleteGitCredential(c, id) \/ DeleteRegistryCredential(c, id)
           \/ DeleteCredentialRow(c)
           \/ \E p \in CredProjects, id \in 1..drawn, r \in Registries : UseCredential(c, p, id, r)
           \/ FetchSource(c)
    PROVE  CredInv'
  <1>1. CASE \E id \in 1..drawn : DeleteGitCredential(c, id) \/ DeleteRegistryCredential(c, id)
    <2>1. PICK id \in 1..drawn : SetCall(c, [pc |-> "delete", id |-> id])
      BY <1>1, Zenon DEF DeleteGitCredential, DeleteRegistryCredential, DeleteCredential
    <2>2. UNCHANGED <<creds, drawn>>
      BY <1>1, Zenon DEF DeleteGitCredential, DeleteRegistryCredential, DeleteCredential
    <2> DEFINE r == [pc |-> "delete", id |-> id]
    <2>3. r.pc = "delete"
      BY Zenon
    <2> HIDE DEF r
    <2>4. SetCall(c, r)
      BY <2>1, Zenon DEF r
    <2> QED BY <2>2, <2>3, <2>4, CallMoves, Zenon
  <1>2. CASE DeleteCredentialRow(c)
    <2>1. EndCall(c) /\ creds' \subseteq creds /\ UNCHANGED drawn
      BY <1>2, Zenon DEF DeleteCredentialRow
    <2> QED BY <2>1, CallEnds, Zenon DEF CredInv
  <1>3. CASE \E p \in CredProjects, id \in 1..drawn, r \in Registries : UseCredential(c, p, id, r)
    <2>1. PICK p \in CredProjects, id \in 1..drawn, r \in Registries : UseCredential(c, p, id, r)
      BY <1>3, Zenon
    <2> DEFINE u == [pc |-> "use", project |-> p, id |-> id, registry |-> r]
    <2>2. SetCall(c, u) /\ UNCHANGED <<creds, drawn>> /\ u.pc = "use"
      BY <2>1, Zenon DEF UseCredential
    <2> HIDE DEF u
    <2> QED BY <2>2, CallMoves, Zenon
  <1>4. CASE FetchSource(c)
    <2>1. EndCall(c) /\ UNCHANGED <<creds, drawn>>
      BY <1>4, Zenon DEF FetchSource
    <2> QED BY <2>1, CallEnds, Zenon DEF CredInv
  <1> QED BY <1>1, <1>2, <1>3, <1>4, Zenon

\* Every step keeps what is true of credentials.
LEMMA CredInductive == ASSUME CredInv, [CredNext]_credVars PROVE CredInv'
  <1>1. CASE UNCHANGED <<creds, drawn, credCall>>
    BY <1>1, Zenon DEF CredInv, Complete
  <1>2. CASE RestartWithKey
    <2>1. credCall' = [c \in CredCallers |-> NoCredCall] /\ UNCHANGED <<creds, drawn>>
      BY <1>2, Zenon DEF RestartWithKey
    <2>2. \A c \in CredCallers : credCall'[c].pc = "idle"
      BY <2>1, Zenon DEF NoCredCall
    <2> QED BY <2>1, <2>2, Zenon DEF CredInv, Complete
  <1>3. ASSUME NEW c \in CredCallers,
               \/ CreateGitCredential(c)
               \/ \E r \in Registries \cup {AnyRegistry} : CreateRegistryCredential(c, r)
        PROVE  CredInv'
    BY <1>3, CreateCredentialStep, Zenon DEF CreateGitCredential, CreateRegistryCredential
  <1>4. ASSUME NEW c \in CredCallers, InsertGitCredential(c) \/ InsertRegistryCredential(c)
        PROVE  CredInv'
    BY <1>4, InsertCredentialStep, Zenon DEF InsertGitCredential, InsertRegistryCredential
  <1>5. ASSUME NEW s \in Scopes_, SoftDeleteScope(s) PROVE UNCHANGED <<creds, drawn, credCall>>
    BY <1>5, Zenon DEF SoftDeleteScope
  <1>6. ASSUME UNCHANGED credVars PROVE UNCHANGED <<creds, drawn, credCall>>
    BY <1>6, Zenon DEF credVars
  <1> QED BY <1>1, <1>2, <1>3, <1>4, <1>5, <1>6, ReadCredentialStep, OtherCredentialSteps, Zenon DEF CredNext

\* What creating a credential accepts, using it accepts (CreateGitCredential
\* and CreateRegistryCredential against gitCredentialAuth and
\* registryCredentialAuth), for any owners, registries and requests.
THEOREM StoredCredentialsWork == CredSpec => []StoredIsUsable
  <1>1. CredInit => CredInv
    BY SMTT(40) DEF CredInit, CredInv, NoCredCall
  <1>2. CredInv /\ [CredNext]_credVars => CredInv'
    BY CredInductive
  <1>3. CredInv => StoredIsUsable
    <2> SUFFICES ASSUME CredInv, NEW x \in creds, x.row.key = encKey, "garbled" \notin x.row.has,
                        NEW r \in Registries, x.row.registry \in {r, AnyRegistry}
                 PROVE  Authenticates(x.row, r)
      BY Zenon DEF StoredIsUsable
    <2>1. Complete(x.row)
      BY Zenon DEF CredInv
    <2>2. /\ x.row.auth = "TOKEN" => "token" \in x.row.has
          /\ x.row.auth = "BASIC" => {"username", "password"} \subseteq x.row.has
          /\ x.row.auth = "SSH" => "privateKey" \in x.row.has
      <3>1. /\ SecretOf("TOKEN") = {"token"} /\ SecretOf("BASIC") = {"username", "password"}
            /\ SecretOf("SSH") = {"privateKey"}
        BY DEF SecretOf
      <3> QED BY <2>1, <3>1, Zenon DEF Complete
    <2>3. CASE x.row.table = "git"
      <3>1. x.row.auth \in {"TOKEN", "BASIC", "SSH"}
        BY <2>1, <2>3, SMTT(40) DEF Complete, AuthTypes
      <3>2. gitCredentialAuth(x.row)
        BY <2>2, <3>1, Zenon DEF gitCredentialAuth
      <3> QED BY <2>3, <3>2, Zenon DEF Authenticates, DecryptAESGCM
    <2>4. CASE x.row.table = "registry"
      <3>1. x.row.auth \in {"TOKEN", "BASIC"}
        BY <2>1, <2>4 DEF Complete, AuthTypes
      <3>2. registryCredentialAuth(x.row, r)
        BY <2>2, <3>1, Zenon DEF registryCredentialAuth
      <3> QED BY <2>4, <3>2, Zenon DEF Authenticates, DecryptAESGCM
    <2> QED BY <2>1, <2>3, <2>4, Zenon DEF Complete
  <1> QED BY <1>1, <1>2, <1>3, PTL DEF CredSpec

\* A source is fetched with a credential of the project or of its user only
\* (the scope check of resolveGitCredential), for any number of requests.
THEOREM CredentialsServeTheirOwner == CredSpec => []UsedByItsOwner
  <1>1. CredInit => CredInv
    BY DEF CredInit, CredInv, NoCredCall
  <1>2. CredInv /\ [CredNext]_credVars => CredInv'
    BY CredInductive
  <1>3. CredInv => UsedByItsOwner
    BY Zenon DEF CredInv, UsedByItsOwner
  <1> QED BY <1>1, <1>2, <1>3, PTL DEF CredSpec

-----------------------------------------------------------------------------
(* References between admitted objects.                                    *)

Object_ == [uid : Nat, tenant : TenantLabels \cup {NoLabel}, project : Projects_ \cup {NoLabel},
            tenantRef : TenantLabels \cup {NoLabel}, refs : SUBSET Objects, sound : BOOLEAN,
            checked : SUBSET (Objects \X Nat)]

Typed ==
    /\ obj \in [Objects -> Object_] /\ seen \in [Objects -> Object_]
    /\ nextUid \in Nat \ {0}

\* A uid is used once: every copy of an object, and every note of a check, is
\* of an object that was created before.
Numbered ==
    \A o \in Objects :
        /\ obj[o].uid < nextUid /\ seen[o].uid < nextUid
        /\ \A c \in obj[o].checked : c[2] # 0 /\ c[2] < nextUid

\* The cached copy of an object that still lives tells its tenant, however old
\* the copy is, once it tells any.
Living(o) == seen[o].uid # 0 /\ seen[o].uid = obj[o].uid
CacheTellsTenant ==
    \A o \in Objects : Living(o) =>
        /\ Kind[o] = "Project" => seen[o].tenantRef = obj[o].tenantRef
        /\ Kind[o] # "ServiceAccount" /\ seen[o].tenant # NoLabel => obj[o].tenant = seen[o].tenant

\* Projects name a tenant, and so does what was checked.
Labelled ==
    \A o \in Objects :
        /\ Kind[o] = "Project" /\ obj[o].uid # 0 => obj[o].tenantRef # NoLabel
        /\ Kind[o] = "Project" /\ seen[o].uid # 0 => seen[o].tenantRef # NoLabel
        /\ obj[o].checked # {} => obj[o].tenant # NoLabel

AdmissionInv == Typed /\ Numbered /\ CacheTellsTenant /\ Labelled /\ RefsStayInTenant


\* What may be named is neither a Project nor of the kind of what names it.
LEMMA NameableKinds ==
    ASSUME NEW k \in Objects, NEW o \in Nameable(k)
    PROVE  /\ Kind[k] \in {"App", "AppRelease", "ServiceBinding", "Bucket"}
           /\ o \in Objects /\ Kind[o] # "Project" /\ Kind[o] # Kind[k]
  BY SMTT(40) DEF Nameable, RefKinds

\* What an admitted write guarantees, whatever its kind.
LEMMA AdmittedFacts ==
    ASSUME NEW k \in Objects, NEW new \in Specs_(k), Admitted(k, obj[k], new)
    PROVE  /\ Kind[k] # "ServiceAccount" =>
                /\ new.tenant # NoLabel
                /\ obj[k].uid # 0 /\ obj[k].tenant # NoLabel => new.tenant = obj[k].tenant
           /\ Kind[k] = "Project" =>
                /\ new.tenantRef = new.tenant
                /\ obj[k].uid # 0 => obj[k].tenantRef = new.tenantRef
           /\ Kind[k] = "App" => projectForApp(new) /\ new.project # NoLabel
           /\ \A o \in new.refs :
                Exists(o) /\ (Kind[o] # "ServiceAccount" => seen[o].tenant = new.tenant)
  <1>1. Kind[k] # "ServiceAccount" => validateLabels(obj[k], new)
    BY DEF Admitted, validateApp, validateProject, validateRelease, validateBinding, validateBucket
  <1>2. ASSUME NEW o \in new.refs
        PROVE  Exists(o) /\ (Kind[o] # "ServiceAccount" => seen[o].tenant = new.tenant)
    <2>1. o \in Nameable(k)
      BY Zenon DEF Specs_
    <2>2. CASE Kind[k] = "App"
      BY <2>2, Zenon DEF Admitted, validateApp, validateRefs
    <2>3. CASE Kind[k] = "AppRelease"
      BY <2>3 DEF Admitted, validateRelease
    <2>4. CASE Kind[k] = "ServiceBinding"
      BY <2>4 DEF Admitted, validateBinding, validateBindingConsumer, validateBindingProvider
    <2>5. CASE Kind[k] = "Bucket"
      BY <2>5 DEF Admitted, validateBucket
    <2> QED BY <2>1, <2>2, <2>3, <2>4, <2>5, NameableKinds, Zenon
  <1>3. Kind[k] # "ServiceAccount" =>
          /\ new.tenant # NoLabel
          /\ obj[k].uid # 0 /\ obj[k].tenant # NoLabel => new.tenant = obj[k].tenant
    BY <1>1, Zenon DEF validateLabels, validateRequiredLabels, validateTenantImmutability
  <1>4. Kind[k] = "Project" =>
          /\ new.tenantRef = new.tenant
          /\ obj[k].uid # 0 => obj[k].tenantRef = new.tenantRef
    BY DEF Admitted, validateProject
  <1>5. Kind[k] = "App" => projectForApp(new) /\ new.project # NoLabel
    BY DEF Admitted, validateApp, validateLabels, validateRequiredLabels
  <1> QED BY <1>2, <1>3, <1>4, <1>5, Zenon

\* A note of a check that was just made.
Noted(k, new, c) ==
    /\ c \in Objects \X Nat /\ c[1] # k
    /\ c[2] = seen[c[1]].uid /\ c[2] # 0
    /\ Kind[c[1]] = "Project" => seen[c[1]].tenantRef = new.tenant
    /\ Kind[c[1]] \notin {"Project", "ServiceAccount"} => seen[c[1]].tenant = new.tenant
    /\ Kind[k] # "ServiceAccount"

\* What is noted as checked was there, under that uid, in the cache, and was
\* of the tenant.
LEMMA CheckedFacts ==
    ASSUME Typed, Labelled, NEW k \in Objects, NEW new \in Specs_(k), Admitted(k, obj[k], new),
           NEW c \in Checked(k, new)
    PROVE  Noted(k, new, c)
  <1>1. PICK o \in new.refs \cup (IF Kind[k] = "App" THEN {new.project} ELSE {}) :
              c = <<o, seen[o].uid>>
    BY Zenon DEF Checked
  <1>2. CASE o \in new.refs
    <2>1. o \in Nameable(k)
      BY <1>2, Zenon DEF Specs_
    <2>2. Exists(o) /\ (Kind[o] # "ServiceAccount" => seen[o].tenant = new.tenant)
      BY <1>2, AdmittedFacts, Zenon
    <2> QED BY <1>1, <2>1, <2>2, NameableKinds, Zenon DEF Noted, Exists, Typed, Object_
  <1>3. CASE Kind[k] = "App" /\ o = new.project
    <2>1. o \in Projects_ /\ projectForApp(new)
      BY <1>3, AdmittedFacts, Zenon DEF Specs_
    <2> QED BY <1>1, <1>3, <2>1, Zenon DEF Noted, projectForApp, Projects_, Exists, Typed, Object_, Labelled
  <1> QED BY <1>1, <1>2, <1>3, Zenon

\* The object that is not there.
LEMMA AbsentFacts ==
    /\ Absent_ \in Object_ /\ Absent_.uid = 0 /\ Absent_.tenant = NoLabel
    /\ Absent_.tenantRef = NoLabel /\ Absent_.checked = {}
  BY Zenon DEF Absent_, Object_

\* Uids are compared with the next one, which only grows.
LEMMA UidOrder ==
    ASSUME NEW n \in Nat \ {0}
    PROVE  /\ 0 \in Nat /\ 0 < n /\ n + 1 \in Nat \ {0} /\ n < n + 1
           /\ \A u \in Nat : u < n => u < n + 1 /\ u # n
  OBVIOUS

\* A note of a check is an object and a uid.
LEMMA NoteFacts ==
    ASSUME Typed, NEW o \in Objects, NEW c \in obj[o].checked
    PROVE  c[1] \in Objects /\ c[2] \in Nat
  <1>1. c \in Objects \X Nat
    BY Zenon DEF Typed, Object_
  <1> QED BY <1>1, Zenon

\* Initially there is nothing.
LEMMA InitAdmissionInv == AdmissionInit => AdmissionInv
  <1> SUFFICES ASSUME AdmissionInit PROVE AdmissionInv
    OBVIOUS
  <1>1. nextUid = 1 /\ \A o \in Objects : obj[o] = Absent_ /\ seen[o] = Absent_
    BY Zenon DEF AdmissionInit
  <1>2. 1 \in Nat \ {0} /\ 0 < 1
    OBVIOUS
  <1>3. Typed
    BY <1>2, AbsentFacts, Zenon DEF AdmissionInit, Typed
  <1>4. Numbered /\ CacheTellsTenant
    BY <1>1, <1>2, AbsentFacts, Zenon DEF Numbered, CacheTellsTenant, Living
  <1>5. Labelled /\ RefsStayInTenant
    BY <1>1, AbsentFacts, Zenon DEF Labelled, RefsStayInTenant
  <1> QED BY <1>3, <1>4, <1>5, Zenon DEF AdmissionInv

\* An admitted write keeps the invariant.
LEMMA WriteStep ==
    ASSUME AdmissionInv, NEW k \in Objects, NEW new \in Specs_(k), Write(k, new)
    PROVE  AdmissionInv'
  <1> USE DEF AdmissionInv
  <1> DEFINE next == [uid |-> IF obj[k].uid = 0 THEN nextUid ELSE obj[k].uid, tenant |-> new.tenant,
                      project |-> new.project, tenantRef |-> new.tenantRef, refs |-> new.refs,
                      sound |-> new.sound, checked |-> Checked(k, new)]
  <1>1. /\ Admitted(k, obj[k], new) /\ obj' = [obj EXCEPT ![k] = next] /\ seen' = seen
        /\ nextUid' = IF obj[k].uid = 0 THEN nextUid + 1 ELSE nextUid
    BY Zenon DEF Write
  <1>1a. Typed /\ Labelled /\ Admitted(k, obj[k], new)
    BY <1>1, Zenon
  <1>2. next \in Object_
    <2>1. Checked(k, new) \subseteq Objects \X Nat
      BY <1>1a, CheckedFacts, Zenon DEF Noted
    <2>2. new.refs \subseteq Objects /\ new.sound \in BOOLEAN /\ new.tenant \in TenantLabels \cup {NoLabel}
      BY Zenon DEF Specs_, Nameable
    <2>3. new.project \in Projects_ \cup {NoLabel} /\ new.tenantRef \in TenantLabels \cup {NoLabel}
      BY Zenon DEF Specs_
    <2> QED BY <2>1, <2>2, <2>3, Zenon DEF Typed, Object_
  <1>3. /\ obj'[k] = next /\ \A o \in Objects \ {k} : obj'[o] = obj[o]
        /\ next.uid = IF obj[k].uid = 0 THEN nextUid ELSE obj[k].uid
        /\ next.tenant = new.tenant /\ next.tenantRef = new.tenantRef /\ next.checked = Checked(k, new)
    BY <1>1, Zenon DEF Typed
  <1> HIDE DEF next
  <1>5. nextUid \in Nat \ {0} /\ \A o \in Objects : obj[o].uid \in Nat /\ seen[o].uid \in Nat
    BY Zenon DEF Typed, Object_
  <1>5a. /\ nextUid' \in Nat \ {0} /\ next.uid < nextUid'
         /\ \A u \in Nat : u < nextUid => u < nextUid'
    <2>1. CASE obj[k].uid = 0
      <3>1. nextUid' = nextUid + 1 /\ next.uid = nextUid
        BY <1>1, <1>3, <2>1, Zenon
      <3> QED BY <1>5, <3>1, UidOrder, Zenon
    <2>2. CASE obj[k].uid # 0
      BY <1>1, <1>3, <1>5, <2>2, Zenon DEF Numbered
    <2> QED BY <2>1, <2>2, Zenon
  <1>4. Typed'
    BY <1>1, <1>2, <1>5a, Zenon DEF Typed
  <1>6. Numbered'
    <2> SUFFICES ASSUME NEW o \in Objects
                 PROVE  /\ obj'[o].uid < nextUid' /\ seen'[o].uid < nextUid'
                        /\ \A c \in obj'[o].checked : c[2] # 0 /\ c[2] < nextUid'
      BY Zenon DEF Numbered
    <2>0. seen'[o].uid < nextUid'
      BY <1>1, <1>5, <1>5a, Zenon DEF Numbered
    <2>2. CASE o # k
      <3>1. \A c \in obj[o].checked : c[2] \in Nat
        BY NoteFacts, Zenon
      <3> QED BY <1>3, <1>5, <1>5a, <2>0, <2>2, <3>1, Zenon DEF Numbered
    <2>3. CASE o = k
      <3>1. ASSUME NEW c \in Checked(k, new) PROVE c[2] # 0 /\ c[2] < nextUid'
        <4>0. Noted(k, new, c)
          BY <1>1a, <3>1, CheckedFacts, Zenon
        <4>1. c \in Objects \X Nat /\ c[2] = seen[c[1]].uid /\ c[2] # 0
          BY <4>0, Zenon DEF Noted
        <4>2. PICK t \in Objects : t = c[1]
          BY <4>1, Zenon
        <4> QED BY <1>5, <1>5a, <4>1, <4>2, Zenon DEF Numbered
      <3> QED BY <1>3, <1>5a, <2>0, <2>3, <3>1, Zenon
    <2> QED BY <2>2, <2>3, Zenon
  <1>7. CacheTellsTenant'
    <2> SUFFICES ASSUME NEW o \in Objects, Living(o)'
                 PROVE  /\ Kind[o] = "Project" => seen'[o].tenantRef = obj'[o].tenantRef
                        /\ Kind[o] # "ServiceAccount" /\ seen'[o].tenant # NoLabel =>
                             obj'[o].tenant = seen'[o].tenant
      BY Zenon DEF CacheTellsTenant
    <2>1. CASE o # k
      BY <1>1, <1>3, <2>1, Zenon DEF CacheTellsTenant, Living
    <2>2. CASE o = k
      <3>0. seen[k].uid # nextUid
        BY <1>5, UidOrder, Zenon DEF Numbered
      <3>1. obj[k].uid # 0 /\ Living(k)
        BY <1>1, <1>3, <2>2, <3>0, Zenon DEF Living
      <3>2. /\ Kind[k] # "ServiceAccount" /\ obj[k].tenant # NoLabel => new.tenant = obj[k].tenant
            /\ Kind[k] = "Project" => obj[k].tenantRef = new.tenantRef
        BY <1>1, <3>1, AdmittedFacts, Zenon
      <3> QED BY <1>1, <1>3, <2>2, <3>1, <3>2, Zenon DEF CacheTellsTenant
    <2> QED BY <2>1, <2>2, Zenon
  <1>8. Labelled'
    <2>1. Kind[k] = "Project" => new.tenantRef # NoLabel
      BY <1>1, AdmittedFacts, Zenon
    <2>2. Checked(k, new) # {} => new.tenant # NoLabel
      <3>1. Checked(k, new) # {} => Kind[k] # "ServiceAccount"
        BY <1>1a, CheckedFacts, Zenon DEF Noted
      <3>2. Kind[k] # "ServiceAccount" => new.tenant # NoLabel
        BY <1>1a, AdmittedFacts, Zenon
      <3> QED BY <3>1, <3>2, Zenon
    <2> QED BY <1>1, <1>3, <2>1, <2>2, Zenon DEF Labelled
  <1>9. RefsStayInTenant'
    <2> SUFFICES ASSUME NEW o \in Objects, NEW c \in obj'[o].checked,
                        obj'[c[1]].uid = c[2], Kind[c[1]] # "ServiceAccount"
                 PROVE  Owner(c[1])' = obj'[o].tenant
      BY Zenon DEF RefsStayInTenant
    <2>1. CASE o = k
      <3>1. c \in Checked(k, new)
        BY <1>3, <2>1, Zenon
      <3>1a. Noted(k, new, c)
        BY <1>1a, <3>1, CheckedFacts, Zenon
      <3>2. /\ c \in Objects \X Nat /\ c[1] # k /\ c[2] = seen[c[1]].uid /\ c[2] # 0
            /\ Kind[c[1]] = "Project" => seen[c[1]].tenantRef = new.tenant
            /\ Kind[c[1]] \notin {"Project", "ServiceAccount"} => seen[c[1]].tenant = new.tenant
            /\ Kind[k] # "ServiceAccount"
        BY <3>1a, Zenon DEF Noted
      <3>3. PICK t \in Objects : t = c[1]
        BY <3>2, Zenon
      <3>4. obj'[t] = obj[t] /\ Living(t)
        BY <1>3, <3>2, <3>3, Zenon DEF Living
      <3>5. new.tenant # NoLabel
        BY <1>1, <3>2, AdmittedFacts, Zenon
      <3>6. /\ Kind[t] = "Project" => obj[t].tenantRef = new.tenant
            /\ Kind[t] # "Project" => obj[t].tenant = new.tenant
        BY <3>2, <3>3, <3>4, <3>5, Zenon DEF CacheTellsTenant
      <3> QED BY <1>3, <2>1, <3>3, <3>4, <3>6, Zenon DEF Owner
    <2>2. CASE o # k
      <3>0. c \in obj[o].checked
        BY <1>3, <2>2, Zenon
      <3>1. c \in obj[o].checked /\ c[1] \in Objects /\ c[2] # 0 /\ c[2] # nextUid /\ obj[o].tenant # NoLabel
        BY <1>5, <3>0, NoteFacts, UidOrder, Zenon DEF Numbered, Labelled
      <3>2. CASE c[1] # k
        BY <1>3, <2>2, <3>1, <3>2, Zenon DEF RefsStayInTenant, Owner
      <3>3. CASE c[1] = k
        <4>0. obj'[k].uid = c[2] /\ obj'[k].uid = IF obj[k].uid = 0 THEN nextUid ELSE obj[k].uid
          BY <1>3, <3>3, Zenon
        <4>1. obj[k].uid # 0 /\ obj[k].uid = c[2]
          BY <3>1, <4>0, Zenon
        <4>2. Owner(k) = obj[o].tenant
          BY <3>1, <3>3, <4>1, Zenon DEF RefsStayInTenant
        <4>3. /\ Kind[k] # "ServiceAccount" /\ obj[k].tenant # NoLabel => new.tenant = obj[k].tenant
              /\ Kind[k] = "Project" => obj[k].tenantRef = new.tenantRef
          BY <1>1, <4>1, AdmittedFacts, Zenon
        <4>4. obj'[o] = obj[o] /\ obj'[k].tenant = new.tenant /\ obj'[k].tenantRef = new.tenantRef
          BY <1>3, <2>2, Zenon
        <4> QED BY <3>1, <3>3, <4>2, <4>3, <4>4, Zenon DEF Owner
      <3> QED BY <3>2, <3>3, Zenon
    <2> QED BY <2>1, <2>2, Zenon
  <1> QED BY <1>4, <1>6, <1>7, <1>8, <1>9, Zenon

\* An object that was there before the webhooks.
LEMMA LegacyStep ==
    ASSUME AdmissionInv, NEW k \in Objects, Legacy(k)
    PROVE  AdmissionInv'
  <1> USE DEF AdmissionInv
  <1>1. PICK t \in IF Kind[k] = "Project" THEN TenantLabels ELSE {NoLabel} :
             obj' = [obj EXCEPT ![k] = [Absent_ EXCEPT !.uid = nextUid, !.tenantRef = t]]
    BY Zenon DEF Legacy
  <1> DEFINE new == [Absent_ EXCEPT !.uid = nextUid, !.tenantRef = t]
  <1>2. nextUid = 1 /\ nextUid' = 2 /\ seen' = seen
    BY SMTT(40) DEF Legacy
  <1>3. new.uid = 1 /\ new.tenant = NoLabel /\ new.tenantRef = t /\ new.checked = {}
    BY <1>2 DEF Absent_
  <1>4. new \in Object_ /\ (Kind[k] = "Project" => t # NoLabel)
    BY <1>2, AdmissionAssumption, Zenon DEF Absent_, Object_
  <1>5. obj'[k] = new /\ \A o \in Objects \ {k} : obj'[o] = obj[o]
    BY <1>1 DEF Typed
  <1>6. Typed'
    BY <1>1, <1>2, <1>4 DEF Typed
  <1>7. \A o \in Objects : obj[o].uid = 0 /\ seen[o].uid = 0 /\ obj[o].checked = {}
    <2> SUFFICES ASSUME NEW o \in Objects
                 PROVE  obj[o].uid = 0 /\ seen[o].uid = 0 /\ obj[o].checked = {}
      BY Zenon
    <2>1. obj[o].uid \in Nat /\ seen[o].uid \in Nat /\ obj[o].uid < 1 /\ seen[o].uid < 1
      BY <1>2, Zenon DEF Typed, Object_, Numbered
    <2>2. ASSUME NEW c \in obj[o].checked PROVE FALSE
      <3>1. c[2] \in Nat /\ c[2] # 0 /\ c[2] < 1
        BY <1>2, NoteFacts, Zenon DEF Numbered
      <3> QED BY <3>1
    <2>3. obj[o].uid = 0 /\ seen[o].uid = 0
      BY <2>1
    <2> QED BY <2>2, <2>3, Zenon
  <1> HIDE DEF new
  <1>8. Numbered'
    <2>1. 0 < 2 /\ 1 < 2
      OBVIOUS
    <2> QED BY <1>2, <1>3, <1>5, <1>7, <2>1, Zenon DEF Numbered
  <1>9. CacheTellsTenant' /\ Labelled'
    BY <1>2, <1>3, <1>4, <1>5, <1>7, Zenon DEF CacheTellsTenant, Living, Labelled
  <1>10. RefsStayInTenant'
    <2>1. \A o \in Objects : obj'[o].checked = {}
      BY <1>2, <1>3, <1>4, <1>5, <1>7, Zenon
    <2> QED BY <2>1, Zenon DEF RefsStayInTenant
  <1> QED BY <1>6, <1>8, <1>9, <1>10, Zenon

\* Deletion: notes of the deleted object's uid are of nothing that exists.
LEMMA DeleteStep ==
    ASSUME AdmissionInv, NEW k \in Objects, ValidateDelete(k)
    PROVE  AdmissionInv'
  <1> USE DEF AdmissionInv
  <1>1. obj' = [obj EXCEPT ![k] = Absent_] /\ seen' = seen /\ nextUid' = nextUid
    BY Zenon DEF ValidateDelete
  <1>2. Absent_ \in Object_ /\ Absent_.uid = 0 /\ Absent_.checked = {}
    BY AbsentFacts, Zenon
  <1>3. obj'[k] = Absent_ /\ \A o \in Objects \ {k} : obj'[o] = obj[o]
    BY <1>1, Zenon DEF Typed
  <1>4. Typed'
    BY <1>1, <1>2, Zenon DEF Typed
  <1>5. Numbered'
    <2>1. 0 < nextUid
      BY UidOrder, Zenon DEF Typed
    <2>2. ASSUME NEW o \in Objects
          PROVE  obj'[o].uid < nextUid /\ \A c \in obj'[o].checked : c[2] # 0 /\ c[2] < nextUid
      BY <1>2, <1>3, <2>1, Zenon DEF Numbered
    <2> QED BY <1>1, <2>2, Zenon DEF Numbered
  <1>6. CacheTellsTenant' /\ Labelled'
    <2>1. ASSUME NEW o \in Objects
          PROVE  obj'[o] = obj[o] \/ (obj'[o].uid = 0 /\ obj'[o].checked = {})
      BY <1>2, <1>3, Zenon
    <2>2. CacheTellsTenant'
      BY <1>1, <2>1, Zenon DEF CacheTellsTenant, Living
    <2> QED BY <1>1, <2>1, <2>2, Zenon DEF Labelled
  <1>7. RefsStayInTenant'
    <2> SUFFICES ASSUME NEW o \in Objects, NEW c \in obj'[o].checked,
                        obj'[c[1]].uid = c[2], Kind[c[1]] # "ServiceAccount"
                 PROVE  Owner(c[1])' = obj'[o].tenant
      BY Zenon DEF RefsStayInTenant
    <2>1. o # k /\ c \in obj[o].checked /\ obj'[o] = obj[o]
      BY <1>2, <1>3, Zenon
    <2>2. PICK t \in Objects : t = c[1]
      BY <2>1, NoteFacts, Zenon
    <2>3. t # k /\ obj'[t] = obj[t]
      BY <1>2, <1>3, <2>1, <2>2, Zenon DEF Numbered
    <2> QED BY <2>1, <2>2, <2>3, Zenon DEF RefsStayInTenant, Owner
  <1> QED BY <1>4, <1>5, <1>6, <1>7, Zenon

\* The cache follows.
LEMMA SyncStep ==
    ASSUME AdmissionInv, NEW k \in Objects, SyncCache(k)
    PROVE  AdmissionInv'
  <1> USE DEF AdmissionInv
  <1>1. seen' = [seen EXCEPT ![k] = obj[k]] /\ obj' = obj /\ nextUid' = nextUid
    BY Zenon DEF SyncCache
  <1>2. seen'[k] = obj[k] /\ \A o \in Objects \ {k} : seen'[o] = seen[o]
    BY <1>1, Zenon DEF Typed
  <1>3. Typed'
    BY <1>1, Zenon DEF Typed
  <1>2a. \A o \in Objects : seen'[o] = seen[o] \/ seen'[o] = obj[o]
    BY <1>2, Zenon
  <1>4. Numbered'
    <2>1. \A o \in Objects : seen'[o].uid < nextUid
      BY <1>2a, Zenon DEF Numbered
    <2> QED BY <1>1, <2>1, Zenon DEF Numbered
  <1>5. CacheTellsTenant' /\ Labelled'
    <2>1. CacheTellsTenant'
      BY <1>1, <1>2a, Zenon DEF CacheTellsTenant, Living
    <2>2. Labelled'
      BY <1>1, <1>2a, Zenon DEF Labelled
    <2> QED BY <2>1, <2>2, Zenon
  <1>6. RefsStayInTenant'
    BY <1>1, Zenon DEF RefsStayInTenant, Owner
  <1> QED BY <1>3, <1>4, <1>5, <1>6, Zenon

\* Every step keeps the invariant.
LEMMA NextAdmissionInv == AdmissionInv /\ [AdmissionNext]_admissionVars => AdmissionInv'
  <1> SUFFICES ASSUME AdmissionInv, [AdmissionNext]_admissionVars PROVE AdmissionInv'
    OBVIOUS
  <1>1. CASE AdmissionNext
    BY <1>1, WriteStep, LegacyStep, DeleteStep, SyncStep, Zenon DEF AdmissionNext
  <1>2. CASE UNCHANGED admissionVars
    BY <1>2, Zenon DEF admissionVars, AdmissionInv, Typed, Numbered, CacheTellsTenant, Living, Labelled,
                RefsStayInTenant, Owner
  <1> QED BY <1>1, <1>2, Zenon

\* RefsStayInTenant holds for any objects, kinds of objects, tenants and number
\* of writes: what an admitted object was checked to refer to belongs to its
\* tenant as long as both live, although the webhooks judge by a cache that
\* lags and never look again (validateRefs, projectForApp,
\* validateTenantImmutability).
THEOREM TenantsStayApart == AdmissionSpec => []RefsStayInTenant
  <1>1. AdmissionInv => RefsStayInTenant
    BY DEF AdmissionInv
  <1> QED BY <1>1, InitAdmissionInv, NextAdmissionInv, PTL DEF AdmissionSpec
=============================================================================
