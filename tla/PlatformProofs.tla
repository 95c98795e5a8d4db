--------------------------- MODULE PlatformProofs ---------------------------
(***************************************************************************)
(* What is proved of the clusters and of the command line that prepares    *)
(* them, for any number of clusters, objects and calls. Clusters:          *)
(* registration is all or nothing, no end of a context is recorded against *)
(* a cluster, and statuses of checks that follow one another are shown in  *)
(* order. Bootstrap: the CRDs are there before they are used, the labels   *)
(* of others survive, and the trail the CLI leaves is true.                *)
(***************************************************************************)
EXTENDS Clusters, Bootstrap, TLAPS

-----------------------------------------------------------------------------
(* Registered clusters.                                                    *)

Early == {"gate", "insert"}
Installing == {"get", "put"}

\* How far a registration has come: no row and no client before the insert, and
\* while it installs, its client is that of its kubeconfig and the objects
\* before the current one are there.
Registration(k) ==
    LET c == call[k].id IN
    call[k].op = "register" =>
      /\ c \in ClusterIds /\ call[k].target \in Targets /\ call[k].name \in ClusterNames
      /\ call[k].pc \in Early \cup Installing \cup {"client", "rollback"}
      /\ call[k].pc \in Early => cluster_[c] = Nil /\ client[c] = Nil
      /\ cluster_[c] # Nil => cluster_[c].target = call[k].target
      /\ client[c] # Nil => client[c] = call[k].target
      /\ call[k].pc \in Installing =>
           /\ client[c] = call[k].target /\ call[k].obj \in 1..NObjects
           /\ \A i \in 1..NObjects : i < call[k].obj => i \in installed[client[c]]

\* The other calls; an outcome owed to the context is held by a call that was
\* cut off.
OtherCall(k) ==
    call[k].op # "register" =>
      /\ call[k].pc \notin Installing \cup {"insert", "rollback"}
      /\ call[k].pc \in {"gate", "update", "client", "probe", "save"} => call[k].id \in ClusterIds
      /\ call[k].pc = "save" /\ call[k].why = "context" => call[k].cut

CallOK(k) == Registration(k) /\ OtherCall(k) /\ call[k].at <= now

\* Each id is registered by one call.
OneRegistration ==
    \A k, l \in Callers :
        call[k].op = "register" /\ call[l].op = "register" /\ call[k].id = call[l].id => k = l

ClientsMatchRows ==
    \A c \in ClusterIds : client[c] # Nil /\ cluster_[c] # Nil => client[c] = cluster_[c].target

\* A status is stored after its check began, and the last one shown was stored
\* last.
StatusesDated ==
    /\ \A s \in statuses : s.at < s.stored /\ s.stored <= now
    /\ \A c \in ClusterIds : lastStatus[c] # Nil =>
         /\ lastStatus[c].at < lastStatus[c].stored /\ lastStatus[c].stored <= now
         /\ \A s \in statuses : s.id = c => s.stored <= lastStatus[c].stored

IInv ==
    /\ ClustersTypeOK
    /\ \A k \in Callers : CallOK(k)
    /\ OneRegistration /\ ClientsMatchRows /\ RegistrationAtomic
    /\ StatusesDated /\ UnhealthyWasObserved

-----------------------------------------------------------------------------

\* The record of no call.
LEMMA NoCallFacts ==
    /\ NoCall \in Call /\ NoCall.op = "none" /\ NoCall.pc = "idle" /\ NoCall.at = 0
    /\ NoCall.id = Nil
  BY Zenon DEF NoCall, Call

\* Initially there is nothing.
LEMMA InitIInv == ClustersInit => IInv
  <1> SUFFICES ASSUME ClustersInit PROVE IInv
    OBVIOUS
  <1> USE DEF ClustersInit
  <1>1. ClustersTypeOK
    BY NoCallFacts, ClustersAssumption DEF ClustersTypeOK
  <1>2. \A k \in Callers : CallOK(k)
    BY NoCallFacts DEF CallOK, Registration, OtherCall, Installing
  <1>3. OneRegistration /\ ClientsMatchRows /\ RegistrationAtomic
    BY NoCallFacts DEF OneRegistration, ClientsMatchRows, RegistrationAtomic
  <1>4. StatusesDated /\ UnhealthyWasObserved
    BY DEF StatusesDated, UnhealthyWasObserved
  <1> QED BY <1>1, <1>2, <1>3, <1>4 DEF IInv

\* A step of one call leaves the others as they are when it takes nothing away
\* that another registration relies on.
LEMMA OthersOK ==
    ASSUME ClustersTypeOK, NEW k \in Callers, NEW l \in Callers \ {k}, CallOK(l),
           call'[l] = call[l], now' \in Nat, now' >= now,
           \A t \in Targets : installed[t] \subseteq installed'[t],
           call[l].op = "register" =>
             LET c == call[l].id IN
             /\ cluster_[c] = Nil => cluster_'[c] = Nil
             /\ cluster_[c] # Nil /\ cluster_'[c] # Nil => cluster_'[c].target = cluster_[c].target
             /\ \/ client'[c] = client[c]
                \/ client[c] = Nil /\ cluster_[c] # Nil /\ client'[c] = cluster_[c].target
    PROVE  CallOK(l)'
  <1>1. call[l].at \in Nat /\ now \in Nat
    BY DEF ClustersTypeOK, Call
  <1>2. (call[l].at <= now)'
    BY <1>1 DEF CallOK
  <1>3. OtherCall(l)'
    BY Zenon DEF CallOK, OtherCall
  <1>4. Registration(l)'
    BY ClustersAssumption, Zenon DEF CallOK, Registration, Early, Installing
  <1> QED BY <1>2, <1>3, <1>4 DEF CallOK

\* Steps of one call that write no table and install nothing.
LEMMA QuietStep ==
    ASSUME IInv, NEW k \in Callers, NEW new \in Call,
           call' = [call EXCEPT ![k] = new], UNCHANGED <<cluster_, statuses, lastStatus, installed, client>>,
           now' \in Nat, now' >= now, calls' \in 0..MaxCalls,
           cancelled' \subseteq ClusterIds, cancelled \subseteq cancelled',
           CallOK(k)',
           new.op = "register" /\ call[k].op = "register" => new.id = call[k].id,
           new.op = "register" /\ call[k].op # "register" =>
             \A l \in Callers : call[l].id # new.id,
           call[k].op = "register" /\ new.op # "register" =>
             (cluster_[call[k].id] # Nil => call[k].id \in cancelled')
    PROVE  IInv'
  <1> USE DEF IInv
  <1>1. call'[k] = new /\ \A l \in Callers \ {k} : call'[l] = call[l]
    BY DEF ClustersTypeOK
  <1>2. ClustersTypeOK'
    BY DEF ClustersTypeOK
  <1>3. \A l \in Callers : CallOK(l)'
    BY <1>1, OthersOK
  <1>4. OneRegistration'
    BY <1>1 DEF OneRegistration
  <1>5. ClientsMatchRows' /\ UnhealthyWasObserved'
    BY DEF ClientsMatchRows, UnhealthyWasObserved
  <1>6. RegistrationAtomic'
    <2> SUFFICES ASSUME NEW c \in ClusterIds, cluster_[c] # Nil, ~Registering(c)', c \notin cancelled'
                 PROVE  installed[cluster_[c].target] = buildOperatorResources
      BY DEF RegistrationAtomic, buildOperatorResources
    <2>1. ~Registering(c)
      BY <1>1 DEF Registering
    <2> QED BY <2>1 DEF RegistrationAtomic
  <1>7. StatusesDated'
    <2>1. now \in Nat /\ \A s \in statuses : s.stored \in Nat
      BY DEF ClustersTypeOK, StatusRow
    <2>2. \A c \in ClusterIds : lastStatus[c] # Nil => lastStatus[c].stored \in Nat
      BY DEF ClustersTypeOK, StatusRow
    <2> QED BY <2>1, <2>2 DEF StatusesDated
  <1> QED BY <1>2, <1>3, <1>4, <1>5, <1>6, <1>7

\* A call is opened.
LEMMA OpenStep ==
    ASSUME IInv, NEW k \in Callers, NEW new \in Call, Open(k, new), new.at = 0,
           \/ /\ new.op = "register" /\ new.pc = "gate" /\ new.id \in ClusterIds /\ Fresh(new.id)
              /\ new.target \in Targets /\ new.name \in ClusterNames
           \/ /\ new.op # "register" /\ new.pc \in {"gate", "next", "list"}
              /\ new.pc = "gate" => new.id \in ClusterIds
    PROVE  IInv'
  <1>1. /\ call[k].pc = "idle" /\ call' = [call EXCEPT ![k] = new]
        /\ UNCHANGED <<cluster_, statuses, lastStatus, now, installed, client, cancelled>>
        /\ calls' \in 0..MaxCalls /\ now \in Nat
    BY ClustersAssumption DEF Open, tables, InCall, IInv, ClustersTypeOK
  <1>2. call'[k] = new
    BY <1>1 DEF IInv, ClustersTypeOK
  <1>3. call[k].op # "register"
    BY <1>1, Zenon DEF IInv, CallOK, Registration, Early, Installing
  <1>4. CallOK(k)'
    <2>1. Registration(k)'
      BY <1>1, <1>2, Zenon DEF Registration, Fresh, Early, Installing
    <2>2. OtherCall(k)'
      BY <1>1, <1>2 DEF OtherCall, Installing
    <2> QED BY <1>1, <1>2, <2>1, <2>2 DEF CallOK
  <1>5. new.op = "register" => \A l \in Callers : call[l].id # new.id
    BY DEF Fresh
  <1>6. /\ cancelled' \subseteq ClusterIds /\ cancelled \subseteq cancelled'
        /\ now' \in Nat /\ now' >= now
    BY <1>1 DEF IInv, ClustersTypeOK
  <1> QED BY <1>1, <1>3, <1>4, <1>5, <1>6, QuietStep, Zenon

\* The clients and the scheduler open calls.
LEMMA OpeningSteps ==
    ASSUME IInv, NEW k \in Callers,
           \/ \E c \in ClusterIds, n \in ClusterNames, t \in Targets : RegisterCluster(k, c, n, t)
           \/ \E c \in ClusterIds : UpdateClusterMetadata(k, c) \/ OpenCheck(k, c)
           \/ CheckAllClusters(k) \/ TickWithSummary(k)
    PROVE  IInv'
  <1>1. ASSUME NEW c \in ClusterIds, NEW n \in ClusterNames, NEW t \in Targets,
               RegisterCluster(k, c, n, t)
        PROVE  IInv'
    <2> DEFINE new == [NoCall EXCEPT !.op = "register", !.pc = "gate", !.id = c, !.name = n,
                                     !.target = t]
    <2>1. Open(k, new) /\ Fresh(c)
      BY <1>1, Zenon DEF RegisterCluster
    <2>2. /\ new.op = "register" /\ new.pc = "gate" /\ new.id = c /\ new.target = t
          /\ new.name = n /\ new.at = 0
      BY DEF NoCall
    <2>3. new \in Call
      BY <2>1, <2>2, Zenon DEF Open, NoCall, Call
    <2> HIDE DEF new
    <2> QED BY <2>1, <2>2, <2>3, OpenStep
  <1>2. ASSUME NEW c \in ClusterIds, UpdateClusterMetadata(k, c)
        PROVE  IInv'
    <2> DEFINE new == [NoCall EXCEPT !.op = "update", !.pc = "gate", !.id = c]
    <2>1. Open(k, new)
      BY <1>2, Zenon DEF UpdateClusterMetadata
    <2>2. new.op = "update" /\ new.pc = "gate" /\ new.id = c /\ new.at = 0
      BY DEF NoCall
    <2>3. new \in Call
      BY <2>1, <2>2, Zenon DEF Open, NoCall, Call
    <2> HIDE DEF new
    <2> QED BY <2>1, <2>2, <2>3, OpenStep
  <1>3. ASSUME NEW c \in ClusterIds, OpenCheck(k, c)
        PROVE  IInv'
    <2> DEFINE new == [NoCall EXCEPT !.op = "check", !.pc = "next", !.todo = {c}]
    <2>1. Open(k, new)
      BY <1>3, Zenon DEF OpenCheck
    <2>2. new.op = "check" /\ new.pc = "next" /\ new.at = 0
      BY DEF NoCall
    <2>3. new \in Call
      BY <2>1, <2>2, Zenon DEF Open, NoCall, Call
    <2> HIDE DEF new
    <2> QED BY <2>1, <2>2, <2>3, OpenStep
  <1>4. ASSUME NEW op \in {"checkAll", "tick"}, Open(k, [NoCall EXCEPT !.op = op, !.pc = "list"])
        PROVE  IInv'
    <2> DEFINE new == [NoCall EXCEPT !.op = op, !.pc = "list"]
    <2>1. new.op = op /\ new.pc = "list" /\ new.at = 0
      BY DEF NoCall
    <2>2. new \in Call
      BY <1>4, <2>1, Zenon DEF Open, NoCall, Call
    <2>3. Open(k, new)
      BY <1>4
    <2> HIDE DEF new
    <2> QED BY <2>1, <2>2, <2>3, OpenStep
  <1> QED BY <1>1, <1>2, <1>3, <1>4 DEF CheckAllClusters, TickWithSummary

\* A call that ends leaves no trace in the calls.
LEMMA EndCallOK ==
    ASSUME IInv, NEW k \in Callers, End(k), now' \in Nat
    PROVE  call'[k] = NoCall /\ CallOK(k)'
  <1>1. call'[k] = NoCall
    BY DEF End, IInv, ClustersTypeOK
  <1> QED BY <1>1, NoCallFacts DEF CallOK, Registration, OtherCall, Installing

\* A call that ends where it owes nothing.
LEMMA EndStep ==
    ASSUME IInv, NEW k \in Callers, End(k),
           UNCHANGED <<cluster_, statuses, lastStatus, now, installed, client, calls, cancelled>>,
           call[k].op = "register" => cluster_[call[k].id] = Nil
    PROVE  IInv'
  <1>1. call' = [call EXCEPT ![k] = NoCall] /\ now' = now /\ now \in Nat /\ calls' \in 0..MaxCalls
        /\ cancelled' \subseteq ClusterIds /\ cancelled \subseteq cancelled'
        /\ now' \in Nat /\ now' >= now
    BY DEF End, IInv, ClustersTypeOK
  <1>2. CallOK(k)'
    BY <1>1, EndCallOK
  <1> QED BY <1>1, <1>2, NoCallFacts, QuietStep, Zenon

\* A call that advances.
LEMMA AdvanceStep ==
    ASSUME IInv, NEW k \in Callers, NEW new \in Call, call' = [call EXCEPT ![k] = new],
           UNCHANGED <<cluster_, statuses, lastStatus, installed, client, calls>>,
           now' \in Nat, now' >= now, cancelled \subseteq cancelled', cancelled' \subseteq ClusterIds,
           new.op = call[k].op, new.op = "register" => new.id = call[k].id, new.at <= now',
           Registration(k)', OtherCall(k)'
    PROVE  IInv'
  <1>1. call'[k] = new /\ calls' \in 0..MaxCalls
    BY DEF IInv, ClustersTypeOK
  <1>2. CallOK(k)'
    BY <1>1 DEF CallOK
  <1> QED BY <1>1, <1>2, QuietStep, Zenon

-----------------------------------------------------------------------------

\* A context ends: a registration it cuts off is remembered.
LEMMA CancelStep == ASSUME IInv, NEW k \in Callers, CancelContext(k) PROVE IInv'
  <1> DEFINE new == [call[k] EXCEPT !.cut = TRUE]
  <1>1. /\ call[k] \in Call /\ now \in Nat /\ cancelled \subseteq ClusterIds
        /\ Registration(k) /\ OtherCall(k) /\ call[k].at <= now
    BY DEF IInv, ClustersTypeOK, CallOK
  <1>2. /\ new \in Call /\ new.cut = TRUE /\ new.op = call[k].op /\ new.id = call[k].id
        /\ new.pc = call[k].pc /\ new.target = call[k].target /\ new.name = call[k].name
        /\ new.obj = call[k].obj /\ new.at = call[k].at /\ new.why = call[k].why
    BY <1>1, Zenon DEF Call
  <1>3. /\ call' = [call EXCEPT ![k] = new]
        /\ UNCHANGED <<cluster_, statuses, lastStatus, installed, client, calls>> /\ now' = now
    BY DEF CancelContext, tables
  <1>4. call'[k] = new
    BY <1>3 DEF IInv, ClustersTypeOK
  <1>5. cancelled \subseteq cancelled' /\ cancelled' \subseteq ClusterIds
    BY <1>1 DEF CancelContext, Registration
  <1> HIDE DEF new
  <1>6. Registration(k)'
    BY <1>1, <1>2, <1>3, <1>4, Zenon DEF Registration
  <1>7. OtherCall(k)'
    BY <1>1, <1>2, <1>4, Zenon DEF OtherCall
  <1>8. now' \in Nat /\ now' >= now /\ new.at <= now'
    BY <1>1, <1>2, <1>3
  <1> QED BY <1>2, <1>3, <1>5, <1>6, <1>7, <1>8, AdvanceStep, Zenon

\* The call goes on at another round trip and nothing else changes.
LEMMA ToStep ==
    ASSUME IInv, NEW k \in Callers, NEW pc, To(k, pc),
           UNCHANGED <<cluster_, statuses, lastStatus, now, installed, client, calls, cancelled>>,
           \/ /\ call[k].op = "register"
              /\ pc \in {"insert", "rollback"}
              /\ pc = "insert" => call[k].pc = "gate"
           \/ /\ call[k].op # "register" /\ pc \in {"update", "probe", "next"}
              /\ pc # "next" => call[k].id \in ClusterIds
    PROVE  IInv'
  <1> DEFINE new == [call[k] EXCEPT !.pc = pc]
  <1>1. /\ call[k] \in Call /\ now \in Nat /\ cancelled \subseteq ClusterIds
        /\ Registration(k) /\ OtherCall(k) /\ call[k].at <= now
    BY DEF IInv, ClustersTypeOK, CallOK
  <1>2. /\ new \in Call /\ new.op = call[k].op /\ new.id = call[k].id /\ new.pc = pc
        /\ new.target = call[k].target /\ new.name = call[k].name /\ new.at = call[k].at
    BY <1>1 DEF Call
  <1>3. call' = [call EXCEPT ![k] = new] /\ now' = now /\ cancelled' = cancelled
    BY DEF To
  <1>4. call'[k] = new
    BY <1>3 DEF IInv, ClustersTypeOK
  <1> HIDE DEF new
  <1>5. Registration(k)'
    BY <1>1, <1>2, <1>4, Zenon DEF Registration, Early, Installing
  <1>6. OtherCall(k)'
    BY <1>1, <1>2, <1>4, Zenon DEF OtherCall, Installing
  <1>7. now' \in Nat /\ now' >= now /\ new.at <= now'
    BY <1>1, <1>2, <1>3
  <1>8. cancelled \subseteq cancelled' /\ cancelled' \subseteq ClusterIds
    BY <1>1, <1>3
  <1> QED BY <1>2, <1>3, <1>5, <1>6, <1>7, <1>8, AdvanceStep, Zenon

\* A call abandoned in its first round trips has no row.
LEMMA AbandonStep == ASSUME IInv, NEW k \in Callers, Abandon(k) PROVE IInv'
  <1>1. call[k].op = "register" => cluster_[call[k].id] = Nil
    BY Zenon DEF Abandon, IInv, CallOK, Registration, Early, Installing
  <1> QED BY <1>1, EndStep DEF Abandon, tables

\* The gate refuses the call or lets it write.
LEMMA GateStep == ASSUME IInv, NEW k \in Callers, ClusterGate(k) PROVE IInv'
  <1>1. call[k].pc = "gate" /\ CallOK(k)
    BY DEF ClusterGate, InCall, IInv
  <1>2. UNCHANGED <<cluster_, statuses, lastStatus, now, installed, client, calls, cancelled>>
    BY DEF ClusterGate, tables
  <1>3. call[k].op = "register" => cluster_[call[k].id] = Nil
    BY <1>1, Zenon DEF CallOK, Registration, Early
  <1>4. CASE End(k)
    BY <1>2, <1>3, <1>4, EndStep
  <1>5. CASE call[k].op = "register" /\ To(k, "insert")
    BY <1>1, <1>2, <1>5, ToStep
  <1>6. CASE call[k].op # "register" /\ To(k, "update")
    BY <1>1, <1>2, <1>6, ToStep DEF CallOK, OtherCall
  <1> QED BY <1>4, <1>5, <1>6 DEF ClusterGate

\* A health check advances: its outcome is the context's only if it was cut off.
LEMMA CheckAdvances ==
    ASSUME IInv, NEW k \in Callers, NEW new \in Call, call' = [call EXCEPT ![k] = new],
           UNCHANGED <<cluster_, statuses, lastStatus, installed, client, calls, cancelled>>,
           now' \in Nat, now' >= now, call[k].op # "register", new.op = call[k].op,
           new.at <= now', new.pc \in {"next", "client", "save"},
           new.pc # "next" => new.id \in ClusterIds,
           new.pc = "save" /\ new.why = "context" => new.cut
    PROVE  IInv'
  <1>1. call'[k] = new /\ cancelled' \subseteq ClusterIds /\ cancelled \subseteq cancelled'
    BY DEF IInv, ClustersTypeOK
  <1>2. Registration(k)'
    BY <1>1, Zenon DEF Registration
  <1>3. OtherCall(k)'
    BY <1>1 DEF OtherCall, Installing
  <1> QED BY <1>1, <1>2, <1>3, AdvanceStep, Zenon

\* The clusters are listed.
LEMMA ListStep == ASSUME IInv, NEW k \in Callers, ListClusters(k) PROVE IInv'
  <1> DEFINE new == [call[k] EXCEPT !.todo = {c \in ClusterIds : cluster_[c] # Nil}, !.pc = "next"]
  <1>1. call[k] \in Call /\ now \in Nat /\ call[k].at <= now /\ call[k].op # "register"
    BY DEF IInv, ClustersTypeOK, CallOK, Registration, Early, Installing, ListClusters, InCall
  <1>2. new \in Call /\ new.op = call[k].op /\ new.pc = "next" /\ new.at = call[k].at
    BY <1>1, Zenon DEF Call
  <1>3. /\ call' = [call EXCEPT ![k] = new] /\ now' = now
        /\ UNCHANGED <<cluster_, statuses, lastStatus, installed, client, calls, cancelled>>
    BY Zenon DEF ListClusters, tables
  <1> HIDE DEF new
  <1>4. now' \in Nat /\ now' >= now /\ new.at <= now'
    BY <1>1, <1>2, <1>3
  <1> QED BY <1>1, <1>2, <1>3, <1>4, CheckAdvances, Zenon

\* The next cluster is checked, or the call ends.
LEMMA NextCheckStep == ASSUME IInv, NEW k \in Callers, CheckCluster(k) PROVE IInv'
  <1>1. /\ call[k] \in Call /\ now \in Nat /\ call[k].op # "register"
        /\ UNCHANGED <<cluster_, statuses, lastStatus, installed, client, calls, cancelled>>
    BY Zenon DEF IInv, ClustersTypeOK, CallOK, Registration, Early, Installing, CheckCluster, InCall
  <1>2. CASE End(k) /\ now' = now
    BY <1>1, <1>2, EndStep
  <1>3. ASSUME NEW c \in call[k].todo, now' = now + 1,
               call' = [call EXCEPT ![k].id = c, ![k].todo = @ \ {c}, ![k].pc = "client",
                                    ![k].at = now + 1]
        PROVE  IInv'
    <2> DEFINE todo == call[k].todo \ {c}
               new == [call[k] EXCEPT !.id = c, !.todo = todo, !.pc = "client", !.at = now + 1]
    <2>1. c \in ClusterIds /\ todo \in SUBSET ClusterIds /\ now + 1 \in Nat
      BY <1>1 DEF Call
    <2>2. /\ new \in Call /\ new.op = call[k].op /\ new.pc = "client" /\ new.at = now + 1
          /\ new.id = c
      BY <1>1, <2>1, Zenon DEF Call
    <2>3. call' = [call EXCEPT ![k] = new]
      BY <1>3, Zenon
    <2> HIDE DEF new
    <2>4. now' \in Nat /\ now' >= now /\ new.at <= now'
      BY <1>1, <1>3, <2>2
    <2> QED BY <1>1, <2>1, <2>2, <2>3, <2>4, CheckAdvances, Zenon
  <1> QED BY <1>2, <1>3, Zenon DEF CheckCluster

\* The outcome of a check is held until it is stored.
LEMMA HoldStep ==
    ASSUME IInv, NEW k \in Callers, NEW ok \in BOOLEAN, NEW why \in {"answer", "client", "context"},
           call[k].op # "register", call[k].pc \in {"client", "probe"}, why = "context" => Cut(k),
           call' = [call EXCEPT ![k].pc = "save", ![k].ok = ok, ![k].why = why],
           UNCHANGED <<cluster_, statuses, lastStatus, now, installed, client, calls, cancelled>>
    PROVE  IInv'
  <1> DEFINE new == [call[k] EXCEPT !.pc = "save", !.ok = ok, !.why = why]
  <1>1. call[k] \in Call /\ now \in Nat /\ call[k].at <= now /\ call[k].id \in ClusterIds
    BY DEF IInv, ClustersTypeOK, CallOK, OtherCall
  <1>2. /\ new \in Call /\ new.op = call[k].op /\ new.pc = "save" /\ new.at = call[k].at
        /\ new.id = call[k].id /\ new.why = why /\ new.cut = call[k].cut
    BY <1>1, ZenonT(60) DEF Call
  <1>3. call' = [call EXCEPT ![k] = new]
    BY Zenon
  <1> HIDE DEF new
  <1>4. now' \in Nat /\ now' >= now /\ new.at <= now'
    BY <1>1, <1>2
  <1>5. new.pc = "save" /\ new.why = "context" => new.cut
    BY <1>2 DEF Cut
  <1> QED BY <1>1, <1>2, <1>3, <1>4, <1>5, CheckAdvances, Zenon

\* The API server answers, refuses or is silent.
LEMMA ProbeStep == ASSUME IInv, NEW k \in Callers, Probe(k) PROVE IInv'
  <1>1. /\ call[k].pc = "probe" /\ call[k].op # "register"
        /\ UNCHANGED <<cluster_, statuses, lastStatus, now, installed, client, calls, cancelled>>
    BY Zenon DEF IInv, CallOK, Registration, Early, Installing, Probe, InCall, tables
  <1>2. ASSUME NEW ok \in BOOLEAN,
               call' = [call EXCEPT ![k].pc = "save", ![k].ok = ok, ![k].why = "answer"]
        PROVE  IInv'
    BY <1>1, <1>2, HoldStep, Zenon
  <1>3. CASE Cut(k) /\ call' = [call EXCEPT ![k].pc = "save", ![k].ok = FALSE,
                                            ![k].why = "context"]
    BY <1>1, <1>3, HoldStep, Zenon
  <1> QED BY <1>2, <1>3, Zenon DEF Probe

-----------------------------------------------------------------------------

\* What the registrations other than k's rely on stays.
OthersUndisturbed(k) ==
    /\ \A t \in Targets : installed[t] \subseteq installed'[t]
    /\ \A l \in Callers \ {k} :
         call[l].op = "register" =>
           LET c == call[l].id IN
           /\ cluster_[c] = Nil => cluster_'[c] = Nil
           /\ cluster_[c] # Nil /\ cluster_'[c] # Nil => cluster_'[c].target = cluster_[c].target
           /\ \/ client'[c] = client[c]
              \/ client[c] = Nil /\ cluster_[c] # Nil /\ client'[c] = cluster_[c].target

\* A step of one call that writes a table, installs or caches a client.
LEMMA CallsKept ==
    ASSUME IInv, NEW k \in Callers, NEW new, call' = [call EXCEPT ![k] = new],
           now' \in Nat, now' >= now, CallOK(k)',
           new.op = "register" => call[k].op = "register" /\ new.id = call[k].id,
           OthersUndisturbed(k)
    PROVE  (\A l \in Callers : CallOK(l)') /\ OneRegistration'
  <1>1. call'[k] = new /\ \A l \in Callers \ {k} : call'[l] = call[l]
    BY DEF IInv, ClustersTypeOK
  <1>2. ASSUME NEW l \in Callers \ {k} PROVE CallOK(l)'
    BY <1>1, OthersOK, Zenon DEF IInv, OthersUndisturbed
  <1>3. OneRegistration'
    BY <1>1 DEF IInv, OneRegistration
  <1> QED BY <1>2, <1>3

\* A row is inserted, or its name is taken.
LEMMA CreateStep == ASSUME IInv, NEW k \in Callers, CreateCluster(k) PROVE IInv'
  <1> DEFINE c == call[k].id
             row == [name |-> call[k].name, target |-> call[k].target, meta |-> 0]
             new == [call[k] EXCEPT !.pc = "client"]
  <1>1. /\ call[k] \in Call /\ now \in Nat /\ Registration(k) /\ call[k].at <= now
        /\ call[k].pc = "insert" /\ call[k].op = "register"
        /\ UNCHANGED <<statuses, lastStatus, now, installed, client, calls, cancelled>>
    BY Zenon DEF IInv, ClustersTypeOK, CallOK, OtherCall, CreateCluster, InCall
  <1>2. /\ c \in ClusterIds /\ call[k].target \in Targets /\ call[k].name \in ClusterNames
        /\ cluster_[c] = Nil /\ client[c] = Nil
    BY <1>1, Zenon DEF Registration, Early
  <1>3. CASE End(k) /\ cluster_' = cluster_
    BY <1>1, <1>2, <1>3, EndStep, Zenon
  <1>4. CASE cluster_' = [cluster_ EXCEPT ![c] = row] /\ To(k, "client")
    <2>1. /\ new \in Call /\ new.op = "register" /\ new.id = c /\ new.pc = "client"
          /\ new.target = call[k].target /\ new.name = call[k].name /\ new.at = call[k].at
      BY <1>1 DEF Call
    <2>2. call' = [call EXCEPT ![k] = new]
      BY <1>4 DEF To
    <2> HIDE DEF new
    <2>3. call'[k] = new /\ \A l \in Callers \ {k} : call'[l] = call[l]
      BY <2>2 DEF IInv, ClustersTypeOK
    <2>4. /\ row \in Row /\ row.target = call[k].target
          /\ cluster_'[c] = row /\ \A d \in ClusterIds \ {c} : cluster_'[d] = cluster_[d]
      BY <1>2, <1>4, Zenon DEF IInv, ClustersTypeOK, Row
    <2> HIDE DEF row
    <2>5. ClustersTypeOK'
      BY <1>1, <1>4, <2>1, <2>2, <2>4, Zenon DEF IInv, ClustersTypeOK
    <2>6. CallOK(k)'
      <3>1. Registration(k)'
        BY <1>1, <1>2, <2>1, <2>3, <2>4, Zenon DEF Registration, Early, Installing
      <3>2. OtherCall(k)'
        BY <2>1, <2>3 DEF OtherCall
      <3> QED BY <1>1, <2>1, <2>3, <3>1, <3>2, Zenon DEF CallOK
    <2>7. \A l \in Callers \ {k} : call[l].op = "register" => call[l].id \in ClusterIds \ {c}
      BY <1>1, Zenon DEF IInv, OneRegistration, CallOK, Registration
    <2>8. (\A l \in Callers : CallOK(l)') /\ OneRegistration'
      <3>1. OthersUndisturbed(k)
        BY <1>1, <2>4, <2>7, Zenon DEF OthersUndisturbed
      <3>2. now' \in Nat /\ now' >= now
        BY <1>1
      <3> QED BY <1>1, <2>1, <2>2, <2>6, <3>1, <3>2, CallsKept, Zenon
    <2>9. ClientsMatchRows'
      BY <1>1, <1>2, <2>4, Zenon DEF IInv, ClientsMatchRows
    <2>10. RegistrationAtomic'
      <3> SUFFICES ASSUME NEW d \in ClusterIds, cluster_'[d] # Nil, ~Registering(d)',
                          d \notin cancelled
                   PROVE  installed[cluster_'[d].target] = buildOperatorResources
        BY <1>1, Zenon DEF RegistrationAtomic, buildOperatorResources
      <3>1. d # c
        BY <2>1, <2>3, Zenon DEF Registering
      <3>2. ~Registering(d)
        BY <2>3, <3>1 DEF Registering
      <3> QED BY <2>4, <3>1, <3>2, Zenon DEF IInv, RegistrationAtomic
    <2>11. StatusesDated' /\ UnhealthyWasObserved'
      BY <1>1, Zenon DEF IInv, StatusesDated, UnhealthyWasObserved
    <2> QED BY <2>5, <2>8, <2>9, <2>10, <2>11 DEF IInv
  <1> QED BY <1>3, <1>4, Zenon DEF CreateCluster

\* A client of the row's kubeconfig is cached, or found in the cache.
LEMMA CachedStep ==
    ASSUME IInv, NEW k \in Callers, NEW new \in Call, call' = [call EXCEPT ![k] = new],
           NEW c \in ClusterIds, NEW t \in Targets, client' = [client EXCEPT ![c] = t],
           UNCHANGED <<cluster_, statuses, lastStatus, now, installed, calls, cancelled>>,
           client[c] \in {Nil, t}, cluster_[c] # Nil => cluster_[c].target = t,
           new.op = call[k].op, new.op = "register" => new.id = call[k].id,
           call[k].op = "register" => call[k].id = c,
           call[k].op # "register" => cluster_[c] # Nil,
           CallOK(k)'
    PROVE  IInv'
  <1>1. call'[k] = new /\ \A l \in Callers \ {k} : call'[l] = call[l]
    BY Zenon DEF IInv, ClustersTypeOK
  <1>2. client'[c] = t /\ \A d \in ClusterIds \ {c} : client'[d] = client[d]
    BY Zenon DEF IInv, ClustersTypeOK
  <1>3. ClustersTypeOK'
    BY Zenon DEF IInv, ClustersTypeOK
  <1>4. OthersUndisturbed(k)
    <2> SUFFICES ASSUME NEW l \in Callers \ {k}, call[l].op = "register", call[l].id = c
                 PROVE  \/ client'[c] = client[c]
                        \/ client[c] = Nil /\ cluster_[c] # Nil /\ client'[c] = cluster_[c].target
      BY <1>2, Zenon DEF OthersUndisturbed, IInv, CallOK, Registration
    <2>1. call[k].op # "register"
      BY Zenon DEF IInv, OneRegistration
    <2> QED BY <1>2, <2>1, Zenon
  <1>5. (\A l \in Callers : CallOK(l)') /\ OneRegistration'
    <2>1. now' \in Nat /\ now' >= now
      BY DEF IInv, ClustersTypeOK
    <2> QED BY <1>4, <2>1, CallsKept, Zenon
  <1>6. ClientsMatchRows'
    BY <1>2, Zenon DEF IInv, ClientsMatchRows
  <1>7. RegistrationAtomic'
    <2> SUFFICES ASSUME NEW d \in ClusterIds, cluster_[d] # Nil, ~Registering(d)', d \notin cancelled
                 PROVE  installed[cluster_[d].target] = buildOperatorResources
      BY Zenon DEF RegistrationAtomic, buildOperatorResources
    <2>1. ~Registering(d)
      BY <1>1 DEF Registering
    <2> QED BY <2>1, Zenon DEF IInv, RegistrationAtomic
  <1>8. StatusesDated' /\ UnhealthyWasObserved'
    BY Zenon DEF IInv, StatusesDated, UnhealthyWasObserved
  <1> QED BY <1>3, <1>5, <1>6, <1>7, <1>8, Zenon DEF IInv

\* A registration gets its client and starts to install, or gives up.
LEMMA InstallBegins == ASSUME IInv, NEW k \in Callers, ensureOperatorDeployment(k) PROVE IInv'
  <1> DEFINE c == call[k].id
             t == call[k].target
             new == [call[k] EXCEPT !.pc = "get", !.obj = 1]
             Begins == call' = [call EXCEPT ![k].pc = "get", ![k].obj = 1]
  <1>1. /\ call[k] \in Call /\ now \in Nat /\ Registration(k) /\ call[k].at <= now
        /\ call[k].pc = "client" /\ call[k].op = "register"
        /\ UNCHANGED <<cluster_, statuses, lastStatus, now, installed, calls, cancelled>>
    BY DEF IInv, ClustersTypeOK, CallOK, ensureOperatorDeployment, InCall, tables
  <1>2. /\ c \in ClusterIds /\ t \in Targets /\ call[k].name \in ClusterNames
        /\ client[c] \in {Nil, t}
        /\ cluster_[c] # Nil => cluster_[c].target = t
    BY <1>1, Zenon DEF Registration
  <1>3. CASE To(k, "rollback") /\ client' = client
    BY <1>1, <1>3, ToStep, Zenon
  <1>4. CASE client' = [client EXCEPT ![c] = t] /\ Begins
    <2>1. /\ new \in Call /\ new.op = "register" /\ new.id = c /\ new.pc = "get" /\ new.obj = 1
          /\ new.target = t /\ new.name = call[k].name /\ new.at = call[k].at
      BY <1>1, Zenon DEF Call
    <2>2. call' = [call EXCEPT ![k] = new]
      BY <1>4, Zenon
    <2> HIDE DEF new
    <2>3. call'[k] = new /\ client'[c] = t
      BY <1>2, <1>4, <2>2, Zenon DEF IInv, ClustersTypeOK
    <2>4. Registration(k)'
      BY <1>1, <1>2, <2>1, <2>3, ClustersAssumption, SMTT(40) DEF Registration, Early, Installing
    <2>5. CallOK(k)'
      BY <1>1, <2>1, <2>3, <2>4, Zenon DEF CallOK, OtherCall
    <2>6. client' = [client EXCEPT ![c] = t]
      BY <1>4
    <2> QED BY <1>1, <1>2, <2>1, <2>2, <2>5, <2>6, CachedStep, Zenon
  <1>5. client[c] = t => client = [client EXCEPT ![c] = t]
    BY <1>2, Zenon DEF IInv, ClustersTypeOK
  <1>6. t # Nil
    BY <1>2, ClustersAssumption, Zenon
  <1>7. \/ To(k, "rollback") /\ client' = client
        \/ /\ Begins
           /\ \/ client[c] # Nil /\ client' = client
              \/ client' = [client EXCEPT ![c] = t]
    BY <1>1, <1>6 DEF ensureOperatorDeployment, GetOrCreate
  <1> HIDE DEF Begins
  <1> QED BY <1>2, <1>3, <1>4, <1>5, <1>7, Zenon

\* A check gets its client, or holds that there is none.
LEMMA CheckClientStep == ASSUME IInv, NEW k \in Callers, checkClient(k) PROVE IInv'
  <1> DEFINE c == call[k].id
             new == [call[k] EXCEPT !.pc = "probe"]
  <1>1. /\ call[k] \in Call /\ now \in Nat /\ call[k].at <= now /\ c \in ClusterIds
        /\ call[k].pc = "client" /\ call[k].op # "register"
        /\ UNCHANGED <<cluster_, statuses, lastStatus, now, installed, calls, cancelled>>
    BY DEF IInv, ClustersTypeOK, CallOK, OtherCall, checkClient, InCall, tables
  <1>2. CASE To(k, "probe") /\ client' = client
    BY <1>1, <1>2, ToStep, Zenon
  <1>3. CASE call' = [call EXCEPT ![k].pc = "save", ![k].ok = FALSE,
                                  ![k].why = IF Cut(k) THEN "context" ELSE "client"]
             /\ client' = client
    <2>1. CASE Cut(k)
      BY <1>1, <1>3, <2>1, HoldStep, Zenon
    <2>2. CASE ~Cut(k)
      BY <1>1, <1>3, <2>2, HoldStep, Zenon
    <2> QED BY <2>1, <2>2
  <1>4. CASE /\ To(k, "probe") /\ client[c] = Nil /\ cluster_[c] # Nil
             /\ client' = [client EXCEPT ![c] = cluster_[c].target]
    <2>1. new \in Call /\ new.op = call[k].op /\ new.id = c /\ new.pc = "probe" /\ new.at = call[k].at
      BY <1>1 DEF Call
    <2>2. call' = [call EXCEPT ![k] = new]
      BY <1>4 DEF To
    <2> HIDE DEF new
    <2>3. call'[k] = new /\ cluster_[c].target \in Targets
      BY <1>1, <1>4, <2>2, Zenon DEF IInv, ClustersTypeOK, Row
    <2>4. CallOK(k)'
      BY <1>1, <2>1, <2>3, Zenon DEF CallOK, Registration, OtherCall, Installing
    <2> QED BY <1>1, <1>4, <2>1, <2>2, <2>3, <2>4, CachedStep, Zenon
  <1> QED BY <1>1, <1>2, <1>3, <1>4, Zenon DEF checkClient, GetOrCreate

\* An object of the installation is there: the next one, or the end.
LEMMA InstalledStep ==
    ASSUME IInv, NEW k \in Callers, NEW new \in Call, call' = [call EXCEPT ![k] = new],
           call[k].op = "register", call[k].pc \in Installing,
           installed' = [installed EXCEPT ![client[call[k].id]] = @ \cup {call[k].obj}],
           UNCHANGED <<cluster_, statuses, lastStatus, now, client, calls, cancelled>>,
           CallOK(k)', new.op = "register" => new.id = call[k].id,
           new.op # "register" => call[k].obj + 1 \notin 1..NObjects
    PROVE  IInv'
  <1> DEFINE c == call[k].id
             t == client[c]
             i == call[k].obj
  <1>1. call'[k] = new /\ \A l \in Callers \ {k} : call'[l] = call[l]
    BY Zenon DEF IInv, ClustersTypeOK
  <1>2. /\ c \in ClusterIds /\ t \in Targets /\ i \in 1..NObjects
        /\ cluster_[c] # Nil => cluster_[c].target = t
        /\ \A j \in 1..NObjects : j < i => j \in installed[t]
    BY Zenon DEF IInv, CallOK, Registration
  <1>3. /\ installed'[t] = installed[t] \cup {i}
        /\ \A u \in Targets \ {t} : installed'[u] = installed[u]
        /\ \A u \in Targets : installed[u] \in SUBSET (1..NObjects)
    BY <1>2, Zenon DEF IInv, ClustersTypeOK
  <1>4. installed' \in [Targets -> SUBSET (1..NObjects)]
    BY <1>2, Zenon DEF IInv, ClustersTypeOK
  <1>5. ClustersTypeOK'
    BY <1>4, Zenon DEF IInv, ClustersTypeOK
  <1>6. (\A l \in Callers : CallOK(l)') /\ OneRegistration'
    <2>1. OthersUndisturbed(k)
      BY <1>3, Zenon DEF OthersUndisturbed
    <2>2. now' \in Nat /\ now' >= now
      BY DEF IInv, ClustersTypeOK
    <2> QED BY <2>1, <2>2, CallsKept, Zenon
  <1>7. ClientsMatchRows' /\ StatusesDated' /\ UnhealthyWasObserved'
    BY Zenon DEF IInv, ClientsMatchRows, StatusesDated, UnhealthyWasObserved
  <1>8. RegistrationAtomic'
    <2> SUFFICES ASSUME NEW d \in ClusterIds, cluster_[d] # Nil, ~Registering(d)', d \notin cancelled
                 PROVE  installed'[cluster_[d].target] = 1..NObjects
      BY Zenon DEF RegistrationAtomic, buildOperatorResources
    <2>1. cluster_[d].target \in Targets
      BY Zenon DEF IInv, ClustersTypeOK, Row
    <2>2. CASE d = c
      <3>1. i + 1 \notin 1..NObjects
        BY <1>1, <2>2, Zenon DEF Registering
      <3>2. i = NObjects
        BY <1>2, <3>1, ClustersAssumption, SMTT(40)
      <3>3. \A j \in 1..NObjects : j \in installed'[t]
        BY <1>2, <1>3, <3>2, SMTT(40)
      <3>4. installed'[t] \in SUBSET (1..NObjects)
        BY <1>2, <1>4, Zenon
      <3> QED BY <1>2, <2>2, <3>3, <3>4, Zenon
    <2>3. CASE d # c
      <3>1. ~Registering(d)
        BY <1>1, <2>3, Zenon DEF Registering
      <3>2. installed[cluster_[d].target] = 1..NObjects
        BY <3>1, Zenon DEF IInv, RegistrationAtomic, buildOperatorResources
      <3>3. CASE cluster_[d].target = t
        <4>1. installed'[t] = (1..NObjects) \cup {i}
          BY <1>3, <3>2, <3>3, Zenon
        <4>2. (1..NObjects) \cup {i} = 1..NObjects
          BY <1>2, Zenon
        <4> QED BY <3>3, <4>1, <4>2, Zenon
      <3>4. CASE cluster_[d].target # t
        BY <1>3, <2>1, <3>2, <3>4, Zenon
      <3> QED BY <3>3, <3>4, Zenon
    <2> QED BY <2>2, <2>3, Zenon
  <1> QED BY <1>5, <1>6, <1>7, <1>8, Zenon DEF IInv

\* The calls of an installation have their type.
LEMMA InstallTypes ==
    ASSUME NEW r \in Call, NEW found \in BOOLEAN, NEW n \in Nat
    PROVE  /\ [r EXCEPT !.found = found, !.pc = "put"] \in Call
           /\ [r EXCEPT !.obj = n, !.pc = "get"] \in Call
  <1>1. [r EXCEPT !.found = found, !.pc = "put"] \in Call
    BY Zenon DEF Call
  <1>2. [r EXCEPT !.obj = n, !.pc = "get"] \in Call
    BY Zenon DEF Call
  <1> QED BY <1>1, <1>2

\* A round trip of the installation.
LEMMA InstallStep == ASSUME IInv, NEW k \in Callers, createOrUpdate(k) PROVE IInv'
  <1> DEFINE c == call[k].id
             t == client[c]
             i == call[k].obj
  <1>1. /\ call[k] \in Call /\ now \in Nat /\ Registration(k) /\ call[k].at <= now
        /\ call[k].pc \in Installing /\ call[k].op = "register"
        /\ UNCHANGED <<cluster_, statuses, lastStatus, now, client, calls, cancelled>>
    BY Zenon DEF IInv, ClustersTypeOK, CallOK, OtherCall, createOrUpdate, InCall, tables, Installing
  <1>2. CASE To(k, "rollback") /\ installed' = installed
    BY <1>1, <1>2, ToStep, Zenon
  <1>3. CASE /\ call' = [call EXCEPT ![k].found = i \in installed[t], ![k].pc = "put"]
             /\ installed' = installed
    <2> DEFINE new == [call[k] EXCEPT !.found = i \in installed[t], !.pc = "put"]
    <2>1. /\ new.op = "register" /\ new.id = c /\ new.pc = "put" /\ new.obj = i
          /\ new.target = call[k].target /\ new.name = call[k].name /\ new.at = call[k].at
      BY <1>1 DEF Call
    <2>2. new \in Call
      <3>1. (i \in installed[t]) \in BOOLEAN
        OBVIOUS
      <3> QED BY <1>1, <3>1, InstallTypes, Zenon
    <2>3. call' = [call EXCEPT ![k] = new]
      BY <1>3, Zenon
    <2> HIDE DEF new
    <2>4. call'[k] = new
      BY <2>3 DEF IInv, ClustersTypeOK
    <2>5. Registration(k)'
      BY <1>1, <1>3, <2>1, <2>4, Zenon DEF Registration, Early, Installing
    <2>6. OtherCall(k)'
      BY <2>1, <2>4, Zenon DEF OtherCall
    <2>7. /\ now' \in Nat /\ now' >= now /\ new.at <= now'
          /\ cancelled \subseteq cancelled' /\ cancelled' \subseteq ClusterIds
      BY <1>1, <2>1 DEF IInv, ClustersTypeOK
    <2>8. installed' = installed
      BY <1>3
    <2> QED BY <1>1, <2>1, <2>2, <2>3, <2>5, <2>6, <2>7, <2>8, AdvanceStep, Zenon
  <1>4. CASE /\ installed' = [installed EXCEPT ![t] = @ \cup {i}]
             /\ i + 1 \in 1..NObjects
             /\ call' = [call EXCEPT ![k].obj = i + 1, ![k].pc = "get"]
    <2> DEFINE new == [call[k] EXCEPT !.obj = i + 1, !.pc = "get"]
    <2>1. /\ new.op = "register" /\ new.id = c /\ new.pc = "get" /\ new.obj = i + 1
          /\ new.target = call[k].target /\ new.name = call[k].name /\ new.at = call[k].at
      BY <1>1 DEF Call
    <2>2. new \in Call
      <3>1. i + 1 \in Nat
        BY <1>1, SMTT(40) DEF Call
      <3> QED BY <1>1, <3>1, InstallTypes, Zenon
    <2>3. call' = [call EXCEPT ![k] = new]
      BY <1>4, Zenon
    <2> HIDE DEF new
    <2>4. call'[k] = new
      BY <2>3 DEF IInv, ClustersTypeOK
    <2>5. /\ installed' = [installed EXCEPT ![t] = @ \cup {i}] /\ i + 1 \in 1..NObjects
      BY <1>4
    <2>6. /\ c \in ClusterIds /\ t = call[k].target /\ t \in Targets /\ i \in 1..NObjects
          /\ \A j \in 1..NObjects : j < i => j \in installed[t]
      BY <1>1, Zenon DEF Registration
    <2>7. installed'[t] = installed[t] \cup {i}
      BY <2>5, <2>6, Zenon DEF IInv, ClustersTypeOK
    <2>8. \A j \in 1..NObjects : j < i + 1 => j \in installed'[t]
      BY <2>6, <2>7
    <2>9. Registration(k)'
      BY <1>1, <2>1, <2>4, <2>5, <2>6, <2>8, Zenon DEF Registration, Early, Installing
    <2>10. CallOK(k)'
      BY <1>1, <2>1, <2>4, <2>9, Zenon DEF CallOK, OtherCall
    <2> QED BY <1>1, <2>1, <2>2, <2>3, <2>5, <2>10, InstalledStep, Zenon
  <1>5. CASE /\ installed' = [installed EXCEPT ![t] = @ \cup {i}]
             /\ i + 1 \notin 1..NObjects /\ End(k)
    <2>1. CallOK(k)' /\ call' = [call EXCEPT ![k] = NoCall]
      BY <1>1, <1>5, EndCallOK, Zenon DEF End
    <2> QED BY <1>1, <1>5, <2>1, NoCallFacts, InstalledStep, Zenon
  <1> QED BY <1>2, <1>3, <1>4, <1>5, Zenon DEF createOrUpdate, buildOperatorResources

\* The rollback removes the row, or the registration counts as cut off.
LEMMA RollbackStep == ASSUME IInv, NEW k \in Callers, DeleteCluster(k) PROVE IInv'
  <1> DEFINE c == call[k].id
  <1>1. /\ now \in Nat /\ now' = now /\ End(k) /\ call[k].op = "register" /\ c \in ClusterIds
        /\ UNCHANGED <<installed, client, calls>>
    BY Zenon DEF IInv, ClustersTypeOK, CallOK, Registration, OtherCall, DeleteCluster, InCall
  <1>2. /\ call' = [call EXCEPT ![k] = NoCall] /\ call'[k] = NoCall /\ CallOK(k)'
        /\ \A l \in Callers \ {k} : call'[l] = call[l]
    BY <1>1, EndCallOK, Zenon DEF End, IInv, ClustersTypeOK
  <1>3. now' \in Nat /\ now' >= now /\ calls' \in 0..MaxCalls /\ NoCall.op # "register"
    BY <1>1, NoCallFacts DEF IInv, ClustersTypeOK
  <1>4. CASE /\ cancelled' = cancelled \cup {c}
             /\ UNCHANGED <<cluster_, statuses, lastStatus>>
    <2>1. cancelled' \subseteq ClusterIds /\ cancelled \subseteq cancelled' /\ c \in cancelled'
      BY <1>1, <1>4, Zenon DEF IInv, ClustersTypeOK
    <2> QED BY <1>1, <1>2, <1>3, <1>4, <2>1, NoCallFacts, QuietStep, Zenon
  <1>5. CASE /\ cluster_' = [cluster_ EXCEPT ![c] = Nil]
             /\ statuses' = {s \in statuses : s.id # c}
             /\ lastStatus' = [lastStatus EXCEPT ![c] = Nil]
             /\ cancelled' = cancelled
    <2>1. /\ cluster_'[c] = Nil /\ lastStatus'[c] = Nil
          /\ \A d \in ClusterIds \ {c} : cluster_'[d] = cluster_[d] /\ lastStatus'[d] = lastStatus[d]
      BY <1>1, <1>5, Zenon DEF IInv, ClustersTypeOK
    <2>2. ClustersTypeOK'
      BY <1>1, <1>2, <1>3, <1>5, NoCallFacts, Zenon DEF IInv, ClustersTypeOK
    <2>3. (\A l \in Callers : CallOK(l)') /\ OneRegistration'
      <3>1. \A l \in Callers \ {k} : call[l].op = "register" => call[l].id \in ClusterIds \ {c}
        BY <1>1, Zenon DEF IInv, OneRegistration, CallOK, Registration
      <3>2. OthersUndisturbed(k)
        BY <1>1, <2>1, <3>1, Zenon DEF OthersUndisturbed
      <3> QED BY <1>2, <1>3, <3>2, CallsKept, Zenon
    <2>4. ClientsMatchRows'
      BY <1>1, <2>1, Zenon DEF IInv, ClientsMatchRows
    <2>5. RegistrationAtomic'
      <3> SUFFICES ASSUME NEW d \in ClusterIds, cluster_'[d] # Nil, ~Registering(d)',
                          d \notin cancelled
                   PROVE  installed[cluster_'[d].target] = buildOperatorResources
        BY <1>1, <1>5, Zenon DEF RegistrationAtomic, buildOperatorResources
      <3>1. d # c /\ ~Registering(d)
        BY <1>2, <2>1, Zenon DEF Registering
      <3> QED BY <1>5, <2>1, <3>1, Zenon DEF IInv, RegistrationAtomic
    <2>6. StatusesDated' /\ UnhealthyWasObserved'
      BY <1>1, <1>5, <2>1, Zenon DEF IInv, StatusesDated, UnhealthyWasObserved
    <2> QED BY <2>2, <2>3, <2>4, <2>5, <2>6 DEF IInv
  <1> QED BY <1>4, <1>5, Zenon DEF DeleteCluster

\* New metadata leaves the kubeconfig of the row alone.
LEMMA MetadataStep == ASSUME IInv, NEW k \in Callers, StoreMetadata(k) PROVE IInv'
  <1> DEFINE c == call[k].id
             row == [cluster_[c] EXCEPT !.meta = 1]
  <1>1. /\ now \in Nat /\ End(k) /\ call[k].op # "register" /\ c \in ClusterIds
        /\ UNCHANGED <<statuses, lastStatus, now, installed, client, calls, cancelled>>
    BY Zenon DEF IInv, ClustersTypeOK, CallOK, Registration, OtherCall, StoreMetadata, InCall, Early,
           Installing
  <1>2. CASE cluster_' = cluster_
    BY <1>1, <1>2, EndStep, Zenon
  <1>3. CASE cluster_[c] # Nil /\ cluster_' = [cluster_ EXCEPT ![c] = row]
    <2>1. row \in Row /\ row.target = cluster_[c].target
      BY <1>1, <1>3 DEF IInv, ClustersTypeOK, Row
    <2> HIDE DEF row
    <2>2. cluster_'[c] = row /\ \A d \in ClusterIds \ {c} : cluster_'[d] = cluster_[d]
      BY <1>1, <1>3, Zenon DEF IInv, ClustersTypeOK
    <2>3. /\ call' = [call EXCEPT ![k] = NoCall] /\ call'[k] = NoCall /\ CallOK(k)'
          /\ \A l \in Callers \ {k} : call'[l] = call[l]
      BY <1>1, EndCallOK, Zenon DEF End, IInv, ClustersTypeOK
    <2>4. now' \in Nat /\ now' >= now /\ NoCall.op # "register"
      BY <1>1, NoCallFacts
    <2>5. ClustersTypeOK'
      BY <1>1, <1>3, <2>1, <2>3, NoCallFacts, Zenon DEF IInv, ClustersTypeOK
    <2>6. \A d \in ClusterIds :
            /\ cluster_[d] = Nil => cluster_'[d] = Nil
            /\ cluster_'[d] # Nil => cluster_'[d].target = cluster_[d].target
      BY <1>3, <2>1, <2>2, Zenon
    <2>7. (\A l \in Callers : CallOK(l)') /\ OneRegistration'
      <3>1. OthersUndisturbed(k)
        BY <1>1, <2>6, Zenon DEF OthersUndisturbed, IInv, CallOK, Registration
      <3> QED BY <2>3, <2>4, <3>1, CallsKept, Zenon
    <2>8. ClientsMatchRows'
      BY <1>1, <2>6, Zenon DEF IInv, ClientsMatchRows
    <2>9. RegistrationAtomic'
      <3> SUFFICES ASSUME NEW d \in ClusterIds, cluster_'[d] # Nil, ~Registering(d)',
                          d \notin cancelled
                   PROVE  installed[cluster_'[d].target] = buildOperatorResources
        BY <1>1, Zenon DEF RegistrationAtomic, buildOperatorResources
      <3>1. ~Registering(d)
        BY <1>1, <2>3, Zenon DEF Registering
      <3> QED BY <2>6, <3>1, Zenon DEF IInv, RegistrationAtomic
    <2>10. StatusesDated' /\ UnhealthyWasObserved'
      BY <1>1, Zenon DEF IInv, StatusesDated, UnhealthyWasObserved
    <2> QED BY <2>5, <2>7, <2>8, <2>9, <2>10 DEF IInv
  <1> QED BY <1>2, <1>3 DEF StoreMetadata

\* The outcome of a check is stored, last, while its context lives.
LEMMA PersistStep == ASSUME IInv, NEW k \in Callers, persistClusterStatus(k) PROVE IInv'
  <1> DEFINE c == call[k].id
             s == Saved(k)
             new == [call[k] EXCEPT !.pc = "next"]
  <1>1. /\ call[k] \in Call /\ now \in Nat /\ To(k, "next") /\ call[k].op # "register"
        /\ c \in ClusterIds /\ call[k].at <= now /\ call[k].pc = "save"
        /\ UNCHANGED <<cluster_, installed, client, calls, cancelled>>
    BY Zenon DEF IInv, ClustersTypeOK, CallOK, Registration, OtherCall, persistClusterStatus, InCall,
           Early, Installing
  <1>2. CASE UNCHANGED <<statuses, lastStatus, now>>
    BY <1>1, <1>2, ToStep, Zenon
  <1>3. CASE ~Cut(k) /\ InsertClusterStatus(k, s)
    <2>1. call[k].at \in Nat /\ now + 1 \in Nat
      BY <1>1 DEF Call
    <2>2. s.id = c /\ s.at = call[k].at /\ s.why = call[k].why /\ s.stored = now + 1
      BY Zenon DEF Saved
    <2>3. s \in StatusRow
      BY <1>1, <2>1, Zenon DEF Saved, StatusRow, Call
    <2>4. s.why # "context"
      BY <1>1, <1>3, <2>2, Zenon DEF IInv, CallOK, OtherCall, Cut
    <2> HIDE DEF s
    <2>5. /\ statuses' = statuses \cup {s} /\ now' = now + 1
          /\ lastStatus' = [lastStatus EXCEPT ![c] = s]
      BY <1>3, <2>2, Zenon DEF InsertClusterStatus
    <2>6. lastStatus'[c] = s /\ \A d \in ClusterIds \ {c} : lastStatus'[d] = lastStatus[d]
      BY <1>1, <2>5, Zenon DEF IInv, ClustersTypeOK
    <2>7. new \in Call /\ new.op = call[k].op /\ new.pc = "next" /\ new.at = call[k].at
      BY <1>1 DEF Call
    <2>8. call' = [call EXCEPT ![k] = new]
      BY <1>1 DEF To
    <2> HIDE DEF new
    <2>9. call'[k] = new /\ \A l \in Callers \ {k} : call'[l] = call[l]
      BY <2>8 DEF IInv, ClustersTypeOK
    <2>10. ClustersTypeOK'
      BY <1>1, <2>1, <2>3, <2>5, <2>7, <2>8, Zenon DEF IInv, ClustersTypeOK
    <2>11. (\A l \in Callers : CallOK(l)') /\ OneRegistration'
      <3>0. now \in Nat /\ now' = now + 1 /\ call[k].at \in Nat /\ call[k].at <= now
        BY <1>1, <2>1, <2>5, Zenon
      <3>1. CallOK(k)'
        <4>1. call'[k].at <= now'
          <5>1. call'[k].at = call[k].at
            BY <2>7, <2>9, Zenon
          <5> QED BY <3>0, <5>1
        <4> QED BY <1>1, <2>7, <2>9, <4>1, Zenon DEF CallOK, Registration, OtherCall, Installing
      <3>2. OthersUndisturbed(k)
        BY <1>1, Zenon DEF OthersUndisturbed
      <3>3. now' \in Nat /\ now' >= now
        BY <3>0
      <3> QED BY <1>1, <2>7, <2>8, <3>1, <3>2, <3>3, CallsKept, Zenon
    <2>12. ClientsMatchRows' /\ UnhealthyWasObserved'
      BY <1>1, <2>4, <2>5, Zenon DEF IInv, ClientsMatchRows, UnhealthyWasObserved
    <2>13. RegistrationAtomic'
      <3> SUFFICES ASSUME NEW d \in ClusterIds, cluster_[d] # Nil, ~Registering(d)',
                          d \notin cancelled
                   PROVE  installed[cluster_[d].target] = buildOperatorResources
        BY <1>1, Zenon DEF RegistrationAtomic, buildOperatorResources
      <3>1. ~Registering(d)
        BY <1>1, <2>9, Zenon DEF Registering
      <3> QED BY <3>1, Zenon DEF IInv, RegistrationAtomic
    <2>14. StatusesDated'
      <3>1. /\ \A r \in statuses : r.at \in Nat /\ r.stored \in Nat
            /\ \A d \in ClusterIds : lastStatus[d] # Nil =>
                 lastStatus[d].at \in Nat /\ lastStatus[d].stored \in Nat
        BY Zenon DEF IInv, ClustersTypeOK, StatusRow
      <3>2. \A r \in statuses' : r.at < r.stored /\ r.stored <= now'
        BY <1>1, <2>1, <2>2, <2>5, <3>1, SMTT(40) DEF IInv, StatusesDated
      <3>3. ASSUME NEW d \in ClusterIds, lastStatus'[d] # Nil
            PROVE  /\ lastStatus'[d].at < lastStatus'[d].stored /\ lastStatus'[d].stored <= now'
                   /\ \A r \in statuses' : r.id = d => r.stored <= lastStatus'[d].stored
        <4>1. CASE d = c
          BY <1>1, <2>1, <2>2, <2>5, <2>6, <3>1, <4>1 DEF IInv, StatusesDated
        <4>2. CASE d # c
          BY <1>1, <2>2, <2>5, <2>6, <3>1, <3>3, <4>2, SMTT(40) DEF IInv, StatusesDated
        <4> QED BY <4>1, <4>2, Zenon
      <3> QED BY <3>2, <3>3, Zenon DEF StatusesDated
    <2> QED BY <2>10, <2>11, <2>12, <2>13, <2>14 DEF IInv
  <1> QED BY <1>2, <1>3, Zenon DEF persistClusterStatus

\* Every step keeps the invariant.
LEMMA NextIInv == IInv /\ [ClustersNext]_clusterVars => IInv'
  <1> SUFFICES ASSUME IInv, [ClustersNext]_clusterVars PROVE IInv'
    OBVIOUS
  <1>1. CASE UNCHANGED clusterVars
    BY <1>1, Zenon DEF clusterVars, IInv, ClustersTypeOK, CallOK, Registration, OtherCall, OneRegistration,
                ClientsMatchRows, RegistrationAtomic, Registering, StatusesDated,
                UnhealthyWasObserved
  <1>2. CASE ClustersNext
    BY <1>2, OpeningSteps, CancelStep, AbandonStep, GateStep, CreateStep, InstallBegins,
       InstallStep, RollbackStep, MetadataStep, ListStep, NextCheckStep, CheckClientStep,
       ProbeStep, PersistStep, Zenon DEF ClustersNext
  <1> QED BY <1>1, <1>2

\* The statuses of one cluster are shown in order when dated as they are.
LEMMA DatedInOrder == IInv => LastStatusOrdered
  <1> SUFFICES ASSUME IInv, NEW c \in ClusterIds, NEW s \in statuses, lastStatus[c] # Nil,
                      s.id = c, s.at > lastStatus[c].at
               PROVE  lastStatus[c].at < s.stored /\ s.at < lastStatus[c].stored
    BY Zenon DEF LastStatusOrdered
  <1>1. /\ s.at \in Nat /\ s.stored \in Nat
        /\ lastStatus[c].at \in Nat /\ lastStatus[c].stored \in Nat
    BY Zenon DEF IInv, ClustersTypeOK, StatusRow
  <1>2. s.at < s.stored /\ s.stored <= lastStatus[c].stored
    BY Zenon DEF IInv, StatusesDated
  <1> QED BY <1>1, <1>2

\* Every registered cluster whose registration is over and was not cut off has
\* the whole operator (RegisterCluster, createOrUpdate, DeleteCluster).
THEOREM RegistrationsAreAtomic == ClustersSpec => []RegistrationAtomic
  <1>1. IInv => RegistrationAtomic
    BY DEF IInv
  <1> QED BY InitIInv, NextIInv, <1>1, PTL DEF ClustersSpec

\* No stored status owes its verdict to the end of a context (CheckCluster,
\* persistClusterStatus).
THEOREM StatusesAreObserved == ClustersSpec => []UnhealthyWasObserved
  <1>1. IInv => UnhealthyWasObserved
    BY DEF IInv
  <1> QED BY InitIInv, NextIInv, <1>1, PTL DEF ClustersSpec

\* The last status shown of a cluster is out of order only between checks that
\* overlapped (InsertClusterStatus).
THEOREM StatusesInOrder == ClustersSpec => []LastStatusOrdered
  BY InitIInv, NextIInv, DatedInOrder, PTL DEF ClustersSpec

-----------------------------------------------------------------------------
(* Bringing up a cluster.                                                  *)

BootPcs == {"off", "failed", "get", "create", "update", "wait", "apply", "write", "emit",
            "render", "done", "unrendered"}
Ensuring == {"get", "create", "update", "wait"}
Using == {"apply", "write", "emit", "render", "done", "unrendered"}
Commands == {"none", "manager", "init", "defaults", "tenant", "project", "domain", "registry"}

\* The documents a command may apply.
Documents ==
    Bundled \cup [kind : {"Tenant", "Project", "Domain", "RegistryCredential"},
                  name : {"x"}, ns : {"none", "system"}]

Run == [pc : BootPcs, op : Commands, objs : Seq(Documents), i : Nat, version : Nat,
        quiet : BOOLEAN, warned : SUBSET Documents]
Definition_ == [spec : {"none", "bundled", "other"}, labels : SUBSET {"site", "bundle"},
                ready : BOOLEAN, version : Nat]

BootTypeOK ==
    /\ crd \in [Crds -> Definition_]
    /\ inst \in [Installers -> Run]
    /\ crdWrites \in Nat

\* A CRD that does not exist has no labels.
BareCrds == \A c \in Crds : ~Present(c) => crd[c].labels = {}

\* As long as nobody else writes, the CRDs an installer is through with are
\* established in the bundled form, and the one it waits for is bundled.
Ready(c) == crd[c].spec = "bundled" /\ crd[c].ready
Ensured(p) ==
    LET r == inst[p] IN
    /\ r.pc \in Ensuring => r.i \in Crds
    /\ r.quiet /\ r.pc \in Ensuring =>
         /\ \A c \in Crds : c < r.i => Ready(c)
         /\ r.pc = "wait" => crd[r.i].spec = "bundled"
    /\ r.quiet /\ r.op \in {"manager", "init"} /\ r.pc \in Using => \A c \in Crds : Ready(c)

BootInv == BootTypeOK /\ BareCrds /\ \A p \in Installers : Ensured(p)

\* An installer that is off or has failed is well formed.
LEMMA OffTyped ==
    /\ Off \in Run
    /\ \A o \in Commands, x \in BootPcs : [Off EXCEPT !.op = o, !.pc = x] \in Run
    /\ \A o \in Commands, x \in BootPcs :
          /\ [Off EXCEPT !.op = o, !.pc = x].pc = x
          /\ [Off EXCEPT !.op = o, !.pc = x].op = o
          /\ ~[Off EXCEPT !.op = o, !.pc = x].quiet
          /\ [Off EXCEPT !.op = o, !.pc = x].objs = <<>>
  <1>1. Off \in Run
    BY SMTT(40) DEF Off, Run, BootPcs, Commands
  <1> QED BY <1>1, Zenon DEF Off, Run

\* A step that changes one installer and no CRD.
LEMMA OneInstaller ==
    ASSUME BootInv, UNCHANGED crd, crdWrites' \in Nat, NEW p \in Installers, NEW new \in Run,
           Step_(p, new), Ensured(p)'
    PROVE  BootInv'
  <1>1. /\ inst'[p] = new /\ inst' \in [Installers -> Run]
        /\ \A o \in Installers : o # p => inst'[o] = inst[o]
    BY DEF Step_, BootInv, BootTypeOK
  <1>2. BootTypeOK' /\ BareCrds'
    BY <1>1, Zenon DEF BootInv, BootTypeOK, BareCrds, Present
  <1>3. ASSUME NEW o \in Installers, o # p PROVE Ensured(o)'
    BY <1>1, <1>3, Zenon DEF BootInv, Ensured, Ready
  <1> QED BY <1>2, <1>3 DEF BootInv

\* The run of an installer ends with an error.
LEMMA AbortStep ==
    ASSUME BootInv, UNCHANGED crd, crdWrites' \in Nat, NEW p \in Installers, Abort(p)
    PROVE  BootInv'
  <1> DEFINE new == [Off EXCEPT !.op = inst[p].op, !.pc = "failed"]
  <1>1. inst[p].op \in Commands /\ "failed" \in BootPcs
    BY DEF BootInv, BootTypeOK, Run, BootPcs
  <1>2. new \in Run /\ new.pc = "failed"
    BY <1>1, OffTyped, Zenon
  <1>3. Step_(p, new)
    BY DEF Abort
  <1>4. inst'[p] = new
    BY <1>3 DEF Step_, BootInv, BootTypeOK
  <1> HIDE DEF new
  <1>5. Ensured(p)'
    BY <1>2, <1>4, Zenon DEF Ensured, Ensuring, Using
  <1> QED BY <1>2, <1>3, <1>5, OneInstaller

\* The manager starts, or a command does.
LEMMA StartStep ==
    ASSUME BootInv, UNCHANGED <<crd, crdWrites>>, NEW p \in Installers, NEW new \in Run,
           new.i = 1, new.pc \in {"get", "apply"},
           new.pc = "apply" => new.op \notin {"manager", "init"}, Step_(p, new)
    PROVE  BootInv'
  <1>1. inst'[p] = new
    BY DEF Step_, BootInv, BootTypeOK
  <1>2. 1 \in Crds /\ \A c \in Crds : ~(c < 1)
    BY BootAssumption DEF Crds
  <1>3. Ensured(p)'
    BY <1>1, <1>2, Zenon DEF Ensured, Ensuring, Using
  <1>4. crdWrites' \in Nat
    BY DEF BootInv, BootTypeOK
  <1> QED BY <1>3, <1>4, OneInstaller

\* The manager's EnsureCRDs begins with the first CRD.
LEMMA StartManagerStep == ASSUME BootInv, StartManager PROVE BootInv'
  <1> DEFINE new == [Off EXCEPT !.pc = "get", !.op = "manager", !.quiet = TRUE]
  <1>1. Off \in Run /\ Off.i = 1 /\ "get" \in BootPcs /\ "manager" \in Commands
    BY OffTyped DEF Off, BootPcs, Commands
  <1>2. new \in Run
    BY <1>1, Zenon DEF Run
  <1>3. new.i = 1 /\ new.pc = "get"
    BY <1>1 DEF Run
  <1>4. Step_("manager", new) /\ UNCHANGED <<crd, crdWrites>> /\ "manager" \in Installers
    BY DEF StartManager, Installers
  <1> HIDE DEF new
  <1> QED BY <1>2, <1>3, <1>4, StartStep

\* The documents of every command are sequences.
LEMMA LoadedTyped ==
    /\ loadManifests("rbac") \o loadManifests("webhooks") \in Seq(Documents)
    /\ loadManifests("defaults") \in Seq(Documents)
  <1>1. /\ loadManifests("rbac") \in Seq(Bundled) /\ loadManifests("webhooks") \in Seq(Bundled)
        /\ loadManifests("defaults") \in Seq(Bundled)
    BY BootAssumption DEF Directories
  <1>2. \A s \in Seq(Bundled) : s \in Seq(Documents)
    <2> SUFFICES ASSUME NEW s \in Seq(Bundled) PROVE s \in Seq(Documents)
      OBVIOUS
    <2>1. \A j \in 1..Len(s) : s[j] \in Documents
      BY DEF Documents
    <2> QED BY <2>1
  <1> HIDE DEF loadManifests
  <1> QED BY <1>1, <1>2

\* So are those built from the flags.
LEMMA BuiltTyped ==
    ASSUME NEW in \in Inputs
    PROVE  /\ BuildTenant(in) \in Seq(Documents) /\ BuildProject(in) \in Seq(Documents)
           /\ BuildDomain(in) \in Seq(Documents) /\ BuildRegistryCredential(in) \in Seq(Documents)
  <1> DEFINE full == [name |-> "x", ns |-> "system", tenant |-> "t", ref |-> "r"]
  <1>1. (in.name # "" => in.name = "x") /\ (in.ns # "" => in.ns = "system")
    <2>1. DOMAIN full = {"name", "ns", "tenant", "ref"}
      BY Zenon
    <2>2. in = full \/ \E f \in {"name", "ns", "tenant", "ref"} : in = [full EXCEPT ![f] = ""]
      BY <2>1, Zenon DEF Inputs
    <2>3. CASE in = full
      BY <2>3, Zenon
    <2>4. CASE in = [full EXCEPT !["name"] = ""]
      BY <2>4, Zenon
    <2>5. CASE in = [full EXCEPT !["ns"] = ""]
      BY <2>5, Zenon
    <2>6. CASE in = [full EXCEPT !["tenant"] = ""]
      BY <2>6, Zenon
    <2>7. CASE in = [full EXCEPT !["ref"] = ""]
      BY <2>7, Zenon
    <2> HIDE DEF full
    <2> QED BY <2>2, <2>3, <2>4, <2>5, <2>6, <2>7, Zenon
  <1>2. ASSUME NEW k \in {"Tenant", "Project", "Domain", "RegistryCredential"},
               NEW n \in {"none", "system"}, in.name # ""
        PROVE  <<[kind |-> k, name |-> in.name, ns |-> n]>> \in Seq(Documents)
    <2> DEFINE d == [kind |-> k, name |-> in.name, ns |-> n]
    <2>1. d \in Documents
      BY <1>1, <1>2, Zenon DEF Documents
    <2>2. <<d>> \in Seq(Documents)
      <3> HIDE DEF d
      <3> QED BY <2>1
    <2> QED BY <2>2
  <1>3. <<>> \in Seq(Documents)
    OBVIOUS
  <1>4. BuildTenant(in) \in Seq(Documents) /\ BuildDomain(in) \in Seq(Documents)
    BY <1>2, <1>3, Zenon DEF BuildTenant, BuildDomain
  <1>5. BuildRegistryCredential(in) \in Seq(Documents)
    BY <1>2, <1>3, Zenon DEF BuildRegistryCredential
  <1>6. BuildProject(in) \in Seq(Documents)
    BY <1>1, <1>2, <1>3, Zenon DEF BuildProject
  <1> QED BY <1>4, <1>5, <1>6

\* What a command starts with, or that it fails at once.
LEMMA LaunchFacts ==
    ASSUME BootInv, NEW o \in Commands, NEW s \in Seq(Documents), Launch(o, s)
    PROVE  \E new \in Run :
             /\ Step_("cli", new) /\ UNCHANGED <<crd, applied, files, audit, bootFaults, crdWrites>>
             /\ \/ new.pc = "failed"
                \/ /\ new.i = 1 /\ new.objs = s /\ s # <<>> /\ new.op = o
                   /\ new.pc = IF o = "init" THEN "get" ELSE "apply"
  <1> DEFINE failing == [Off EXCEPT !.op = o, !.pc = "failed"]
             x == IF o = "init" THEN "get" ELSE "apply"
             new == [Off EXCEPT !.op = o, !.quiet = TRUE, !.objs = s, !.pc = x]
  <1>1. Off \in Run /\ Off.i = 1 /\ x \in BootPcs /\ "failed" \in BootPcs
    BY OffTyped, Zenon DEF Off, BootPcs
  <1>2. /\ UNCHANGED <<crd, applied, files, audit, bootFaults, crdWrites>>
        /\ Step_("cli", failing) \/ (s # <<>> /\ Step_("cli", new))
    <2>1. UNCHANGED <<crd, applied, files, audit, bootFaults, crdWrites>>
      BY DEF Launch, Outputs
    <2>2. PICK proceeds \in BOOLEAN :
            Step_("cli", IF ~proceeds \/ s = <<>> THEN failing ELSE new)
      BY DEF Launch, initialiseState, requireConfirmation
    <2> HIDE DEF failing, new
    <2> QED BY <2>1, <2>2
  <1> HIDE DEF x
  <1>3. failing \in Run /\ failing.pc = "failed"
    BY <1>1, Zenon DEF Run
  <1>4. new \in Run
    BY <1>1, Zenon DEF Run
  <1>5. new.i = 1 /\ new.objs = s /\ new.op = o /\ new.pc = x
    BY <1>1 DEF Run
  <1> HIDE DEF failing, new
  <1>6. new.pc = IF o = "init" THEN "get" ELSE "apply"
    BY <1>5 DEF x
  <1> QED BY <1>2, <1>3, <1>4, <1>5, <1>6, Zenon

\* The commands of the CLI.
Command ==
    \/ newInitCommand \/ newDefaultsCommand
    \/ \E in \in Inputs : \/ newTenantCommand(in) \/ newProjectCommand(in)
                          \/ newDomainCommand(in) \/ newRegistryCommand(in)

\* Each launches with documents of its own.
LEMMA CommandFacts ==
    ASSUME Command
    PROVE  \E o \in Commands, s \in Seq(Documents) : o # "manager" /\ Launch(o, s)
  <1>1. CASE newInitCommand
    BY <1>1, LoadedTyped, Zenon DEF newInitCommand, Commands
  <1>2. CASE newDefaultsCommand
    BY <1>2, LoadedTyped DEF newDefaultsCommand, Commands
  <1>3. CASE \E in \in Inputs : \/ newTenantCommand(in) \/ newProjectCommand(in)
                                \/ newDomainCommand(in) \/ newRegistryCommand(in)
    <2>1. PICK in \in Inputs : \/ newTenantCommand(in) \/ newProjectCommand(in)
                               \/ newDomainCommand(in) \/ newRegistryCommand(in)
      BY <1>3
    <2>2. /\ BuildTenant(in) \in Seq(Documents) /\ BuildProject(in) \in Seq(Documents)
          /\ BuildDomain(in) \in Seq(Documents) /\ BuildRegistryCredential(in) \in Seq(Documents)
      BY BuiltTyped
    <2> QED BY <2>1, <2>2
            DEF newTenantCommand, newProjectCommand, newDomainCommand, newRegistryCommand, Commands
  <1> QED BY <1>1, <1>2, <1>3 DEF Command

\* A command begins with the CRDs if it is "init", else with its documents.
LEMMA CommandStep == ASSUME BootInv, Command PROVE BootInv'
  <1>1. PICK o \in Commands, s \in Seq(Documents) : o # "manager" /\ Launch(o, s)
    BY CommandFacts
  <1>2. PICK new \in Run :
          /\ Step_("cli", new) /\ UNCHANGED <<crd, crdWrites>>
          /\ \/ new.pc = "failed"
             \/ new.i = 1 /\ new.op = o /\ new.pc = IF o = "init" THEN "get" ELSE "apply"
    BY <1>1, LaunchFacts
  <1>3. "cli" \in Installers
    BY DEF Installers
  <1>4. CASE new.pc = "failed"
    <2>1. inst'["cli"] = new
      BY <1>2, <1>3 DEF Step_, BootInv, BootTypeOK
    <2>2. Ensured("cli")'
      BY <1>4, <2>1, Zenon DEF Ensured, Ensuring, Using
    <2>3. crdWrites' \in Nat
      BY <1>2 DEF BootInv, BootTypeOK
    <2> QED BY <1>2, <1>3, <2>2, <2>3, OneInstaller
  <1>5. CASE new.pc # "failed"
    BY <1>1, <1>2, <1>3, <1>5, StartStep, Zenon
  <1> QED BY <1>4, <1>5

\* A step from one stage of EnsureCRDs to the next that writes no CRD.
LEMMA GetCRDStep == ASSUME BootInv, NEW p \in Installers, GetCRD(p) PROVE BootInv'
  <1> DEFINE c == inst[p].i
             x == IF ~Present(c) THEN "create" ELSE IF needsUpdate(c) THEN "update" ELSE "wait"
             new == [inst[p] EXCEPT !.version = crd[c].version, !.pc = x]
  <1>1. inst[p] \in Run /\ At(p, "get") /\ c \in Crds /\ crd[c].version \in Nat /\ x \in BootPcs
    BY DEF GetCRD, BootInv, BootTypeOK, Ensured, Ensuring, At, Definition_, BootPcs
  <1>2. Step_(p, new) /\ UNCHANGED <<crd, crdWrites>> /\ crdWrites' \in Nat
    BY DEF GetCRD, BootInv, BootTypeOK
  <1>3. x = "wait" => crd[c].spec = "bundled"
    BY Zenon DEF needsUpdate
  <1>3a. x \in Ensuring
    BY DEF Ensuring
  <1> HIDE DEF c, x
  <1>4. /\ new \in Run /\ new.pc = x /\ new.i = inst[p].i /\ new.quiet = inst[p].quiet
        /\ new.op = inst[p].op
    BY <1>1, Zenon DEF Run
  <1> HIDE DEF new
  <1>5. inst'[p] = new
    BY <1>2 DEF Step_, BootInv, BootTypeOK
  <1>6. inst[p].pc \in Ensuring /\ c = inst[p].i
    BY <1>1, Zenon DEF At, Ensuring, c
  <1>7. Ensured(p)
    BY DEF BootInv
  <1>8. Ensured(p)'
    <2>1. \A k \in Crds : Ready(k) => Ready(k)'
      BY <1>2 DEF Ready
    <2>2. x \notin Using
      BY <1>3a DEF Ensuring, Using
    <2> QED BY <1>1, <1>2, <1>3, <1>3a, <1>4, <1>5, <1>6, <1>7, <2>1, <2>2, Zenon DEF Ensured
  <1> QED BY <1>2, <1>4, <1>8, OneInstaller, Zenon

\* A step that writes the bundled form of the CRD an installer is at.
LEMMA WriteBundled ==
    ASSUME BootInv, NEW p \in Installers, inst[p].pc \in {"create", "update"},
           NEW def \in Definition_, crd' = [crd EXCEPT ![inst[p].i] = def], def.spec = "bundled",
           def.ready = crd[inst[p].i].ready, GoTo(p, "wait"), UNCHANGED crdWrites
    PROVE  BootInv'
  <1> DEFINE new == [inst[p] EXCEPT !.pc = "wait"]
  <1>1. inst[p] \in Run /\ inst[p].pc \in Ensuring /\ inst[p].i \in Crds /\ "wait" \in BootPcs
    BY Zenon DEF BootInv, BootTypeOK, Ensured, Ensuring, BootPcs
  <1>2. /\ new \in Run /\ new.pc = "wait" /\ new.i = inst[p].i /\ new.quiet = inst[p].quiet
        /\ new.op = inst[p].op
    BY <1>1, Zenon DEF Run
  <1>3. Step_(p, new)
    BY DEF GoTo, Step_, BootInv, BootTypeOK
  <1> HIDE DEF new
  <1>4. /\ inst'[p] = new /\ inst' \in [Installers -> Run]
        /\ \A o \in Installers : o # p => inst'[o] = inst[o]
    BY <1>2, <1>3, Zenon DEF Step_, BootInv, BootTypeOK
  <1>5. /\ crd' \in [Crds -> Definition_] /\ crd'[inst[p].i] = def
        /\ \A c \in Crds : c # inst[p].i => crd'[c] = crd[c]
    BY <1>1, Zenon DEF BootInv, BootTypeOK
  <1>6. BootTypeOK' /\ BareCrds'
    BY <1>4, <1>5, Zenon DEF BootInv, BootTypeOK, BareCrds, Present
  <1>7. \A c \in Crds : /\ Ready(c) => Ready(c)'
                        /\ crd[c].spec = "bundled" => crd'[c].spec = "bundled"
    BY <1>5, Zenon DEF Ready
  <1>8. ASSUME NEW o \in Installers, o # p PROVE Ensured(o)'
    <2>1. Ensured(o) /\ inst'[o] = inst[o]
      BY <1>4, <1>8, Zenon DEF BootInv
    <2> QED BY <1>7, <2>1, Zenon DEF Ensured
  <1>9. Ensured(p)'
    <2>1. Ensured(p)
      BY Zenon DEF BootInv
    <2>2. "wait" \in Ensuring /\ "wait" \notin Using
      BY Zenon DEF Ensuring, Using
    <2> QED BY <1>1, <1>2, <1>4, <1>5, <1>7, <2>1, <2>2, Zenon DEF Ensured
  <1> QED BY <1>6, <1>8, <1>9, Zenon DEF BootInv

\* What is written is a definition.
LEMMA WrittenTyped ==
    ASSUME BootTypeOK, NEW c \in Crds, NEW l \in SUBSET {"site", "bundle"},
           NEW s \in {"none", "bundled", "other"}
    PROVE  /\ Written(c, s, l) \in Definition_ /\ Written(c, s, l).spec = s
           /\ Written(c, s, l).ready = crd[c].ready /\ Written(c, s, l).labels = l
  <1> DEFINE d == crd[c]
             v == d.version + 1
  <1>1. d \in Definition_ /\ v \in Nat
    BY DEF BootTypeOK, Definition_
  <1>2. Written(c, s, l) = [d EXCEPT !.spec = s, !.labels = l, !.version = v]
    BY DEF Written
  <1> HIDE DEF d, v
  <1>3. /\ [d EXCEPT !.spec = s, !.labels = l, !.version = v].spec = s
        /\ [d EXCEPT !.spec = s, !.labels = l, !.version = v].labels = l
        /\ [d EXCEPT !.spec = s, !.labels = l, !.version = v].ready = d.ready
    BY <1>1 DEF Definition_
  <1>4. [d EXCEPT !.spec = s, !.labels = l, !.version = v] \in Definition_
    BY <1>1, ZenonT(30) DEF Definition_
  <1> QED BY <1>2, <1>3, <1>4 DEF d

\* A CRD is created, or the run ends because it exists by now.
LEMMA CreateCRDStep == ASSUME BootInv, NEW p \in Installers, CreateCRD(p) PROVE BootInv'
  <1> DEFINE c == inst[p].i
             def == Written(c, "bundled", {"bundle"})
  <1>1. /\ inst[p].pc = "create" /\ c \in Crds /\ crd[c] \in Definition_
        /\ UNCHANGED crdWrites /\ crdWrites' \in Nat
    BY Zenon DEF CreateCRD, At, BootInv, BootTypeOK, Ensured, Ensuring
  <1>2. CASE Present(c)
    <2>1. Abort(p) /\ UNCHANGED crd
      BY <1>2 DEF CreateCRD
    <2> QED BY <1>1, <2>1, AbortStep, Zenon
  <1>3. CASE ~Present(c)
    <2>1. crd' = [crd EXCEPT ![inst[p].i] = def] /\ GoTo(p, "wait")
      BY <1>3, Zenon DEF CreateCRD
    <2>2. {"bundle"} \in SUBSET {"site", "bundle"} /\ BootTypeOK
      BY DEF BootInv
    <2>3. def \in Definition_ /\ def.spec = "bundled" /\ def.ready = crd[inst[p].i].ready
      BY <1>1, <2>2, WrittenTyped
    <2> HIDE DEF def
    <2> QED BY <1>1, <2>1, <2>3, WriteBundled, Zenon
  <1> QED BY <1>2, <1>3

\* A CRD is updated, or the run ends because it is not the one that was read.
LEMMA UpdateCRDStep == ASSUME BootInv, NEW p \in Installers, UpdateCRD(p) PROVE BootInv'
  <1> DEFINE c == inst[p].i
             def == Written(c, "bundled", mergeLabels(crd[c].labels))
  <1>1. /\ inst[p].pc = "update" /\ c \in Crds /\ crd[c] \in Definition_
        /\ UNCHANGED crdWrites /\ crdWrites' \in Nat
    BY Zenon DEF UpdateCRD, At, BootInv, BootTypeOK, Ensured, Ensuring
  <1>2. CASE ~(Present(c) /\ crd[c].version = inst[p].version)
    <2>1. Abort(p) /\ UNCHANGED crd
      BY <1>2, Zenon DEF UpdateCRD
    <2> QED BY <1>1, <2>1, AbortStep, Zenon
  <1>3. CASE Present(c) /\ crd[c].version = inst[p].version
    <2>1. crd' = [crd EXCEPT ![inst[p].i] = def] /\ GoTo(p, "wait")
      BY <1>3, Zenon DEF UpdateCRD
    <2>2. mergeLabels(crd[c].labels) \in SUBSET {"site", "bundle"} /\ BootTypeOK
      BY <1>1, Zenon DEF mergeLabels, Definition_, BootInv
    <2>3. def \in Definition_ /\ def.spec = "bundled" /\ def.ready = crd[inst[p].i].ready
      BY <1>1, <2>2, WrittenTyped, SMTT(40)
    <2> HIDE DEF def
    <2> QED BY <1>1, <2>1, <2>3, WriteBundled, Zenon
  <1> QED BY <1>2, <1>3, Zenon

\* The CRD an installer waited for is established: the next one, or what follows the last.
LEMMA ProceedStep ==
    ASSUME BootInv, NEW p \in Installers, inst[p].pc = "wait", crd[inst[p].i].ready, Proceed(p),
           UNCHANGED <<crd, crdWrites>>
    PROVE  BootInv'
  <1> DEFINE r == inst[p]
             new == IF r.i < NCrds THEN [r EXCEPT !.i = r.i + 1, !.pc = "get"]
                    ELSE IF p = "manager" THEN [r EXCEPT !.pc = "done"]
                    ELSE [r EXCEPT !.i = 1, !.pc = "apply"]
  <1>1. /\ r \in Run /\ r.i \in Crds /\ r.i \in Nat /\ Ensured(p) /\ r.pc \in Ensuring
        /\ {"get", "done", "apply"} \subseteq BootPcs /\ NCrds \in Nat
    BY BootAssumption, Zenon DEF BootInv, BootTypeOK, Ensured, Ensuring, BootPcs, Run
  <1>2. Step_(p, new)
    BY DEF Proceed, Step_
  <1>3. /\ new \in Run /\ new.quiet = r.quiet /\ new.op = r.op
        /\ r.i < NCrds => new.pc = "get" /\ new.i = r.i + 1
        /\ ~(r.i < NCrds) => new.pc \in {"done", "apply"}
    <2>1. CASE r.i < NCrds
      <3>1. r.i + 1 \in Nat
        BY <1>1
      <3>2. new = [r EXCEPT !.i = r.i + 1, !.pc = "get"]
        BY <2>1
      <3> HIDE DEF new
      <3> QED BY <1>1, <2>1, <3>1, <3>2, Zenon DEF Run
    <2>2. CASE ~(r.i < NCrds)
      BY <1>1, <2>2, Zenon DEF Run
    <2> QED BY <2>1, <2>2
  <1> HIDE DEF new
  <1>4. inst'[p] = new /\ crdWrites' \in Nat
    BY <1>2, Zenon DEF Step_, BootInv, BootTypeOK
  <1>5. \A c \in Crds : Ready(c)' <=> Ready(c)
    BY Zenon DEF Ready
  <1>6. r.quiet => \A c \in Crds : c < r.i + 1 => Ready(c)
    <2> SUFFICES ASSUME r.quiet, NEW c \in Crds, c < r.i + 1 PROVE Ready(c)
      BY Zenon
    <2>1. c < r.i \/ c = r.i
      BY <1>1, SMTT(40) DEF Crds
    <2> QED BY <1>1, <2>1, Zenon DEF Ensured, Ready
  <1>7. CASE r.i < NCrds
    <2>1. r.i + 1 \in Crds
      BY <1>1, <1>7, SMTT(40) DEF Crds
    <2>2. "get" \in Ensuring /\ "get" \notin Using
      BY Zenon DEF Ensuring, Using
    <2>3. Ensured(p)'
      BY <1>3, <1>4, <1>5, <1>6, <1>7, <2>1, <2>2, Zenon DEF Ensured
    <2> QED BY <1>2, <1>3, <1>4, <2>3, OneInstaller, Zenon
  <1>8. CASE ~(r.i < NCrds)
    <2>1. \A c \in Crds : c < r.i + 1
      BY <1>1, <1>8, SMTT(40) DEF Crds
    <2>2. new.pc \notin Ensuring
      BY <1>3, <1>8, Zenon DEF Ensuring
    <2>3. Ensured(p)'
      BY <1>3, <1>4, <1>5, <1>6, <1>8, <2>1, <2>2, Zenon DEF Ensured
    <2> QED BY <1>2, <1>3, <1>4, <2>3, OneInstaller
  <1> QED BY <1>7, <1>8, Zenon

\* The wait for a CRD ends.
LEMMA WaitStep == ASSUME BootInv, NEW p \in Installers, waitForCRDReady(p) PROVE BootInv'
  <1>1. inst[p].pc = "wait" /\ UNCHANGED <<crd, crdWrites>> /\ crdWrites' \in Nat
    BY Zenon DEF waitForCRDReady, At, BootInv, BootTypeOK
  <1>2. \/ crd[inst[p].i].ready /\ Proceed(p)
        \/ Abort(p)
    BY Zenon DEF waitForCRDReady
  <1> QED BY <1>1, <1>2, ProceedStep, AbortStep, Zenon

\* A step of the CLI past the CRDs keeps to the documents.
LEMMA UsingStep ==
    ASSUME BootInv, UNCHANGED <<crd, crdWrites>>, NEW p \in Installers, NEW new \in Run,
           inst[p].pc \in Using, new.pc \in Using, new.op = inst[p].op, new.quiet = inst[p].quiet,
           Step_(p, new)
    PROVE  BootInv'
  <1>1. inst'[p] = new /\ crdWrites' \in Nat /\ Ensured(p)
    BY DEF Step_, BootInv, BootTypeOK
  <1>2. new.pc \notin Ensuring
    BY Zenon DEF Ensuring, Using
  <1>3. \A c \in Crds : Ready(c) => Ready(c)'
    BY Zenon DEF Ready
  <1>4. Ensured(p)'
    BY <1>1, <1>2, <1>3, Zenon DEF Ensured
  <1> QED BY <1>1, <1>4, OneInstaller, Zenon

\* The installers when someone else has written: none of them runs undisturbed.
LEMMA Disturbed ==
    ASSUME BootInv, inst' = [p \in Installers |-> [inst[p] EXCEPT !.quiet = FALSE]]
    PROVE  inst' \in [Installers -> Run] /\ \A p \in Installers : Ensured(p)'
  <1>1. ASSUME NEW p \in Installers
        PROVE  /\ [inst[p] EXCEPT !.quiet = FALSE] \in Run
               /\ inst'[p] = [inst[p] EXCEPT !.quiet = FALSE]
               /\ inst'[p].pc = inst[p].pc /\ inst'[p].i = inst[p].i /\ ~inst'[p].quiet
    <2>1. inst[p] \in Run /\ inst'[p] = [inst[p] EXCEPT !.quiet = FALSE]
      BY DEF BootInv, BootTypeOK
    <2> QED BY <2>1, Zenon DEF Run
  <1>2. inst' \in [Installers -> Run]
    BY <1>1
  <1>3. \A p \in Installers : Ensured(p)'
    BY <1>1 DEF BootInv, Ensured
  <1> QED BY <1>2, <1>3

\* Someone else writes a CRD.
LEMMA OthersStep == ASSUME BootInv, NEW c \in Crds, OthersWrite(c) PROVE BootInv'
  <1>1. crdWrites' \in Nat /\ inst' = [p \in Installers |-> [inst[p] EXCEPT !.quiet = FALSE]]
    BY DEF OthersWrite, BootInv, BootTypeOK
  <1>2. BootTypeOK /\ crd[c] \in Definition_ /\ BareCrds
    BY Zenon DEF BootInv, BootTypeOK
  <1>3. PICK def \in Definition_ :
          crd' = [crd EXCEPT ![c] = def] /\ (def.spec = "none" => def.labels = {})
    <2>1. CASE \E l \in SUBSET {"site"} : crd' = [crd EXCEPT ![c] = Written(c, "other", l)]
      <3>1. PICK l \in SUBSET {"site"} : crd' = [crd EXCEPT ![c] = Written(c, "other", l)]
        BY <2>1, Zenon
      <3>2. l \in SUBSET {"site", "bundle"}
        OBVIOUS
      <3>3. Written(c, "other", l) \in Definition_ /\ Written(c, "other", l).spec = "other"
        BY <1>2, <3>2, WrittenTyped
      <3> QED BY <3>1, <3>3, Zenon
    <2>2. CASE /\ Present(c)
               /\ crd' = [crd EXCEPT ![c] = Written(c, crd[c].spec, crd[c].labels \cup {"site"})]
      <3>1. /\ crd[c].spec \in {"none", "bundled", "other"}
            /\ crd[c].labels \cup {"site"} \in SUBSET {"site", "bundle"}
        BY <1>2, Zenon DEF Definition_
      <3>2. /\ Written(c, crd[c].spec, crd[c].labels \cup {"site"}) \in Definition_
            /\ Written(c, crd[c].spec, crd[c].labels \cup {"site"}).spec = crd[c].spec
        BY <1>2, <3>1, WrittenTyped
      <3> QED BY <2>2, <3>2, Zenon DEF Present
    <2>3. CASE crd' = [crd EXCEPT ![c] = [NoCrd EXCEPT !.version = crd[c].version + 1]]
      <3>1. /\ [NoCrd EXCEPT !.version = crd[c].version + 1] \in Definition_
            /\ [NoCrd EXCEPT !.version = crd[c].version + 1].labels = {}
        <4> DEFINE v == crd[c].version + 1
        <4>1. v \in Nat
          BY <1>2 DEF Definition_
        <4> HIDE DEF v
        <4>2. [NoCrd EXCEPT !.version = v].labels = {}
          BY DEF NoCrd
        <4>3. NoCrd \in Definition_
          BY Zenon DEF NoCrd, Definition_
        <4>4. [NoCrd EXCEPT !.version = v] \in Definition_
          BY <4>1, <4>3 DEF Definition_
        <4> QED BY <4>2, <4>4 DEF v
      <3> QED BY <2>3, <3>1, Zenon
    <2> QED BY <2>1, <2>2, <2>3 DEF OthersWrite
  <1>4. crd' \in [Crds -> Definition_] /\ BareCrds'
    BY <1>2, <1>3, Zenon DEF BootTypeOK, BareCrds, Present
  <1> QED BY <1>1, <1>4, Disturbed DEF BootInv, BootTypeOK

\* The API server establishes a CRD.
LEMMA EstablishStep == ASSUME BootInv, NEW c \in Crds, Establish(c) PROVE BootInv'
  <1> DEFINE def == [crd[c] EXCEPT !.ready = TRUE]
  <1>1. crd[c] \in Definition_ /\ crd' = [crd EXCEPT ![c] = def] /\ UNCHANGED <<inst, crdWrites>>
    BY DEF Establish, BootInv, BootTypeOK
  <1>2. def \in Definition_ /\ def.spec = crd[c].spec /\ def.labels = crd[c].labels /\ def.ready
    BY <1>1, Zenon DEF Definition_
  <1> HIDE DEF def
  <1>3. crd' \in [Crds -> Definition_] /\ BareCrds'
    BY <1>1, <1>2, Zenon DEF BootInv, BootTypeOK, BareCrds, Present
  <1>4. \A k \in Crds : (Ready(k) => Ready(k)') /\ crd'[k].spec = crd[k].spec
    BY <1>1, <1>2, Zenon DEF Ready, BootInv, BootTypeOK
  <1>5. \A p \in Installers : Ensured(p)'
    BY <1>1, <1>4, Zenon DEF Ensured, BootInv
  <1> QED BY <1>1, <1>3, <1>5, Zenon DEF BootInv, BootTypeOK

\* The CLI goes on to another stage past the CRDs.
LEMMA GoToStep ==
    ASSUME BootInv, UNCHANGED <<crd, crdWrites>>, NEW p \in Installers, NEW x \in Using,
           inst[p].pc \in Using, GoTo(p, x)
    PROVE  BootInv'
  <1> DEFINE new == [inst[p] EXCEPT !.pc = x]
  <1>1. inst[p] \in Run /\ x \in BootPcs
    BY DEF BootInv, BootTypeOK, BootPcs, Using
  <1>2. new \in Run /\ new.pc = x /\ new.op = inst[p].op /\ new.quiet = inst[p].quiet
    BY <1>1 DEF Run
  <1>3. Step_(p, new)
    BY DEF GoTo, Step_, BootInv, BootTypeOK
  <1> HIDE DEF new
  <1> QED BY <1>2, <1>3, UsingStep, Zenon

\* The CLI has left the trail of a document.
Traced(m) == m \in applied /\ FileName(m) \in files /\ m \in audit \cup inst["cli"].warned

\* What is on disk and in the audit log was applied, and the CLI has left the
\* trail of every document before the one it is at.
CliInv ==
    LET r == inst["cli"] IN
    /\ audit \subseteq applied /\ \A f \in files : \E m \in applied : FileName(m) = f
    /\ r.pc \in Ensuring => r.objs # <<>>
    /\ r.pc \in {"apply", "write", "emit"} =>
         r.i \in 1..Len(r.objs) /\ \A j \in 1..Len(r.objs) : j < r.i => Traced(r.objs[j])
    /\ r.pc \in {"write", "emit"} => r.objs[r.i] \in applied
    /\ r.pc = "emit" => FileName(r.objs[r.i]) \in files
    /\ r.pc \in {"render", "done", "unrendered"} => \A j \in 1..Len(r.objs) : Traced(r.objs[j])

\* The CLI has told of a document, or warned that it could not.
LEMMA EmitFacts ==
    ASSUME BootTypeOK, CliInv, EmitEvent
    PROVE  \E new \in Run :
             /\ Step_("cli", new)
             /\ new.op = inst["cli"].op /\ new.quiet = inst["cli"].quiet
             /\ new.objs = inst["cli"].objs /\ inst["cli"].warned \subseteq new.warned
             /\ inst["cli"].i < Len(inst["cli"].objs) =>
                  new.i = inst["cli"].i + 1 /\ new.pc = "apply"
             /\ ~(inst["cli"].i < Len(inst["cli"].objs)) => new.pc = "render"
             /\ Current \in audit' \cup new.warned
  <1> DEFINE r == inst["cli"]
             more == r.i < Len(r.objs)
             k == IF more THEN r.i + 1 ELSE r.i
             x == IF more THEN "apply" ELSE "render"
             more_ == [r EXCEPT !.i = k, !.pc = x]
  <1>1. r \in Run /\ k \in Nat /\ x \in BootPcs
    <2>1. r \in Run /\ r.i \in Nat
      BY Zenon DEF BootTypeOK, Installers, Run
    <2> QED BY <2>1 DEF BootPcs
  <1>2. \/ audit' = audit \cup {Current} /\ Step_("cli", more_)
        \/ Step_("cli", [more_ EXCEPT !.warned = more_.warned \cup {Current}])
    BY DEF EmitEvent
  <1>3. more => k = r.i + 1 /\ x = "apply"
    OBVIOUS
  <1>4. ~more => x = "render"
    OBVIOUS
  <1>5. Len(r.objs) \in Nat /\ (more <=> r.i < Len(r.objs))
    BY <1>1 DEF Run
  <1> HIDE DEF k, x
  <1>6. /\ more_ \in Run /\ more_.op = r.op /\ more_.quiet = r.quiet /\ more_.objs = r.objs
        /\ more_.i = k /\ more_.pc = x /\ more_.warned = r.warned
    BY <1>1, Zenon DEF Run
  <1> HIDE DEF more_
  <1>7. CASE audit' = audit \cup {Current} /\ Step_("cli", more_)
    BY <1>3, <1>4, <1>6, <1>7, Zenon
  <1>8. CASE Step_("cli", [more_ EXCEPT !.warned = more_.warned \cup {Current}])
    <2> DEFINE w == more_.warned \cup {Current}
               new == [more_ EXCEPT !.warned = w]
    <2>1. new.op = r.op /\ new.quiet = r.quiet /\ new.objs = r.objs /\ new.i = k /\ new.pc = x
      BY <1>6 DEF Run
    <2>2. new.warned = w
      BY <1>6 DEF Run
    <2>3. w \in SUBSET Documents => new \in Run
      BY <1>6 DEF Run
    <2>4. Current \in Documents
      BY <1>1 DEF Current, CliInv, EmitEvent, At, Run
    <2>5. w \in SUBSET Documents /\ r.warned \subseteq w /\ Current \in w
      BY <1>6, <2>4, Zenon DEF Run
    <2>6. Step_("cli", new)
      BY <1>8
    <2> HIDE DEF new, w
    <2>7. new \in Run /\ r.warned \subseteq new.warned /\ Current \in audit' \cup new.warned
      BY <2>2, <2>3, <2>5, Zenon
    <2> QED BY <1>3, <1>4, <2>1, <2>6, <2>7, Zenon
  <1> QED BY <1>2, <1>7, <1>8

\* The CLI applies, copies, tells of and prints what it has applied.
LEMMA CliStep ==
    ASSUME BootInv, CliInv, ApplyObject \/ writeObject \/ EmitEvent \/ RenderOutput
    PROVE  BootInv'
  <1>1. "cli" \in Installers
    BY DEF Installers
  <1>2. CASE ApplyObject \/ writeObject \/ RenderOutput
    <2>1. UNCHANGED <<crd, crdWrites>> /\ inst["cli"].pc \in Using
      BY <1>2, Zenon DEF ApplyObject, writeObject, RenderOutput, At, Using, Outputs
    <2>2. \E x \in Using : GoTo("cli", x)
      BY <1>2, Zenon DEF ApplyObject, writeObject, RenderOutput, Using
    <2> QED BY <1>1, <2>1, <2>2, GoToStep, Zenon
  <1>3. CASE EmitEvent
    <2>1. UNCHANGED <<crd, crdWrites>> /\ inst["cli"].pc \in Using
      BY <1>3 DEF EmitEvent, At, Using
    <2>2. PICK new \in Run :
            /\ Step_("cli", new) /\ new.op = inst["cli"].op /\ new.quiet = inst["cli"].quiet
            /\ new.pc \in {"apply", "render"}
      BY <1>3, EmitFacts, Zenon DEF BootInv
    <2>3. new.pc \in Using
      BY <2>2, Zenon DEF Using
    <2> QED BY <1>1, <2>1, <2>2, <2>3, UsingStep, Zenon
  <1> QED BY <1>2, <1>3

\* Where the CLI stays as it is, so does its trail.
LEMMA CliStays ==
    ASSUME CliInv, UNCHANGED Outputs, inst'["cli"].pc = inst["cli"].pc,
           inst'["cli"].objs = inst["cli"].objs, inst'["cli"].i = inst["cli"].i,
           inst'["cli"].warned = inst["cli"].warned
    PROVE  CliInv'
  <1>1. UNCHANGED <<applied, files, audit>>
    BY Zenon DEF Outputs
  <1>2. \A m : Traced(m) => Traced(m)'
    BY <1>1, Zenon DEF Traced, FileName
  <1> QED BY <1>1, <1>2, Zenon DEF CliInv, FileName

\* A command that has ended or not begun to apply has a trail only of others' documents.
LEMMA CliRests ==
    ASSUME CliInv, UNCHANGED Outputs,
           \/ inst'["cli"].pc \in {"off", "failed"}
           \/ inst'["cli"].pc \in Ensuring /\ inst'["cli"].objs # <<>>
           \/ /\ inst'["cli"].pc = "apply" /\ inst'["cli"].i = 1
              /\ inst'["cli"].objs # <<>> /\ inst'["cli"].objs \in Seq(Documents)
    PROVE  CliInv'
  <1>1. audit' \subseteq applied' /\ \A f \in files' : \E m \in applied' : FileName(m) = f
    BY Zenon DEF Outputs, CliInv
  <1>1a. \A m : FileName(m)' = FileName(m)
    BY Zenon DEF FileName
  <1>2. CASE inst'["cli"].pc \in {"off", "failed"}
    BY <1>1, <1>1a, <1>2, Zenon DEF CliInv, Ensuring
  <1>3. CASE inst'["cli"].pc \in Ensuring /\ inst'["cli"].objs # <<>>
    BY <1>1, <1>1a, <1>3, Zenon DEF CliInv, Ensuring
  <1>4. CASE /\ inst'["cli"].pc = "apply" /\ inst'["cli"].i = 1
             /\ inst'["cli"].objs # <<>> /\ inst'["cli"].objs \in Seq(Documents)
    <2>1. 1 \in 1..Len(inst'["cli"].objs) /\ \A j \in 1..Len(inst'["cli"].objs) : ~(j < 1)
      BY <1>4
    <2> QED BY <1>1, <1>1a, <1>4, <2>1, Zenon DEF CliInv, Ensuring
  <1> QED BY <1>2, <1>3, <1>4, Zenon

\* Documents are applied, copied and told of one after the other.
LEMMA CliTrail ==
    ASSUME BootTypeOK, CliInv, ApplyObject \/ writeObject \/ EmitEvent \/ RenderOutput
    PROVE  CliInv'
  <1> DEFINE r == inst["cli"]
  <1>1. "cli" \in Installers /\ r \in Run /\ r.objs \in Seq(Documents) /\ r.i \in Nat
    BY Zenon DEF Installers, BootTypeOK, Run
  <1>2. ASSUME NEW x, GoTo("cli", x)
        PROVE  /\ inst'["cli"].pc = x /\ inst'["cli"].objs = r.objs /\ inst'["cli"].i = r.i
               /\ inst'["cli"].warned = r.warned
    BY <1>1, <1>2 DEF GoTo, Run, BootTypeOK
  <1>3. \A m : FileName(m)' = FileName(m)
    BY DEF FileName
  <1>4. CASE ApplyObject
    <2>1. /\ r.pc = "apply" /\ applied' = applied \cup {r.objs[r.i]} /\ GoTo("cli", "write")
          /\ UNCHANGED <<files, audit>>
      BY <1>4, Zenon DEF ApplyObject, At, Current
    <2>2. \A m : Traced(m) => Traced(m)'
      BY <1>2, <1>3, <2>1, Zenon DEF Traced
    <2> QED BY <1>2, <1>3, <2>1, <2>2, SMTT(40) DEF CliInv, Ensuring
  <1>5. CASE writeObject
    <2>1. /\ r.pc = "write" /\ files' = files \cup {FileName(r.objs[r.i])} /\ GoTo("cli", "emit")
          /\ UNCHANGED <<applied, audit>>
      BY <1>5, Zenon DEF writeObject, At, Current
    <2>2. \A m : Traced(m) => Traced(m)'
      BY <1>2, <1>3, <2>1, Zenon DEF Traced
    <2> QED BY <1>2, <1>3, <2>1, <2>2, SMTT(40) DEF CliInv, Ensuring
  <1>6. CASE EmitEvent
    <2>1. /\ r.pc = "emit" /\ UNCHANGED <<applied, files>>
          /\ audit' = audit \/ audit' = audit \cup {r.objs[r.i]}
      BY <1>6, Zenon DEF EmitEvent, At, Current
    <2>2. PICK new \in Run :
             /\ Step_("cli", new) /\ new.objs = r.objs /\ r.warned \subseteq new.warned
             /\ r.i < Len(r.objs) => new.i = r.i + 1 /\ new.pc = "apply"
             /\ ~(r.i < Len(r.objs)) => new.pc = "render"
             /\ r.objs[r.i] \in audit' \cup new.warned
      BY <1>6, EmitFacts, Zenon DEF Current
    <2>3. inst'["cli"] = new
      BY <1>1, <2>2, Zenon DEF Step_, BootTypeOK
    <2>4. \A m : Traced(m) => Traced(m)'
      BY <1>3, <2>1, <2>2, <2>3, Zenon DEF Traced
    <2> PICK s \in Seq(Documents), k \in Nat : s = r.objs /\ k = r.i
      BY <1>1, Zenon
    <2>5. Traced(s[k])'
      <3>1. s[k] \in applied /\ FileName(s[k]) \in files
        BY <2>1, Zenon DEF CliInv
      <3> QED BY <1>3, <2>1, <2>2, <2>3, <3>1, Zenon DEF Traced
    <2>6. audit' \subseteq applied' /\ \A f \in files' : \E m \in applied' : FileName(m) = f
      BY <2>1, Zenon DEF CliInv
    <2>7. /\ k \in 1..Len(s) /\ Len(s) \in Nat
          /\ \A j \in 1..Len(s) : j < k + 1 => Traced(s[j])'
      <3>1. k \in 1..Len(s) /\ \A j \in 1..Len(s) : j < k => Traced(s[j])
        BY <2>1, Zenon DEF CliInv
      <3>2. \A j \in 1..Len(s) : j < k + 1 => j < k \/ j = k
        OBVIOUS
      <3> QED BY <2>4, <2>5, <3>1, <3>2, SMTT(40)
    <2>8. CASE k < Len(s)
      <3>1. k + 1 \in 1..Len(s)
        BY <2>7, <2>8
      <3>2. inst'["cli"].objs = s /\ inst'["cli"].i = k + 1 /\ inst'["cli"].pc = "apply"
        BY <2>2, <2>3, <2>8, Zenon
      <3> QED BY <1>3, <2>6, <2>7, <3>1, <3>2, Zenon DEF CliInv, Ensuring
    <2>9. CASE ~(k < Len(s))
      <3>1. \A j \in 1..Len(s) : j < k + 1
        BY <2>7, <2>9, SMTT(40)
      <3>2. inst'["cli"].objs = s /\ inst'["cli"].pc = "render"
        BY <2>2, <2>3, <2>9, Zenon
      <3> QED BY <1>3, <2>6, <2>7, <3>1, <3>2, Zenon DEF CliInv, Ensuring
    <2> QED BY <2>8, <2>9, Zenon
  <1>7. CASE RenderOutput
    <2>1. r.pc = "render" /\ UNCHANGED <<applied, files, audit>>
      BY <1>7, Zenon DEF RenderOutput, At, Outputs
    <2>2. PICK x \in {"done", "unrendered"} : GoTo("cli", x)
      BY <1>7, Zenon DEF RenderOutput
    <2>3. \A m : Traced(m) => Traced(m)'
      BY <1>2, <1>3, <2>1, <2>2, Zenon DEF Traced
    <2> QED BY <1>2, <1>3, <2>1, <2>2, <2>3, Zenon DEF CliInv, Ensuring
  <1> QED BY <1>4, <1>5, <1>6, <1>7

\* Both invariants hold from the start.
LEMMA BootStarts == BootInit => BootInv /\ CliInv
  <1> SUFFICES ASSUME BootInit PROVE BootInv /\ CliInv
    OBVIOUS
  <1>1. NoCrd \in Definition_ /\ NoCrd.labels = {}
    BY Zenon DEF NoCrd, Definition_
  <1>2. Off \in Run /\ Off.pc = "off" /\ "cli" \in Installers
    BY OffTyped, Zenon DEF Off, Installers
  <1>3. BootTypeOK /\ BareCrds
    BY <1>1, <1>2, Zenon DEF BootInit, BootTypeOK, BareCrds
  <1>4. \A p \in Installers : Ensured(p)
    BY <1>2, Zenon DEF BootInit, Ensured, Ensuring, Using
  <1>5. CliInv
    BY <1>2, Zenon DEF BootInit, CliInv, Ensuring
  <1> QED BY <1>3, <1>4, <1>5 DEF BootInv

\* Every step keeps what is true of the CRDs and the installers.
LEMMA BootInductive == ASSUME BootInv, CliInv, [BootNext]_bootVars PROVE BootInv'
  <1>1. CASE UNCHANGED bootVars
    <2>1. UNCHANGED <<crd, inst, crdWrites>>
      BY <1>1, Zenon DEF bootVars
    <2>2. BootTypeOK' /\ BareCrds'
      BY <2>1, Zenon DEF BootInv, BootTypeOK, BareCrds, Present
    <2>3. \A p \in Installers : Ensured(p)'
      BY <2>1, Zenon DEF BootInv, Ensured, Ready
    <2> QED BY <2>2, <2>3, Zenon DEF BootInv
  <1>2. CASE StartManager
    BY <1>2, StartManagerStep
  <1>3. CASE Command
    BY <1>3, CommandStep
  <1>4. ASSUME NEW p \in Installers, InstallerFails(p) PROVE BootInv'
    <2>1. Abort(p) /\ UNCHANGED <<crd, crdWrites>> /\ crdWrites' \in Nat
      BY <1>4, Zenon DEF InstallerFails, BootInv, BootTypeOK
    <2> QED BY <2>1, AbortStep
  <1>5. ASSUME NEW p \in Installers,
               GetCRD(p) \/ CreateCRD(p) \/ UpdateCRD(p) \/ waitForCRDReady(p)
        PROVE  BootInv'
    BY <1>5, GetCRDStep, CreateCRDStep, UpdateCRDStep, WaitStep, Zenon
  <1>6. CASE ApplyObject \/ writeObject \/ EmitEvent \/ RenderOutput
    BY <1>6, CliStep
  <1>7. ASSUME NEW c \in Crds, OthersWrite(c) \/ Establish(c) PROVE BootInv'
    BY <1>7, OthersStep, EstablishStep
  <1> QED BY <1>1, <1>2, <1>3, <1>4, <1>5, <1>6, <1>7, Zenon DEF BootNext, Command

\* The run of the CLI ends with an error.
LEMMA AbortTrail ==
    ASSUME BootTypeOK, CliInv, UNCHANGED Outputs, NEW p \in Installers, Abort(p) PROVE CliInv'
  <1>1. inst'[p].pc = "failed" /\ \A o \in Installers : o # p => inst'[o] = inst[o]
    <2> DEFINE new == [Off EXCEPT !.op = inst[p].op, !.pc = "failed"]
    <2>1. new.pc = "failed"
      BY OffTyped, Zenon DEF Off
    <2>2. Step_(p, new)
      BY DEF Abort
    <2> HIDE DEF new
    <2> QED BY <2>1, <2>2, Zenon DEF Step_, BootTypeOK
  <1>2. CASE p = "cli"
    BY <1>1, <1>2, CliRests, Zenon
  <1>3. CASE p # "cli"
    <2>1. inst'["cli"] = inst["cli"]
      BY <1>1, <1>3, Zenon DEF Installers
    <2> QED BY <2>1, CliStays, Zenon
  <1> QED BY <1>2, <1>3

\* While an installer ensures the CRDs, it leaves no trail.
LEMMA EnsuringTrail ==
    ASSUME BootInv, CliInv, NEW p \in Installers,
           GetCRD(p) \/ CreateCRD(p) \/ UpdateCRD(p) \/ waitForCRDReady(p)
    PROVE  CliInv'
  <1>1. UNCHANGED Outputs /\ BootTypeOK /\ inst[p] \in Run /\ inst[p].pc \in Ensuring
    BY Zenon DEF GetCRD, CreateCRD, UpdateCRD, waitForCRDReady, Outputs, At, Ensuring, BootInv, BootTypeOK
  <1>2. \/ Abort(p)
        \/ \E x \in Ensuring : \E v : Step_(p, [inst[p] EXCEPT !.version = v, !.pc = x])
        \/ GoTo(p, "wait")
        \/ Proceed(p)
    BY Zenon DEF GetCRD, CreateCRD, UpdateCRD, waitForCRDReady, Ensuring
  <1>3. CASE Abort(p)
    BY <1>1, <1>3, AbortTrail, Zenon
  <1>4. CASE ~Abort(p) /\ p # "cli"
    <2>1. inst'["cli"] = inst["cli"]
      BY <1>2, <1>4, Zenon DEF Step_, GoTo, Proceed, BootInv, BootTypeOK, Installers
    <2> QED BY <1>1, <2>1, CliStays, Zenon
  <1>5. CASE ~Abort(p) /\ p = "cli"
    <2>1. inst["cli"].objs # <<>> /\ inst["cli"].objs \in Seq(Documents)
      BY <1>1, <1>5, Zenon DEF CliInv, Run
    <2>2. \/ inst'["cli"].pc \in Ensuring /\ inst'["cli"].objs = inst["cli"].objs
          \/ /\ inst'["cli"].pc = "apply" /\ inst'["cli"].i = 1
             /\ inst'["cli"].objs = inst["cli"].objs
      <3>1. CASE \E x \in Ensuring : \E v : Step_(p, [inst[p] EXCEPT !.version = v, !.pc = x])
        <4>1. PICK x \in Ensuring :
                 \E v : Step_(p, [inst[p] EXCEPT !.version = v, !.pc = x])
          BY <3>1, Zenon
        <4>2. PICK v : Step_(p, [inst[p] EXCEPT !.version = v, !.pc = x])
          BY <4>1, Zenon
        <4> QED BY <1>1, <1>5, <4>2 DEF Step_, BootTypeOK, Run
      <3>2. CASE GoTo(p, "wait")
        BY <1>1, <1>5, <3>2 DEF GoTo, BootTypeOK, Run, Ensuring
      <3>3. CASE Proceed(p)
        <4> DEFINE r == inst[p]
        <4>1. CASE r.i < NCrds
          <5>1. Step_(p, [r EXCEPT !.i = r.i + 1, !.pc = "get"])
            BY <3>3, <4>1 DEF Proceed
          <5> QED BY <1>1, <1>5, <5>1 DEF Step_, BootTypeOK, Run, Ensuring
        <4>2. CASE ~(r.i < NCrds)
          <5>1. Step_(p, [r EXCEPT !.i = 1, !.pc = "apply"])
            BY <1>5, <3>3, <4>2 DEF Proceed
          <5> QED BY <1>1, <1>5, <5>1 DEF Step_, BootTypeOK, Run
        <4> QED BY <4>1, <4>2, Zenon
      <3> QED BY <1>2, <1>5, <3>1, <3>2, <3>3, Zenon
    <2> QED BY <1>1, <2>1, <2>2, CliRests, Zenon
  <1> QED BY <1>3, <1>4, <1>5, Zenon

\* Every step keeps the trail.
LEMMA TrailInductive == ASSUME BootInv, CliInv, [BootNext]_bootVars PROVE CliInv'
  <1>0. BootTypeOK /\ "cli" \in Installers
    BY DEF BootInv, Installers
  <1>1. CASE UNCHANGED bootVars \/ \E c \in Crds : Establish(c)
    <2>1. UNCHANGED <<inst, Outputs>>
      BY <1>1 DEF bootVars, Establish, Outputs
    <2> QED BY <2>1, CliStays, Zenon
  <1>2. CASE StartManager
    <2>1. UNCHANGED Outputs /\ inst'["cli"] = inst["cli"]
      BY <1>0, <1>2 DEF StartManager, Step_, BootTypeOK
    <2> QED BY <2>1, CliStays, Zenon
  <1>3. CASE Command
    <2>1. PICK o \in Commands, s \in Seq(Documents) : o # "manager" /\ Launch(o, s)
      BY <1>3, CommandFacts
    <2>2. PICK new \in Run :
            /\ Step_("cli", new) /\ UNCHANGED <<applied, files, audit>>
            /\ \/ new.pc = "failed"
               \/ /\ new.i = 1 /\ new.objs = s /\ s # <<>>
                  /\ new.pc = IF o = "init" THEN "get" ELSE "apply"
      BY <2>1, LaunchFacts, SMTT(40)
    <2>3. inst'["cli"] = new /\ UNCHANGED Outputs
      BY <1>0, <2>2, Zenon DEF Step_, BootTypeOK, Outputs
    <2>4. \/ new.pc = "failed"
          \/ new.pc \in Ensuring /\ new.objs # <<>>
          \/ new.pc = "apply" /\ new.i = 1 /\ new.objs # <<>> /\ new.objs \in Seq(Documents)
      BY <2>2, Zenon DEF Ensuring
    <2> QED BY <2>3, <2>4, CliRests, Zenon
  <1>4. ASSUME NEW p \in Installers, InstallerFails(p) PROVE CliInv'
    <2>1. Abort(p) /\ UNCHANGED Outputs
      BY <1>4, Zenon DEF InstallerFails
    <2> QED BY <1>0, <2>1, AbortTrail
  <1>5. ASSUME NEW p \in Installers,
               GetCRD(p) \/ CreateCRD(p) \/ UpdateCRD(p) \/ waitForCRDReady(p)
        PROVE  CliInv'
    BY <1>5, EnsuringTrail, Zenon
  <1>6. CASE ApplyObject \/ writeObject \/ EmitEvent \/ RenderOutput
    BY <1>0, <1>6, CliTrail
  <1>7. ASSUME NEW c \in Crds, OthersWrite(c) PROVE CliInv'
    <2>1. UNCHANGED Outputs /\ inst' = [p \in Installers |-> [inst[p] EXCEPT !.quiet = FALSE]]
      BY <1>7 DEF OthersWrite, Outputs
    <2>2. inst["cli"] \in Run /\ inst'["cli"] = [inst["cli"] EXCEPT !.quiet = FALSE]
      BY <1>0, <2>1 DEF BootTypeOK
    <2>3. /\ inst'["cli"].pc = inst["cli"].pc /\ inst'["cli"].objs = inst["cli"].objs
          /\ inst'["cli"].i = inst["cli"].i /\ inst'["cli"].warned = inst["cli"].warned
      BY <2>2 DEF Run
    <2> QED BY <2>1, <2>3, CliStays
  <1> QED BY <1>1, <1>2, <1>3, <1>4, <1>5, <1>6, <1>7, Zenon DEF BootNext, Command

\* A manager that starts and a CLI that begins to apply found every CRD
\* established in the bundled form, unless others wrote to one meanwhile
\* (EnsureCRDs), however many CRDs are bundled and whatever fails.
THEOREM CrdsBeforeUse == BootSpec => []InstalledBeforeUse
  <1>1. BootInit => BootInv /\ CliInv
    BY BootStarts
  <1>2. BootInv /\ CliInv /\ [BootNext]_bootVars => BootInv' /\ CliInv'
    BY BootInductive, TrailInductive
  <1>3. BootInv => InstalledBeforeUse
    BY Zenon DEF BootInv, Ensured, Ready, Using, InstalledBeforeUse
  <1> QED BY <1>1, <1>2, <1>3, PTL DEF BootSpec

\* The CLI leaves a copy and an audit event, or a warning, of everything it
\* applied when it comes to its output, and of nothing else (ApplyObject,
\* writeObject, EmitEvent).
THEOREM TrailIsTrue == BootSpec => []TrailMatchesCluster
  <1>1. BootInit => BootInv /\ CliInv
    BY BootStarts
  <1>2. BootInv /\ CliInv /\ [BootNext]_bootVars => BootInv' /\ CliInv'
    BY BootInductive, TrailInductive
  <1>3. BootInv /\ CliInv => TrailMatchesCluster
    <2>1. BootInv => inst["cli"].objs \in Seq(Documents)
      BY Zenon DEF BootInv, BootTypeOK, Installers, Run
    <2>2. BootInv => DOMAIN inst["cli"].objs = 1..Len(inst["cli"].objs)
      BY <2>1
    <2> QED BY <2>2, Zenon DEF CliInv, Traced, TrailMatchesCluster
  <1> QED BY <1>1, <1>2, <1>3, PTL DEF BootSpec

\* No step but one of others removes the label of a site from a CRD.
LEMMA LabelsStep ==
    ASSUME BootInv, [BootNext]_bootVars, NEW c \in Crds, "site" \in crd[c].labels,
           crdWrites' = crdWrites
    PROVE  "site" \in crd'[c].labels
  <1>0. BootTypeOK /\ crdWrites \in Nat /\ crd \in [Crds -> Definition_]
    BY Zenon DEF BootInv, BootTypeOK
  <1>1. CASE UNCHANGED crd
    BY <1>1, Zenon
  <1>2. ASSUME NEW p \in Installers, CreateCRD(p) PROVE "site" \in crd'[c].labels
    <2>1. \/ UNCHANGED crd
          \/ /\ ~Present(inst[p].i)
             /\ crd' = [crd EXCEPT ![inst[p].i] = Written(inst[p].i, "bundled", {"bundle"})]
      BY <1>2, Zenon DEF CreateCRD
    <2>2. ~Present(inst[p].i) => c # inst[p].i
      BY Zenon DEF BootInv, BareCrds
    <2> QED BY <1>0, <2>1, <2>2, Zenon
  <1>3. ASSUME NEW p \in Installers, UpdateCRD(p) PROVE "site" \in crd'[c].labels
    <2> DEFINE k == inst[p].i
               l == mergeLabels(crd[k].labels)
    <2>1. \/ UNCHANGED crd
          \/ crd' = [crd EXCEPT ![k] = Written(k, "bundled", l)]
      BY <1>3, Zenon DEF UpdateCRD
    <2>2. k \in Crds
      BY <1>3, Zenon DEF UpdateCRD, At, BootInv, Ensured, Ensuring
    <2>3. l \in SUBSET {"site", "bundle"} /\ crd[k].labels \subseteq l
      BY <1>0, <2>2, Zenon DEF mergeLabels, Definition_
    <2>4. Written(k, "bundled", l).labels = l
      BY <1>0, <2>2, <2>3, WrittenTyped, SMTT(40)
    <2> HIDE DEF k, l
    <2> QED BY <1>0, <2>1, <2>2, <2>3, <2>4, Zenon
  <1>4. ASSUME NEW k \in Crds, Establish(k) PROVE "site" \in crd'[c].labels
    <2>1. crd[k] \in Definition_ /\ crd' = [crd EXCEPT ![k] = [crd[k] EXCEPT !.ready = TRUE]]
      BY <1>0, <1>4 DEF Establish
    <2>2. [crd[k] EXCEPT !.ready = TRUE].labels = crd[k].labels
      BY <2>1 DEF Definition_
    <2> QED BY <1>0, <2>1, <2>2
  <1>5. ASSUME NEW k \in Crds, OthersWrite(k) PROVE FALSE
    BY <1>0, <1>5 DEF OthersWrite
  <1>6. ASSUME Command PROVE UNCHANGED crd
    <2>1. PICK o, s : Launch(o, s)
      BY <1>6, CommandFacts, Zenon
    <2> QED BY <2>1 DEF Launch
  <1>7. ASSUME NEW p \in Installers, InstallerFails(p) \/ GetCRD(p) \/ waitForCRDReady(p)
        PROVE  UNCHANGED crd
    BY <1>7 DEF InstallerFails, GetCRD, waitForCRDReady
  <1>8. ASSUME \/ StartManager \/ ApplyObject \/ writeObject \/ EmitEvent \/ RenderOutput
               \/ UNCHANGED bootVars
        PROVE  UNCHANGED crd
    BY <1>8 DEF StartManager, ApplyObject, writeObject, EmitEvent, RenderOutput, bootVars
  <1> QED BY <1>1, <1>2, <1>3, <1>4, <1>5, <1>6, <1>7, <1>8, Zenon DEF BootNext, Command

\* Ensuring the CRDs never removes a label that someone else put on one
\* (mergeStringMap, and the resource version the update carries).
THEOREM SiteLabelsKept == BootSpec => SiteLabelsSurvive
  <1>1. BootInit => BootInv /\ CliInv
    BY BootStarts
  <1>2. BootInv /\ CliInv /\ [BootNext]_bootVars => BootInv' /\ CliInv'
    BY BootInductive, TrailInductive
  <1>3. BootInv /\ [BootNext]_bootVars =>
          [\A c \in Crds : "site" \in crd[c].labels /\ crdWrites' = crdWrites =>
                             "site" \in crd'[c].labels]_bootVars
    BY LabelsStep, Zenon
  <1> QED BY <1>1, <1>2, <1>3, PTL DEF BootSpec, SiteLabelsSurvive

=============================================================================
