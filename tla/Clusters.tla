------------------------------ MODULE Clusters ------------------------------
(***************************************************************************)
(* The cluster registry: registering a cluster, which installs the         *)
(* operator in it; its metadata; and the health checks of clients and of   *)
(* the scheduler.                                                          *)
(*                                                                         *)
(* Every call runs under one context.  A client that goes away and the     *)
(* deadline of a scheduler tick cancel it, and from then on every round    *)
(* trip of the call fails, those that clean up or record included.         *)
(***************************************************************************)
EXTENDS Naturals, FiniteSets

CONSTANTS
    ClusterIds,   \* fresh ids of registered clusters
    ClusterNames, \* names clients choose
    Targets,      \* the Kubernetes clusters kubeconfigs point to
    NObjects,     \* objects of the operator's installation
    Callers,      \* calls in flight at once, the scheduler's included
    CallOps,      \* the operations of this instance
    MaxCalls,     \* bound on the calls of a behaviour
    Nil

ASSUME ClustersAssumption ==
    /\ NObjects \in Nat \ {0} /\ MaxCalls \in Nat
    /\ Nil \notin ClusterIds \cup Targets

VARIABLES
    cluster_,   \* the clusters table
    installed,  \* objects of the operator present in a Kubernetes cluster
    client,     \* kube.Manager: the target of the cached client of an id
    statuses,   \* the cluster_status table
    lastStatus, \* clusters.last_status_id
    now,        \* time, advancing with every check begun and status stored
    call,       \* the calls in flight
    calls,      \* calls still to come
    cancelled   \* history: ids whose registration was cut off

clusterVars == <<cluster_, installed, client, statuses, lastStatus, now, call, calls, cancelled>>

Row == [name : ClusterNames, target : Targets, meta : {0, 1}]
StatusRow == [id : ClusterIds, at : Nat, ok : BOOLEAN, why : {"answer", "client", "context"},
              stored : Nat]
Call == [op : CallOps \cup {"none"}, pc : {"idle", "gate", "insert", "client", "get", "put",
                                           "rollback", "update", "list", "next", "probe", "save"},
         id : ClusterIds \cup {Nil}, target : Targets \cup {Nil}, name : ClusterNames \cup {Nil},
         obj : Nat, found : BOOLEAN, todo : SUBSET ClusterIds, at : Nat, ok : BOOLEAN,
         why : {"answer", "client", "context"}, cut : BOOLEAN]

NoCall == [op |-> "none", pc |-> "idle", id |-> Nil, target |-> Nil, name |-> Nil, obj |-> 0,
           found |-> FALSE, todo |-> {}, at |-> 0, ok |-> FALSE, why |-> "answer", cut |-> FALSE]

ClustersTypeOK ==
    /\ cluster_ \in [ClusterIds -> Row \cup {Nil}]
    /\ installed \in [Targets -> SUBSET (1..NObjects)]
    /\ client \in [ClusterIds -> Targets \cup {Nil}]
    /\ statuses \subseteq StatusRow
    /\ lastStatus \in [ClusterIds -> StatusRow \cup {Nil}]
    /\ now \in Nat /\ calls \in 0..MaxCalls
    /\ call \in [Callers -> Call]
    /\ cancelled \subseteq ClusterIds

ClustersInit ==
    /\ cluster_ = [c \in ClusterIds |-> Nil]
    /\ installed = [t \in Targets |-> {}]
    /\ client = [c \in ClusterIds |-> Nil]
    /\ statuses = {} /\ lastStatus = [c \in ClusterIds |-> Nil]
    /\ now = 0 /\ calls = MaxCalls /\ cancelled = {}
    /\ call = [k \in Callers |-> NoCall]

-----------------------------------------------------------------------------
InCall(k, pc) == call[k].pc = pc
Cut(k) == call[k].cut
To(k, pc) == call' = [call EXCEPT ![k].pc = pc]
End(k) == call' = [call EXCEPT ![k] = NoCall]
tables == <<cluster_, statuses, lastStatus, now>>

Open(k, new) ==
    /\ new.op \in CallOps /\ InCall(k, "idle") /\ calls > 0
    /\ calls' = calls - 1
    /\ call' = [call EXCEPT ![k] = new]
    /\ UNCHANGED <<tables, installed, client, cancelled>>

\* The client disconnects, or the deadline of the tick passes.
CancelContext(k) ==
    /\ ~InCall(k, "idle") /\ ~Cut(k)
    /\ call' = [call EXCEPT ![k].cut = TRUE]
    /\ cancelled' = IF call[k].op = "register" THEN cancelled \cup {call[k].id} ELSE cancelled
    /\ UNCHANGED <<tables, installed, client, calls>>

\* A call whose first round trips fail has changed nothing.
Abandon(k) ==
    /\ Cut(k) /\ call[k].pc \in {"gate", "insert", "update", "list"}
    /\ End(k)
    /\ UNCHANGED <<tables, installed, client, calls, cancelled>>

-----------------------------------------------------------------------------
(* Registration.                                                           *)

Fresh(c) ==
    /\ cluster_[c] = Nil /\ client[c] = Nil
    /\ c \notin cancelled /\ \A k \in Callers : call[k].id # c

RegisterCluster(k, c, n, t) ==
    /\ Fresh(c)
    /\ Open(k, [NoCall EXCEPT !.op = "register", !.pc = "gate", !.id = c, !.name = n,
                              !.target = t])

\* ensureMaintenanceAllows: the switch may be found on.
ClusterGate(k) ==
    /\ InCall(k, "gate") /\ ~Cut(k)
    /\ End(k) \/ To(k, IF call[k].op = "register" THEN "insert" ELSE "update")
    /\ UNCHANGED <<tables, installed, client, calls, cancelled>>

\* clusters.name is unique.
CreateCluster(k) ==
    /\ InCall(k, "insert") /\ ~Cut(k)
    /\ IF \E c \in ClusterIds : cluster_[c] # Nil /\ cluster_[c].name = call[k].name
         THEN End(k) /\ UNCHANGED cluster_
         ELSE /\ cluster_' = [cluster_ EXCEPT ![call[k].id] =
                                [name |-> call[k].name, target |-> call[k].target, meta |-> 0]]
              /\ To(k, "client")
    /\ UNCHANGED <<statuses, lastStatus, now, installed, client, calls, cancelled>>

\* kube.Manager.GetOrCreate: the cached client, or one built from the loaded
\* kubeconfig.  For a registration the kubeconfig is at hand; a check loads it
\* from the clusters table.
GetOrCreate(k, ready, failed) ==
    LET c == call[k].id
        kubeconfig == IF call[k].op = "register" THEN call[k].target
                      ELSE IF Cut(k) \/ cluster_[c] = Nil THEN Nil ELSE cluster_[c].target
    IN  IF client[c] # Nil THEN ready /\ UNCHANGED client
        ELSE IF kubeconfig # Nil THEN ready /\ client' = [client EXCEPT ![c] = kubeconfig]
        ELSE failed /\ UNCHANGED client

\* The objects of the installation, in the order they are written:
\* Namespace, ServiceAccount, ClusterRole, ClusterRoleBinding, CRD, Deployment.
buildOperatorResources == 1..NObjects

\* The kubeconfig yields a client, or is unusable.
ensureOperatorDeployment(k) ==
    /\ call[k].op = "register" /\ InCall(k, "client")
    /\ \/ GetOrCreate(k, call' = [call EXCEPT ![k].pc = "get", ![k].obj = 1], To(k, "rollback"))
       \/ To(k, "rollback") /\ UNCHANGED client
    /\ UNCHANGED <<tables, installed, calls, cancelled>>

\* createOrUpdate: Get, then Create or Update.  The object may have appeared
\* in between (another registration of the same cluster): refused, like any
\* call under a cancelled context or one the API server turns down.
createOrUpdate(k) ==
    LET t == client[call[k].id]
        i == call[k].obj
        done == IF i + 1 \in buildOperatorResources
                  THEN call' = [call EXCEPT ![k].obj = i + 1, ![k].pc = "get"]
                  ELSE End(k)
    IN  /\ \/ /\ InCall(k, "get") /\ ~Cut(k)
              /\ call' = [call EXCEPT ![k].found = i \in installed[t], ![k].pc = "put"]
              /\ UNCHANGED installed
           \/ /\ InCall(k, "put") /\ ~Cut(k)
              /\ call[k].found = (i \in installed[t])
              /\ installed' = [installed EXCEPT ![t] = @ \cup {i}]
              /\ done
           \/ /\ call[k].pc \in {"get", "put"}
              /\ To(k, "rollback") /\ UNCHANGED installed
        /\ UNCHANGED <<tables, client, calls, cancelled>>

\* Mutant: the row of a failed registration is left for a later retry.
keepRow(k) ==
    /\ InCall(k, "rollback")
    /\ End(k)
    /\ UNCHANGED <<tables, installed, client, calls, cancelled>>

\* The rollback runs under the same context; its own error is only logged.
DeleteCluster(k) ==
    LET c == call[k].id IN
    /\ InCall(k, "rollback")
    /\ \/ /\ ~Cut(k)
          /\ cluster_' = [cluster_ EXCEPT ![c] = Nil]
          /\ statuses' = {s \in statuses : s.id # c}
          /\ lastStatus' = [lastStatus EXCEPT ![c] = Nil]
          /\ UNCHANGED cancelled
       \/ cancelled' = cancelled \cup {c} /\ UNCHANGED <<cluster_, statuses, lastStatus>>
    /\ End(k)
    /\ UNCHANGED <<now, installed, client, calls>>

UpdateClusterMetadata(k, c) ==
    Open(k, [NoCall EXCEPT !.op = "update", !.pc = "gate", !.id = c])
StoreMetadata(k) ==
    /\ InCall(k, "update") /\ ~Cut(k)
    /\ cluster_' = IF cluster_[call[k].id] = Nil THEN cluster_
                   ELSE [cluster_ EXCEPT ![call[k].id].meta = 1]
    /\ End(k)
    /\ UNCHANGED <<statuses, lastStatus, now, installed, client, calls, cancelled>>

-----------------------------------------------------------------------------
(* Health checks.                                                          *)

\* GET of one cluster's health, of all, or a tick of the scheduler.
OpenCheck(k, c) ==
    Open(k, [NoCall EXCEPT !.op = "check", !.pc = "next", !.todo = {c}])
CheckAllClusters(k) == Open(k, [NoCall EXCEPT !.op = "checkAll", !.pc = "list"])
TickWithSummary(k) ==
    /\ \A x \in Callers : call[x].op # "tick"
    /\ Open(k, [NoCall EXCEPT !.op = "tick", !.pc = "list"])

ListClusters(k) ==
    /\ InCall(k, "list") /\ ~Cut(k)
    /\ call' = [call EXCEPT ![k].todo = {c \in ClusterIds : cluster_[c] # Nil}, ![k].pc = "next"]
    /\ UNCHANGED <<tables, installed, client, calls, cancelled>>

\* CheckCluster: the time is taken, the client is fetched, the API server
\* asked, and the outcome stored.
CheckCluster(k) ==
    /\ InCall(k, "next")
    /\ \/ /\ call[k].todo = {} /\ End(k) /\ UNCHANGED now
       \/ \E c \in call[k].todo :
            /\ now' = now + 1
            /\ call' = [call EXCEPT ![k].id = c, ![k].todo = @ \ {c}, ![k].pc = "client",
                                    ![k].at = now + 1]
    /\ UNCHANGED <<cluster_, statuses, lastStatus, installed, client, calls, cancelled>>

checkClient(k) ==
    /\ call[k].op # "register" /\ InCall(k, "client")
    /\ GetOrCreate(k, To(k, "probe"),
                   call' = [call EXCEPT ![k].pc = "save", ![k].ok = FALSE,
                              ![k].why = IF Cut(k) THEN "context" ELSE "client"])
    /\ UNCHANGED <<tables, installed, calls, cancelled>>

\* The API server answers, refuses, or is silent until the context ends.
Probe(k) ==
    /\ InCall(k, "probe")
    /\ \/ ~Cut(k) /\ \E ok \in BOOLEAN :
            call' = [call EXCEPT ![k].pc = "save", ![k].ok = ok, ![k].why = "answer"]
       \/ Cut(k) /\ call' = [call EXCEPT ![k].pc = "save", ![k].ok = FALSE, ![k].why = "context"]
    /\ UNCHANGED <<tables, installed, client, calls, cancelled>>

Saved(k) == [id |-> call[k].id, at |-> call[k].at, ok |-> call[k].ok, why |-> call[k].why,
             stored |-> now + 1]

\* Mutant: the history takes the time of the insert for that of the check.
insertDatedByTable(k, s) ==
    /\ statuses' = statuses \cup {[s EXCEPT !.at = s.stored]}
    /\ lastStatus' = [lastStatus EXCEPT ![s.id] = s]
    /\ now' = now + 1

InsertClusterStatus(k, s) ==
    /\ statuses' = statuses \cup {s}
    /\ lastStatus' = [lastStatus EXCEPT ![s.id] = s]
    /\ now' = now + 1

\* Mutant: the outcome is stored under a context of its own.
persistDetached(k) ==
    /\ InCall(k, "save")
    /\ IF cluster_[call[k].id] # Nil THEN InsertClusterStatus(k, Saved(k))
       ELSE UNCHANGED <<statuses, lastStatus, now>>
    /\ To(k, "next")
    /\ UNCHANGED <<cluster_, installed, client, calls, cancelled>>

\* persistClusterStatus stores under the context of the check (the row refers
\* to a cluster that must exist); a failure is only logged.
persistClusterStatus(k) ==
    /\ InCall(k, "save")
    /\ IF ~Cut(k) /\ cluster_[call[k].id] # Nil THEN InsertClusterStatus(k, Saved(k))
       ELSE UNCHANGED <<statuses, lastStatus, now>>
    /\ To(k, "next")
    /\ UNCHANGED <<cluster_, installed, client, calls, cancelled>>

-----------------------------------------------------------------------------
ClustersNext ==
    \E k \in Callers :
        \/ \E c \in ClusterIds, n \in ClusterNames, t \in Targets : RegisterCluster(k, c, n, t)
        \/ \E c \in ClusterIds : cluster_[c] # Nil /\ (UpdateClusterMetadata(k, c) \/ OpenCheck(k, c))
        \/ CheckAllClusters(k) \/ TickWithSummary(k)
        \/ CancelContext(k) \/ Abandon(k)
        \/ ClusterGate(k) \/ CreateCluster(k) \/ ensureOperatorDeployment(k) \/ createOrUpdate(k)
        \/ DeleteCluster(k) \/ StoreMetadata(k)
        \/ ListClusters(k) \/ CheckCluster(k) \/ checkClient(k) \/ Probe(k)
        \/ persistClusterStatus(k)
ClustersSpec == ClustersInit /\ [][ClustersNext]_clusterVars

-----------------------------------------------------------------------------
Registering(c) == \E k \in Callers : call[k].op = "register" /\ call[k].id = c

\* A registered cluster has the whole operator, and a registration that fails
\* halfway removes its row, also when two registrations of one Kubernetes
\* cluster meet in createOrUpdate.  The exception is a registration that was
\* cut off: its rollback fails under the same context (RegisterCluster).
RegistrationAtomic ==
    \A c \in ClusterIds :
        cluster_[c] # Nil /\ ~Registering(c) /\ c \notin cancelled =>
          installed[cluster_[c].target] = buildOperatorResources

\* A stored "unhealthy" is what the cluster answered, or a kubeconfig without a
\* client: the end of a tick's deadline or of a request is never recorded
\* against the cluster that happened to be probed, nor against the ones after
\* it (CheckCluster, persistClusterStatus, TickWithSummary).
UnhealthyWasObserved == \A s \in statuses : s.why # "context"

\* The status a cluster shows as its last is the newest by its checked_at,
\* unless its check and the one behind the newer status overlapped: checks that
\* follow one another are never shown in the wrong order (InsertClusterStatus,
\* which does not compare times).
LastStatusOrdered ==
    \A c \in ClusterIds : \A s \in statuses :
        lastStatus[c] # Nil /\ s.id = c /\ s.at > lastStatus[c].at =>
          lastStatus[c].at < s.stored /\ s.at < lastStatus[c].stored
=============================================================================
