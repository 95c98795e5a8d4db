---------------------------- MODULE Kubeconfigs ----------------------------
(***************************************************************************)
(* The kubeconfig life cycle of the control plane: issuing, renewing,      *)
(* rotating and revoking the namespace-scoped kubeconfigs handed to users  *)
(* and projects.                                                           *)
(*                                                                         *)
(* Three stores are involved and no transaction spans them: the Kubernetes *)
(* API server (ServiceAccounts and their token Secrets), the kubeconfigs   *)
(* table, and the row that carries a second copy of the kubeconfig         *)
(* (user_spaces for a user, projects for a project).  API replicas run     *)
(* requests concurrently, so every database or API-server round trip is an *)
(* action of its own and requests interleave between them.                 *)
(*                                                                         *)
(* A scope is what a kubeconfig is issued for: a (user, cluster) pair or a *)
(* project.  It has one namespace and one ServiceAccount.  A kubeconfig is *)
(* abstracted to the Secret whose token it embeds.                         *)
(***************************************************************************)
EXTENDS Naturals

CONSTANTS
    Scopes,        \* (user, cluster) pairs and projects
    UserScopes,    \* the scopes that are (user, cluster) pairs
    UserOf,        \* the user a scope belongs to
    NamespaceOf,   \* the NAME of a scope's namespace; clusters may share names
    Secrets,       \* Secret names, each a fresh UUID when it is minted
    Procs,         \* request slots over all API replicas
    Ops,           \* the operations clients issue in this instance
    Faults,        \* the kinds of faults that happen in this instance
    None

AllOps == {"ensure", "bootstrap", "create", "renew", "rotate", "delete",
           "deleteProject", "deleteUser"}

\* Operations that withdraw tokens on purpose.
RevokingOps == {"delete", "deleteProject", "deleteUser"}

\* "stop": a round trip fails, or the replica dies, and the request ends there.
\* "lookup": the record lookup inside a renewal fails with a database error.
\* "ignored": a round trip fails whose error the code logs or drops.
AllFaults == {"stop", "lookup", "ignored"}

\* A row is identified by the UUID it was inserted with.  Every insertion
\* stores a Secret minted by the inserting request, so that Secret serves as
\* the identity of the row; updates change "secret" and keep "id".
Record == [id : Secrets, secret : Secrets]

ASSUME ScopesAssumption ==
    /\ UserScopes \subseteq Scopes
    /\ None \notin Scopes \cup Secrets \cup Record
    /\ "unknown" \notin Secrets \cup {None}
    /\ \A s, t \in UserScopes :
           UserOf[s] = UserOf[t] <=> NamespaceOf[s] = NamespaceOf[t]

ASSUME OpsAssumption == Ops \subseteq AllOps /\ Faults \subseteq AllFaults

VARIABLES
    holder,     \* user_spaces or projects row: "absent", "live", "deleted"
    holderKc,   \* kubeconfig_enc of that row, None when NULL
    rec,        \* kubeconfigs row of the scope, None when there is none
    sa,         \* whether the scope's ServiceAccount exists
    sec,        \* life of each Secret: "unborn", "pending", "live", "gone"
    home,       \* the scope a Secret was minted for
    gone,       \* soft-deleted users
    req         \* the requests in flight

vars == <<holder, holderKc, rec, sa, sec, home, gone, req>>

cluster == <<sa, sec, home>>
tables == <<holder, holderKc, rec, gone>>

ProjectScopes == Scopes \ UserScopes
Users == {UserOf[s] : s \in Scopes}
SecretOrNone == Secrets \cup {None}

Resting == {"idle", "done", "failed"}
Pcs == Resting \cup {"provision", "renew", "mint", "poll", "store", "lookup",
                     "write", "insertProject", "reread", "find", "confirm",
                     "dropOld", "report", "dropSecret", "clear", "dropRecord",
                     "count", "dropAccount", "dropNamespaces", "softDelete", "forget"}

\* What a request has in its local variables.
Request ==
    [op : AllOps \cup {"none"}, pc : Pcs, ret : Pcs,
     scope : Scopes \cup {None},
     id : SecretOrNone,         \* the row the caller named
     prev : SecretOrNone,       \* the Secret that row held when it was read
     mine : SecretOrNone,       \* the Secret this request minted
     existing : SecretOrNone \cup {"unknown"},  \* result of the lookup
     got : SecretOrNone,        \* the kubeconfig returned to the caller
     todo : SUBSET Scopes]      \* namespaces DeleteUser still has to delete

Blank == [op |-> "none", pc |-> "idle", ret |-> "done", scope |-> None,
          id |-> None, prev |-> None, mine |-> None, existing |-> None,
          got |-> None, todo |-> {}]

TypeOK ==
    /\ holder \in [Scopes -> {"absent", "live", "deleted"}]
    /\ holderKc \in [Scopes -> SecretOrNone]
    /\ rec \in [Scopes -> Record \cup {None}]
    /\ sa \in [Scopes -> BOOLEAN]
    /\ sec \in [Secrets -> {"unborn", "pending", "live", "gone"}]
    /\ home \in [Secrets -> Scopes \cup {None}]
    /\ gone \subseteq Users
    /\ req \in [Procs -> Request]

Init ==
    /\ holder = [s \in Scopes |-> "absent"]
    /\ holderKc = [s \in Scopes |-> None]
    /\ rec = [s \in Scopes |-> None]
    /\ sa = [s \in Scopes |-> FALSE]
    /\ sec = [k \in Secrets |-> "unborn"]
    /\ home = [k \in Secrets |-> None]
    /\ gone = {}
    /\ req = [p \in Procs |-> Blank]

-----------------------------------------------------------------------------
(* Control of one request.                                                 *)

Idle(p) == req[p].pc \in Resting

At(p, pc) == req[p].pc = pc

Begin(p, op, s, pc, ret) ==
    req' = [req EXCEPT ![p] = [Blank EXCEPT !.op = op, !.scope = s, !.pc = pc,
                                            !.ret = ret]]

Go(p, pc) == req' = [req EXCEPT ![p].pc = pc]

\* Call a subroutine that continues at "ret" when it returns.
Call(p, pc, ret) == req' = [req EXCEPT ![p].pc = pc, ![p].ret = ret]

\* Return to the client, with kubeconfig k or with an error.
Finish(p, pc, k) ==
    req' = [req EXCEPT ![p] = [Blank EXCEPT !.op = req[p].op, !.pc = pc,
                                            !.scope = req[p].scope, !.got = k]]

Return(p, k) == Finish(p, "done", k)
Error(p) == Finish(p, "failed", None)

\* Mutant: a rotation takes the Secret to delete from the row it reads after
\* the renewal.
ResumeRereadingPrev(p) == IF req[p].ret = "done" THEN Return(p, req[p].mine)
                          ELSE req' = [req EXCEPT ![p].pc = req[p].ret,
                                                  ![p].prev = req[p].mine]

\* The issuing subroutine returns: to the client, or to its caller.
Resume(p) == IF req[p].ret = "done" THEN Return(p, req[p].mine)
                                    ELSE Go(p, req[p].ret)

\* A failing round trip, a cancelled context or the death of the replica ends
\* the request wherever it is; nothing already written is undone.
Stop(p) ==
    /\ "stop" \in Faults
    /\ ~Idle(p)
    /\ Error(p)
    /\ UNCHANGED <<cluster, tables>>

-----------------------------------------------------------------------------
(* Issuing: mint a token Secret, then store it in the row and in the       *)
(* kubeconfigs table.  Shared by RenewUserKubeconfig, RenewProjectKubeconfig, *)
(* provisionUserSpace and CreateProject.                                   *)

\* Mutant: the ServiceAccount is applied only with the first row.
ApplyNamespaceOnce(p) ==
    /\ At(p, "provision")
    /\ sa' = [sa EXCEPT ![req[p].scope] = @ \/ holder[req[p].scope] = "absent"]
    /\ Go(p, "mint")
    /\ UNCHANGED <<sec, home, tables>>

\* provisionUserSpace / CreateProject: namespace, limits, policies, RBAC.
ApplyNamespace(p) ==
    /\ At(p, "provision")
    /\ sa' = [sa EXCEPT ![req[p].scope] = TRUE]
    /\ Go(p, "mint")
    /\ UNCHANGED <<sec, home, tables>>

\* Renew*Kubeconfig begins by reading the row of the scope.
RenewBegin(p) ==
    /\ At(p, "renew")
    /\ IF holder[req[p].scope] = "live" THEN Go(p, "mint") ELSE Error(p)
    /\ UNCHANGED <<cluster, tables>>

\* mintServiceAccountSecret creates the Secret ...  Without its namespace the
\* call fails at once; that is a Secret whose token is refused.
MintCreate(p) ==
    /\ At(p, "mint")
    /\ \E k \in Secrets :
          /\ sec[k] = "unborn"
          /\ sec' = [sec EXCEPT ![k] = "pending"]
          /\ home' = [home EXCEPT ![k] = req[p].scope]
          /\ req' = [req EXCEPT ![p].pc = "poll", ![p].mine = k]
    /\ UNCHANGED <<sa, tables>>

\* Mutant: the Secret is used as soon as it exists, before it holds a token.
MintReadyAtOnce(p) ==
    /\ At(p, "poll")
    /\ Go(p, IF req[p].op = "create" THEN "lookup" ELSE "store")
    /\ UNCHANGED <<cluster, tables>>

\* ... and polls until the token is there.
MintReady(p) ==
    /\ At(p, "poll")
    /\ sec[req[p].mine] = "live"
    /\ Go(p, IF req[p].op = "create" THEN "lookup" ELSE "store")
    /\ UNCHANGED <<cluster, tables>>

\* The backoff runs out when the token cannot come.
MintTimeout(p) ==
    /\ At(p, "poll")
    /\ sec[req[p].mine] = "gone" \/ ~sa[req[p].scope]
    /\ sec[req[p].mine] # "live"
    /\ Error(p)
    /\ UNCHANGED <<cluster, tables>>

\* UpdateProjectKubeconfig / UpdateUserSpaceKubeconfig, or CreateUserSpace
\* with its fall-back to the update when the row exists.  A soft-deleted
\* project row is updated all the same.
StoreInRow(p) ==
    /\ At(p, "store")
    /\ LET s == req[p].scope IN
       /\ holderKc' = [holderKc EXCEPT ![s] = req[p].mine]
       /\ holder' = [holder EXCEPT ![s] = IF @ = "absent" THEN "live" ELSE @]
    /\ Go(p, "lookup")
    /\ UNCHANGED <<rec, gone, cluster>>

LookupRecord(p) ==
    /\ At(p, "lookup")
    /\ LET r == rec[req[p].scope] IN
       req' = [req EXCEPT ![p].pc = "write",
                          ![p].existing = IF r = None THEN None ELSE r.id]
    /\ UNCHANGED <<cluster, tables>>

\* Renew*Kubeconfig tests the lookup for success and for "no rows" only: on
\* any other error it leaves the record alone and reports success.
LookupSwallowed(p) ==
    /\ "lookup" \in Faults
    /\ At(p, "lookup")
    /\ req[p].ret \notin {"insertProject", "reread"}
    /\ LET ret == req[p].ret IN
       IF ret = "done"
         THEN Return(p, req[p].mine)
         ELSE req' = [req EXCEPT ![p].pc = ret, ![p].existing = "unknown"]
    /\ UNCHANGED <<cluster, tables>>

\* UPDATE ... WHERE id matches no row when the row is gone, and is no error;
\* INSERT fails on the unique index when another request inserted first.
WriteRecord(p) ==
    /\ At(p, "write")
    /\ LET s == req[p].scope
           k == req[p].mine
           e == req[p].existing IN
       \/ /\ e # None
          /\ rec' = IF rec[s] # None /\ rec[s].id = e
                      THEN [rec EXCEPT ![s] = [id |-> e, secret |-> k]]
                      ELSE rec
          /\ Resume(p)
       \/ /\ e = None
          /\ rec[s] = None
          /\ rec' = [rec EXCEPT ![s] = [id |-> k, secret |-> k]]
          /\ Resume(p)
       \/ /\ e = None
          /\ rec[s] # None
          /\ rec' = rec
          /\ Error(p)
    /\ UNCHANGED <<holder, holderKc, gone, cluster>>

\* CreateProject inserts the project row last.
InsertProject(p) ==
    /\ At(p, "insertProject")
    /\ holder' = [holder EXCEPT ![req[p].scope] = "live"]
    /\ holderKc' = [holderKc EXCEPT ![req[p].scope] = req[p].mine]
    /\ Return(p, req[p].mine)
    /\ UNCHANGED <<rec, gone, cluster>>

-----------------------------------------------------------------------------
(* EnsureKubeconfigBinding, BootstrapUser, CreateProject, Renew*Kubeconfig. *)

\* Any error of the first read leads to provisioning as well.
EnsureUser(p) ==
    /\ "ensure" \in Ops
    /\ Idle(p)
    /\ \E s \in UserScopes :
          \/ /\ holder[s] = "absent" \/ holderKc[s] = None \/ "ignored" \in Faults
             /\ Begin(p, "ensure", s, "provision", "reread")
          \/ /\ holder[s] # "absent" /\ holderKc[s] # None
             /\ Begin(p, "ensure", s, "find", "reread")
    /\ UNCHANGED <<cluster, tables>>

EnsureProject(p) ==
    /\ "ensure" \in Ops
    /\ Idle(p)
    /\ \E s \in ProjectScopes :
          /\ holder[s] = "live"
          /\ Begin(p, "ensure", s, "find", "done")
    /\ UNCHANGED <<cluster, tables>>

\* After provisioning, ensureUserKubeconfig and BootstrapUser read the row
\* again; the first renews an empty kubeconfig, the second fails to decrypt it.
RereadRow(p) ==
    /\ At(p, "reread")
    /\ LET kc == holderKc[req[p].scope] IN
       CASE req[p].op = "bootstrap" ->
              IF kc = None THEN Error(p) ELSE Return(p, kc)
         [] req[p].op # "bootstrap" ->
              IF kc = None THEN Call(p, "renew", "find")
                           ELSE Call(p, "find", "done")
    /\ UNCHANGED <<cluster, tables>>

\* Return the record, or renew once and look again.
FindRecord(p) ==
    /\ At(p, "find")
    /\ LET r == rec[req[p].scope] IN
       IF r = None THEN Call(p, "renew", "confirm") ELSE Return(p, r.secret)
    /\ UNCHANGED <<cluster, tables>>

ConfirmRecord(p) ==
    /\ At(p, "confirm")
    /\ LET r == rec[req[p].scope] IN
       IF r = None THEN Error(p) ELSE Return(p, r.secret)
    /\ UNCHANGED <<cluster, tables>>

BootstrapUser(p) ==
    /\ "bootstrap" \in Ops
    /\ Idle(p)
    /\ \E s \in UserScopes :
          /\ UserOf[s] \notin gone
          /\ \/ /\ holder[s] # "absent" /\ holderKc[s] # None
                /\ req' = [req EXCEPT ![p] = [Blank EXCEPT
                      !.op = "bootstrap", !.scope = s, !.pc = "done",
                      !.got = holderKc[s]]]
             \/ /\ holder[s] = "absent" \/ holderKc[s] = None \/ "ignored" \in Faults
                /\ Begin(p, "bootstrap", s, "provision", "reread")
    /\ UNCHANGED <<cluster, tables>>

\* The project gets a fresh UUID, so its scope is one nothing refers to yet.
CreateProject(p) ==
    /\ "create" \in Ops
    /\ Idle(p)
    /\ \E s \in ProjectScopes :
          /\ holder[s] = "absent" /\ rec[s] = None /\ ~sa[s]
          /\ \A q \in Procs : req[q].scope = s => Idle(q)
          /\ Begin(p, "create", s, "provision", "insertProject")
    /\ UNCHANGED <<cluster, tables>>

RenewKubeconfig(p) ==
    /\ "renew" \in Ops
    /\ Idle(p)
    /\ \E s \in Scopes : holder[s] # "absent" /\ Begin(p, "renew", s, "renew", "done")
    /\ UNCHANGED <<cluster, tables>>

-----------------------------------------------------------------------------
(* RotateKubeconfigByID: read the record, renew, delete the Secret it held. *)

RotateBegin(p) ==
    /\ "rotate" \in Ops
    /\ Idle(p)
    /\ \E s \in Scopes :
          /\ rec[s] # None
          /\ req' = [req EXCEPT ![p] = [Blank EXCEPT
                !.op = "rotate", !.scope = s, !.pc = "renew", !.ret = "dropOld",
                !.id = rec[s].id, !.prev = rec[s].secret]]
    /\ UNCHANGED <<cluster, tables>>

\* A failed deletion is only logged.
DropOldSecret(p) ==
    /\ At(p, "dropOld")
    /\ \/ sec' = [sec EXCEPT ![req[p].prev] = "gone"]
       \/ "ignored" \in Faults /\ sec' = sec
    /\ Go(p, "report")
    /\ UNCHANGED <<sa, home, tables>>

\* The row is read again for its Secret name; the kubeconfig is the minted one.
RotateReport(p) ==
    /\ At(p, "report")
    /\ LET r == rec[req[p].scope] IN
       IF r # None /\ r.id = req[p].id THEN Return(p, req[p].mine) ELSE Error(p)
    /\ UNCHANGED <<cluster, tables>>

-----------------------------------------------------------------------------
(* DeleteKubeconfigBinding: Secret, row copy, record, and the ServiceAccount *)
(* once no record of that namespace and account name is left.              *)

DeleteBegin(p) ==
    /\ "delete" \in Ops
    /\ Idle(p)
    /\ \E s \in Scopes :
          /\ rec[s] # None
          /\ req' = [req EXCEPT ![p] = [Blank EXCEPT
                !.op = "delete", !.scope = s, !.pc = "dropSecret",
                !.id = rec[s].id, !.prev = rec[s].secret]]
    /\ UNCHANGED <<cluster, tables>>

DropSecret(p) ==
    /\ At(p, "dropSecret")
    /\ sec' = [sec EXCEPT ![req[p].prev] = "gone"]
    /\ Go(p, "clear")
    /\ UNCHANGED <<sa, home, tables>>

\* Mutant: the row copy survives the revocation.
ClearRowForgotten(p) ==
    /\ At(p, "clear")
    /\ Go(p, "dropRecord")
    /\ UNCHANGED <<tables, cluster>>

\* For a user, an error reading the row skips the update.
ClearRow(p) ==
    /\ At(p, "clear")
    /\ \/ holderKc' = [holderKc EXCEPT ![req[p].scope] = None]
       \/ /\ "ignored" \in Faults /\ req[p].scope \in UserScopes
          /\ holderKc' = holderKc
    /\ Go(p, "dropRecord")
    /\ UNCHANGED <<holder, rec, gone, cluster>>

DropRecord(p) ==
    /\ At(p, "dropRecord")
    /\ LET s == req[p].scope IN
       rec' = IF rec[s] # None /\ rec[s].id = req[p].id
                THEN [rec EXCEPT ![s] = None] ELSE rec
    /\ Go(p, "count")
    /\ UNCHANGED <<holder, holderKc, gone, cluster>>

\* The count goes by namespace name and account name, not by cluster.
SharesAccount(s, t) ==
    /\ NamespaceOf[s] = NamespaceOf[t]
    /\ s \in UserScopes <=> t \in UserScopes

CountRecords(p) ==
    /\ At(p, "count")
    /\ LET left == {t \in Scopes : rec[t] # None /\ SharesAccount(req[p].scope, t)} IN
       \/ left = {} /\ Go(p, "dropAccount")
       \/ left # {} /\ Return(p, None)
       \/ "ignored" \in Faults /\ Return(p, None)
    /\ UNCHANGED <<cluster, tables>>

\* Deleting a ServiceAccount, or its namespace, takes its token Secrets along.
Withdrawn(s) == [k \in Secrets |->
                   IF home[k] = s /\ sec[k] # "unborn" THEN "gone" ELSE sec[k]]

DropServiceAccount(p) ==
    /\ At(p, "dropAccount")
    /\ LET s == req[p].scope IN
       \/ sa' = [sa EXCEPT ![s] = FALSE] /\ sec' = Withdrawn(s)
       \/ "ignored" \in Faults /\ UNCHANGED <<sa, sec>>
    /\ Return(p, None)
    /\ UNCHANGED <<home, tables>>

-----------------------------------------------------------------------------
(* DeleteProject and DeleteUser: the namespaces go, the rows are soft-deleted, *)
(* the kubeconfigs table is not touched.                                   *)

DeleteProjectBegin(p) ==
    /\ "deleteProject" \in Ops
    /\ Idle(p)
    /\ \E s \in ProjectScopes :
          /\ holder[s] = "live"
          /\ req' = [req EXCEPT ![p] = [Blank EXCEPT
                !.op = "deleteProject", !.scope = s, !.pc = "dropNamespaces",
                !.todo = {s}]]
    /\ UNCHANGED <<cluster, tables>>

\* DeleteUser lists the user's spaces on every cluster.
DeleteUserBegin(p) ==
    /\ "deleteUser" \in Ops
    /\ Idle(p)
    /\ \E s \in UserScopes :
          req' = [req EXCEPT ![p] = [Blank EXCEPT
              !.op = "deleteUser", !.scope = s, !.pc = "dropNamespaces",
              !.todo = {t \in UserScopes :
                          UserOf[t] = UserOf[s] /\ holder[t] # "absent"}]]
    /\ UNCHANGED <<cluster, tables>>

\* DeleteUser drops the error of each deletion; DeleteProject stops on it.
DropNamespace(p) ==
    /\ At(p, "dropNamespaces")
    /\ \E s \in req[p].todo :
          /\ \/ sa' = [sa EXCEPT ![s] = FALSE] /\ sec' = Withdrawn(s)
             \/ /\ "ignored" \in Faults /\ req[p].op = "deleteUser"
                /\ UNCHANGED <<sa, sec>>
          /\ req' = [req EXCEPT ![p].todo = @ \ {s}]
    /\ UNCHANGED <<home, tables>>

NamespacesDropped(p) ==
    /\ At(p, "dropNamespaces")
    /\ req[p].todo = {}
    /\ Go(p, "softDelete")
    /\ UNCHANGED <<cluster, tables>>

\* SoftDeleteProject, or SoftDeleteProjectsByUser whose error is dropped.
SoftDelete(p) ==
    /\ At(p, "softDelete")
    /\ LET s == req[p].scope IN
       \/ /\ req[p].op = "deleteProject"
          /\ holder' = [holder EXCEPT ![s] = "deleted"]
          /\ Return(p, None)
       \/ /\ req[p].op = "deleteUser"
          /\ \/ holder' = [t \in Scopes |->
                             IF /\ t \in ProjectScopes /\ UserOf[t] = UserOf[s]
                                /\ holder[t] = "live"
                               THEN "deleted" ELSE holder[t]]
             \/ "ignored" \in Faults /\ holder' = holder
          /\ Go(p, "forget")
    /\ UNCHANGED <<holderKc, rec, gone, cluster>>

SoftDeleteUser(p) ==
    /\ At(p, "forget")
    /\ gone' = gone \cup {UserOf[req[p].scope]}
    /\ Return(p, None)
    /\ UNCHANGED <<holder, holderKc, rec, cluster>>

-----------------------------------------------------------------------------
(* The token controller of Kubernetes: it writes the token into a Secret of *)
(* an existing ServiceAccount and removes a Secret whose account is missing. *)

TokenIssued(k) ==
    /\ sec[k] = "pending" /\ sa[home[k]]
    /\ sec' = [sec EXCEPT ![k] = "live"]
    /\ UNCHANGED <<sa, home, tables, req>>

TokenRefused(k) ==
    /\ sec[k] = "pending" /\ ~sa[home[k]]
    /\ sec' = [sec EXCEPT ![k] = "gone"]
    /\ UNCHANGED <<sa, home, tables, req>>

Step(p) ==
    \/ ApplyNamespace(p) \/ RenewBegin(p)
    \/ MintCreate(p) \/ MintReady(p) \/ MintTimeout(p)
    \/ StoreInRow(p) \/ LookupRecord(p) \/ LookupSwallowed(p)
    \/ WriteRecord(p) \/ InsertProject(p)
    \/ RereadRow(p) \/ FindRecord(p) \/ ConfirmRecord(p)
    \/ DropOldSecret(p) \/ RotateReport(p)
    \/ DropSecret(p) \/ ClearRow(p) \/ DropRecord(p)
    \/ CountRecords(p) \/ DropServiceAccount(p)
    \/ DropNamespace(p) \/ NamespacesDropped(p)
    \/ SoftDelete(p) \/ SoftDeleteUser(p)

Client(p) ==
    \/ EnsureUser(p) \/ EnsureProject(p) \/ BootstrapUser(p)
    \/ CreateProject(p) \/ RenewKubeconfig(p) \/ RotateBegin(p)
    \/ DeleteBegin(p) \/ DeleteProjectBegin(p) \/ DeleteUserBegin(p)

Next ==
    \/ \E p \in Procs : Client(p) \/ Step(p) \/ Stop(p)
    \/ \E k \in Secrets : TokenIssued(k) \/ TokenRefused(k)

Spec == Init /\ [][Next]_vars

-----------------------------------------------------------------------------
(* Properties.                                                             *)

Recorded(k) == \E s \in Scopes : rec[s] # None /\ rec[s].secret = k

\* A rotation that is about to delete the Secret it found in the record never
\* deletes a Secret that a record still names, whatever renewals, rotations
\* and revocations ran in between; the one exception is its own renewal
\* having lost the record lookup (RotateKubeconfigByID, UpdateKubeconfigRecord).
RotationSupersedes ==
    \A p \in Procs :
        At(p, "dropOld") /\ req[p].existing # "unknown" => ~Recorded(req[p].prev)

\* A stored kubeconfig embeds a token that was really issued, for that scope:
\* both copies are written only after mintServiceAccountSecret saw the token.
StoredTokensWereIssued ==
    \A s \in Scopes :
        /\ rec[s] # None => /\ sec[rec[s].secret] \in {"live", "gone"}
                            /\ home[rec[s].secret] = s
        /\ holderKc[s] # None => /\ sec[holderKc[s]] \in {"live", "gone"}
                                 /\ home[holderKc[s]] = s

\* While nothing is revoked on purpose, every recorded kubeconfig works: no
\* interleaving of ensures, bootstraps, renewals and rotations, stopped at any
\* point, deletes the token of a record.
RecordedTokensLive ==
    \A s \in Scopes : rec[s] # None => sec[rec[s].secret] = "live"

\* When requests do not overlap, the two copies of the kubeconfig of a project
\* or user that is not deleted agree between requests, the token works, and it
\* is the only one alive: rotation and revocation leave no older token behind.
CopiesAgreeAtRest ==
    (\A p \in Procs : Idle(p)) =>
        \A s \in Scopes : holder[s] # "deleted" /\ UserOf[s] \notin gone =>
            /\ holderKc[s] = IF rec[s] = None THEN None ELSE rec[s].secret
            /\ {k \in Secrets : home[k] = s /\ sec[k] = "live"}
                  = IF rec[s] = None THEN {} ELSE {rec[s].secret}

\* An ensure for a user ends with a working kubeconfig, also after a
\* revocation removed the ServiceAccount: provisionUserSpace applies it again.
EnsureUserDelivers ==
    \A p \in Procs :
        (req[p].op = "ensure" /\ ~Idle(p) /\ req[p].scope \in UserScopes)
            ~> (req[p].op = "ensure" /\ At(p, "done") /\ sec[req[p].got] = "live")

\* "Ensure a kubeconfig exists for a user or project" (docs/API.md): with no
\* fault anywhere an ensure for a live project does not end in an error.
EnsureNeverFails ==
    \A p \in Procs : req[p].op = "ensure" => ~At(p, "failed")

=============================================================================
