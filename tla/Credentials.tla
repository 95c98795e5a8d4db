---------------------------- MODULE Credentials ----------------------------
(***************************************************************************)
(* Stored Git and registry credentials: creating them for a user or a      *)
(* project, deleting them, and using them in a deploy.  Owners are soft    *)
(* deleted, so the cascades of the credential tables never run; the key    *)
(* the secrets are encrypted with may change when the server restarts.     *)
(***************************************************************************)
EXTENDS Naturals, FiniteSets

CONSTANTS
    CredNames,
    CredUsers, CredProjects, \* the owners there are
    OwnerOf,                 \* the user of each project
    Registries, AnyRegistry, \* registry hosts; AnyRegistry: none could be parsed
    CredCallers,             \* requests in flight
    MaxCredCalls             \* bound on the requests of a behaviour

Scopes_ == CredUsers \cup CredProjects
ASSUME CredentialsAssumption ==
    OwnerOf \in [CredProjects -> CredUsers] /\ MaxCredCalls \in Nat

VARIABLES
    creds,     \* the rows of both tables, a set of records
    drawn,     \* the number of uuids drawn so far
    gone,      \* owners that are soft deleted
    encKey,    \* the key the server runs with
    credCall,  \* the requests in flight
    credCalls  \* how many there were

credVars == <<creds, drawn, gone, encKey, credCall, credCalls>>

NoCredCall == [pc |-> "idle"]
CredInit ==
    /\ creds = {} /\ drawn = 0 /\ gone = {} /\ encKey = 1
    /\ credCall = [c \in CredCallers |-> NoCredCall] /\ credCalls = 0

\* The fields of a request that are not blank, and whether a key is garbled.
Given_ == {{"token"}, {"password"}, {"username", "password"}, {"privateKey"},
           {"privateKey", "garbled"}}
AuthTypes == [git |-> {"TOKEN", "BASIC", "SSH"}, registry |-> {"TOKEN", "BASIC"}]

\* Mutant: a password is enough.
secretWithoutUser(auth) == CASE auth = "TOKEN" -> {"token"}
                             [] auth = "BASIC" -> {"password"}
                             [] auth = "SSH"   -> {"privateKey"}

\* What each kind of secret needs, and what of the request is stored (a user
\* name that is not needed is kept too, and left out here).
SecretOf(auth) == CASE auth = "TOKEN" -> {"token"}
                    [] auth = "BASIC" -> {"username", "password"}
                    [] auth = "SSH"   -> {"privateKey"}

SetCall(c, r) == credCall' = [credCall EXCEPT ![c] = r]
BeginCall(c) == credCall[c].pc = "idle" /\ credCalls < MaxCredCalls /\ credCalls' = credCalls + 1
EndCall(c) == SetCall(c, NoCredCall) /\ UNCHANGED credCalls

-----------------------------------------------------------------------------
\* resolveCredentialScope: the owner must exist now.
resolveCredentialScope(scope) == scope \notin gone

\* Nothing looks into a private key.
CreateCredential(c, table, registry) ==
    /\ BeginCall(c)
    /\ \E auth \in {"TOKEN", "BASIC", "SSH"}, given \in Given_, scope \in Scopes_, name \in CredNames :
         /\ auth \in AuthTypes[table]
         /\ SecretOf(auth) \subseteq given
         /\ resolveCredentialScope(scope)
         /\ SetCall(c, [pc |-> "insert",
                        row |-> [table |-> table, auth |-> auth, scope |-> scope, name |-> name,
                                 registry |-> registry, key |-> encKey,
                                 has |-> SecretOf(auth) \cup (given \cap {"garbled"})]])
    /\ UNCHANGED <<creds, drawn, gone, encKey>>
CreateGitCredential(c) == CreateCredential(c, "git", AnyRegistry)
CreateRegistryCredential(c, registry) == CreateCredential(c, "registry", registry)

\* The indexes on (user_id, name) and (project_id, name).
NameFree(row) ==
    \A x \in creds : x.row.table = row.table /\ x.row.scope = row.scope => x.row.name # row.name

InsertCredential(c, table) ==
    /\ credCall[c].pc = "insert" /\ credCall[c].row.table = table
    /\ IF NameFree(credCall[c].row)
         THEN /\ creds' = creds \cup {[id |-> drawn + 1, row |-> credCall[c].row]}
              /\ drawn' = drawn + 1
         ELSE UNCHANGED <<creds, drawn>>
    /\ EndCall(c) /\ UNCHANGED <<gone, encKey>>
InsertGitCredential(c) == InsertCredential(c, "git")
InsertRegistryCredential(c) == InsertCredential(c, "registry")

\* Read, then delete; the delete of a row that has gone meanwhile is an error.
DeleteCredential(c, id, table) ==
    /\ BeginCall(c)
    /\ \E x \in creds : x.id = id /\ x.row.table = table
    /\ SetCall(c, [pc |-> "delete", id |-> id])
    /\ UNCHANGED <<creds, drawn, gone, encKey>>
DeleteGitCredential(c, id) == DeleteCredential(c, id, "git")
DeleteRegistryCredential(c, id) == DeleteCredential(c, id, "registry")
DeleteCredentialRow(c) ==
    /\ credCall[c].pc = "delete"
    /\ creds' = {x \in creds : x.id # credCall[c].id}
    /\ EndCall(c) /\ UNCHANGED <<drawn, gone, encKey>>

-----------------------------------------------------------------------------
\* A deploy names a credential, reads its project and later the credential.
UseCredential(c, project, id, registry) ==
    /\ BeginCall(c)
    /\ project \notin gone
    /\ SetCall(c, [pc |-> "use", project |-> project, id |-> id, registry |-> registry])
    /\ UNCHANGED <<creds, drawn, gone, encKey>>

\* Mutant: what belongs to a user serves everyone.
inScopeOfProjects(row, project) == row.scope \in CredUsers \cup {project}

InScope(row, project) == row.scope \in {project, OwnerOf[project]}

\* Another key does not decrypt.
DecryptAESGCM(row) == row.key = encKey

\* The two checks of what was decrypted.
gitCredentialAuth(row) ==
    CASE row.auth = "TOKEN" -> "token" \in row.has
      [] row.auth = "BASIC" -> {"username", "password"} \subseteq row.has
      [] row.auth = "SSH"   -> "privateKey" \in row.has /\ "garbled" \notin row.has
registryCredentialAuth(row, registry) ==
    /\ row.registry \in {registry, AnyRegistry}
    /\ CASE row.auth = "TOKEN" -> "token" \in row.has
         [] row.auth = "BASIC" -> {"username", "password"} \subseteq row.has
Authenticates(row, registry) ==
    /\ DecryptAESGCM(row)
    /\ IF row.table = "git" THEN gitCredentialAuth(row) ELSE registryCredentialAuth(row, registry)

ReadCredential(c) ==
    /\ credCall[c].pc = "use"
    /\ LET u == credCall[c]
       IN  IF \E x \in creds : x.id = u.id /\ InScope(x.row, u.project)
                               /\ Authenticates(x.row, u.registry)
             THEN SetCall(c, [pc |-> "fetch", project |-> u.project,
                              row |-> (CHOOSE x \in creds : x.id = u.id).row])
             ELSE SetCall(c, NoCredCall)
    /\ UNCHANGED <<creds, drawn, gone, encKey, credCalls>>

\* The source is fetched with the credential and the deploy goes on.
FetchSource(c) ==
    credCall[c].pc = "fetch" /\ EndCall(c) /\ UNCHANGED <<creds, drawn, gone, encKey>>

\* SoftDeleteUser with SoftDeleteProjectsByUser, SoftDeleteProject.
SoftDeleteScope(scope) ==
    /\ gone = {} /\ encKey = 1 \* bound: one deletion or restart in a behaviour
    /\ gone' = gone \cup {scope} \cup {p \in CredProjects : OwnerOf[p] = scope}
    /\ UNCHANGED <<creds, drawn, encKey, credCall, credCalls>>

\* The server restarts with another key; requests in flight end.
RestartWithKey ==
    /\ gone = {} /\ encKey = 1 /\ encKey' = 2
    /\ credCall' = [c \in CredCallers |-> NoCredCall]
    /\ UNCHANGED <<creds, drawn, gone, credCalls>>

CredNext ==
    \/ \E c \in CredCallers :
         \/ CreateGitCredential(c)
         \/ \E r \in Registries \cup {AnyRegistry} : CreateRegistryCredential(c, r)
         \/ InsertGitCredential(c) \/ InsertRegistryCredential(c)
         \/ \E id \in 1..drawn : DeleteGitCredential(c, id) \/ DeleteRegistryCredential(c, id)
         \/ DeleteCredentialRow(c)
         \/ \E p \in CredProjects, id \in 1..drawn, r \in Registries : UseCredential(c, p, id, r)
         \/ ReadCredential(c) \/ FetchSource(c)
    \/ \E s \in Scopes_ : SoftDeleteScope(s)
    \/ RestartWithKey

CredSpec == CredInit /\ [][CredNext]_credVars

-----------------------------------------------------------------------------
\* What creating a credential accepts, using it accepts: as long as the key is
\* the one it was stored with, every stored credential authenticates for the
\* registry it was made for, so a deploy never meets one that is incomplete.
\* SSH keys are the exception, they are parsed only when they are used
\* (CreateGitCredential against gitCredentialAuth, and the same of registries).
StoredIsUsable ==
    \A x \in creds : x.row.key = encKey /\ "garbled" \notin x.row.has =>
        \A r \in Registries : x.row.registry \in {r, AnyRegistry} => Authenticates(x.row, r)

\* A source is fetched with a credential of the project or of its user only,
\* whatever was deleted or created while the deploy was under way.
UsedByItsOwner ==
    \A c \in CredCallers : credCall[c].pc = "fetch" =>
        credCall[c].row.scope \in {credCall[c].project, OwnerOf[credCall[c].project]}
=============================================================================
