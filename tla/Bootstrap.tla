----------------------------- MODULE Bootstrap -----------------------------
(***************************************************************************)
(* Bringing up a cluster: the operator's manager ensures the bundled CRDs  *)
(* before it starts, and the bootstrap CLI ensures them too and applies    *)
(* the bundled manifests, with a copy on disk and an audit event for each. *)
(* Both may run at once, beside others who write or delete a CRD (the API  *)
(* server of kubeOP brings an App CRD of its own).  A manager that fails   *)
(* exits and is started again.                                             *)
(***************************************************************************)
EXTENDS Naturals, Sequences, FiniteSets

CONSTANTS
    NCrds,          \* bundled CRDs, in the order of their files
    Manifests,      \* the documents of each bundled directory, in order: [kind, name, ns]
    MaxBootFaults,  \* bound on failing steps of the two installers
    MaxCrdWrites    \* bound on the writes of others to CRDs

\* The bundled documents; those without a kind are skipped.
loadManifests(dir) == SelectSeq(Manifests[dir], LAMBDA d : d.kind # "none")

Directories == {"rbac", "webhooks", "defaults"}
Bundled == UNION {{Manifests[dir][i] : i \in DOMAIN Manifests[dir]} : dir \in Directories}

ASSUME BootAssumption ==
    /\ NCrds \in Nat \ {0} /\ MaxBootFaults \in Nat /\ MaxCrdWrites \in Nat
    /\ \A dir \in Directories : loadManifests(dir) \in Seq(Bundled)

Installers == {"manager", "cli"}
Crds == 1..NCrds

VARIABLES
    crd,        \* the CRDs of the API server
    inst,       \* the installers
    applied,    \* manifests applied to the cluster
    files,      \* copies on disk, by file name
    audit,      \* audit events emitted
    bootFaults, crdWrites

bootVars == <<crd, inst, applied, files, audit, bootFaults, crdWrites>>

NoCrd == [spec |-> "none", labels |-> {}, ready |-> FALSE, version |-> 0]
Off == [pc |-> "off", op |-> "none", objs |-> <<>>, i |-> 1, version |-> 0, quiet |-> FALSE,
        warned |-> {}]

BootInit ==
    /\ crd = [c \in Crds |-> NoCrd]
    /\ inst = [p \in Installers |-> Off]
    /\ applied = {} /\ files = {} /\ audit = {}
    /\ bootFaults = 0 /\ crdWrites = 0

-----------------------------------------------------------------------------
Present(c) == crd[c].spec # "none"
Outputs == <<applied, files, audit>>
Step_(p, new) == inst' = [inst EXCEPT ![p] = new]
GoTo(p, pc) == inst' = [inst EXCEPT ![p].pc = pc]
Abort(p) == Step_(p, [Off EXCEPT !.op = inst[p].op, !.pc = "failed"])
At(p, pc) == inst[p].pc = pc

\* A CRD with a new specification and new labels.
Written(c, spec, labels) ==
    [crd[c] EXCEPT !.spec = spec, !.labels = labels, !.version = crd[c].version + 1]

\* Someone else writes a CRD, adds a label of the site, or deletes it.
OthersWrite(c) ==
    /\ crdWrites < MaxCrdWrites /\ crdWrites' = crdWrites + 1
    /\ \/ \E l \in SUBSET {"site"} :
             crd' = [crd EXCEPT ![c] = Written(c, "other", l)]
       \/ Present(c) /\ crd' = [crd EXCEPT ![c] = Written(c, crd[c].spec, crd[c].labels \cup {"site"})]
       \/ Present(c) /\ crd' = [crd EXCEPT ![c] = [NoCrd EXCEPT !.version = crd[c].version + 1]]
    /\ inst' = [p \in Installers |-> [inst[p] EXCEPT !.quiet = FALSE]]
    /\ UNCHANGED <<Outputs, bootFaults>>

\* The API server establishes a CRD once it is written.
Establish(c) ==
    /\ Present(c) /\ ~crd[c].ready
    /\ crd' = [crd EXCEPT ![c].ready = TRUE]
    /\ UNCHANGED <<inst, Outputs, bootFaults, crdWrites>>

-----------------------------------------------------------------------------
\* main of the manager: EnsureCRDs comes first.
StartManager ==
    /\ inst["manager"].pc \in {"off", "failed"}
    /\ Step_("manager", [Off EXCEPT !.pc = "get", !.op = "manager", !.quiet = TRUE])
    /\ UNCHANGED <<crd, Outputs, bootFaults, crdWrites>>

\* The flags of a create command, at most one of them empty; ref stands for the reference
\* the object is about: billing account, DNS provider or Secret.
Inputs ==
    LET full == [name |-> "x", ns |-> "system", tenant |-> "t", ref |-> "r"]
    IN  {full} \cup {[full EXCEPT ![f] = ""] : f \in DOMAIN full}

BuildTenant(in) ==
    IF in.name = "" \/ in.ref = "" THEN <<>>
    ELSE <<[kind |-> "Tenant", name |-> in.name, ns |-> "none"]>>
BuildProject(in) ==
    IF in.name = "" \/ in.ns = "" \/ in.tenant = "" THEN <<>>
    ELSE <<[kind |-> "Project", name |-> in.name, ns |-> in.ns]>>
BuildDomain(in) ==
    IF in.name = "" \/ in.tenant = "" \/ in.ref = "" THEN <<>>
    ELSE <<[kind |-> "Domain", name |-> in.name, ns |-> "none"]>>
BuildRegistryCredential(in) ==
    IF in.name = "" \/ in.ref = "" \/ in.tenant = "" THEN <<>>
    ELSE <<[kind |-> "RegistryCredential", name |-> in.name, ns |-> "none"]>>

\* A client for the cluster of the flags, or an error.
initialiseState == BOOLEAN

\* Every command needs --yes.
requireConfirmation == BOOLEAN

\* A command with the objects it is to apply, none if its input is incomplete;
\* one that failed is given again.
Launch(op, objs) ==
    /\ inst["cli"].pc \in {"off", "failed"} /\ inst["cli"].op \in {"none", op}
    /\ \E proceeds \in {r /\ y : r \in initialiseState, y \in requireConfirmation} :
         Step_("cli", IF ~proceeds \/ objs = <<>> THEN [Off EXCEPT !.op = op, !.pc = "failed"]
                      ELSE [Off EXCEPT !.op = op, !.quiet = TRUE, !.objs = objs,
                                       !.pc = IF op = "init" THEN "get" ELSE "apply"])
    /\ UNCHANGED <<crd, Outputs, bootFaults, crdWrites>>

newInitCommand == Launch("init", loadManifests("rbac") \o loadManifests("webhooks"))
newDefaultsCommand == Launch("defaults", loadManifests("defaults"))
newTenantCommand(in) == Launch("tenant", BuildTenant(in))
newProjectCommand(in) == Launch("project", BuildProject(in))
newDomainCommand(in) == Launch("domain", BuildDomain(in))
newRegistryCommand(in) == Launch("registry", BuildRegistryCredential(in))

\* A round trip or a write to disk fails, or the wait for a CRD takes too long:
\* the whole run ends.
InstallerFails(p) ==
    /\ inst[p].pc \notin {"off", "failed", "done", "unrendered"}
    /\ bootFaults < MaxBootFaults /\ bootFaults' = bootFaults + 1
    /\ Abort(p)
    /\ UNCHANGED <<crd, Outputs, crdWrites>>

mergeLabels(have) == have \cup {"bundle"}
needsUpdate(c) == crd[c].spec # "bundled" \/ "bundle" \notin crd[c].labels

GetCRD(p) ==
    LET c == inst[p].i IN
    /\ At(p, "get")
    /\ Step_(p, [inst[p] EXCEPT !.version = crd[c].version,
                   !.pc = IF ~Present(c) THEN "create" ELSE IF needsUpdate(c) THEN "update" ELSE "wait"])
    /\ UNCHANGED <<crd, Outputs, bootFaults, crdWrites>>

\* Refused when it exists by now.
CreateCRD(p) ==
    LET c == inst[p].i IN
    /\ At(p, "create")
    /\ IF Present(c) THEN Abort(p) /\ UNCHANGED crd
       ELSE /\ crd' = [crd EXCEPT ![c] = Written(c, "bundled", {"bundle"})]
            /\ GoTo(p, "wait")
    /\ UNCHANGED <<Outputs, bootFaults, crdWrites>>

\* Mutant: the update carries no resource version, and the labels seen before.
updateBlindly(p) ==
    LET c == inst[p].i IN
    /\ At(p, "update")
    /\ IF Present(c) THEN /\ crd' = [crd EXCEPT ![c] = Written(c, "bundled", {"bundle"})]
                          /\ GoTo(p, "wait")
       ELSE Abort(p) /\ UNCHANGED crd
    /\ UNCHANGED <<Outputs, bootFaults, crdWrites>>

\* The merged object carries the resource version that was read.
UpdateCRD(p) ==
    LET c == inst[p].i IN
    /\ At(p, "update")
    /\ IF Present(c) /\ crd[c].version = inst[p].version
         THEN /\ crd' = [crd EXCEPT ![c] = Written(c, "bundled", mergeLabels(crd[c].labels))]
              /\ GoTo(p, "wait")
         ELSE Abort(p) /\ UNCHANGED crd
    /\ UNCHANGED <<Outputs, bootFaults, crdWrites>>

\* The next CRD, or what follows the last one.
Proceed(p) ==
    Step_(p, IF inst[p].i < NCrds THEN [inst[p] EXCEPT !.i = @ + 1, !.pc = "get"]
             ELSE IF p = "manager" THEN [inst[p] EXCEPT !.pc = "done"]
             ELSE [inst[p] EXCEPT !.i = 1, !.pc = "apply"])

\* Mutant: the installer goes on without waiting.
waitNever(p) ==
    /\ At(p, "wait") /\ Proceed(p)
    /\ UNCHANGED <<crd, Outputs, bootFaults, crdWrites>>

\* Mutant: the poll for a CRD that is gone goes on for ever.
waitForever(p) ==
    /\ At(p, "wait")
    /\ Present(inst[p].i) /\ crd[inst[p].i].ready /\ Proceed(p)
    /\ UNCHANGED <<crd, Outputs, bootFaults, crdWrites>>

\* waitForCRDReady polls until the CRD is established; for one deleted in the
\* meantime until the timeout.
waitForCRDReady(p) ==
    /\ At(p, "wait")
    /\ \/ Present(inst[p].i) /\ crd[inst[p].i].ready /\ Proceed(p)
       \/ ~Present(inst[p].i) /\ Abort(p)
    /\ UNCHANGED <<crd, Outputs, bootFaults, crdWrites>>

-----------------------------------------------------------------------------
(* The CLI: apply, copy, audit, one manifest after the other.              *)

Current == inst["cli"].objs[inst["cli"].i]
\* writeObject names the file after kind and name only.
FileName(m) == <<m.kind, m.name>>

\* Server-side apply.
ApplyObject ==
    /\ At("cli", "apply")
    /\ applied' = applied \cup {Current}
    /\ GoTo("cli", "write")
    /\ UNCHANGED <<crd, files, audit, bootFaults, crdWrites>>

writeObject ==
    /\ At("cli", "write")
    /\ files' = files \cup {FileName(Current)}
    /\ GoTo("cli", "emit")
    /\ UNCHANGED <<crd, applied, audit, bootFaults, crdWrites>>

\* Mutant: a failing event ends the command like the other failures, silently.
emitOrGiveUp ==
    LET more == inst["cli"].i < Len(inst["cli"].objs) IN
    /\ At("cli", "emit")
    /\ \/ audit' = audit \cup {Current}
       \/ UNCHANGED audit
    /\ Step_("cli", [inst["cli"] EXCEPT !.i = IF more THEN @ + 1 ELSE @,
                                        !.pc = IF more THEN "apply" ELSE "render"])
    /\ UNCHANGED <<crd, applied, files, bootFaults, crdWrites>>

\* An event that cannot be emitted is only warned of.
EmitEvent ==
    LET more == inst["cli"].i < Len(inst["cli"].objs)
        next == [inst["cli"] EXCEPT !.i = IF more THEN @ + 1 ELSE @,
                                    !.pc = IF more THEN "apply" ELSE "render"]
    IN  /\ At("cli", "emit")
        /\ \/ audit' = audit \cup {Current} /\ Step_("cli", next)
           \/ UNCHANGED audit /\ Step_("cli", [next EXCEPT !.warned = @ \cup {Current}])
        /\ UNCHANGED <<crd, applied, files, bootFaults, crdWrites>>

\* An unknown --output is noticed when everything is applied.
RenderOutput ==
    /\ At("cli", "render")
    /\ GoTo("cli", "done") \/ GoTo("cli", "unrendered")
    /\ UNCHANGED <<crd, Outputs, bootFaults, crdWrites>>

-----------------------------------------------------------------------------
ManagerStep ==
    \/ StartManager
    \/ GetCRD("manager") \/ CreateCRD("manager") \/ UpdateCRD("manager")
    \/ waitForCRDReady("manager")
BootNext ==
    \/ StartManager \/ newInitCommand \/ newDefaultsCommand
    \/ \E in \in Inputs : \/ newTenantCommand(in) \/ newProjectCommand(in)
                          \/ newDomainCommand(in) \/ newRegistryCommand(in)
    \/ \E p \in Installers : \/ InstallerFails(p) \/ GetCRD(p) \/ CreateCRD(p) \/ UpdateCRD(p)
                             \/ waitForCRDReady(p)
    \/ ApplyObject \/ writeObject \/ EmitEvent \/ RenderOutput
    \/ \E c \in Crds : OthersWrite(c) \/ Establish(c)

BootSpec == BootInit /\ [][BootNext]_bootVars

-----------------------------------------------------------------------------
\* A manager that starts, and a CLI that begins to apply manifests, found every
\* CRD established in the bundled form, unless someone else wrote to one since
\* the run began: manager and CLI do not disturb each other (EnsureCRDs).
InstalledBeforeUse ==
    \A p \in Installers :
        /\ inst[p].quiet /\ inst[p].op \in {"manager", "init"}
        /\ inst[p].pc \in {"apply", "write", "emit", "render", "done", "unrendered"}
        => \A c \in Crds : crd[c].spec = "bundled" /\ crd[c].ready

\* Ensuring the CRDs never removes a label that someone else put on one, not
\* even one put between the read and the update (mergeStringMap and the
\* resource version of the merged object).
SiteLabelsSurvive ==
    [][\A c \in Crds : "site" \in crd[c].labels /\ crdWrites' = crdWrites =>
                         "site" \in crd'[c].labels]_bootVars

\* Copies and audit events exist only of what was applied, and a command that
\* reaches its output, whatever becomes of that, leaves all of it applied,
\* copied, and audited or warned of (Runner.ApplyObject, the commands' loops).
TrailMatchesCluster ==
    /\ audit \subseteq applied /\ \A f \in files : \E m \in applied : FileName(m) = f
    /\ inst["cli"].pc \in {"render", "done", "unrendered"} =>
         \A i \in DOMAIN inst["cli"].objs :
           LET m == inst["cli"].objs[i]
           IN  m \in applied /\ FileName(m) \in files /\ m \in audit \cup inst["cli"].warned

\* The manager starts in the end, whatever failed before and whoever else
\* writes CRDs, as long as failed managers are started again and failures and
\* the others' writes stop (main, EnsureCRDs).
ManagerStarts == <>(inst["manager"].pc = "done")
=============================================================================
