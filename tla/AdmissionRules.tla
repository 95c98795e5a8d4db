--------------------------- MODULE AdmissionRules ---------------------------
(***************************************************************************)
(* The checks of the admission webhooks that look at one object: versions, *)
(* the registry policy of the namespace, the service policy of the project *)
(* and the pod security of Jobs.  Each review picks an object and its      *)
(* surroundings; what the code admits is compared with what Kubernetes     *)
(* would then run.  Names are sequences: the labels of a host, the pieces  *)
(* of a repository name.                                                   *)
(***************************************************************************)
EXTENDS Naturals, FiniteSets, SequencesExt

CONSTANTS
    RegistryHosts,        \* registries, each a sequence of domain labels
    HostPatterns, \* [wild, of]: the host, or with wild every host below it too
    Repos,        \* repository names, each a sequence of pieces
    RepoPatterns, \* [wild, of]: the name, or with wild every name it begins
    Unset,        \* a field that is not given, an object that is not referred to
    Bad           \* a value that cannot be parsed, an object that is not there

ASSUME RulesAssumption ==
    /\ Unset # Bad
    /\ RegistryHosts \subseteq Seq(STRING)
    /\ \A p \in HostPatterns : p.wild \in BOOLEAN /\ p.of \in Seq(STRING)

VARIABLES review \* the object being reviewed

-----------------------------------------------------------------------------
\* A version, a digest or a hash is valid, malformed or not given.
validateAppVersion(app) ==
    /\ app.version = Unset \/ app.range = Unset
    /\ app.version # Bad /\ app.range # Bad
validateAppReleaseSpecFields(rel) == Bad \notin {rel.version, rel.digest, rel.hash}

matchesHostPattern(p, host) == IF p.wild THEN IsSuffix(p.of, host) ELSE host = p.of
matchesRepoPattern(p, repo) == IF p.wild THEN IsPrefix(p.of, repo) ELSE repo = p.of

\* ParseConfigMap: no entries and no cosign is no policy, a bad flag an error.
ParseConfigMap(cm) ==
    IF cm = Unset THEN Unset
    ELSE IF cm.cosign = Bad THEN Bad
    ELSE IF cm.hosts = {} /\ cm.repos = {} /\ ~cm.cosign THEN Unset ELSE cm

AllowsRegistry(policy, host) ==
    policy.hosts = {} \/ \E p \in policy.hosts : matchesHostPattern(p, host)
AllowsRepository(policy, repo) ==
    policy.repos = {} \/ \E p \in policy.repos : matchesRepoPattern(p, repo)

\* registryInfoFromSource: only chart sources name a registry.  An image or a
\* source is a host with a repository, malformed or not given.
registryInfoFromSource(app) ==
    IF app.type \in {"HelmRepo", "HelmOCI"} THEN app.source ELSE Unset

validateRegistryPolicy(cm, app) ==
    LET policy == ParseConfigMap(cm)
        Allowed(from) ==
          from # Unset => /\ from # Bad
                          /\ AllowsRegistry(policy, from.host)
                          /\ AllowsRepository(policy, from.repo)
    IN  policy # Unset =>
          policy # Bad /\ Allowed(app.image) /\ Allowed(registryInfoFromSource(app))

\* profile: the NetworkPolicyProfile of the App's project, Unset without one.
validateServicePolicy(svc, profile) ==
    IF profile = Unset
      THEN svc.type # "LoadBalancer" /\ svc.ips = {}
      ELSE /\ profile # Bad
           /\ svc.type # "ClusterIP" => svc.type \in profile.types
           /\ svc.ips \subseteq profile.ips

\* Security contexts: nonRoot is TRUE, FALSE or Unset, user a uid or Unset.
allowsRoot(ctx) == ctx.nonRoot = FALSE \/ ctx.user = 0
allowsRootWithFallback(ctx, podCtx) == allowsRoot(ctx) \/ allowsRoot(podCtx)

\* Mutant: the context of the pod speaks for its containers.
podDecides(pod) == allowsRoot(pod.ctx)

requiresRootJustification(pod) ==
    allowsRoot(pod.ctx) \/ \E c \in pod.containers : allowsRootWithFallback(c.ctx, pod.ctx)

containsSysAdmin(c) == c.sysAdmin
validateJob(job) ==
    /\ ~job.pod.host
    /\ \A c \in job.pod.containers : ~containsSysAdmin(c)
    /\ requiresRootJustification(job.pod) => job.justified

-----------------------------------------------------------------------------
Given == {Unset, Bad}
Origins == Given \cup [host : RegistryHosts, repo : Repos]
ConfigMaps == {Unset} \cup [hosts : SUBSET HostPatterns, repos : SUBSET RepoPatterns,
                            cosign : {FALSE, Bad}]
Services == [type : {"ClusterIP", "NodePort", "LoadBalancer"}, ips : SUBSET {"ip"}]
Profiles == Given \cup [types : SUBSET {"NodePort", "LoadBalancer"}, ips : SUBSET {"ip"}]
Contexts == [nonRoot : {FALSE, TRUE, Unset}, user : {0, 1, Unset}]

NoReview == [kind |-> "none"]
RulesInit == review = NoReview

ReviewRegistries ==
    \E cm \in ConfigMaps, image, source \in Origins, type \in {"Image", "HelmRepo", "HelmOCI"} :
      LET app == [type |-> type, image |-> image, source |-> source]
      IN  review' = [kind |-> "registries", cm |-> cm, app |-> app,
                     admitted |-> validateRegistryPolicy(cm, app)]
ReviewService ==
    \E svc \in Services, profile \in Profiles :
      review' = [kind |-> "service", svc |-> svc, profile |-> profile,
                 admitted |-> validateServicePolicy(svc, profile)]
ReviewJob ==
    \E ctx \in Contexts, host, justified \in BOOLEAN,
       cs \in {S \in SUBSET [ctx : Contexts, sysAdmin : BOOLEAN] : S # {} /\ Cardinality(S) <= 2} :
      LET job == [pod |-> [ctx |-> ctx, host |-> host, containers |-> cs],
                  justified |-> justified]
      IN  review' = [kind |-> "job", job |-> job, admitted |-> validateJob(job)]
ReviewVersions ==
    \E a, b, c \in Given \cup {"ok"} :
      review' = [kind |-> "versions", admitted |->
                   /\ validateAppVersion([version |-> a, range |-> b])
                   /\ validateAppReleaseSpecFields([version |-> a, digest |-> b, hash |-> c])]
RulesNext ==
    review = NoReview /\ (ReviewRegistries \/ ReviewService \/ ReviewJob \/ ReviewVersions)

RulesSpec == RulesInit /\ [][RulesNext]_review

-----------------------------------------------------------------------------
\* The user Kubernetes runs a container as: its own context goes first, then
\* the pod's.
Effective(c, pod, f) == IF c.ctx[f] # Unset THEN c.ctx[f] ELSE pod.ctx[f]

\* A Job that was admitted runs no container that is told to be root, or is
\* let be root, by its own context or by the pod's, unless a reason was given
\* (requiresRootJustification).
RootNeedsReason ==
    review.kind = "job" /\ review.admitted /\ ~review.job.justified =>
      \A c \in review.job.pod.containers :
        /\ Effective(c, review.job.pod, "user") # 0
        /\ Effective(c, review.job.pod, "nonRoot") # FALSE

\* Whatever an admitted App makes the cluster pull, an image or a chart, comes
\* from a host of the policy's list when that has entries: one of them, or
\* with a wildcard one of its subdomains (validateRegistryPolicy).
PullsAreListed ==
    review.kind = "registries" /\ review.admitted /\ review.cm # Unset /\ review.cm.hosts # {} =>
      \A from \in {review.app.image} \cup
                  (IF review.app.type # "Image" THEN {review.app.source} ELSE {}) :
        from # Unset => from # Bad /\
          \E p \in review.cm.hosts : \E n \in 0..Len(from.host) :
            /\ p.wild \/ n = 0
            /\ SubSeq(from.host, n + 1, Len(from.host)) = p.of

\* A load balancer or an external address is only admitted when the profile of
\* the App's project lists it (validateServicePolicy).
ExposureIsApproved ==
    review.kind = "service" /\ review.admitted =>
      /\ review.svc.type = "LoadBalancer" =>
           review.profile \notin Given /\ "LoadBalancer" \in review.profile.types
      /\ review.svc.ips # {} =>
           review.profile \notin Given /\ review.svc.ips \subseteq review.profile.ips

\* What the webhooks admit keeps the rules of the platform, whichever fields
\* of App, Service and Job are set, missing or malformed (validateServicePolicy,
\* validateRegistryPolicy, requiresRootJustification).
AdmittedMeetsPolicy == RootNeedsReason /\ PullsAreListed /\ ExposureIsApproved
=============================================================================
