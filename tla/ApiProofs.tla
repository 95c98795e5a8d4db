----------------------------- MODULE ApiProofs ------------------------------
(***************************************************************************)
(* Proofs about what the API server and the webhooks take in, and what a   *)
(* caller and an operator see of them: batches of events, single objects,  *)
(* the answers of the HTTP handlers and the files the logs go to, for any  *)
(* number of uploads, requests and maintenance windows, any events, hosts, *)
(* patterns and log names, and any number of files kept.                   *)
(***************************************************************************)
EXTENDS Journal, AdmissionRules, HttpApi, LogFiles, FiniteSetTheorems, TLAPS

-----------------------------------------------------------------------------
\* Ingestion of events.

\* What has become of a batch so far: every event of it is still to do or was
\* counted once, and what was stored is in the journal.
Batch ==
    [pc : {"idle", "run", "done"}, todo : Seq({"complete", "incomplete"}), total : Nat,
     accepted : Nat, dropped : Nat, size : Nat, stored : Nat, unsure : Nat]
BatchInv ==
    /\ batch \in Batch /\ IsFiniteSet(events)
    /\ batch.accepted + batch.dropped + Len(batch.todo) = batch.size
    /\ batch.total = batch.size
    /\ batch.accepted + batch.unsure = batch.stored
    /\ Cardinality(events) >= batch.stored
    /\ batch.pc = "done" => batch.todo = <<>>

\* A row that is inserted is a new one.
LEMMA NewRow ==
    ASSUME IsFiniteSet(events), NEW r \in Rows(events, EventKinds), InsertProjectEvent(events, r)
    PROVE  IsFiniteSet(events') /\ Cardinality(events') = Cardinality(events) + 1
  <1>1. \A x \in events : x.id # r.id
    BY DEF Rows
  <1>2. r \notin events
    BY <1>1
  <1> QED BY <1>2, FS_AddElement, Zenon DEF InsertProjectEvent

\* A batch loses what is beyond the limit, which is counted.
LEMMA IngestStarts ==
    ASSUME BatchInv, NEW n \in 1..MaxBatch, NEW items \in [1..n -> {"complete", "incomplete"}],
           IngestProjectEvents(items)
    PROVE  BatchInv'
  <1> DEFINE kept_ == FirstOf(items, IngestLimit)
             over == Len(items) - Len(kept_)
             new == [NoBatch EXCEPT !.pc = "run", !.size = Len(items), !.todo = kept_,
                                    !.dropped = over, !.total = Len(kept_) + over]
  <1>1. items \in Seq({"complete", "incomplete"}) /\ Len(items) \in Nat /\ IngestLimit \in Nat
    BY JournalAssumption
  <1>2. /\ kept_ \in Seq({"complete", "incomplete"}) /\ Len(kept_) \in Nat
        /\ Len(kept_) <= Len(items)
    BY <1>1 DEF FirstOf
  <1>3. over \in Nat /\ Len(kept_) + over = Len(items)
    BY <1>1, <1>2
  <1>4. batch' = new /\ UNCHANGED events
    BY DEF IngestProjectEvents
  <1> HIDE DEF kept_, over
  <1>5. /\ new \in Batch /\ new.pc = "run" /\ new.size = Len(items) /\ new.todo = kept_
        /\ new.dropped = over /\ new.total = Len(kept_) + over
        /\ new.accepted = 0 /\ new.unsure = 0 /\ new.stored = 0
    BY <1>1, <1>2, <1>3, Zenon DEF NoBatch, Batch
  <1> HIDE DEF new
  <1>6. Cardinality(events) \in Nat
    BY FS_CardinalityType DEF BatchInv
  <1> QED BY <1>1, <1>2, <1>3, <1>4, <1>5, <1>6 DEF BatchInv

\* One event of the batch is counted.
LEMMA IngestCounts ==
    ASSUME BatchInv, IngestEvent
    PROVE  BatchInv'
  <1> DEFINE rest == [batch EXCEPT !.todo = Tail(batch.todo)]
  <1>1. /\ batch \in Batch /\ batch.pc = "run" /\ batch.todo # <<>>
        /\ Cardinality(events) \in Nat /\ IsFiniteSet(events)
    BY FS_CardinalityType DEF BatchInv, IngestEvent
  <1>2. /\ batch.todo \in Seq({"complete", "incomplete"})
        /\ batch.accepted \in Nat /\ batch.dropped \in Nat /\ batch.size \in Nat
        /\ batch.stored \in Nat /\ batch.unsure \in Nat /\ batch.total \in Nat
    BY <1>1 DEF Batch
  <1>3. /\ Tail(batch.todo) \in Seq({"complete", "incomplete"})
        /\ Len(Tail(batch.todo)) \in Nat /\ Len(batch.todo) = Len(Tail(batch.todo)) + 1
    BY <1>1, <1>2
  <1>4. PICK s \in Seq({"complete", "incomplete"}) : s = Tail(batch.todo)
    BY <1>3, Zenon
  <1>5. /\ rest \in Batch /\ rest.pc = "run" /\ rest.todo = s /\ rest.accepted = batch.accepted
        /\ rest.dropped = batch.dropped /\ rest.size = batch.size /\ rest.stored = batch.stored
        /\ rest.unsure = batch.unsure /\ rest.total = batch.total
    BY <1>1, <1>3, <1>4, Zenon DEF Batch
  <1>6. /\ batch.accepted + batch.dropped + (Len(s) + 1) = batch.size /\ batch.total = batch.size
        /\ batch.accepted + batch.unsure = batch.stored /\ Cardinality(events) >= batch.stored
        /\ Len(s) \in Nat
    BY <1>3, <1>4, Zenon DEF BatchInv
  <1>7. \/ batch' = [rest EXCEPT !.dropped = rest.dropped + 1] /\ UNCHANGED events
        \/ \E r \in Rows(events, EventKinds) :
             /\ InsertProjectEvent(events, r)
             /\ \/ batch' = [rest EXCEPT !.accepted = rest.accepted + 1, !.stored = rest.stored + 1]
                \/ batch' = [rest EXCEPT !.dropped = rest.dropped + 1, !.stored = rest.stored + 1,
                                         !.unsure = rest.unsure + 1]
    BY DEF IngestEvent
  <1> HIDE DEF rest
  <1>8. CASE batch' = [rest EXCEPT !.dropped = rest.dropped + 1] /\ UNCHANGED events
    <2>1. /\ batch' \in Batch /\ batch'.todo = s /\ batch'.accepted = batch.accepted
          /\ batch'.dropped = batch.dropped + 1 /\ batch'.size = batch.size
          /\ batch'.stored = batch.stored /\ batch'.unsure = batch.unsure
          /\ batch'.total = batch.total /\ batch'.pc = "run"
      <3>1. PICK a \in Nat : a = rest.dropped + 1
        BY <1>2, <1>5
      <3>2. batch' = [rest EXCEPT !.dropped = a]
        BY <1>8, <3>1
      <3> QED BY <1>5, <3>1, <3>2, SMTT(40) DEF Batch
    <2>2. batch'.accepted + batch'.dropped + Len(batch'.todo) = batch'.size
      <3>1. Len(batch'.todo) = Len(s)
        BY <2>1
      <3>2. PICK a0, d0, n0, z0 \in Nat :
              /\ a0 = batch.accepted /\ d0 = batch.dropped /\ n0 = Len(s) /\ z0 = batch.size
              /\ a0 + d0 + (n0 + 1) = z0
        BY <1>2, <1>6, Zenon
      <3>3. a0 + d0 + (n0 + 1) = z0
        BY <3>2, Zenon
      <3>4. a0 + (d0 + 1) + n0 = z0 /\ (a0 + 1) + d0 + n0 = z0
        BY <3>3
      <3> QED BY <2>1, <3>1, <3>2, <3>4
    <2>3. Cardinality(events') >= batch'.stored /\ IsFiniteSet(events')
      BY <1>1, <1>6, <1>8, <2>1, Zenon
    <2> QED BY <1>6, <2>1, <2>2, <2>3, Zenon DEF BatchInv
  <1>9. ASSUME NEW r \in Rows(events, EventKinds), InsertProjectEvent(events, r),
               batch' = [rest EXCEPT !.accepted = rest.accepted + 1, !.stored = rest.stored + 1]
        PROVE  BatchInv'
    <2>0. PICK a \in Nat, b \in Nat : a = rest.accepted + 1 /\ b = rest.stored + 1
      BY <1>2, <1>5
    <2>1. /\ batch' \in Batch /\ batch'.todo = s /\ batch'.accepted = batch.accepted + 1
          /\ batch'.dropped = batch.dropped /\ batch'.size = batch.size
          /\ batch'.stored = batch.stored + 1 /\ batch'.unsure = batch.unsure
          /\ batch'.total = batch.total /\ batch'.pc = "run"
      <3>1. batch' = [rest EXCEPT !.accepted = a, !.stored = b]
        BY <1>9, <2>0
      <3> QED BY <1>5, <2>0, <3>1, Zenon DEF Batch
    <2>2. IsFiniteSet(events') /\ Cardinality(events') = Cardinality(events) + 1
      BY <1>1, <1>9, NewRow
    <2>3. batch'.accepted + batch'.dropped + Len(batch'.todo) = batch'.size
      <3>1. Len(batch'.todo) = Len(s)
        BY <2>1, Zenon
      <3>2. PICK a0, d0, n0, z0 \in Nat :
              /\ a0 = batch.accepted /\ d0 = batch.dropped /\ n0 = Len(s) /\ z0 = batch.size
              /\ a0 + d0 + (n0 + 1) = z0
        BY <1>2, <1>6, Zenon
      <3>3. a0 + d0 + (n0 + 1) = z0
        BY <3>2, Zenon
      <3>4. a0 + (d0 + 1) + n0 = z0 /\ (a0 + 1) + d0 + n0 = z0
        BY <3>3
      <3> QED BY <2>1, <3>1, <3>2, <3>4, Zenon
    <2>4. batch'.accepted + batch'.unsure = batch'.stored
      BY <1>2, <1>6, <2>1
    <2>5. Cardinality(events') >= batch'.stored
      BY <1>1, <1>2, <1>6, <2>1, <2>2
    <2> QED BY <1>6, <2>1, <2>2, <2>3, <2>4, <2>5, Zenon DEF BatchInv
  <1>10. ASSUME NEW r \in Rows(events, EventKinds), InsertProjectEvent(events, r),
                batch' = [rest EXCEPT !.dropped = rest.dropped + 1, !.stored = rest.stored + 1,
                                      !.unsure = rest.unsure + 1]
         PROVE  BatchInv'
    <2>0. PICK a \in Nat, b \in Nat, c \in Nat :
             a = rest.dropped + 1 /\ b = rest.stored + 1 /\ c = rest.unsure + 1
      BY <1>2, <1>5
    <2>1. /\ batch' \in Batch /\ batch'.todo = s /\ batch'.accepted = batch.accepted
          /\ batch'.dropped = batch.dropped + 1 /\ batch'.size = batch.size
          /\ batch'.stored = batch.stored + 1 /\ batch'.unsure = batch.unsure + 1
          /\ batch'.total = batch.total /\ batch'.pc = "run"
      <3>1. batch' = [rest EXCEPT !.dropped = a, !.stored = b, !.unsure = c]
        BY <1>10, <2>0
      <3> QED BY <1>5, <2>0, <3>1, Zenon DEF Batch
    <2>2. IsFiniteSet(events') /\ Cardinality(events') = Cardinality(events) + 1
      BY <1>1, <1>10, NewRow, Zenon
    <2>3. batch'.accepted + batch'.dropped + Len(batch'.todo) = batch'.size
      <3>1. Len(batch'.todo) = Len(s)
        BY <2>1, Zenon
      <3>2. PICK a0, d0, n0, z0 \in Nat :
              /\ a0 = batch.accepted /\ d0 = batch.dropped /\ n0 = Len(s) /\ z0 = batch.size
              /\ a0 + d0 + (n0 + 1) = z0
        BY <1>2, <1>6, Zenon
      <3>3. a0 + d0 + (n0 + 1) = z0
        BY <3>2, Zenon
      <3>4. a0 + (d0 + 1) + n0 = z0 /\ (a0 + 1) + d0 + n0 = z0
        BY <3>3
      <3> QED BY <2>1, <3>1, <3>2, <3>4, Zenon
    <2>4. batch'.accepted + batch'.unsure = batch'.stored
      <3>1. PICK a0, u0, s0 \in Nat :
              /\ a0 = batch.accepted /\ u0 = batch.unsure /\ s0 = batch.stored
              /\ a0 + u0 = s0
        BY <1>2, <1>6, Zenon
      <3>2. a0 + u0 = s0
        BY <3>1
      <3>3. a0 + (u0 + 1) = s0 + 1
        BY <3>2
      <3> QED BY <2>1, <3>1, <3>3, Zenon
    <2>5. Cardinality(events') >= batch'.stored
      BY <1>1, <1>2, <1>6, <2>1, <2>2
    <2> QED BY <1>6, <2>1, <2>2, <2>3, <2>4, <2>5, Zenon DEF BatchInv
  <1> QED BY <1>7, <1>8, <1>9, <1>10

\* Every step keeps the account.
LEMMA BatchInductive == ASSUME BatchInv, [JournalNext]_journalVars PROVE BatchInv'
  <1>1. CASE UNCHANGED <<events, batch>>
    BY <1>1, Zenon DEF BatchInv
  <1>2. CASE AppendProjectEvent
    <2>1. UNCHANGED batch /\ IsFiniteSet(events) /\ Cardinality(events) \in Nat /\ batch.stored \in Nat
      BY <1>2, FS_CardinalityType, Zenon DEF AppendProjectEvent, BatchInv, Batch
    <2>2. IsFiniteSet(events') /\ Cardinality(events') = Cardinality(events) + 1
      BY <1>2, <2>1, NewRow, Zenon DEF AppendProjectEvent
    <2>3. Cardinality(events') >= batch.stored
      BY <2>1, <2>2 DEF BatchInv
    <2> QED BY <2>1, <2>2, <2>3, Zenon DEF BatchInv
  <1>3. CASE IngestAnswer
    <2>1. /\ batch \in Batch /\ batch.todo = <<>> /\ UNCHANGED events
          /\ batch' = [batch EXCEPT !.pc = "done"]
      BY <1>3, Zenon DEF IngestAnswer, BatchInv
    <2>2. /\ batch' \in Batch /\ batch'.todo = batch.todo /\ batch'.accepted = batch.accepted
          /\ batch'.dropped = batch.dropped /\ batch'.size = batch.size
          /\ batch'.stored = batch.stored /\ batch'.unsure = batch.unsure
          /\ batch'.total = batch.total
      BY <2>1, Zenon DEF Batch
    <2> QED BY <2>1, <2>2, Zenon DEF BatchInv
  <1>4. ASSUME \/ ClockTicks \/ CreateRelease \/ DeleteJournalApp \/ StartWalk
               \/ ListAppReleases \/ ListProjectEvents \/ UNCHANGED journalVars
        PROVE  UNCHANGED <<events, batch>>
    BY <1>4, Zenon DEF ClockTicks, CreateRelease, DeleteJournalApp, StartWalk, ListAppReleases,
                ListProjectEvents, journalVars
  <1> QED BY <1>1, <1>2, <1>3, <1>4, IngestStarts, IngestCounts, Zenon DEF JournalNext

\* The summary of an upload accounts for every event of it, and what it counts
\* as accepted is in the journal (IngestProjectEvents), for any size of the
\* batch and any limit.
THEOREM UploadsAreAccounted == JournalSpec => []IngestAccounts
  <1>1. JournalInit => BatchInv
    <2> SUFFICES ASSUME JournalInit PROVE BatchInv
      BY Zenon
    <2>1. batch = NoBatch /\ IsFiniteSet(events) /\ Cardinality(events) = 0
      BY FS_EmptySet, Zenon DEF JournalInit
    <2>2. NoBatch \in Batch
      BY DEF NoBatch, Batch
    <2> QED BY <2>1, <2>2 DEF BatchInv, NoBatch
  <1>2. BatchInv /\ [JournalNext]_journalVars => BatchInv'
    BY BatchInductive, Zenon
  <1>3. BatchInv => IngestAccounts
    BY DEF BatchInv, IngestAccounts, Batch
  <1> QED BY <1>1, <1>2, <1>3, PTL DEF JournalSpec

-----------------------------------------------------------------------------
\* Rules for one admitted object.

\* A suffix, found from the back of both names, is what is left of the host
\* after some of its labels (matchesHostPattern).
LEMMA SuffixIsTail ==
    ASSUME NEW s \in Seq(STRING), NEW t \in Seq(STRING), IsSuffix(s, t)
    PROVE  \E n \in 0..Len(t) : SubSeq(t, n + 1, Len(t)) = s
  <1>1. PICK k \in Nat, m \in Nat : k = Len(s) /\ m = Len(t)
    OBVIOUS
  <1>2. Reverse(s) \in [1..k -> STRING] /\ Reverse(t) \in [1..m -> STRING]
    BY <1>1, SMTT(40) DEF Reverse
  <1>3. Reverse(s) \in Seq(STRING) /\ Reverse(t) \in Seq(STRING) /\ Len(Reverse(s)) = k /\ Len(Reverse(t)) = m
    BY <1>2
  <1>4. k <= m /\ SubSeq(Reverse(s), 1, k) = SubSeq(Reverse(t), 1, k)
    BY <1>3, Zenon DEF IsSuffix, IsPrefix
  <1>5. ASSUME NEW i \in 1..k PROVE Reverse(s)[i] = Reverse(t)[i]
    <2>1. SubSeq(Reverse(s), 1, k)[i] = Reverse(s)[i] /\ SubSeq(Reverse(t), 1, k)[i] = Reverse(t)[i]
      BY <1>3, <1>4
    <2> QED BY <2>1, <1>4, Zenon
  <1>6. ASSUME NEW j \in 1..k PROVE t[(m - k) + j] = s[j]
    <2>0. (k - j) + 1 \in 1..k
      OBVIOUS
    <2>1. PICK i \in 1..k : i = (k - j) + 1
      BY <2>0, Zenon
    <2>2. Reverse(s)[i] = s[(k - i) + 1] /\ Reverse(t)[i] = t[(m - i) + 1]
      BY <1>1, <1>4 DEF Reverse
    <2>3. (k - i) + 1 = j /\ (m - i) + 1 = (m - k) + j
      BY <2>1, <1>1
    <2> QED BY <2>2, <2>3, <1>5, Zenon
  <1>7. PICK n \in 0..m : n = m - k
    <2>1. k <= m
      BY <1>4, Zenon
    <2>2. m - k \in 0..m
      BY <2>1
    <2> QED BY <2>2, Zenon
  <1>8. SubSeq(t, n + 1, m) = s
    <2>1. SubSeq(t, n + 1, m) \in Seq(STRING) /\ Len(SubSeq(t, n + 1, m)) = k
      BY <1>1, <1>4, <1>7
    <2>2. ASSUME NEW j \in 1..k PROVE SubSeq(t, n + 1, m)[j] = s[j]
      <3>1. SubSeq(t, n + 1, m)[j] = t[n + j]
        BY <1>1, <1>4, <1>7
      <3> QED BY <3>1, <1>6, <1>7, Zenon
    <2>3. SubSeq(t, n + 1, m) \in [1..k -> STRING] /\ s \in [1..k -> STRING]
      <3>1. \A q \in Seq(STRING) : q \in [1..Len(q) -> STRING]
        OBVIOUS
      <3> QED BY <1>1, <2>1, <3>1, Zenon
    <2> QED BY <2>2, <2>3
  <1> QED BY <1>1, <1>7, <1>8, Zenon

\* Where a policy lists hosts, what it allows is on the list.
LEMMA AllowedIsListed ==
    ASSUME NEW hosts \in SUBSET HostPatterns, NEW host \in RegistryHosts,
           NEW p \in hosts, matchesHostPattern(p, host)
    PROVE  \E n \in 0..Len(host) : (p.wild \/ n = 0) /\ SubSeq(host, n + 1, Len(host)) = p.of
  <1>1. p.wild \in BOOLEAN /\ p.of \in Seq(STRING) /\ host \in Seq(STRING)
    BY RulesAssumption, Zenon
  <1>2. CASE p.wild
    BY <1>1, <1>2, SuffixIsTail, Zenon DEF matchesHostPattern
  <1>3. CASE ~p.wild
    <2>1. host = p.of
      BY <1>3, Zenon DEF matchesHostPattern
    <2>2. SubSeq(host, 0 + 1, Len(host)) = host
      BY <1>1
    <2> QED BY <1>1, <2>1, <2>2
  <1> QED BY <1>1, <1>2, <1>3, Zenon

\* The rule of each review, from what its check lets through.
LEMMA RegistriesReviewed == ReviewRegistries => PullsAreListed'
  <1> SUFFICES ASSUME ReviewRegistries, review'.admitted, review'.cm # Unset, review'.cm.hosts # {},
                      NEW from \in {review'.app.image} \cup
                            (IF review'.app.type # "Image" THEN {review'.app.source} ELSE {}),
                      from # Unset
               PROVE  from # Bad /\ \E p \in review'.cm.hosts : \E n \in 0..Len(from.host) :
                        (p.wild \/ n = 0) /\ SubSeq(from.host, n + 1, Len(from.host)) = p.of
    BY Zenon DEF PullsAreListed
  <1>1. PICK cm \in ConfigMaps, image \in Origins, source \in Origins, type \in {"Image", "HelmRepo", "HelmOCI"} :
           review' = [kind |-> "registries", cm |-> cm,
                      app |-> [type |-> type, image |-> image, source |-> source],
                      admitted |-> validateRegistryPolicy(cm, [type |-> type, image |-> image, source |-> source])]
    BY Zenon DEF ReviewRegistries
  <1>2. PICK app : app = [type |-> type, image |-> image, source |-> source]
    BY Zenon
  <1>3. review'.cm = cm /\ review'.app = app /\ validateRegistryPolicy(cm, app)
    BY <1>1, <1>2, Zenon
  <1>4. ParseConfigMap(cm) = cm
    BY <1>3, RulesAssumption, Zenon DEF ParseConfigMap, validateRegistryPolicy
  <1>5. from \in Origins /\ (from = app.image \/ from = registryInfoFromSource(app))
    BY <1>2, <1>3 DEF registryInfoFromSource
  <1>6. from # Bad /\ AllowsRegistry(cm, from.host)
    BY <1>3, <1>4, <1>5, Zenon DEF validateRegistryPolicy
  <1>7. from.host \in RegistryHosts /\ cm.hosts \in SUBSET HostPatterns
    BY <1>3, <1>5, <1>6, Zenon DEF Origins, Given, ConfigMaps
  <1>8. PICK p \in cm.hosts : matchesHostPattern(p, from.host)
    BY <1>3, <1>6, Zenon DEF AllowsRegistry
  <1> QED BY <1>3, <1>6, <1>7, <1>8, AllowedIsListed, Zenon

\* A Service is exposed only as far as its profile approves.
LEMMA ServiceReviewed == ReviewService => ExposureIsApproved'
  <1> SUFFICES ASSUME ReviewService PROVE ExposureIsApproved'
    BY Zenon
  <1>1. PICK svc \in Services, profile \in Profiles :
           review' = [kind |-> "service", svc |-> svc, profile |-> profile,
                      admitted |-> validateServicePolicy(svc, profile)]
    BY Zenon DEF ReviewService
  <1>2. validateServicePolicy(svc, profile) =>
           /\ svc.type = "LoadBalancer" => profile \notin Given /\ "LoadBalancer" \in profile.types
           /\ svc.ips # {} => profile \notin Given /\ svc.ips \subseteq profile.ips
    BY Zenon DEF validateServicePolicy, Given
  <1> QED BY <1>1, <1>2, Zenon DEF ExposureIsApproved

\* A job may run as root only with a reason.
LEMMA JobReviewed == ReviewJob => RootNeedsReason'
  <1> SUFFICES ASSUME ReviewJob, review'.admitted, ~review'.job.justified,
                      NEW c \in review'.job.pod.containers
               PROVE  /\ Effective(c, review'.job.pod, "user") # 0
                      /\ Effective(c, review'.job.pod, "nonRoot") # FALSE
    BY Zenon DEF RootNeedsReason, Effective
  <1>1. PICK job : review' = [kind |-> "job", job |-> job, admitted |-> validateJob(job)]
    BY Zenon DEF ReviewJob
  <1>2. validateJob(job) /\ ~job.justified /\ c \in job.pod.containers
    BY <1>1, Zenon
  <1>3. ~allowsRoot(c.ctx) /\ ~allowsRoot(job.pod.ctx)
    BY <1>2, Zenon DEF validateJob, requiresRootJustification, allowsRootWithFallback
  <1> QED BY <1>1, <1>3, Zenon DEF allowsRoot, Effective

\* Whatever is reviewed, what is admitted keeps the rules of the platform: no
\* root without a reason, pulls only from the listed hosts, exposure only as
\* the project's profile approves (validateJob, validateRegistryPolicy,
\* validateServicePolicy).
THEOREM AdmittedKeepsRules == RulesSpec => []AdmittedMeetsPolicy
  <1>1. RulesInit => AdmittedMeetsPolicy
    BY DEF RulesInit, NoReview, AdmittedMeetsPolicy, RootNeedsReason, PullsAreListed, ExposureIsApproved
  <1>2. AdmittedMeetsPolicy /\ [RulesNext]_review => AdmittedMeetsPolicy'
    <2> SUFFICES ASSUME AdmittedMeetsPolicy, [RulesNext]_review PROVE AdmittedMeetsPolicy'
      BY Zenon
    <2>1. CASE UNCHANGED review
      BY <2>1, Zenon DEF AdmittedMeetsPolicy, RootNeedsReason, PullsAreListed, ExposureIsApproved, Effective
    <2>2. CASE ReviewRegistries
      <3>1. review'.kind = "registries"
        BY <2>2 DEF ReviewRegistries
      <3> QED BY <2>2, <3>1, RegistriesReviewed, Zenon DEF AdmittedMeetsPolicy, RootNeedsReason, ExposureIsApproved
    <2>3. CASE ReviewService
      <3>1. review'.kind = "service"
        BY <2>3 DEF ReviewService
      <3> QED BY <2>3, <3>1, ServiceReviewed, Zenon DEF AdmittedMeetsPolicy, RootNeedsReason, PullsAreListed
    <2>4. CASE ReviewJob
      <3>1. review'.kind = "job"
        BY <2>4 DEF ReviewJob
      <3> QED BY <2>4, <3>1, JobReviewed, Zenon DEF AdmittedMeetsPolicy, PullsAreListed, ExposureIsApproved
    <2>5. CASE ReviewVersions
      <3>1. review'.kind = "versions"
        BY <2>5 DEF ReviewVersions
      <3> QED BY <3>1, Zenon DEF AdmittedMeetsPolicy, RootNeedsReason, PullsAreListed, ExposureIsApproved
    <2> QED BY <2>1, <2>2, <2>3, <2>4, <2>5, Zenon DEF RulesNext
  <1> QED BY <1>1, <1>2, PTL DEF RulesSpec

-----------------------------------------------------------------------------
\* HTTP handlers.

\* What holds of every handler: the statuses of errors are not those of
\* success, only readyz answers 503 itself, every handler but createCluster
\* knows the refusal of the gate it asks, and what maintenance stops asks it.
Fine(h, r) ==
    /\ r.verb \in {"GET", "POST", "PUT", "PATCH", "DELETE"}
    /\ r.done \in {200, 201, 202} /\ r.missing \in {400, 404, 500, 503}
    /\ r.refused \in {400, 404, 500, 503}
    /\ r.missing = 503 \/ r.refused = 503 => h = "readyz"
    /\ r.gated /\ h # "createCluster" => r.maintenance
    /\ h = "createCluster" => ~r.maintenance /\ r.refused = 400
    /\ h \in StoppedByMaintenance => r.gated
AllFine(table) == \A h \in DOMAIN table : Fine(h, table[h])

\* A handler that asks no gate, and one that asks it and knows its refusal.
Shape(r) ==
    /\ DOMAIN r = {"verb", "body", "checked", "ifMatch", "gated", "maintenance", "missing",
                   "refused", "done"}
    /\ r.verb \in {"GET", "POST", "PUT", "PATCH", "DELETE"}
    /\ r.missing \in {400, 404, 500} /\ r.refused \in {400, 404, 500} /\ r.done \in {200, 201, 202}
Plain(r) == Shape(r) /\ r.gated = FALSE /\ r.maintenance = FALSE
Gated(r) == Shape(r) /\ r.gated = TRUE /\ r.maintenance = TRUE

\* The kinds of handlers ask no gate.
LEMMA Kinds == Plain(Reads) /\ Plain(Posts) /\ Plain(Creates) /\ Plain(Patches) /\ Plain(Deletes)
  <1>1. Plain(Reads)
    BY Zenon DEF Plain, Reads, Shape
  <1>2. \A r : Plain(r) => Plain([r EXCEPT !.verb = "POST", !.body = "json"])
    BY DEF Plain, Shape
  <1>3. \A r : Plain(r) => Plain([r EXCEPT !.done = 201])
    BY DEF Plain, Shape
  <1>4. \A r : Plain(r) => Plain([r EXCEPT !.verb = "PATCH"]) /\ Plain([r EXCEPT !.verb = "DELETE"])
    BY DEF Plain, Shape
  <1> QED BY <1>1, <1>2, <1>3, <1>4, Zenon DEF Posts, Creates, Patches, Deletes

\* Both are fine under a name they fit.
LEMMA KindsFine ==
    ASSUME NEW h, NEW r, h # "createCluster",
           (Plain(r) /\ h \notin StoppedByMaintenance) \/ Gated(r)
    PROVE  Fine(h, r)
  BY DEF Fine, Plain, Gated, Shape

\* The handlers fit their names, table by table.
LEMMA TablesFine ==
    /\ AllFine(ProbeHandlers)
    /\ AllFine(ClusterHandlers)
    /\ AllFine(ClusterStatusHandlers)
    /\ AllFine(UserHandlers)
    /\ AllFine(ProjectCreateHandlers)
    /\ AllFine(ProjectHandlers)
    /\ AllFine(ProjectLogHandlers)
    /\ AllFine(AppDeployHandlers)
    /\ AllFine(AppReadHandlers)
    /\ AllFine(AppUpdateHandlers)
    /\ AllFine(AppAttachHandlers)
    /\ AllFine(ConfigHandlers)
    /\ AllFine(GitCredentialHandlers)
    /\ AllFine(RegistryCredentialHandlers)
    /\ AllFine(EventHandlers)
    /\ AllFine(IngestHandlers)
    /\ AllFine(ReleaseHandlers)
    /\ AllFine(KubeconfigHandlers)
    /\ AllFine(TemplateHandlers)
    /\ AllFine(MaintenanceHandlers)
    /\ AllFine(WebhookHandlers)
  <1>1. AllFine(ProbeHandlers)
    <2>1. Plain(Reads)
      BY Kinds DEF Plain, Gated, Shape, Finds, Breaks, Guarded
    <2>2. Fine("readyz", [Reads EXCEPT !.missing = 503, !.refused = 503])
      BY DEF Fine, StoppedByMaintenance, Reads, Posts, Creates
    <2> QED BY <2>1, <2>2, KindsFine DEF AllFine, ProbeHandlers, StoppedByMaintenance
  <1>2. AllFine(ClusterHandlers)
    <2>1. Plain(Breaks(Reads))
      BY Kinds DEF Plain, Gated, Shape, Finds, Breaks, Guarded
    <2>2. Plain(Finds(Breaks(Reads)))
      BY Kinds DEF Plain, Gated, Shape, Finds, Breaks, Guarded
    <2>3. Gated(Finds(Guarded(Patches)))
      BY Kinds DEF Plain, Gated, Shape, Finds, Breaks, Guarded
    <2>4. Fine("createCluster", [Creates EXCEPT !.checked = TRUE, !.gated = TRUE])
      BY DEF Fine, StoppedByMaintenance, Reads, Posts, Creates
    <2> QED BY <2>1, <2>2, <2>3, <2>4, KindsFine DEF AllFine, ClusterHandlers, StoppedByMaintenance
  <1>3. AllFine(ClusterStatusHandlers)
    <2>1. Plain(Breaks(Reads))
      BY Kinds DEF Plain, Gated, Shape, Finds, Breaks, Guarded
    <2>2. Plain([Reads EXCEPT !.missing = 404, !.refused = 404])
      BY Kinds DEF Plain, Gated, Shape, Finds, Breaks, Guarded
    <2> QED BY <2>1, <2>2, KindsFine DEF AllFine, ClusterStatusHandlers, StoppedByMaintenance
  <1>4. AllFine(UserHandlers)
    <2>1. Plain(Creates)
      BY Kinds DEF Plain, Gated, Shape, Finds, Breaks, Guarded
    <2>2. Plain(Deletes)
      BY Kinds DEF Plain, Gated, Shape, Finds, Breaks, Guarded
    <2>3. Plain(Posts)
      BY Kinds DEF Plain, Gated, Shape, Finds, Breaks, Guarded
    <2> QED BY <2>1, <2>2, <2>3, KindsFine DEF AllFine, UserHandlers, StoppedByMaintenance
  <1>5. AllFine(ProjectCreateHandlers)
    <2>1. Plain(Breaks(Reads))
      BY Kinds DEF Plain, Gated, Shape, Finds, Breaks, Guarded
    <2>2. Gated(Guarded(Creates))
      BY Kinds DEF Plain, Gated, Shape, Finds, Breaks, Guarded
    <2> QED BY <2>1, <2>2, KindsFine DEF AllFine, ProjectCreateHandlers, StoppedByMaintenance
  <1>6. AllFine(ProjectHandlers)
    <2>1. Plain(Breaks(Reads))
      BY Kinds DEF Plain, Gated, Shape, Finds, Breaks, Guarded
    <2>2. Plain(Finds(Reads))
      BY Kinds DEF Plain, Gated, Shape, Finds, Breaks, Guarded
    <2>3. Gated(Guarded(Deletes))
      BY Kinds DEF Plain, Gated, Shape, Finds, Breaks, Guarded
    <2>4. Gated(Guarded(Patches))
      BY Kinds DEF Plain, Gated, Shape, Finds, Breaks, Guarded
    <2>5. Gated(Guarded([Posts EXCEPT !.body = "none"]))
      BY Kinds DEF Plain, Gated, Shape, Finds, Breaks, Guarded
    <2>6. Plain([Reads EXCEPT !.missing = 404, !.refused = 404])
      BY Kinds DEF Plain, Gated, Shape, Finds, Breaks, Guarded
    <2> QED BY <2>1, <2>2, <2>3, <2>4, <2>5, <2>6, KindsFine DEF AllFine, ProjectHandlers, StoppedByMaintenance
  <1>7. AllFine(ProjectLogHandlers)
    <2>1. Plain([Reads EXCEPT !.checked = TRUE, !.missing = 404, !.refused = 500])
      BY Kinds DEF Plain, Gated, Shape, Finds, Breaks, Guarded
    <2> QED BY <2>1, KindsFine DEF AllFine, ProjectLogHandlers, StoppedByMaintenance
  <1>8. AllFine(AppDeployHandlers)
    <2>1. Gated(Guarded(Creates))
      BY Kinds DEF Plain, Gated, Shape, Finds, Breaks, Guarded
    <2>2. Plain(Posts)
      BY Kinds DEF Plain, Gated, Shape, Finds, Breaks, Guarded
    <2> QED BY <2>1, <2>2, KindsFine DEF AllFine, AppDeployHandlers, StoppedByMaintenance
  <1>9. AllFine(AppReadHandlers)
    <2>1. Plain(Reads)
      BY Kinds DEF Plain, Gated, Shape, Finds, Breaks, Guarded
    <2>2. Plain([Posts EXCEPT !.body = "none"])
      BY Kinds DEF Plain, Gated, Shape, Finds, Breaks, Guarded
    <2> QED BY <2>1, <2>2, KindsFine DEF AllFine, AppReadHandlers, StoppedByMaintenance
  <1>10. AllFine(AppUpdateHandlers)
    <2> DEFINE scales == [Guarded(Patches) EXCEPT !.checked = TRUE, !.ifMatch = TRUE]
               updates == [Guarded(Patches) EXCEPT !.ifMatch = TRUE]
               restarts == Guarded([Posts EXCEPT !.body = "none"])
    <2>1. Gated(Guarded(Patches)) /\ Gated(restarts)
      BY Kinds DEF Plain, Gated, Shape, Guarded
    <2>2. Gated(scales)
      BY <2>1 DEF Gated, Shape
    <2>3. Gated(updates)
      BY <2>1 DEF Gated, Shape
    <2>4. AppUpdateHandlers = [scaleApp |-> scales, updateAppImage |-> updates,
                               rolloutRestartApp |-> restarts]
      BY DEF AppUpdateHandlers
    <2> HIDE DEF scales, updates, restarts
    <2> QED BY <2>1, <2>2, <2>3, <2>4, KindsFine DEF AllFine, StoppedByMaintenance
  <1>11. AllFine(AppAttachHandlers)
    <2>1. Gated(Guarded(Deletes))
      BY Kinds DEF Plain, Gated, Shape, Finds, Breaks, Guarded
    <2>2. Plain(Posts)
      BY Kinds DEF Plain, Gated, Shape, Finds, Breaks, Guarded
    <2> QED BY <2>1, <2>2, KindsFine DEF AllFine, AppAttachHandlers, StoppedByMaintenance
  <1>12. AllFine(ConfigHandlers)
    <2>1. Plain(Creates)
      BY Kinds DEF Plain, Gated, Shape, Finds, Breaks, Guarded
    <2>2. Plain(Deletes)
      BY Kinds DEF Plain, Gated, Shape, Finds, Breaks, Guarded
    <2>3. Plain(Reads)
      BY Kinds DEF Plain, Gated, Shape, Finds, Breaks, Guarded
    <2> QED BY <2>1, <2>2, <2>3, KindsFine DEF AllFine, ConfigHandlers, StoppedByMaintenance
  <1>13. AllFine(GitCredentialHandlers)
    <2>1. Plain(Finds(Creates))
      BY Kinds DEF Plain, Gated, Shape, Finds, Breaks, Guarded
    <2>2. Plain(Finds(Deletes))
      BY Kinds DEF Plain, Gated, Shape, Finds, Breaks, Guarded
    <2>3. Plain(Finds(Reads))
      BY Kinds DEF Plain, Gated, Shape, Finds, Breaks, Guarded
    <2> QED BY <2>1, <2>2, <2>3, KindsFine DEF AllFine, GitCredentialHandlers, StoppedByMaintenance
  <1>14. AllFine(RegistryCredentialHandlers)
    <2>1. Plain(Finds(Creates))
      BY Kinds DEF Plain, Gated, Shape, Finds, Breaks, Guarded
    <2>2. Plain(Finds(Deletes))
      BY Kinds DEF Plain, Gated, Shape, Finds, Breaks, Guarded
    <2>3. Plain(Finds(Reads))
      BY Kinds DEF Plain, Gated, Shape, Finds, Breaks, Guarded
    <2> QED BY <2>1, <2>2, <2>3, KindsFine DEF AllFine, RegistryCredentialHandlers, StoppedByMaintenance
  <1>15. AllFine(EventHandlers)
    <2>1. Plain(Creates)
      BY Kinds DEF Plain, Gated, Shape, Finds, Breaks, Guarded
    <2>2. Plain(Reads)
      BY Kinds DEF Plain, Gated, Shape, Finds, Breaks, Guarded
    <2> QED BY <2>1, <2>2, KindsFine DEF AllFine, EventHandlers, StoppedByMaintenance
  <1>16. AllFine(IngestHandlers)
    <2>1. Plain(Breaks([Posts EXCEPT !.body = "optional", !.done = 202]))
      BY Kinds DEF Plain, Gated, Shape, Finds, Breaks, Guarded
    <2> QED BY <2>1, KindsFine DEF AllFine, IngestHandlers, StoppedByMaintenance
  <1>17. AllFine(ReleaseHandlers)
    <2> DEFINE pages == [Reads EXCEPT !.checked = TRUE]
    <2>1. Plain(pages)
      BY Kinds DEF Plain, Shape
    <2>2. ReleaseHandlers = [listAppReleases |-> pages]
      BY DEF ReleaseHandlers
    <2> HIDE DEF pages
    <2> QED BY <2>1, <2>2, KindsFine DEF AllFine, StoppedByMaintenance
  <1>18. AllFine(KubeconfigHandlers)
    <2> DEFINE rotates == [Finds(Posts) EXCEPT !.checked = TRUE]
    <2>1. Plain(Finds(Deletes)) /\ Plain(Finds(Posts))
      BY Kinds DEF Plain, Shape, Finds
    <2>2. Plain(rotates)
      BY <2>1 DEF Plain, Shape
    <2>3. KubeconfigHandlers = [ensureKubeconfig |-> Finds(Posts), deleteKubeconfig |-> Finds(Deletes),
                                rotateKubeconfig |-> rotates]
      BY DEF KubeconfigHandlers
    <2> HIDE DEF rotates
    <2> QED BY <2>1, <2>2, <2>3, KindsFine DEF AllFine, StoppedByMaintenance
  <1>19. AllFine(TemplateHandlers)
    <2>1. Plain(Creates)
      BY Kinds DEF Plain, Gated, Shape, Finds, Breaks, Guarded
    <2>2. Gated(Finds(Guarded([Creates EXCEPT !.body = "optional"])))
      BY Kinds DEF Plain, Gated, Shape, Finds, Breaks, Guarded
    <2>3. Plain(Finds(Reads))
      BY Kinds DEF Plain, Gated, Shape, Finds, Breaks, Guarded
    <2>4. Plain(Finds([Posts EXCEPT !.body = "optional"]))
      BY Kinds DEF Plain, Gated, Shape, Finds, Breaks, Guarded
    <2>5. Plain(Reads)
      BY Kinds DEF Plain, Gated, Shape, Finds, Breaks, Guarded
    <2> QED BY <2>1, <2>2, <2>3, <2>4, <2>5, KindsFine DEF AllFine, TemplateHandlers, StoppedByMaintenance
  <1>20. AllFine(MaintenanceHandlers)
    <2>1. Plain(Breaks(Reads))
      BY Kinds DEF Plain, Gated, Shape, Finds, Breaks, Guarded
    <2>2. Plain(Breaks([Posts EXCEPT !.verb = "PUT"]))
      BY Kinds DEF Plain, Gated, Shape, Finds, Breaks, Guarded
    <2> QED BY <2>1, <2>2, KindsFine DEF AllFine, MaintenanceHandlers, StoppedByMaintenance
  <1>21. AllFine(WebhookHandlers)
    <2>1. Plain(Posts)
      BY Kinds DEF Plain, Gated, Shape, Finds, Breaks, Guarded
    <2> QED BY <2>1, KindsFine DEF AllFine, WebhookHandlers, StoppedByMaintenance
  <1> QED BY <1>1, <1>2, <1>3, <1>4, <1>5, <1>6, <1>7, <1>8, <1>9, <1>10, <1>11, <1>12, <1>13, <1>14, <1>15, <1>16, <1>17, <1>18, <1>19, <1>20, <1>21, Zenon

\* So every handler is.
LEMMA HandlersFine == AllFine(Handlers) /\ DOMAIN Admin \subseteq DOMAIN Handlers
  <1>1. ASSUME NEW tables, \A t \in tables : AllFine(t)
        PROVE  AllFine(Joined(tables))
    BY <1>1, Zenon DEF AllFine, Joined
  <1>2. \A t \in AdminTables \cup {ProbeHandlers} : AllFine(t)
    BY TablesFine, Zenon DEF AdminTables
  <1>3. AllFine(Handlers)
    BY <1>1, <1>2, Zenon DEF Handlers
  <1> QED BY <1>3, Zenon DEF Handlers, Admin, Joined

\* Where a request stands.  Until it is answered it has done no work, and
\* maintenance is on or was seen off; past the gate it was seen off.
Moving ==
    /\ hreq.worked = FALSE /\ hreq.barred = FALSE /\ hreq.panicked = FALSE
    /\ hreq.pc \in {"route", "handle"} => hreq.called = FALSE
    /\ upkeep \/ hreq.sawOff
    /\ hreq.pc \in {"gate", "work"} => hreq.called = TRUE
    /\ hreq.pc = "work" /\ hreq.h \in StoppedByMaintenance => hreq.sawOff

\* Once it is answered the status tells what happened.
Told ==
    /\ hreq.worked \/ hreq.status \notin 200..299
    /\ hreq.worked => hreq.status \in 200..299 /\ (hreq.h \in StoppedByMaintenance => hreq.sawOff)
    /\ hreq.barred => hreq.status = IF hreq.h = "createCluster" THEN 400 ELSE 503
    /\ hreq.status = 503 => hreq.barred \/ hreq.h = "readyz"
    /\ hreq.status \in {401, 403} => ~hreq.called

HttpInv ==
    /\ upkeep \in BOOLEAN
    /\ hreq.pc \in {"idle", "route", "handle", "gate", "work", "answer", "logged", "done"}
    /\ hreq.pc # "idle" =>
          /\ DOMAIN hreq = {"pc", "h", "token", "body", "valid", "ifMatch", "status", "called", "worked",
                            "barred", "panicked", "sawOff", "access", "audit"}
          /\ hreq.h \in DOMAIN Handlers
          /\ hreq.called \in BOOLEAN /\ hreq.worked \in BOOLEAN /\ hreq.barred \in BOOLEAN
          /\ hreq.panicked \in BOOLEAN /\ hreq.sawOff \in BOOLEAN
    /\ hreq.pc \in {"route", "handle", "gate", "work"} => Moving
    /\ hreq.pc = "gate" => Handlers[hreq.h].gated
    /\ hreq.pc = "work" => Handlers[hreq.h].gated = FALSE \/ hreq.sawOff
    /\ hreq.pc \in {"answer", "logged"} => hreq.panicked = FALSE /\ Told
    /\ hreq.pc = "logged" \/ (hreq.pc = "done" /\ ~hreq.panicked) =>
          hreq.audit = IF Handlers[hreq.h].verb = "GET" THEN 0 ELSE hreq.status
    /\ hreq.pc = "done" /\ hreq.panicked => ~hreq.worked
    /\ hreq.pc = "done" /\ ~hreq.panicked => Told /\ hreq.access = hreq.status

\* A request that is answered with a status that tells, without having worked.
LEMMA AnswerTells ==
    ASSUME NEW s, HttpInv, hreq.pc \in {"route", "handle", "gate", "work"}, Answer(s), upkeep' = upkeep,
           s \in {400, 401, 403, 404, 428, 500, 503}, s = 503 => hreq.h = "readyz",
           s \in {401, 403} => hreq.pc = "route"
    PROVE  HttpInv'
  <1>1. s \notin 200..299
    OBVIOUS
  <1>2. hreq' = [hreq EXCEPT !.pc = "answer", !.status = s]
    BY Zenon DEF Answer
  <1>3. Moving
    BY DEF HttpInv
  <1>4. Told'
    BY <1>1, <1>2, <1>3, SMTT(40) DEF HttpInv, Moving, Told
  <1> QED BY <1>2, <1>3, <1>4 DEF HttpInv, Moving

\* A request moves on, unanswered.
LEMMA MoveOn ==
    ASSUME NEW pc, HttpInv, hreq.pc \in {"route", "handle", "gate", "work"}, To_(pc), upkeep' = upkeep,
           \/ pc = "handle" /\ hreq.pc = "route"
           \/ pc = "work" /\ ~upkeep /\ hreq.pc = "gate"
    PROVE  HttpInv'
  BY Zenon DEF HttpInv, Moving, To_

\* At the start no request is there.
LEMMA InitHttpInv == HttpInit => HttpInv
  <1> SUFFICES ASSUME HttpInit PROVE HttpInv
    BY Zenon
  <1>1. hreq.pc = "idle" /\ upkeep \in BOOLEAN
    BY Zenon DEF HttpInit, NoHttpRequest
  <1> QED BY <1>1, Zenon DEF HttpInv

\* A request arrives.
LEMMA ArriveStep == HttpInv /\ Arrive => HttpInv'
  <1> SUFFICES ASSUME HttpInv, Arrive PROVE HttpInv'
    BY Zenon
  <1>0. PICK off \in BOOLEAN : off = ~upkeep
    BY Zenon
  <1>1. PICK h \in DOMAIN Handlers, token \in {"none", "bad", "member", "admin"},
             body \in {"good", "bad", "empty"}, valid, ifMatch \in BOOLEAN :
           /\ Handlers[h].body = "none" => body = "good"
           /\ ~Handlers[h].checked => valid
           /\ ~Handlers[h].ifMatch => ifMatch
           /\ hreq' = [pc |-> "route", h |-> h, token |-> token, body |-> body, valid |-> valid,
                       ifMatch |-> ifMatch, status |-> 0, called |-> FALSE, worked |-> FALSE,
                       barred |-> FALSE, panicked |-> FALSE, sawOff |-> ~upkeep,
                       access |-> 0, audit |-> 0]
    BY Zenon DEF Arrive
  <1>2. upkeep' = upkeep /\ upkeep \in BOOLEAN
    BY Zenon DEF Arrive, HttpInv
  <1> QED BY <1>0, <1>1, <1>2, Zenon DEF HttpInv, Moving

\* AdminAuthMiddleware lets it through or answers 401 or 403.
LEMMA AuthStep == HttpInv /\ AdminAuthMiddleware => HttpInv'
  <1> SUFFICES ASSUME HttpInv, AdminAuthMiddleware PROVE HttpInv'
    OBVIOUS
  <1>1. CASE To_("handle")
    BY <1>1, MoveOn, Zenon DEF AdminAuthMiddleware
  <1>2. CASE \E s \in {401, 403} : Answer(s)
    <2>1. PICK s \in {401, 403} : Answer(s)
      BY <1>2, Zenon
    <2> QED BY <2>1, AnswerTells DEF AdminAuthMiddleware
  <1> QED BY <1>1, <1>2 DEF AdminAuthMiddleware

\* Its handler checks it and calls the service, or refuses it.
LEMMA HandleStep == HttpInv /\ Handle => HttpInv'
  <1> SUFFICES ASSUME HttpInv, Handle PROVE HttpInv'
    OBVIOUS
  <1>1. hreq.pc = "handle" /\ upkeep' = upkeep
    BY Zenon DEF Handle
  <1>2. CASE \E s \in {400, 428, 500} : Answer(s)
    BY <1>1, <1>2, AnswerTells
  <1>3. CASE hreq' = [hreq EXCEPT !.pc = IF Handlers[hreq.h].gated THEN "gate" ELSE "work", !.called = TRUE]
    <2>1. Fine(hreq.h, Handlers[hreq.h])
      BY <1>1, HandlersFine, Zenon DEF HttpInv, AllFine
    <2>2. CASE Handlers[hreq.h].gated
      BY <1>1, <1>3, <2>2 DEF HttpInv, Moving
    <2>3. CASE ~Handlers[hreq.h].gated
      <3>1. hreq.h \notin StoppedByMaintenance
        BY <2>1, <2>3, Zenon DEF Fine
      <3> QED BY <1>1, <1>3, <2>3, <3>1 DEF HttpInv, Moving
    <2> QED BY <2>2, <2>3, Zenon
  <1> QED BY <1>2, <1>3 DEF Handle

\* The gate refuses what maintenance holds back.
LEMMA GateStep == HttpInv /\ ensureMaintenanceAllows => HttpInv'
  <1> SUFFICES ASSUME HttpInv, ensureMaintenanceAllows PROVE HttpInv'
    OBVIOUS
  <1>1. hreq.pc = "gate" /\ upkeep' = upkeep
    BY DEF ensureMaintenanceAllows
  <1>2. Fine(hreq.h, Handlers[hreq.h]) /\ Handlers[hreq.h].gated
    BY <1>1, HandlersFine, Zenon DEF HttpInv, AllFine
  <1>3. CASE ~upkeep /\ To_("work")
    BY <1>1, <1>3, MoveOn
  <1>4. CASE upkeep /\ hreq' = [hreq EXCEPT !.pc = "answer", !.barred = TRUE,
                                   !.status = writeMaintenanceError(Handlers[hreq.h])]
    <2>1. PICK s : s = writeMaintenanceError(Handlers[hreq.h])
      BY Zenon
    <2>2. s = IF hreq.h = "createCluster" THEN 400 ELSE 503
      BY <2>1, <1>2 DEF writeMaintenanceError, Fine
    <2>3. hreq' = [hreq EXCEPT !.pc = "answer", !.barred = TRUE, !.status = s]
      BY <1>4, <2>1, Zenon
    <2>4. CASE hreq.h = "createCluster"
      BY <1>1, <2>2, <2>3, <2>4 DEF HttpInv, Moving, Told
    <2>5. CASE hreq.h # "createCluster"
      BY <1>1, <2>2, <2>3, <2>5 DEF HttpInv, Moving, Told
    <2> QED BY <2>4, <2>5, Zenon
  <1>5. CASE \E s \in {Handlers[hreq.h].refused, Handlers[hreq.h].missing} : Answer(s)
    <2>1. PICK s \in {Handlers[hreq.h].refused, Handlers[hreq.h].missing} : Answer(s)
      BY <1>5, Zenon
    <2>2. s \in {400, 404, 500, 503} /\ (s = 503 => hreq.h = "readyz")
      BY <1>2 DEF Fine
    <2> QED BY <1>1, <2>1, <2>2, AnswerTells
  <1> QED BY <1>3, <1>4, <1>5 DEF ensureMaintenanceAllows

\* The handler does its work and answers with its own status.
LEMMA WorkStep == HttpInv /\ Work => HttpInv'
  <1> SUFFICES ASSUME HttpInv, Work PROVE HttpInv'
    OBVIOUS
  <1>1. hreq.pc = "work" /\ upkeep' \in BOOLEAN
    BY Zenon DEF Work, HttpInv
  <1>2. Fine(hreq.h, Handlers[hreq.h])
    BY <1>1, HandlersFine, Zenon DEF HttpInv, AllFine
  <1>3. CASE hreq' = [hreq EXCEPT !.pc = "answer", !.worked = TRUE, !.status = Handlers[hreq.h].done]
    <2>1. PICK s \in {200, 201, 202} : s = Handlers[hreq.h].done
      BY <1>2 DEF Fine
    <2>2. hreq' = [hreq EXCEPT !.pc = "answer", !.worked = TRUE, !.status = s]
      BY <1>3, <2>1, Zenon
    <2> QED BY <1>1, <2>2 DEF HttpInv, Moving, Told
  <1>4. CASE (\E s \in {Handlers[hreq.h].missing, Handlers[hreq.h].refused} : Answer(s)) /\ UNCHANGED upkeep
    <2>1. PICK s \in {Handlers[hreq.h].missing, Handlers[hreq.h].refused} : Answer(s)
      BY <1>4, Zenon
    <2>2. s \in {400, 404, 500, 503} /\ (s = 503 => hreq.h = "readyz")
      BY <1>2 DEF Fine
    <2> QED BY <1>1, <1>4, <2>1, <2>2, AnswerTells
  <1> QED BY <1>3, <1>4, Zenon DEF Work

\* A panic is answered with 500.
LEMMA RecovererStep == HttpInv /\ Recoverer => HttpInv'
  BY DEF HttpInv, Moving, Recoverer

\* The audit log has every answer to what may change something.
LEMMA AuditStep == HttpInv /\ AuditLog => HttpInv'
  <1> SUFFICES ASSUME HttpInv, AuditLog PROVE HttpInv'
    OBVIOUS
  <1>1. PICK a : a = IF isAuditMethod(Handlers[hreq.h].verb) THEN hreq.status ELSE 0
    BY Zenon
  <1>2. a = IF Handlers[hreq.h].verb = "GET" THEN 0 ELSE hreq.status
    <2>1. Fine(hreq.h, Handlers[hreq.h])
      BY HandlersFine, Zenon DEF HttpInv, AllFine, AuditLog
    <2> QED BY <1>1, <2>1, SMTT(40) DEF isAuditMethod, Fine
  <1>3. hreq' = [hreq EXCEPT !.pc = "logged", !.audit = a] /\ hreq.pc = "answer" /\ upkeep' = upkeep
    BY <1>1, Zenon DEF AuditLog
  <1>4. hreq'.audit = a /\ hreq'.pc = "logged" /\ hreq'.h = hreq.h /\ hreq'.status = hreq.status
    BY <1>3, Zenon DEF HttpInv
  <1>5. Told'
    BY <1>3 DEF HttpInv, Told
  <1> QED BY <1>2, <1>3, <1>4, <1>5, Zenon DEF HttpInv

\* The access log has the answer.
LEMMA AccessStep == HttpInv /\ AccessLog => HttpInv'
  BY DEF HttpInv, Told, AccessLog

\* Maintenance is switched.
LEMMA ToggleStep == HttpInv /\ Toggle => HttpInv'
  <1> SUFFICES ASSUME HttpInv, Toggle PROVE HttpInv'
    OBVIOUS
  <1>1. upkeep' \in BOOLEAN /\ upkeep \in BOOLEAN /\ upkeep' = ~upkeep
    BY Zenon DEF Toggle, HttpInv
  <1>2. CASE hreq.pc \in {"idle", "done"}
    BY <1>1, <1>2, SMTT(40) DEF HttpInv, Told, Toggle
  <1>3. CASE hreq.pc \notin {"idle", "done"}
    <2>1. PICK off \in BOOLEAN : off = (hreq.sawOff \/ ~upkeep')
      BY Zenon
    <2>2. hreq' = [hreq EXCEPT !.sawOff = off]
      BY <1>3, <2>1, Zenon DEF Toggle
    <2>3. hreq.sawOff => off
      BY <2>1, Zenon
    <2>4. upkeep' \/ off
      BY <1>1, <2>1, Zenon
    <2> QED BY <1>1, <1>3, <2>2, <2>3, <2>4, SMTT(40) DEF HttpInv, Moving, Told
  <1> QED BY <1>2, <1>3, Zenon
\* Steps that leave the request and maintenance alone.
LEMMA IdleStep == HttpInv /\ UNCHANGED <<hreq, upkeep>> => HttpInv'
  <1> SUFFICES ASSUME HttpInv, UNCHANGED <<hreq, upkeep>> PROVE HttpInv'
    OBVIOUS
  <1>1. hreq' = hreq /\ upkeep' = upkeep
    OBVIOUS
  <1>2. Moving => Moving'
    BY <1>1 DEF Moving
  <1>3. Told => Told'
    BY <1>1, SMTT(40) DEF Told
  <1> QED BY <1>1, <1>2, <1>3, Zenon DEF HttpInv

\* The invariant is inductive, for every number of toggles and requests.
LEMMA HttpInductive == HttpSpec => []HttpInv
  <1>1. HttpInv /\ [HttpNext]_httpVars => HttpInv'
    <2> SUFFICES ASSUME HttpInv, [HttpNext]_httpVars PROVE HttpInv'
      BY Zenon
    <2>1. CASE UNCHANGED <<hreq, upkeep>>
      BY <2>1, IdleStep, Zenon
    <2>2. UNCHANGED httpVars => UNCHANGED <<hreq, upkeep>>
      BY Zenon DEF httpVars
    <2>3. NewRouter \/ (\E l \in LogLines, lines \in 0..MaxTail : TailLog(l, lines))
             => UNCHANGED <<hreq, upkeep>>
      BY Zenon DEF NewRouter, TailLog
    <2> QED BY <2>1, <2>2, <2>3, ArriveStep, AuthStep, HandleStep, GateStep, WorkStep, RecovererStep,
               AuditStep, AccessStep, ToggleStep, Zenon DEF HttpNext
  <1> QED BY InitHttpInv, <1>1, PTL DEF HttpSpec

\* Maintenance holds from the moment it is on: what a request changes of a
\* cluster, a project or an app it changes because maintenance was off at some
\* moment of its life (ensureMaintenanceAllows, the handlers).
THEOREM MaintenanceHolds == HttpSpec => []NoWorkUnderMaintenance
  <1>1. HttpInv => NoWorkUnderMaintenance
    BY Zenon DEF HttpInv, NoWorkUnderMaintenance, Moving, Told
  <1> QED BY <1>1, HttpInductive, PTL

\* The status of every answer, and the line of the audit log, tell what the
\* handler did (the handlers, writeMaintenanceError, AdminAuthMiddleware,
\* AuditLog, AccessLog).
THEOREM StatusesTell == HttpSpec => []StatusTellsOutcome
  <1>1. HttpInv => StatusTellsOutcome
    BY Zenon DEF HttpInv, StatusTellsOutcome, Answered, Told
  <1> QED BY <1>1, HttpInductive, PTL

-----------------------------------------------------------------------------
\* Log files.

\* A writer with an open file that is the current one of its log has the file
\* under the log's name open, unless that was renamed by someone else.
LogTypes ==
    /\ named \in [Logs -> Nat] /\ files_ \in Nat
    /\ writers \in [Logs -> Seq(Nat)] /\ current \in [Logs -> Nat]
    /\ moved = [l \in Logs |-> moved[l]]
    /\ kept \in [boot : Nat, request : Nat]
Indexed ==
    /\ \A l \in Logs : current[l] \in 0..Len(writers[l])
    /\ kept.boot \in 0..Len(writers["app"]) /\ kept.request \in 0..Len(writers["app"])
    /\ current["project"] = Len(writers["project"]) /\ Len(writers["project"]) <= 1
OpenAtName(l) ==
    ~moved[l] /\ current[l] # 0 /\ writers[l][current[l]] # 0 => writers[l][current[l]] = named[l]
LogInv == LogTypes /\ Indexed /\ (\A l \in Logs : OpenAtName(l)) /\ LinesHitFile

\* There are an application log and a project log.
LEMMA TheLogs == "app" \in Logs /\ "project" \in Logs /\ Global \subseteq Logs
  BY LogAssumption DEF Logs

\* A list of open files in which one has changed.
LEMMA Replaced ==
    ASSUME NEW s \in Seq(Nat), NEW w \in 1..Len(s), NEW f \in Nat
    PROVE  [s EXCEPT ![w] = f] \in Seq(Nat)
  <1>1. Len(s) \in Nat /\ s \in [1..Len(s) -> Nat]
    OBVIOUS
  <1>2. PICK n \in Nat : n = Len(s)
    BY <1>1, Zenon
  <1>3. [s EXCEPT ![w] = f] \in [1..n -> Nat]
    BY <1>1, <1>2, Zenon
  <1>4. \A x : x \in [1..n -> Nat] => x \in Seq(Nat)
    OBVIOUS
  <1> QED BY <1>3, <1>4, Zenon

\* A line is written by a writer of a log, the current one or another.
LEMMA PutStep ==
    ASSUME LogInv, NEW l \in Logs, NEW w \in 0..Len(writers[l]), NEW by, Put(l, w, by),
           by \in {"current", "project"} => w = current[l]
    PROVE  LogInv'
  <1>1. UNCHANGED <<current, kept, moved>>
    BY Zenon DEF Put
  <1>2. CASE w = 0
    <2>1. /\ line' = [log |-> l, by |-> by, hit |-> TRUE, moved |-> FALSE]
          /\ UNCHANGED <<named, files_, writers>>
      BY <1>2, Zenon DEF Put
    <2>2. LinesHitFile'
      BY <2>1, Zenon DEF LinesHitFile
    <2> QED BY <1>1, <2>1, <2>2, Zenon DEF LogInv, LogTypes, Indexed, OpenAtName
  <1>3. CASE w # 0
    <2> DEFINE fresh == writers[l][w] = 0 /\ named[l] = 0
               file == IF fresh THEN files_ + 1
                       ELSE IF writers[l][w] = 0 THEN named[l] ELSE writers[l][w]
    <2>1. /\ files_' = IF fresh THEN files_ + 1 ELSE files_
          /\ named' = IF fresh THEN [named EXCEPT ![l] = file] ELSE named
          /\ writers' = [writers EXCEPT ![l] = [writers[l] EXCEPT ![w] = file]]
          /\ line' = [log |-> l, by |-> by, hit |-> file = named'[l], moved |-> moved[l]]
      BY <1>3, Zenon DEF Put
    <2>2. /\ writers[l] \in Seq(Nat) /\ w \in 1..Len(writers[l]) /\ writers[l][w] \in Nat
          /\ named[l] \in Nat /\ files_ \in Nat
      BY <1>3 DEF LogInv, LogTypes
    <2>3. file \in Nat /\ files_' \in Nat
      BY <2>1, <2>2
    <2>4. PICK s \in Seq(Nat) : s = [writers[l] EXCEPT ![w] = file]
      BY <2>2, <2>3, Replaced, Zenon
    <2>5. Len(s) = Len(writers[l]) /\ s[w] = file
          /\ \A k \in 1..Len(writers[l]) : k # w => s[k] = writers[l][k]
      BY <2>2, <2>4, SMTT(40)
    <2>6. /\ writers' \in [Logs -> Seq(Nat)] /\ writers'[l] = s
          /\ \A m \in Logs : m # l => writers'[m] = writers[m]
      BY <2>1, <2>4, Zenon DEF LogInv, LogTypes
    <2>7. /\ named' \in [Logs -> Nat] /\ (fresh => named'[l] = file) /\ (~fresh => named' = named)
          /\ \A m \in Logs : m # l => named'[m] = named[m]
      BY <2>1, <2>3, Zenon DEF LogInv, LogTypes
    <2>8. LogTypes' /\ Indexed'
      <3>1. LogTypes'
        BY <1>1, <2>3, <2>6, <2>7, Zenon DEF LogInv, LogTypes
      <3>2. \A m \in Logs : Len(writers'[m]) = Len(writers[m])
        BY <2>5, <2>6, Zenon
      <3> QED BY <1>1, <3>1, <3>2, TheLogs, Zenon DEF LogInv, Indexed
    <2>9. w = current[l] /\ ~moved[l] => file = named'[l]
      BY <1>3, <2>7, Zenon DEF LogInv, OpenAtName
    <2>10. ASSUME NEW m \in Logs PROVE OpenAtName(m)'
      <3>1. OpenAtName(m)
        BY Zenon DEF LogInv
      <3>2. CASE m # l
        BY <1>1, <2>6, <2>7, <3>1, <3>2, Zenon DEF OpenAtName
      <3>3. CASE m = l /\ w = current[l]
        BY <1>1, <2>5, <2>6, <2>9, <3>3, Zenon DEF OpenAtName
      <3>4. CASE m = l /\ w # current[l] /\ current[l] # 0
        <4>1. current[l] \in 1..Len(writers[l]) /\ writers'[l][current[l]] = writers[l][current[l]]
          <5>1. current[l] \in 1..Len(writers[l])
            BY <2>2, <3>4, SMTT(40) DEF LogInv, Indexed
          <5> QED BY <2>5, <2>6, <3>4, <5>1, Zenon
        <4>2. ~moved[l] /\ writers[l][current[l]] # 0 => ~fresh
          BY <3>1, <3>4, Zenon DEF OpenAtName
        <4> QED BY <1>1, <2>7, <3>1, <3>4, <4>1, <4>2, Zenon DEF OpenAtName
      <3>5. CASE m = l /\ current[l] = 0
        BY <1>1, <3>5, Zenon DEF OpenAtName
      <3> QED BY <3>2, <3>3, <3>4, <3>5, Zenon
    <2>11. LinesHitFile'
      <3> HIDE DEF file
      <3> QED BY <2>1, <2>9, Zenon DEF LinesHitFile
    <2> QED BY <2>8, <2>10, <2>11, Zenon DEF LogInv
  <1> QED BY <1>2, <1>3, Zenon

\* Writing through each kind of logger.
LEMMA LogStep ==
    ASSUME LogInv,
           \/ \E l \in Global : LogCurrent(l)
           \/ \E k \in {"boot", "request"} : LogKept(k)
           \/ \E w \in 1..2 : LogProject(w)
    PROVE  LogInv'
  <1>1. ASSUME NEW l \in Global, LogCurrent(l) PROVE LogInv'
    <2>1. l \in Logs /\ current[l] \in 0..Len(writers[l]) /\ Put(l, current[l], "current")
      BY <1>1, TheLogs, Zenon DEF LogCurrent, LogInv, Indexed
    <2> QED BY <2>1, PutStep, Zenon
  <1>2. ASSUME NEW k \in {"boot", "request"}, LogKept(k) PROVE LogInv'
    <2>1. kept[k] \in 0..Len(writers["app"]) /\ Put("app", kept[k], k) /\ k \notin {"current", "project"}
      BY <1>2, Zenon DEF LogKept, LogInv, Indexed
    <2> QED BY <2>1, TheLogs, PutStep, Zenon
  <1>3. ASSUME NEW w \in 1..2, LogProject(w) PROVE LogInv'
    <2>1. w \in DOMAIN writers["project"] /\ Put("project", w, "project")
      BY <1>3, Zenon DEF LogProject
    <2>2. writers["project"] \in Seq(Nat)
      BY TheLogs, Zenon DEF LogInv, LogTypes
    <2>3. w \in 1..Len(writers["project"])
      BY <2>1, <2>2
    <2>4. w = current["project"] /\ w \in 0..Len(writers["project"])
      BY <2>2, <2>3 DEF LogInv, Indexed
    <2> QED BY <2>1, <2>4, TheLogs, PutStep, Zenon
  <1> QED BY <1>1, <1>2, <1>3, Zenon

\* A file is rotated by the writer that fills it.
LEMMA RotateStep ==
    ASSUME LogInv, NEW l \in Logs, NEW w \in Nat, rotate(l, w) PROVE LogInv'
  <1>1. /\ writers[l] \in Seq(Nat) /\ w \in DOMAIN writers[l] /\ files_ \in Nat
        /\ UNCHANGED <<current, kept, line>> /\ files_' = files_ + 1
        /\ named' = [named EXCEPT ![l] = files_ + 1]
        /\ writers' = [writers EXCEPT ![l] = [writers[l] EXCEPT ![w] = files_ + 1]]
        /\ moved' = [moved EXCEPT ![l] = moved[l] \/ w # current[l]]
    BY Zenon DEF rotate, LogInv, LogTypes
  <1>2. PICK f \in Nat : f = files_ + 1
    BY <1>1
  <1>3. PICK s \in Seq(Nat) : s = [writers[l] EXCEPT ![w] = f]
    <2>1. w \in 1..Len(writers[l])
      BY <1>1
    <2> QED BY <1>1, <1>2, <2>1, Replaced, Zenon
  <1>4. Len(s) = Len(writers[l]) /\ s[w] = f
    BY <1>1, <1>3
  <1>5. /\ writers' \in [Logs -> Seq(Nat)] /\ writers'[l] = s
        /\ \A m \in Logs : m # l => writers'[m] = writers[m]
    BY <1>1, <1>2, <1>3, Zenon DEF LogInv, LogTypes
  <1>6. /\ named' \in [Logs -> Nat] /\ named'[l] = f
        /\ \A m \in Logs : m # l => named'[m] = named[m]
    BY <1>1, <1>2, Zenon DEF LogInv, LogTypes
  <1>7. moved' = [m \in Logs |-> moved'[m]] /\ \A m \in Logs : m # l => moved'[m] = moved[m]
    BY <1>1, Zenon DEF LogInv, LogTypes
  <1>8. moved'[l] = (moved[l] \/ w # current[l])
    BY <1>1, Zenon DEF LogInv, LogTypes
  <1>9. LogTypes'
    BY <1>1, <1>2, <1>5, <1>6, <1>7, Zenon DEF LogInv, LogTypes
  <1>10. \A m \in Logs : Len(writers'[m]) = Len(writers[m])
    BY <1>4, <1>5, Zenon
  <1>11. Indexed'
    BY <1>1, <1>10, TheLogs, Zenon DEF LogInv, Indexed
  <1>12. ASSUME NEW m \in Logs PROVE OpenAtName(m)'
    <2>1. CASE m # l
      BY <1>1, <1>5, <1>6, <1>7, <2>1, Zenon DEF OpenAtName, LogInv
    <2>2. CASE m = l
      BY <1>1, <1>4, <1>5, <1>6, <1>8, <2>2, Zenon DEF OpenAtName
    <2> QED BY <2>1, <2>2, Zenon
  <1>13. LinesHitFile'
    BY <1>1, Zenon DEF LinesHitFile, LogInv
  <1> QED BY <1>9, <1>11, <1>12, <1>13, Zenon DEF LogInv

\* A file is renamed from outside.
LEMMA RenameStep == ASSUME LogInv, NEW l \in Logs, Rename(l) PROVE LogInv'
  <1>1. /\ UNCHANGED <<files_, writers, current, kept, line>>
        /\ named' = [named EXCEPT ![l] = 0] /\ moved' = [moved EXCEPT ![l] = TRUE]
    BY Zenon DEF Rename
  <1>2. /\ named' \in [Logs -> Nat] /\ moved' = [m \in Logs |-> moved'[m]] /\ moved'[l]
        /\ \A m \in Logs : m # l => named'[m] = named[m] /\ moved'[m] = moved[m]
    BY <1>1, Zenon DEF LogInv, LogTypes
  <1>3. LogTypes' /\ Indexed' /\ LinesHitFile'
    BY <1>1, <1>2, Zenon DEF LogInv, LogTypes, Indexed, LinesHitFile
  <1>4. \A m \in Logs : OpenAtName(m)'
    BY <1>1, <1>2, Zenon DEF LogInv, OpenAtName
  <1> QED BY <1>3, <1>4, Zenon DEF LogInv

\* A request asks for the current logger.
LEMMA AskStep == ASSUME LogInv, Ask PROVE LogInv'
  <1>1. /\ UNCHANGED <<named, files_, writers, current, moved, line>>
        /\ kept' = [kept EXCEPT !.request = current["app"]]
    BY Zenon DEF Ask
  <1>2. current["app"] \in 0..Len(writers["app"]) /\ current["app"] \in Nat
    BY TheLogs, Zenon DEF LogInv, Indexed, LogTypes
  <1>3. /\ kept' \in [boot : Nat, request : Nat] /\ kept'.boot = kept.boot
        /\ kept'.request = current["app"]
    BY <1>1, <1>2, Zenon DEF LogInv, LogTypes
  <1> QED BY <1>1, <1>2, <1>3, Zenon DEF LogInv, LogTypes, Indexed, OpenAtName, LinesHitFile

\* The writer of the project log is made on first use.
LEMMA GetLoggerStep == ASSUME LogInv, getLogger(1) PROVE LogInv'
  <1>1. /\ UNCHANGED <<named, files_, kept, moved, line>> /\ current["project"] = 0
        /\ writers' = [writers EXCEPT !["project"] = <<0>>]
        /\ current' = [current EXCEPT !["project"] = 1]
    BY Zenon DEF getLogger
  <1>2. <<0>> \in Seq(Nat) /\ Len(<<0>>) = 1 /\ <<0>>[1] = 0
    OBVIOUS
  <1>3. /\ writers' \in [Logs -> Seq(Nat)] /\ current' \in [Logs -> Nat]
        /\ writers'["project"] = <<0>> /\ current'["project"] = 1
        /\ \A m \in Logs : m # "project" => writers'[m] = writers[m] /\ current'[m] = current[m]
    BY <1>1, <1>2, TheLogs, Zenon DEF LogInv, LogTypes
  <1>4. "app" # "project"
    BY Zenon
  <1>5. LogTypes' /\ LinesHitFile'
    BY <1>1, <1>3, Zenon DEF LogInv, LogTypes, LinesHitFile
  <1>6. Indexed'
    BY <1>1, <1>2, <1>3, <1>4, TheLogs DEF LogInv, Indexed
  <1>7. \A m \in Logs : OpenAtName(m)'
    BY <1>1, <1>2, <1>3, Zenon DEF LogInv, OpenAtName
  <1> QED BY <1>5, <1>6, <1>7, Zenon DEF LogInv

\* SIGHUP closes the current writers ...
LEMMA ReopenStep == ASSUME LogInv, Reopen PROVE LogInv'
  <1>1. /\ UNCHANGED <<named, files_, current, kept, moved, line>>
        /\ writers' = [l \in Logs |-> IF l \in Global /\ current[l] # 0
                                        THEN [writers[l] EXCEPT ![current[l]] = 0] ELSE writers[l]]
    BY Zenon DEF Reopen
  <1>2. ASSUME NEW l \in Logs
        PROVE  /\ writers'[l] \in Seq(Nat) /\ Len(writers'[l]) = Len(writers[l])
               /\ writers'[l] # writers[l] => writers'[l][current[l]] = 0
    <2>1. writers[l] \in Seq(Nat) /\ current[l] \in 0..Len(writers[l])
      BY Zenon DEF LogInv, LogTypes, Indexed
    <2>2. CASE l \in Global /\ current[l] # 0
      <3>1. current[l] \in 1..Len(writers[l]) /\ 0 \in Nat
        BY <2>1, <2>2
      <3>2. writers'[l] = [writers[l] EXCEPT ![current[l]] = 0]
        BY <1>1, <2>2, Zenon
      <3>3. [writers[l] EXCEPT ![current[l]] = 0] \in Seq(Nat)
        BY <2>1, <3>1, Replaced, Zenon
      <3> QED BY <2>1, <3>1, <3>2, <3>3
    <2>3. CASE ~(l \in Global /\ current[l] # 0)
      BY <1>1, <2>1, <2>3, Zenon
    <2> QED BY <2>2, <2>3, Zenon
  <1>3. writers' \in [Logs -> Seq(Nat)]
    BY <1>1, <1>2, Zenon
  <1>4. LogTypes' /\ LinesHitFile'
    BY <1>1, <1>3, Zenon DEF LogInv, LogTypes, LinesHitFile
  <1>5. Indexed'
    BY <1>1, <1>2, TheLogs, Zenon DEF LogInv, Indexed
  <1>6. \A m \in Logs : OpenAtName(m)'
    BY <1>1, <1>2, Zenon DEF LogInv, OpenAtName
  <1> QED BY <1>4, <1>5, <1>6, Zenon DEF LogInv

\* ... and makes new ones.
LEMMA RebuildStep == ASSUME LogInv, rebuildLocked PROVE LogInv'
  <1>1. /\ UNCHANGED <<named, files_, kept, line>>
        /\ moved' = [l \in Logs |-> IF l \in Global THEN FALSE ELSE moved[l]]
    BY Zenon DEF rebuildLocked
  <1>2. LinesHitFile' /\ moved' = [l \in Logs |-> moved'[l]]
        /\ \A l \in Logs : l \notin Global => moved'[l] = moved[l]
    BY <1>1, Zenon DEF LogInv, LinesHitFile
  <1>2a. "project" \in Logs \ Global /\ "app" \in Global
    BY LogAssumption, TheLogs, Zenon
  <1>3. CASE /\ writers' = [l \in Logs |-> IF l \in Global THEN Append(writers[l], 0) ELSE writers[l]]
             /\ current' = [l \in Logs |-> IF l \in Global THEN Len(writers'[l]) ELSE current[l]]
    <2>1. ASSUME NEW l \in Logs
          PROVE  /\ writers'[l] \in Seq(Nat) /\ current'[l] \in Nat
                 /\ l \in Global => /\ Len(writers'[l]) = Len(writers[l]) + 1
                                    /\ current'[l] = Len(writers'[l])
                                    /\ writers'[l][current'[l]] = 0
                 /\ l \notin Global => writers'[l] = writers[l] /\ current'[l] = current[l]
      <3>1. writers[l] \in Seq(Nat) /\ Len(writers[l]) \in Nat /\ current[l] \in Nat
        BY DEF LogInv, LogTypes
      <3>2. CASE l \in Global
        <4>1. writers'[l] = Append(writers[l], 0) /\ current'[l] = Len(writers'[l])
          BY <1>3, <3>2, Zenon
        <4>2. /\ Append(writers[l], 0) \in Seq(Nat) /\ Len(Append(writers[l], 0)) = Len(writers[l]) + 1
              /\ Append(writers[l], 0)[Len(writers[l]) + 1] = 0
          BY <3>1
        <4> QED BY <3>1, <3>2, <4>1, <4>2
      <3>3. CASE l \notin Global
        BY <1>3, <3>1, <3>3, Zenon
      <3> QED BY <3>2, <3>3, Zenon
    <2>2. LogTypes'
      <3>1. writers' \in [Logs -> Seq(Nat)]
        BY <1>3, <2>1, Zenon
      <3>2. current' \in [Logs -> Nat]
        BY <1>3, <2>1, Zenon
      <3> QED BY <1>1, <1>2, <3>1, <3>2, Zenon DEF LogInv, LogTypes
    <2>3. Indexed'
      <3>1. \A l \in Logs : current'[l] \in 0..Len(writers'[l])
        <4> SUFFICES ASSUME NEW l \in Logs PROVE current'[l] \in 0..Len(writers'[l])
          BY Zenon
        <4>1. CASE l \in Global
          BY <2>1, <4>1
        <4>2. CASE l \notin Global
          BY <2>1, <4>2, Zenon DEF LogInv, Indexed
        <4> QED BY <4>1, <4>2, Zenon
      <3>2. /\ kept.boot \in 0..Len(writers["app"]) /\ kept.request \in 0..Len(writers["app"])
            /\ Len(writers["app"]) \in Nat /\ Len(writers'["app"]) = Len(writers["app"]) + 1
        BY <1>2a, <2>1, TheLogs DEF LogInv, Indexed, LogTypes
      <3>3. kept.boot \in 0..Len(writers'["app"]) /\ kept.request \in 0..Len(writers'["app"])
        BY <3>2
      <3>4. writers'["project"] = writers["project"] /\ current'["project"] = current["project"]
        BY <1>2a, <2>1, Zenon
      <3> QED BY <1>1, <3>1, <3>3, <3>4, Zenon DEF LogInv, Indexed
    <2>4. ASSUME NEW m \in Logs PROVE OpenAtName(m)'
      <3>1. CASE m \in Global
        BY <2>1, <3>1, Zenon DEF OpenAtName
      <3>2. CASE m \notin Global
        BY <1>1, <1>2, <2>1, <3>2, Zenon DEF LogInv, OpenAtName
      <3> QED BY <3>1, <3>2, Zenon
    <2> QED BY <1>2, <2>2, <2>3, <2>4, Zenon DEF LogInv
  <1>4. CASE /\ current' = [l \in Logs |-> IF l \in Global THEN 0 ELSE current[l]]
             /\ UNCHANGED writers
    <2>1. /\ \A l \in Logs : l \in Global => current'[l] = 0
          /\ \A l \in Logs : l \notin Global => current'[l] = current[l]
          /\ current' \in [Logs -> Nat]
      BY <1>4, Zenon DEF LogInv, LogTypes
    <2>2. LogTypes'
      BY <1>1, <1>2, <1>4, <2>1, Zenon DEF LogInv, LogTypes
    <2>3. Indexed'
      <3>1. \A l \in Logs : Len(writers[l]) \in Nat /\ 0 \in 0..Len(writers[l])
        BY DEF LogInv, LogTypes
      <3>2. \A l \in Logs : current'[l] \in 0..Len(writers'[l])
        BY <1>4, <2>1, <3>1, Zenon DEF LogInv, Indexed
      <3> QED BY <1>1, <1>2a, <1>4, <2>1, <3>2, Zenon DEF LogInv, Indexed
    <2>4. \A m \in Logs : OpenAtName(m)'
      BY <1>1, <1>2, <1>4, <2>1, Zenon DEF LogInv, OpenAtName
    <2> QED BY <1>2, <2>2, <2>3, <2>4, Zenon DEF LogInv
  <1> QED BY <1>3, <1>4, Zenon DEF rebuildLocked

\* A line written through the global logger of a log, or the project logger,
\* is in the file under the log's name, unless that was renamed by someone
\* else since the logger was made (rebuildLocked, getLogger), for any number
\* of SIGHUPs and renames.
THEOREM LinesAreFound == LogSpec => []LinesHitFile
  <1>1. LogInit => LogInv
    <2> SUFFICES ASSUME LogInit PROVE LogInv
      OBVIOUS
    <2>1. <<>> \in Seq(Nat) /\ <<0>> \in Seq(Nat) /\ Len(<<>>) = 0 /\ Len(<<0>>) = 1 /\ <<0>>[1] = 0
      OBVIOUS
    <2>2. ASSUME NEW l \in Logs
          PROVE  /\ l = "project" => writers[l] = <<>> /\ current[l] = 0
                 /\ l # "project" => writers[l] = <<0>> /\ current[l] = 1
      BY Zenon DEF LogInit
    <2>3. writers \in [Logs -> Seq(Nat)] /\ current \in [Logs -> Nat]
      BY <2>1, Zenon DEF LogInit
    <2>4. LogTypes
      BY <2>3, Zenon DEF LogInit, LogTypes
    <2>5. ASSUME NEW l \in Logs PROVE current[l] \in 0..Len(writers[l])
      <3>1. CASE l = "project"
        BY <2>1, <2>2, <3>1
      <3>2. CASE l # "project"
        <4>1. Len(writers[l]) = 1 /\ current[l] = 1
          BY <2>1, <2>2, <3>2, Zenon
        <4> QED BY <4>1
      <3> QED BY <3>1, <3>2, Zenon
    <2>6. kept.boot = 1 /\ kept.request = 1 /\ Len(writers["app"]) = 1
      BY <2>1, <2>2, TheLogs, Zenon DEF LogInit
    <2>7. Indexed
      BY <2>1, <2>2, <2>5, <2>6, TheLogs DEF Indexed
    <2>8. \A l \in Logs : OpenAtName(l)
      BY <2>1, <2>2, Zenon DEF OpenAtName
    <2>9. LinesHitFile
      BY Zenon DEF LogInit, NoLine, LinesHitFile
    <2> QED BY <2>4, <2>7, <2>8, <2>9, Zenon DEF LogInv
  <1>2. LogInv /\ [LogNext]_logVars => LogInv'
    <2> SUFFICES ASSUME LogInv, [LogNext]_logVars PROVE LogInv'
      OBVIOUS
    <2>1. CASE EnsureApp \/ UNCHANGED logVars
      <3>1. UNCHANGED <<named, files_, writers, current, kept, moved, line>>
        BY <2>1, Zenon DEF EnsureApp, logVars
      <3> QED BY <3>1, Zenon DEF LogInv, LogTypes, Indexed, OpenAtName, LinesHitFile
    <2>2. \A w \in 1..MaxReopens + 1 : w \in Nat
      BY LogAssumption
    <2> QED BY <2>1, <2>2, LogStep, AskStep, GetLoggerStep, RenameStep, RotateStep, ReopenStep,
               RebuildStep, Zenon DEF LogNext
  <1>3. LogInv => LinesHitFile
    BY Zenon DEF LogInv
  <1> QED BY <1>1, <1>2, <1>3, PTL DEF LogSpec
=============================================================================
