---------------------------- MODULE MCRequests ----------------------------
(* What answers requests, for TLC in one run: the HTTP surface and the     *)
(* smaller operations of the API server, and the admission webhooks.  The  *)
(* modules share no state, so a behaviour moves one of them, its focus.    *)
EXTENDS Clusters, DnsProviders, Journal, Credentials, Templates, HttpApi, LogFiles,
        Admission, AdmissionRules

CONSTANTS u1, p1

VARIABLE focus

SomeOwner == p1 :> u1

\* Documents of two keys whose values are null, a leaf or a small map.
SomeDocuments ==
    LET maps == {EmptyDoc, [x |-> [leaf |-> 1]]}
        values == {[leaf |-> 1], [leaf |-> Null]} \cup {[map |-> m] : m \in maps}
    IN  UNION {[K -> values] : K \in SUBSET {"image", "env"}}

SomeKinds ==
    [cfg |-> "ConfigRef", app |-> "App", proj |-> "Project", rel |-> "AppRelease",
     bind |-> "ServiceBinding", db |-> "DatabaseInstance"]
SomeNames == DOMAIN SomeKinds

SomeHosts == {<<"io">>, <<"reg", "io">>, <<"a", "reg", "io">>}
SomeHostPatterns == {[wild |-> TRUE, of |-> <<"reg", "io">>], [wild |-> FALSE, of |-> <<"io">>]}
SomeRepos == {<<"reg", "/a">>, <<"reg", "/b">>}
SomeRepoPatterns == {[wild |-> TRUE, of |-> <<"reg">>], [wild |-> FALSE, of |-> <<"reg", "/b">>]}

-----------------------------------------------------------------------------
Parts == {"clusters", "dns", "journal", "credentials", "templates", "http", "logs",
          "admission", "rules"}
mcVars == <<clusterVars, dnsVars, journalVars, credVars, templateVars, httpVars, logVars,
            admissionVars, review, focus>>
Only(part) ==
    /\ focus = part
    /\ part # "clusters" => UNCHANGED clusterVars
    /\ part # "dns" => UNCHANGED dnsVars
    /\ part # "journal" => UNCHANGED journalVars
    /\ part # "credentials" => UNCHANGED credVars
    /\ part # "templates" => UNCHANGED templateVars
    /\ part # "http" => UNCHANGED httpVars
    /\ part # "logs" => UNCHANGED logVars
    /\ part # "admission" => UNCHANGED admissionVars
    /\ part # "rules" => UNCHANGED review
    /\ UNCHANGED focus

RequestsInit ==
    /\ ClustersInit /\ DnsInit /\ JournalInit /\ CredInit /\ TemplatesInit
    /\ HttpInit /\ LogInit /\ AdmissionInit /\ RulesInit
    /\ focus \in Parts

RequestsNext ==
    \/ Only("clusters") /\ ClustersNext
    \/ Only("dns") /\ DnsNext
    \/ Only("journal") /\ JournalNext
    \/ Only("credentials") /\ CredNext
    \/ Only("templates") /\ TemplatesNext
    \/ Only("http") /\ HttpNext
    \/ Only("logs") /\ LogNext
    \/ Only("admission") /\ AdmissionNext
    \/ Only("rules") /\ RulesNext

RequestsSpec == RequestsInit /\ [][RequestsNext]_mcVars
=============================================================================
