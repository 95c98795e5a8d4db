---------------------------- MODULE DnsProviders ----------------------------
(***************************************************************************)
(* The DNS providers: bringing the address records of one host to those of *)
(* its load balancer, and removing them.  PowerDNS and the HTTP provider   *)
(* send one request; Cloudflare lists the records, deletes the unwanted    *)
(* ones and creates the missing ones, one request each.  A deploy, its     *)
(* goroutine and a deletion on another replica may do so at once.          *)
(***************************************************************************)
EXTENDS Naturals, FiniteSets

CONSTANTS
    V4, V6,      \* addresses a load balancer may have
    DnsWorkers,  \* calls of EnsureRecords and DeleteRecords in flight
    MaxDnsCalls  \* bound on the calls of a behaviour

ASSUME DnsAssumption == V4 \cap V6 = {} /\ MaxDnsCalls \in Nat

VARIABLES
    provider, \* the provider configured
    zone,     \* the records of the host
    dnsCall,  \* the calls in flight
    dnsCalls  \* calls still to come

dnsVars == <<provider, zone, dnsCall, dnsCalls>>

ARecords == {[type |-> "A", value |-> v] : v \in V4}
AAAARecords == {[type |-> "AAAA", value |-> v] : v \in V6}
AddressRecords == ARecords \cup AAAARecords
\* A record of another type that someone else keeps for the host.
Foreign == [type |-> "TXT", value |-> "verification"]

NoDnsCall == [op |-> "none", pc |-> "idle", want |-> {}, seen |-> {}, todo |-> {}, solo |-> FALSE]

DnsInit ==
    /\ provider = "none"
    /\ zone = {Foreign}
    /\ dnsCall = [w \in DnsWorkers |-> NoDnsCall]
    /\ dnsCalls = MaxDnsCalls

\* NewProvider.
NewProvider ==
    /\ provider = "none"
    /\ provider' \in {"http", "cloudflare", "powerdns"}
    /\ UNCHANGED <<zone, dnsCall, dnsCalls>>

-----------------------------------------------------------------------------
Resting_(w) == dnsCall[w].pc \in {"idle", "done"}
Advance_(w, pc) == dnsCall' = [dnsCall EXCEPT ![w].pc = pc]

BeginDns(w, op, want) ==
    /\ provider # "none" /\ Resting_(w) /\ dnsCalls > 0
    /\ dnsCalls' = dnsCalls - 1
    /\ dnsCall' = [x \in DnsWorkers |->
                     IF x = w THEN [NoDnsCall EXCEPT !.op = op, !.want = want,
                                      !.pc = IF provider = "cloudflare" THEN "list" ELSE "send",
                                      !.solo = \A y \in DnsWorkers \ {w} : Resting_(y)]
                     ELSE IF Resting_(x) THEN NoDnsCall ELSE [dnsCall[x] EXCEPT !.solo = FALSE]]
    /\ UNCHANGED <<provider, zone>>

EnsureRecords(w, want) == want # {} /\ BeginDns(w, "ensure", want)
DeleteHostRecords(w) == BeginDns(w, "delete", {})

\* A request fails and its error ends the call.
DnsCallFails(w) ==
    /\ ~Resting_(w)
    /\ dnsCall' = [dnsCall EXCEPT ![w] = NoDnsCall]
    /\ UNCHANGED <<provider, zone, dnsCalls>>

\* HTTPProvider: the service replaces or removes the address records.
sendHTTP(w) ==
    /\ provider = "http" /\ dnsCall[w].pc = "send"
    /\ zone' = (zone \ AddressRecords) \cup dnsCall[w].want
    /\ Advance_(w, "done")
    /\ UNCHANGED <<provider, dnsCalls>>

\* PowerDNSProvider: REPLACE for each family there is an address of, DELETE
\* for both families.
patchZone(w) ==
    LET want == dnsCall[w].want
        dropped == IF dnsCall[w].op = "delete" THEN AddressRecords
                   ELSE {r \in AddressRecords : \E x \in want : x.type = r.type}
    IN  /\ provider = "powerdns" /\ dnsCall[w].pc = "send"
        /\ zone' = (zone \ dropped) \cup want
        /\ Advance_(w, "done")
        /\ UNCHANGED <<provider, dnsCalls>>

\* CloudflareProvider: the list decides what to delete and what to create.
listRecords(w) ==
    /\ dnsCall[w].pc = "list"
    /\ dnsCall' = [dnsCall EXCEPT ![w].seen = zone, ![w].pc = "delete",
                                  ![w].todo = (zone \cap AddressRecords) \ dnsCall[w].want]
    /\ UNCHANGED <<provider, zone, dnsCalls>>

\* A record that is gone is an error (DnsCallFails).
deleteRecord(w) ==
    /\ dnsCall[w].pc = "delete"
    /\ \/ \E r \in dnsCall[w].todo \cap zone :
             /\ zone' = zone \ {r}
             /\ dnsCall' = [dnsCall EXCEPT ![w].todo = @ \ {r}]
       \/ /\ dnsCall[w].todo = {}
          /\ dnsCall' = [dnsCall EXCEPT ![w].pc = "create",
                                        ![w].todo = dnsCall[w].want \ dnsCall[w].seen]
          /\ UNCHANGED zone
    /\ UNCHANGED <<provider, dnsCalls>>

\* Mutant: one missing record is created, whatever their number.
createAllButOne(w) ==
    /\ dnsCall[w].pc = "create"
    /\ Advance_(w, "done")
    /\ zone' = IF dnsCall[w].todo = {} THEN zone
               ELSE zone \cup {CHOOSE r \in dnsCall[w].todo : TRUE}
    /\ UNCHANGED <<provider, dnsCalls>>

\* So is creating a record that is there.
createRecord(w) ==
    /\ dnsCall[w].pc = "create"
    /\ \/ \E r \in dnsCall[w].todo \ zone :
             /\ zone' = zone \cup {r}
             /\ dnsCall' = [dnsCall EXCEPT ![w].todo = @ \ {r}]
       \/ dnsCall[w].todo = {} /\ Advance_(w, "done") /\ UNCHANGED zone
    /\ UNCHANGED <<provider, dnsCalls>>

DnsNext ==
    \/ NewProvider
    \/ \E w \in DnsWorkers :
          \/ \E want \in SUBSET AddressRecords : EnsureRecords(w, want)
          \/ DeleteHostRecords(w) \/ DnsCallFails(w)
          \/ sendHTTP(w) \/ patchZone(w)
          \/ listRecords(w) \/ deleteRecord(w) \/ createRecord(w)
DnsSpec == DnsInit /\ [][DnsNext]_dnsVars

-----------------------------------------------------------------------------
Families(want) == {r.type : r \in want}

\* A call that succeeded with no other call beside it or since leaves exactly
\* the address records asked for, and the records of others, whatever failed or
\* overlapping calls left before it.  PowerDNS promises this for the address
\* families it was given only: when a load balancer loses its last IPv6 address
\* the old AAAA records stay (EnsureRecords and DeleteRecords of the three
\* providers).
DnsCallSettles ==
    \A w \in DnsWorkers :
        dnsCall[w].pc = "done" /\ dnsCall[w].solo =>
          LET want == dnsCall[w].want
              mine == IF provider = "powerdns" /\ dnsCall[w].op = "ensure"
                        THEN {r \in AddressRecords : r.type \in Families(want)}
                        ELSE AddressRecords
          IN  zone \cap mine = want /\ Foreign \in zone
=============================================================================
