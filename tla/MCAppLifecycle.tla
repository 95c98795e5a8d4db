--------------------------- MODULE MCAppLifecycle ---------------------------
(* Instances of AppLifecycle for TLC. *)
EXTENDS AppLifecycle, TLC

CONSTANTS a1, a2, h1, q1, q2

Web == [src |-> "image", ports |-> "LoadBalancer", host |-> h1, secrets |-> FALSE,
        ref |-> "", docs |-> <<>>]
Worker == [src |-> "image", ports |-> "none", host |-> None, secrets |-> TRUE,
           ref |-> "", docs |-> <<>>]
Bundle == [src |-> "raw", ports |-> "LoadBalancer", host |-> None, secrets |-> FALSE,
           ref |-> "c1", docs |-> <<"service", "other">>]
MCSpecs == {Web, Worker, Bundle}

Symmetry == Permutations(Apps) \cup Permutations(Procs)
=============================================================================
