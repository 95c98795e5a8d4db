--------------------------- MODULE MCKubeconfigs ---------------------------
(***************************************************************************)
(* Instances of Kubeconfigs for TLC: one user with spaces on up to two     *)
(* clusters and one project of that user.                                  *)
(***************************************************************************)
EXTENDS Kubeconfigs, TLC

CONSTANTS u1, u2, p1, usr, userNs, projectNs

\* u1 and u2 are the spaces of one user on two clusters: the namespace is
\* named after the user, so both have the same namespace name.
MCUserOf == [s \in Scopes |-> usr]
MCNamespaceOf == [s \in Scopes |-> IF s = p1 THEN projectNs ELSE userNs]

Symmetry == Permutations(Secrets) \cup Permutations(Procs)

\* A deleted Secret nothing refers to any more may lend its name to a new one.
\* Names are fresh UUIDs in the program; this keeps the supply from running out
\* in a run about liveness.
Referenced(k) ==
    \/ Recorded(k)
    \/ \E s \in Scopes : holderKc[s] = k
    \/ \E s \in Scopes : rec[s] # None /\ rec[s].id = k
    \/ \E p \in Procs : k \in {req[p].id, req[p].prev, req[p].mine, req[p].existing, req[p].got}

Recycle(k) ==
    /\ sec[k] = "gone" /\ ~Referenced(k)
    /\ sec' = [sec EXCEPT ![k] = "unborn"]
    /\ home' = [home EXCEPT ![k] = None]
    /\ UNCHANGED <<sa, tables, req>>

\* Request goroutines and the token controller keep running; clients need not
\* call and faults need not happen.
RecyclingSpec ==
    /\ Init /\ [][Next \/ \E k \in Secrets : Recycle(k)]_vars
    /\ \A p \in Procs : WF_vars(Step(p))
    /\ \A k \in Secrets : WF_vars(TokenIssued(k) \/ TokenRefused(k)) /\ WF_vars(Recycle(k))

=============================================================================
