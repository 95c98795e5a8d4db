----------------------------- MODULE AppOperator -----------------------------
(***************************************************************************)
(* The requests of AppLifecycle beside the App controller of the operator, *)
(* which both write a Deployment of the app's name: the API its own, the   *)
(* operator one built from the App resource.                               *)
(***************************************************************************)
EXTENDS AppLifecycle

\* reconcileWorkload for the App resource of a, which it retries until it
\* succeeds.  The operator's Deployment has another selector, and a selector
\* cannot be changed: beside the API's Deployment the apply is refused, and
\* without it the operator creates its own, without the label kubeop.app.id.
reconcileWorkload(a) ==
    /\ cr[a] # None
    /\ dep[a] = None
    /\ dep' = [dep EXCEPT ![a] = [rv |-> 1, f |-> [x \in Fields |-> 0]]]
    /\ UNCHANGED <<served, spec, store, objs, cr, addr, names, req, budget, history>>

ComposedNext == Next \/ \E a \in Apps : reconcileWorkload(a)

ComposedSpec == Init /\ [][ComposedNext]_vars

-----------------------------------------------------------------------------
\* When a DELETE of an app has succeeded, with every round trip answered and no
\* other request on the app, the app has no Deployment in the cluster
\* (DeleteApp, "hard delete in K8s").
DeleteRemovesWorkload ==
    \A a \in Apps : row[a] = "deleted" /\ NoRequestOn(a) /\ a \notin blurred => dep[a] = None
=============================================================================
