------------------------- MODULE KubeconfigsProofs -------------------------
(***************************************************************************)
(* Proofs about Kubeconfigs for every number of scopes, Secrets, requests  *)
(* and every choice of operations and faults.                              *)
(***************************************************************************)
EXTENDS Kubeconfigs, TLAPS

-----------------------------------------------------------------------------
(* The inductive invariant.                                                *)

\* Between creating its Secret and writing the record a request holds a
\* Secret that nobody else knows.
Holding == {"poll", "store", "lookup", "write"}

\* A request working for a scope.
InScope(p) == req[p].scope \in Scopes

Known(k) == \E s \in Scopes : rec[s] # None /\ k \in {rec[s].id, rec[s].secret}

\* Where a request can be, and what it then has in its local variables.
Control(p) ==
    /\ ~Idle(p) => InScope(p) /\ req[p].op \in Ops
    /\ req[p].pc \in {"dropSecret", "clear", "dropRecord", "count",
                      "dropAccount", "dropNamespaces", "softDelete", "forget"}
         => req[p].op \in RevokingOps
    /\ req[p].ret \in {"done", "reread", "find", "confirm", "dropOld",
                       "insertProject"}
    /\ req[p].ret = "dropOld" \/ req[p].pc \in {"dropOld", "report"}
         => req[p].op = "rotate"
    /\ req[p].pc \in {"reread", "find", "confirm", "insertProject"} => req[p].op # "rotate"
    /\ req[p].pc \in {"dropOld", "report", "dropSecret"} => req[p].prev \in Secrets
    /\ req[p].pc = "write" => req[p].existing # "unknown"
    /\ req[p].existing = "unknown" => "lookup" \in Faults

\* The Secret a request holds exists, belongs to its scope, and is referred to
\* by no row and by no other request.
Held(p) ==
    req[p].pc \in Holding =>
        /\ req[p].mine \in Secrets
        /\ sec[req[p].mine] # "unborn"
        /\ home[req[p].mine] = req[p].scope
        /\ ~Known(req[p].mine)
        /\ \A q \in Procs :
              /\ req[p].mine \notin {req[q].id, req[q].prev, req[q].existing}
              /\ q # p /\ req[q].pc \in Holding => req[q].mine # req[p].mine

\* A name that was never minted is referred to by nothing.
UnbornInv ==
    \A k \in Secrets : sec[k] = "unborn" =>
        /\ ~Known(k)
        /\ \A p \in Procs :
              /\ k \notin {req[p].id, req[p].prev, req[p].existing}
              /\ req[p].pc \in Holding => req[p].mine # k

\* Nobody withdraws tokens and no lookup is lost.
NoRevocation == Ops \cap RevokingOps = {} /\ "lookup" \notin Faults

\* What a request is about to store was issued, for its own scope, and still
\* works as long as nothing is revoked.
Issued(p) ==
    req[p].pc \in {"store", "lookup", "write", "insertProject"} =>
        /\ req[p].mine \in Secrets
        /\ sec[req[p].mine] \in {"live", "gone"}
        /\ home[req[p].mine] = req[p].scope
        /\ NoRevocation /\ req[p].pc # "insertProject" => sec[req[p].mine] = "live"

\* The Secret a rotation found is named by no row but the one it was found in,
\* and by no row at all once the rotation has passed its own write.
Rotating(p) ==
    req[p].op = "rotate" /\ ~Idle(p) =>
        /\ req[p].prev \in Secrets /\ req[p].id \in Secrets
        /\ \A s \in Scopes : rec[s] # None /\ rec[s].secret = req[p].prev
                               => s = req[p].scope /\ rec[s].id = req[p].id
        /\ req[p].ret = "dropOld"
        /\ req[p].pc = "write" =>
              req[p].existing = req[p].id \/ ~Recorded(req[p].prev)
        /\ req[p].pc = "dropOld" /\ req[p].existing # "unknown"
             => ~Recorded(req[p].prev)

IInv ==
    /\ TypeOK
    /\ UnbornInv
    /\ StoredTokensWereIssued
    /\ NoRevocation => RecordedTokensLive
    /\ \A p \in Procs : Control(p) /\ Held(p) /\ Issued(p) /\ Rotating(p)

-----------------------------------------------------------------------------
(* What the control operators do to the requests.                          *)

\* The fields of a request that an assignment of its pc alone keeps.
SameLocals(p) ==
    /\ req'[p].op = req[p].op /\ req'[p].scope = req[p].scope
    /\ req'[p].id = req[p].id /\ req'[p].prev = req[p].prev
    /\ req'[p].mine = req[p].mine /\ req'[p].existing = req[p].existing

\* The fields of a request that has just begun or ended.
ClearLocals(p) ==
    /\ req'[p].id = None /\ req'[p].prev = None /\ req'[p].mine = None
    /\ req'[p].existing = None

OnlyRequest(p) ==
    /\ req' \in [Procs -> Request]
    /\ \A q \in Procs : q # p => req'[q] = req[q]

\* An assignment of the pc keeps every other request and every other local.
LEMMA GoFacts ==
    ASSUME TypeOK, NEW p \in Procs, NEW x \in Pcs, Go(p, x)
    PROVE  /\ OnlyRequest(p) /\ SameLocals(p)
           /\ req'[p].pc = x /\ req'[p].ret = req[p].ret
  BY SMTT(40) DEF TypeOK, Go, Request, OnlyRequest, SameLocals

\* So does a subroutine call, which sets the return address as well.
LEMMA CallFacts ==
    ASSUME TypeOK, NEW p \in Procs, NEW x \in Pcs, NEW y \in Pcs, Call(p, x, y)
    PROVE  /\ OnlyRequest(p) /\ SameLocals(p)
           /\ req'[p].pc = x /\ req'[p].ret = y
  BY ZenonT(40) DEF TypeOK, Call, Request, OnlyRequest, SameLocals

\* A request slot that was never used is a well-formed request.
LEMMA BlankType == Blank \in Request
  BY DEF Blank, Request, Pcs, Resting, SecretOrNone

\* Returning to the client forgets the locals (Return, Error).
LEMMA FinishFacts ==
    ASSUME TypeOK, NEW p \in Procs, NEW x \in Resting, NEW k \in SecretOrNone,
           Finish(p, x, k)
    PROVE  /\ OnlyRequest(p) /\ ClearLocals(p)
           /\ req'[p].pc = x /\ req'[p].ret = "done"
  BY BlankType, ZenonT(60) DEF TypeOK, Finish, Request, OnlyRequest, ClearLocals, Blank, Pcs

\* A new request starts with empty locals.
LEMMA BeginFacts ==
    ASSUME TypeOK, NEW p \in Procs, NEW o \in AllOps, NEW s \in Scopes,
           NEW x \in Pcs, NEW y \in Pcs, Begin(p, o, s, x, y)
    PROVE  /\ OnlyRequest(p) /\ ClearLocals(p)
           /\ req'[p].op = o /\ req'[p].scope = s
           /\ req'[p].pc = x /\ req'[p].ret = y
  BY BlankType, Zenon DEF TypeOK, Begin, Request, OnlyRequest, ClearLocals, Blank

-----------------------------------------------------------------------------
(* Steps that mint nothing and record nothing.                             *)

\* Secrets only move forward, rows only lose kubeconfigs or gain issued ones,
\* records only disappear.
StoresAdvance ==
    /\ holder' \in [Scopes -> {"absent", "live", "deleted"}]
    /\ holderKc' \in [Scopes -> SecretOrNone]
    /\ rec' \in [Scopes -> Record \cup {None}]
    /\ sa' \in [Scopes -> BOOLEAN]
    /\ sec' \in [Secrets -> {"unborn", "pending", "live", "gone"}]
    /\ gone' \subseteq Users
    /\ home' = home
    /\ \A k \in Secrets : \/ sec'[k] = sec[k]
                          \/ sec[k] # "unborn" /\ sec'[k] \in {"live", "gone"}
    /\ \A s \in Scopes :
          /\ rec'[s] \in {rec[s], None}
          /\ \/ holderKc'[s] \in {holderKc[s], None}
             \/ /\ holderKc'[s] \in Secrets
                /\ sec[holderKc'[s]] \in {"live", "gone"}
                /\ home[holderKc'[s]] = s
    /\ NoRevocation =>
          \A k \in Secrets : sec[k] = "live" /\ sec'[k] # "live" =>
              /\ ~Recorded(k)
              /\ \A q \in Procs : req[q].pc \in Holding => req[q].mine # k

\* A step that touches no store lets the stores advance trivially.
LEMMA SameStoresAdvance == TypeOK /\ UNCHANGED <<cluster, tables>> => StoresAdvance
  BY DEF TypeOK, StoresAdvance, cluster, tables

\* A step that takes such stores along keeps the invariant when the request
\* that makes it lands in a good place and picks up no foreign Secret.
LEMMA AdvanceStep ==
    ASSUME IInv, StoresAdvance, NEW p \in Procs, OnlyRequest(p),
           Control(p)', Issued(p)', Rotating(p)',
           req'[p].pc \in Holding =>
               /\ req[p].pc \in Holding /\ req'[p].mine = req[p].mine
               /\ req'[p].scope = req[p].scope,
           \A k \in {req'[p].id, req'[p].prev, req'[p].existing} :
               k \in Secrets => Known(k) \/ k \in {req[p].id, req[p].prev, req[p].existing}
    PROVE  IInv'
  <1> USE DEF IInv
  <1>1. TypeOK'
    BY DEF TypeOK, StoresAdvance, OnlyRequest
  <1>2. \A k \in Secrets : Known(k)' => Known(k)
    BY Zenon DEF StoresAdvance, Known
  <1>3. \A k \in Secrets : Recorded(k)' => Recorded(k)
    BY DEF StoresAdvance, Recorded
  <1>4. UnbornInv'
    BY <1>2 DEF UnbornInv, StoresAdvance, OnlyRequest
  <1>5. StoredTokensWereIssued'
    BY ScopesAssumption DEF StoredTokensWereIssued, StoresAdvance, TypeOK, Record, SecretOrNone
  <1>6. NoRevocation => RecordedTokensLive'
    BY DEF RecordedTokensLive, Recorded, StoresAdvance, TypeOK, Record
  <1>7. ASSUME NEW q \in Procs PROVE Control(q)'
    BY <1>7, Zenon DEF Control, OnlyRequest, Idle, InScope
  <1>8. ASSUME NEW q \in Procs PROVE Held(q)'
    BY <1>2, <1>8 DEF Held, OnlyRequest, StoresAdvance, TypeOK
  <1>9. ASSUME NEW q \in Procs PROVE Issued(q)'
    BY <1>9 DEF Issued, OnlyRequest, StoresAdvance, Holding
  <1>10. ASSUME NEW q \in Procs PROVE Rotating(q)'
    BY <1>3, <1>10 DEF Rotating, OnlyRequest, StoresAdvance, Idle
  <1> QED BY <1>1, <1>4, <1>5, <1>6, <1>7, <1>8, <1>9, <1>10

\* The same when no request moves: the token controller, and stuttering.
LEMMA StoresStep == ASSUME IInv, StoresAdvance, req' = req PROVE IInv'
  <1> USE DEF IInv
  <1>1. TypeOK'
    BY DEF TypeOK, StoresAdvance
  <1>2. \A k \in Secrets : (Known(k)' => Known(k)) /\ (Recorded(k)' => Recorded(k))
    BY DEF StoresAdvance, Known, Recorded
  <1>3. UnbornInv'
    BY <1>2, Zenon DEF UnbornInv, StoresAdvance
  <1>4. StoredTokensWereIssued'
    BY ScopesAssumption DEF StoredTokensWereIssued, StoresAdvance, TypeOK, Record, SecretOrNone
  <1>5. NoRevocation => RecordedTokensLive'
    BY DEF RecordedTokensLive, Recorded, StoresAdvance, TypeOK, Record
  <1>6. ASSUME NEW q \in Procs PROVE Control(q)' /\ Held(q)'
    BY <1>2, <1>6 DEF Control, Idle, InScope, Held, StoresAdvance, TypeOK
  <1>7. ASSUME NEW q \in Procs PROVE Issued(q)' /\ Rotating(q)'
    BY <1>2, <1>7 DEF Issued, Rotating, StoresAdvance, Holding, Idle
  <1> QED BY <1>1, <1>3, <1>4, <1>5, <1>6, <1>7

\* A request that returns to its client.
LEMMA FinishStep ==
    ASSUME IInv, StoresAdvance, NEW p \in Procs, NEW x \in Resting,
           NEW k \in SecretOrNone, Finish(p, x, k)
    PROVE  IInv'
  <1>1. /\ OnlyRequest(p) /\ ClearLocals(p)
        /\ req'[p].pc = x /\ req'[p].ret = "done"
    BY FinishFacts DEF IInv
  <1>2. Control(p)' /\ Issued(p)' /\ Rotating(p)' /\ req'[p].pc \notin Holding
    BY <1>1, ScopesAssumption, Zenon
    DEF Control, Issued, Rotating, Idle, Resting, ClearLocals, Holding
  <1>3. \A k1 \in {req'[p].id, req'[p].prev, req'[p].existing} : k1 \notin Secrets
    BY <1>1, ScopesAssumption DEF ClearLocals
  <1> QED BY <1>1, <1>2, <1>3, AdvanceStep, Zenon

\* A request that moves on with its local variables as they are.
LEMMA MoveStep ==
    ASSUME IInv, StoresAdvance, NEW p \in Procs, ~Idle(p),
           OnlyRequest(p), SameLocals(p), Control(p)', Issued(p)',
           req'[p].pc \in Holding => req[p].pc \in Holding,
           req[p].op = "rotate" =>
              /\ req'[p].ret = req[p].ret
              /\ req'[p].pc = "write" => FALSE
              /\ req'[p].pc = "dropOld" => FALSE
    PROVE  IInv'
  <1>1. Rotating(p)'
    <2> SUFFICES ASSUME req'[p].op = "rotate", ~Idle(p)' PROVE Rotating(p)'
      BY Zenon DEF Rotating
    <2>1. Rotating(p) /\ req[p].op = "rotate"
      BY DEF IInv, SameLocals
    <2>2. \A s \in Scopes : rec'[s] # None /\ rec'[s].secret = req[p].prev
                               => s = req[p].scope /\ rec'[s].id = req[p].id
      BY <2>1 DEF Rotating, StoresAdvance
    <2> QED BY <2>1, <2>2, Zenon DEF Rotating, SameLocals, Idle
  <1>2. \A k \in {req'[p].id, req'[p].prev, req'[p].existing} :
            k \in {req[p].id, req[p].prev, req[p].existing}
    BY Zenon DEF SameLocals
  <1> QED BY <1>1, <1>2, AdvanceStep, Zenon DEF SameLocals

-----------------------------------------------------------------------------
(* The two steps that bring a Secret in: minting it and recording it.      *)

\* mintServiceAccountSecret creates a Secret under a name nothing refers to.
LEMMA MintCreateStep == ASSUME IInv, NEW p \in Procs, MintCreate(p) PROVE IInv'
  <1> USE DEF IInv
  <1>1. PICK k \in Secrets :
            /\ sec[k] = "unborn"
            /\ sec' = [sec EXCEPT ![k] = "pending"]
            /\ home' = [home EXCEPT ![k] = req[p].scope]
            /\ req' = [req EXCEPT ![p].pc = "poll", ![p].mine = k]
    BY Zenon DEF MintCreate
  <1>2. req[p].pc = "mint" /\ InScope(p) /\ UNCHANGED <<sa, tables>>
    BY DEF MintCreate, At, Control, Idle, Resting
  <1>3. /\ OnlyRequest(p)
        /\ req'[p].pc = "poll" /\ req'[p].mine = k /\ req'[p].ret = req[p].ret
        /\ req'[p].op = req[p].op /\ req'[p].scope = req[p].scope
        /\ req'[p].id = req[p].id /\ req'[p].prev = req[p].prev
        /\ req'[p].existing = req[p].existing
    <2>1. req'[p] = [req[p] EXCEPT !.pc = "poll", !.mine = k]
      BY <1>1 DEF TypeOK
    <2>2. \A q \in Procs : q # p => req'[q] = req[q]
      BY <1>1 DEF TypeOK
    <2>3. req'[p] \in Request
      BY <2>1, ZenonT(40) DEF TypeOK, Request, Pcs, SecretOrNone
    <2>4. req' \in [Procs -> Request]
      BY <1>1, <2>2, <2>3 DEF TypeOK
    <2> QED BY <2>1, <2>2, <2>4 DEF TypeOK, Request, OnlyRequest
  <1>4. TypeOK'
    BY <1>1, <1>2, <1>3 DEF TypeOK, OnlyRequest, InScope, tables
  <1>5. \A j \in Secrets : (Known(j)' <=> Known(j)) /\ (Recorded(j)' <=> Recorded(j))
    BY <1>2 DEF Known, Recorded, tables
  <1>6. UnbornInv'
    BY <1>1, <1>3, <1>5 DEF UnbornInv, TypeOK, OnlyRequest, Holding
  <1>7. StoredTokensWereIssued'
    BY <1>1, <1>2, ScopesAssumption
    DEF StoredTokensWereIssued, TypeOK, Record, SecretOrNone, tables
  <1>8. ASSUME NEW q \in Procs PROVE Control(q)'
    BY <1>2, <1>3, <1>8, Zenon DEF Control, OnlyRequest, Idle, InScope, Resting
  <1>9. ASSUME NEW q \in Procs PROVE Held(q)'
    BY <1>1, <1>2, <1>3, <1>5, <1>9 DEF Held, UnbornInv, OnlyRequest, TypeOK, InScope, Holding
  <1>10. ASSUME NEW q \in Procs PROVE Issued(q)'
    BY <1>1, <1>3, <1>10, Zenon DEF Issued, OnlyRequest, TypeOK
  <1>11. ASSUME NEW q \in Procs PROVE Rotating(q)'
    BY <1>2, <1>3, <1>5, <1>11 DEF Rotating, OnlyRequest, Idle, Resting, tables
  <1>12. NoRevocation => RecordedTokensLive'
    BY <1>1, <1>2 DEF RecordedTokensLive, TypeOK, Record, tables
  <1> QED BY <1>4, <1>6, <1>7, <1>8, <1>9, <1>10, <1>11, <1>12

\* Where WriteRecord leaves the request.
Written(p) ==
    \/ /\ ClearLocals(p) /\ req'[p].pc \in {"done", "failed"} /\ req'[p].ret = "done"
    \/ /\ SameLocals(p) /\ req'[p].ret = req[p].ret /\ req'[p].pc = req[p].ret
       /\ req[p].ret # "done"

\* Recording the minted Secret: UPDATE of the row that was looked up, or INSERT
\* under the unique index.  This is the step that supersedes the old Secret.
LEMMA WriteRecordStep == ASSUME IInv, NEW p \in Procs, WriteRecord(p) PROVE IInv'
  <1> USE DEF IInv
  <1> DEFINE s == req[p].scope
             k == req[p].mine
             e == req[p].existing
  <1>1. /\ req[p].pc = "write" /\ s \in Scopes /\ k \in Secrets
        /\ e \in SecretOrNone /\ ~Known(k)
        /\ UNCHANGED <<holder, holderKc, gone, cluster>>
    BY Zenon DEF WriteRecord, At, Control, Held, Holding, Idle, Resting, InScope, TypeOK, Request
  <1>2. \/ Resume(p) \/ Error(p)
    BY Zenon DEF WriteRecord
  <1>3. OnlyRequest(p) /\ Written(p)
    <2>1. CASE Error(p)
      BY <2>1, FinishFacts DEF Error, Written, Resting, SecretOrNone
    <2>2. CASE Resume(p) /\ req[p].ret = "done"
      BY <2>2, <1>1, FinishFacts, Zenon DEF Resume, Return, Written, Resting, SecretOrNone
    <2>3. CASE Resume(p) /\ req[p].ret # "done"
      <3>1. Go(p, req[p].ret) /\ req[p].ret \in Pcs
        BY <2>3, Zenon DEF Resume, Control, Pcs, Resting
      <3> QED BY <3>1, <2>3, GoFacts, Zenon DEF Written
    <2> QED BY <1>2, <2>1, <2>2, <2>3
  <1>4. \/ rec' = rec /\ (e # None => rec[s] = None \/ rec[s].id # e)
                    /\ (e = None => rec[s] # None /\ Error(p))
        \/ e # None /\ rec[s] # None /\ rec[s].id = e
              /\ rec' = [rec EXCEPT ![s] = [id |-> e, secret |-> k]]
        \/ e = None /\ rec[s] = None /\ rec' = [rec EXCEPT ![s] = [id |-> k, secret |-> k]]
    BY Zenon DEF WriteRecord
  <1>5. \A t \in Scopes : \/ rec'[t] = rec[t]
                          \/ /\ t = s /\ rec'[t] # None /\ rec'[t] \in Record
                             /\ rec'[t].secret = k
                             /\ rec'[t].id = k \/ (rec[t] # None /\ rec'[t].id = rec[t].id)
    <2> SUFFICES ASSUME NEW t \in Scopes, rec'[t] # rec[t]
                 PROVE  /\ t = s /\ rec'[t] # None /\ rec'[t] \in Record
                        /\ rec'[t].secret = k
                        /\ rec'[t].id = k \/ (rec[t] # None /\ rec'[t].id = rec[t].id)
      OBVIOUS
    <2>1. None \notin Record
      BY ScopesAssumption
    <2>2. t = s
      BY <1>1, <1>4, Zenon DEF TypeOK
    <2>3. CASE e # None
      BY <1>1, <1>4, <2>1, <2>2, <2>3, SMTT(40) DEF TypeOK, Record, SecretOrNone
    <2>4. CASE e = None
      BY <1>1, <1>4, <2>1, <2>2, <2>4 DEF TypeOK, Record, SecretOrNone
    <2> QED BY <2>3, <2>4, Zenon
  <1>6. TypeOK'
    BY <1>1, <1>3, <1>4, SMTT(40) DEF TypeOK, OnlyRequest, Record, SecretOrNone, cluster
  <1>7. \A j \in Secrets : /\ Known(j)' => Known(j) \/ j = k
                           /\ Recorded(j)' => Recorded(j) \/ j = k
    BY <1>5, Zenon DEF Known, Recorded
  <1>8. req'[p].pc \notin Holding
    BY <1>3, Zenon DEF Written, Control, Holding
  <1>9. UnbornInv'
    BY <1>1, <1>3, <1>7, <1>8, ScopesAssumption, SMTT(40)
    DEF UnbornInv, OnlyRequest, Written, ClearLocals, SameLocals, cluster, Held, Holding
  <1>10. StoredTokensWereIssued'
    BY <1>1, <1>5, SMTT(40) DEF StoredTokensWereIssued, Issued, cluster
  <1>11. ASSUME NEW q \in Procs PROVE Control(q)'
    <2>1. CASE q # p
      BY <1>3, <1>11, <2>1, Zenon DEF Control, OnlyRequest, Idle, InScope
    <2>2. CASE q = p /\ req'[p].pc \in Resting
      BY <1>1, <1>3, <2>2, ScopesAssumption, Zenon
      DEF Control, Idle, Resting, Written, ClearLocals, SameLocals
    <2>3. CASE q = p /\ req'[p].pc \notin Resting
      BY <1>1, <1>3, <2>3, Zenon
      DEF Control, Idle, Resting, Written, SameLocals, InScope, Rotating
    <2> QED BY <2>1, <2>2, <2>3
  <1>12. ASSUME NEW q \in Procs PROVE Held(q)'
    BY <1>1, <1>3, <1>7, <1>8, <1>12, ScopesAssumption, SMTT(40)
    DEF Held, OnlyRequest, Written, ClearLocals, SameLocals, cluster, Holding
  <1>13. ASSUME NEW q \in Procs PROVE Issued(q)'
    BY <1>1, <1>3, <1>13, SMTT(40) DEF Issued, OnlyRequest, Written, ClearLocals, SameLocals, cluster, Control
  <1>14. ASSUME NEW q \in Procs, q # p PROVE Rotating(q)'
    BY <1>1, <1>3, <1>5, <1>7, <1>14, SMTT(40) DEF Rotating, OnlyRequest, Idle, Held, Holding
  <1>15. Rotating(p)'
    <2> SUFFICES ASSUME req'[p].op = "rotate", ~Idle(p)' PROVE Rotating(p)'
      BY Zenon DEF Rotating
    <2>1. SameLocals(p) /\ req'[p].ret = req[p].ret /\ req'[p].pc = req[p].ret
      BY <1>3, Zenon DEF Written, Idle, Resting
    <2>2. Rotating(p) /\ req[p].op = "rotate" /\ ~Idle(p)
      BY <1>1, <2>1, Zenon DEF SameLocals, Idle, Resting
    <2>3. req[p].prev # k
      BY <1>1, Zenon DEF Held, Holding
    <2>4. \A t \in Scopes : rec'[t] # None /\ rec'[t].secret = req[p].prev
                               => rec'[t] = rec[t]
      BY <1>5, <2>3, Zenon
    <2>5. ~Recorded(req[p].prev)'
      <3> SUFFICES ASSUME NEW t \in Scopes, rec'[t] # None, rec'[t].secret = req[p].prev
                   PROVE  FALSE
        BY <2>1, Zenon DEF Recorded, SameLocals
      <3>1. rec'[t] = rec[t] /\ t = s /\ rec[t].id = req[p].id
        BY <2>2, <2>4, Zenon DEF Rotating
      <3>2. e = req[p].id
        BY <1>1, <2>2, <3>1, Zenon DEF Rotating, Recorded
      <3>3. e # None
        BY <2>2, <3>2, ScopesAssumption, Zenon DEF Rotating
      <3> QED BY <1>4, <2>3, <3>1, <3>2, <3>3, SMTT(40) DEF TypeOK, Record
    <2> QED BY <2>1, <2>2, <2>4, <2>5, Zenon DEF Rotating, SameLocals
  <1>16. NoRevocation => RecordedTokensLive'
    BY <1>1, <1>5, Zenon DEF RecordedTokensLive, Issued, cluster
  <1> QED BY <1>6, <1>9, <1>10, <1>11, <1>12, <1>13, <1>14, <1>15, <1>16

-----------------------------------------------------------------------------
(* Requests begin.                                                         *)

\* Starting a request with an explicit record of locals.
LEMMA AssignFacts ==
    ASSUME TypeOK, NEW p \in Procs, NEW r \in Request, req' = [req EXCEPT ![p] = r]
    PROVE  OnlyRequest(p) /\ req'[p] = r
  BY DEF TypeOK, OnlyRequest

\* A request that begins with empty locals (ensure, bootstrap, create, renew).
LEMMA BeginStep ==
    ASSUME IInv, UNCHANGED <<cluster, tables>>, NEW p \in Procs, NEW o \in Ops,
           o # "rotate", NEW s \in Scopes, NEW x \in {"provision", "find", "renew"},
           NEW y \in {"done", "reread", "insertProject"}, Begin(p, o, s, x, y)
    PROVE  IInv'
  <1>1. o \in AllOps /\ x \in Pcs /\ y \in Pcs
    BY OpsAssumption DEF Pcs, Resting
  <1>2. /\ OnlyRequest(p) /\ ClearLocals(p)
        /\ req'[p].op = o /\ req'[p].scope = s
        /\ req'[p].pc = x /\ req'[p].ret = y
    BY <1>1, BeginFacts, Zenon DEF IInv
  <1>3. Control(p)' /\ Issued(p)' /\ Rotating(p)' /\ req'[p].pc \notin Holding
    BY <1>2, ScopesAssumption, Zenon
    DEF Control, Issued, Rotating, Idle, Resting, ClearLocals, Holding, InScope
  <1>4. \A k \in {req'[p].id, req'[p].prev, req'[p].existing} : k \notin Secrets
    BY <1>2, ScopesAssumption, Zenon DEF ClearLocals
  <1>5. StoresAdvance
    BY SameStoresAdvance DEF IInv
  <1> QED BY <1>2, <1>3, <1>4, <1>5, AdvanceStep, Zenon

\* A request that begins with the row it read.
LEMMA BeginWithRow ==
    ASSUME IInv, UNCHANGED <<cluster, tables>>, NEW p \in Procs, NEW s \in Scopes,
           rec[s] # None, NEW r \in Request, req' = [req EXCEPT ![p] = r],
           r.op \in Ops, r.scope = s, r.id = rec[s].id, r.prev = rec[s].secret,
           r.existing = None,
           \/ r.op = "rotate" /\ r.pc = "renew" /\ r.ret = "dropOld"
           \/ r.op = "delete" /\ r.pc = "dropSecret" /\ r.ret = "done"
    PROVE  IInv'
  <1>1. OnlyRequest(p) /\ req'[p] = r
    BY AssignFacts, Zenon DEF IInv
  <1>2. rec[s].id \in Secrets /\ rec[s].secret \in Secrets
    BY Zenon DEF IInv, TypeOK, Record
  <1>3. Known(rec[s].id) /\ Known(rec[s].secret)
    BY Zenon DEF Known
  <1>4. Control(p)' /\ Issued(p)' /\ req'[p].pc \notin Holding
    BY <1>1, <1>2, ScopesAssumption, Zenon
    DEF Control, Issued, Idle, Resting, Holding, InScope, RevokingOps
  <1>5. \A t \in Scopes : rec[t] # None /\ rec[t].secret = rec[s].secret => t = s
    BY DEF IInv, StoredTokensWereIssued
  <1>6. Rotating(p)'
    BY <1>1, <1>2, <1>5, Zenon DEF Rotating, tables
  <1>7. StoresAdvance
    BY SameStoresAdvance, Zenon DEF IInv
  <1> QED BY <1>1, <1>2, <1>3, <1>4, <1>6, <1>7, ScopesAssumption, AdvanceStep

\* Every client call keeps the invariant.
LEMMA ClientStep == ASSUME IInv, NEW p \in Procs, Client(p) PROVE IInv'
  <1>1. CASE EnsureUser(p)
    <2>1. PICK s \in UserScopes, x \in {"provision", "find"} : Begin(p, "ensure", s, x, "reread")
      BY <1>1, Zenon DEF EnsureUser
    <2> QED BY <1>1, <2>1, BeginStep, ScopesAssumption, Zenon DEF EnsureUser
  <1>2. CASE EnsureProject(p)
    BY <1>2, BeginStep, ScopesAssumption DEF EnsureProject, ProjectScopes
  <1>3. CASE BootstrapUser(p)
    <2>1. PICK s \in UserScopes :
            \/ Begin(p, "bootstrap", s, "provision", "reread")
            \/ /\ holderKc[s] # None
               /\ req' = [req EXCEPT ![p] = [Blank EXCEPT
                      !.op = "bootstrap", !.scope = s, !.pc = "done", !.got = holderKc[s]]]
      BY <1>3, Zenon DEF BootstrapUser
    <2>2. CASE Begin(p, "bootstrap", s, "provision", "reread")
      BY <1>3, <2>2, BeginStep, ScopesAssumption DEF BootstrapUser
    <2>3. CASE req' = [req EXCEPT ![p] = [Blank EXCEPT
                      !.op = "bootstrap", !.scope = s, !.pc = "done", !.got = holderKc[s]]]
      <3> DEFINE r == [Blank EXCEPT !.op = "bootstrap", !.scope = s, !.pc = "done",
                                    !.got = holderKc[s]]
      <3>1. holderKc[s] \in SecretOrNone /\ s \in Scopes
        BY ScopesAssumption, Zenon DEF IInv, TypeOK
      <3>2. r \in Request /\ r.pc = "done" /\ r.ret = "done" /\ r.id = None
            /\ r.prev = None /\ r.existing = None
        BY <3>1, Zenon DEF Blank, Request, Pcs, Resting, AllOps, SecretOrNone
      <3> HIDE DEF r
      <3>3. OnlyRequest(p) /\ req'[p] = r
        BY <2>3, <3>2, AssignFacts, Zenon DEF IInv, r
      <3>4. Control(p)' /\ Issued(p)' /\ Rotating(p)' /\ req'[p].pc \notin Holding
        BY <3>2, <3>3, ScopesAssumption, Zenon DEF Control, Issued, Rotating, Idle, Resting, Holding
      <3>5. StoresAdvance
        BY <1>3, SameStoresAdvance DEF IInv, BootstrapUser
      <3> QED BY <3>2, <3>3, <3>4, <3>5, ScopesAssumption, AdvanceStep, Zenon
    <2> QED BY <2>1, <2>2, <2>3
  <1>4. CASE CreateProject(p)
    BY <1>4, BeginStep, ScopesAssumption, Zenon DEF CreateProject, ProjectScopes
  <1>5. CASE RenewKubeconfig(p)
    BY <1>5, BeginStep, ScopesAssumption DEF RenewKubeconfig
  <1>6. CASE RotateBegin(p)
    <2>1. PICK s \in Scopes :
            /\ rec[s] # None
            /\ req' = [req EXCEPT ![p] = [Blank EXCEPT
                  !.op = "rotate", !.scope = s, !.pc = "renew", !.ret = "dropOld",
                  !.id = rec[s].id, !.prev = rec[s].secret]]
      BY <1>6, Zenon DEF RotateBegin
    <2> DEFINE r == [Blank EXCEPT
                  !.op = "rotate", !.scope = s, !.pc = "renew", !.ret = "dropOld",
                  !.id = rec[s].id, !.prev = rec[s].secret]
    <2>2. rec[s].id \in Secrets /\ rec[s].secret \in Secrets
      BY <2>1 DEF IInv, TypeOK, Record
    <2>3. /\ r \in Request /\ r.op = "rotate" /\ r.pc = "renew" /\ r.ret = "dropOld"
          /\ r.scope = s /\ r.id = rec[s].id /\ r.prev = rec[s].secret
          /\ r.existing = None
      BY <2>2, Zenon DEF Blank, Request, Pcs, Resting, AllOps, SecretOrNone
    <2> HIDE DEF r
    <2>4. req' = [req EXCEPT ![p] = r]
      BY <2>1 DEF r
    <2>5. "rotate" \in Ops /\ UNCHANGED <<cluster, tables>>
      BY <1>6 DEF RotateBegin
    <2>6. r.op \in Ops
      BY <2>3, <2>5, Zenon
    <2> QED BY <2>1, <2>3, <2>4, <2>5, <2>6, BeginWithRow, Zenon
  <1>7. CASE DeleteBegin(p)
    <2>1. PICK s \in Scopes :
            /\ rec[s] # None
            /\ req' = [req EXCEPT ![p] = [Blank EXCEPT
                  !.op = "delete", !.scope = s, !.pc = "dropSecret",
                  !.id = rec[s].id, !.prev = rec[s].secret]]
      BY <1>7, Zenon DEF DeleteBegin
    <2> DEFINE r == [Blank EXCEPT
                  !.op = "delete", !.scope = s, !.pc = "dropSecret",
                  !.id = rec[s].id, !.prev = rec[s].secret]
    <2>2. rec[s].id \in Secrets /\ rec[s].secret \in Secrets
      BY <2>1 DEF IInv, TypeOK, Record
    <2>3. /\ r \in Request /\ r.op = "delete" /\ r.pc = "dropSecret" /\ r.ret = "done"
          /\ r.scope = s /\ r.id = rec[s].id /\ r.prev = rec[s].secret
          /\ r.existing = None
      BY <2>2, Zenon DEF Blank, Request, Pcs, Resting, AllOps, SecretOrNone
    <2> HIDE DEF r
    <2>4. req' = [req EXCEPT ![p] = r]
      BY <2>1 DEF r
    <2>5. "delete" \in Ops /\ UNCHANGED <<cluster, tables>>
      BY <1>7 DEF DeleteBegin
    <2>6. r.op \in Ops
      BY <2>3, <2>5
    <2> QED BY <2>1, <2>3, <2>4, <2>5, <2>6, BeginWithRow, Zenon
  <1>8. CASE DeleteProjectBegin(p) \/ DeleteUserBegin(p)
    <2>1. PICK s \in Scopes, o \in Ops \cap {"deleteProject", "deleteUser"}, d \in SUBSET Scopes :
            req' = [req EXCEPT ![p] = [Blank EXCEPT
                      !.op = o, !.scope = s, !.pc = "dropNamespaces", !.todo = d]]
      <3>1. CASE DeleteProjectBegin(p)
        BY <3>1, Zenon DEF DeleteProjectBegin, ProjectScopes
      <3>2. CASE DeleteUserBegin(p)
        <4>1. PICK s \in UserScopes :
                req' = [req EXCEPT ![p] = [Blank EXCEPT
                  !.op = "deleteUser", !.scope = s, !.pc = "dropNamespaces",
                  !.todo = {t \in UserScopes :
                            UserOf[t] = UserOf[s] /\ holder[t] # "absent"}]]
          BY <3>2, Zenon DEF DeleteUserBegin
        <4>2. {t \in UserScopes : UserOf[t] = UserOf[s] /\ holder[t] # "absent"} \in SUBSET Scopes
          BY ScopesAssumption, Zenon
        <4> QED BY <3>2, <4>1, <4>2, ScopesAssumption, Zenon DEF DeleteUserBegin
      <3> QED BY <1>8, <3>1, <3>2, Zenon
    <2> DEFINE r == [Blank EXCEPT
                      !.op = o, !.scope = s, !.pc = "dropNamespaces", !.todo = d]
    <2>2. /\ r \in Request /\ r.op = o /\ r.scope = s /\ r.pc = "dropNamespaces"
          /\ r.ret = "done" /\ r.id = None /\ r.prev = None /\ r.existing = None
      BY OpsAssumption, Zenon DEF Blank, Request, Pcs, Resting, AllOps, SecretOrNone
    <2> HIDE DEF r
    <2>3. OnlyRequest(p) /\ req'[p] = r
      BY <2>1, <2>2, AssignFacts, Zenon DEF IInv, r
    <2>4. Control(p)' /\ Issued(p)' /\ Rotating(p)' /\ req'[p].pc \notin Holding
      BY <2>2, <2>3, ScopesAssumption, Zenon
      DEF Control, Issued, Rotating, Idle, Resting, Holding, InScope, RevokingOps
    <2>5. StoresAdvance
      BY <1>8, SameStoresAdvance, Zenon DEF IInv, DeleteProjectBegin, DeleteUserBegin
    <2> QED BY <2>2, <2>3, <2>4, <2>5, ScopesAssumption, AdvanceStep
  <1> QED BY <1>1, <1>2, <1>3, <1>4, <1>5, <1>6, <1>7, <1>8 DEF Client

-----------------------------------------------------------------------------
(* Requests that are under way.                                            *)

\* A request that is under way goes to x, which is neither a place where it
\* would hold a Secret nor the end of a rotation.
LEMMA GoStep ==
    ASSUME IInv, StoresAdvance, NEW p \in Procs, ~Idle(p),
           NEW x \in Pcs \ {"poll", "store", "lookup", "write", "insertProject", "dropOld"},
           Go(p, x),
           x \in {"dropSecret", "clear", "dropRecord", "count", "dropAccount",
                  "dropNamespaces", "softDelete", "forget"} => req[p].op \in RevokingOps,
           x = "report" => req[p].pc = "dropOld",
           x \in {"reread", "find", "confirm"} => req[p].op # "rotate",
           x # "dropSecret"
    PROVE  IInv'
  <1>1. OnlyRequest(p) /\ SameLocals(p) /\ req'[p].pc = x /\ req'[p].ret = req[p].ret
    BY GoFacts, Zenon DEF IInv
  <1>2. Control(p) /\ InScope(p) /\ req[p].op \in Ops
    BY Zenon DEF IInv, Control
  <1>3. Control(p)'
    BY <1>1, <1>2, Zenon DEF Control, SameLocals, Idle, InScope
  <1>4. Issued(p)'
    BY <1>1, Zenon DEF Issued
  <1> QED BY <1>1, <1>3, <1>4, MoveStep, Zenon DEF Holding

\* Applying namespace and RBAC only creates the ServiceAccount.
LEMMA ApplyNamespaceStep == ASSUME IInv, NEW p \in Procs, ApplyNamespace(p) PROVE IInv'
  <1>1. StoresAdvance
    BY Zenon DEF IInv, TypeOK, StoresAdvance, ApplyNamespace, tables
  <1>2. ~Idle(p)
    BY Zenon DEF ApplyNamespace, At, Idle, Resting
  <1> QED BY <1>1, <1>2, GoStep, Zenon DEF ApplyNamespace, Pcs

\* Renew*Kubeconfig reads the row and goes on to mint, or fails.
LEMMA RenewBeginStep == ASSUME IInv, NEW p \in Procs, RenewBegin(p) PROVE IInv'
  <1>1. StoresAdvance
    BY SameStoresAdvance, Zenon DEF IInv, RenewBegin
  <1>2. ~Idle(p)
    BY DEF RenewBegin, At, Idle, Resting
  <1>3. CASE Go(p, "mint")
    BY <1>1, <1>2, <1>3, GoStep, Zenon DEF Pcs
  <1>4. CASE Error(p)
    BY <1>1, <1>4, FinishStep DEF Error, Resting, SecretOrNone
  <1> QED BY <1>3, <1>4 DEF RenewBegin

\* The poll ends when the token is there, so what is stored next was issued.
LEMMA MintReadyStep == ASSUME IInv, NEW p \in Procs, MintReady(p) PROVE IInv'
  <1> DEFINE x == IF req[p].op = "create" THEN "lookup" ELSE "store"
  <1>1. StoresAdvance
    BY SameStoresAdvance, Zenon DEF IInv, MintReady
  <1>2. /\ ~Idle(p) /\ req[p].pc = "poll" /\ sec[req[p].mine] = "live"
        /\ Go(p, x) /\ x \in {"lookup", "store"} /\ x \in Pcs
    BY Zenon DEF MintReady, At, Idle, Resting, Pcs
  <1> HIDE DEF x
  <1>3. OnlyRequest(p) /\ SameLocals(p) /\ req'[p].pc = x /\ req'[p].ret = req[p].ret
    BY <1>2, GoFacts, Zenon DEF IInv
  <1>4. Control(p)'
    BY <1>2, <1>3, Zenon DEF IInv, Control, SameLocals, Idle, InScope
  <1>5. Held(p) /\ sec' = sec /\ home' = home
    BY Zenon DEF IInv, MintReady, cluster
  <1>6. Issued(p)'
    BY <1>2, <1>3, <1>5, Zenon DEF Issued, Held, Holding, SameLocals
  <1> QED BY <1>1, <1>2, <1>3, <1>4, <1>6, MoveStep, Zenon DEF Holding

\* The row copy receives an issued Secret of its own scope.
LEMMA StoreInRowStep == ASSUME IInv, NEW p \in Procs, StoreInRow(p) PROVE IInv'
  <1>1. /\ ~Idle(p) /\ req[p].pc = "store" /\ Go(p, "lookup")
        /\ req[p].scope \in Scopes /\ Issued(p)
        /\ UNCHANGED <<rec, gone, cluster>>
    BY Zenon DEF StoreInRow, At, Idle, Resting, IInv, Control, InScope
  <1>2. StoresAdvance
    <2>1. /\ req[p].mine \in Secrets /\ sec[req[p].mine] \in {"live", "gone"}
          /\ home[req[p].mine] = req[p].scope
      BY <1>1, Zenon DEF Issued
    <2>2. holderKc' = [holderKc EXCEPT ![req[p].scope] = req[p].mine]
      BY DEF StoreInRow
    <2>3. holder' \in [Scopes -> {"absent", "live", "deleted"}]
      BY Zenon DEF StoreInRow, IInv, TypeOK
    <2> QED BY <1>1, <2>1, <2>2, <2>3, Zenon DEF StoresAdvance, IInv, TypeOK, SecretOrNone, cluster
  <1>3. OnlyRequest(p) /\ SameLocals(p) /\ req'[p].pc = "lookup" /\ req'[p].ret = req[p].ret
    BY <1>1, GoFacts, Zenon DEF IInv, Pcs
  <1>4. Control(p)' /\ Issued(p)'
    BY <1>1, <1>3, Zenon DEF IInv, Control, SameLocals, Idle, InScope, Issued, cluster
  <1> QED BY <1>1, <1>2, <1>3, <1>4, MoveStep, Zenon DEF Holding

\* The lookup remembers the identity of the row of the scope, if there is one.
LEMMA LookupRecordStep == ASSUME IInv, NEW p \in Procs, LookupRecord(p) PROVE IInv'
  <1> DEFINE e == IF rec[req[p].scope] = None THEN None ELSE rec[req[p].scope].id
  <1>1. StoresAdvance
    BY SameStoresAdvance DEF IInv, LookupRecord
  <1>2. /\ ~Idle(p) /\ req[p].pc = "lookup" /\ req[p].scope \in Scopes
        /\ UNCHANGED <<cluster, tables>>
        /\ req' = [req EXCEPT ![p].pc = "write", ![p].existing = e]
    BY DEF LookupRecord, At, Idle, Resting, IInv, Control, InScope
  <1>3. e \in SecretOrNone /\ (e \in Secrets => Known(e))
    BY <1>2, ScopesAssumption, Zenon DEF IInv, TypeOK, Record, Known, SecretOrNone
  <1>4. rec[req[p].scope] # None => e = rec[req[p].scope].id
    BY Zenon
  <1> HIDE DEF e
  <1>5. req'[p] = [req[p] EXCEPT !.pc = "write", !.existing = e]
    BY <1>2 DEF IInv, TypeOK
  <1>6. /\ OnlyRequest(p)
        /\ req'[p].pc = "write" /\ req'[p].existing = e /\ req'[p].ret = req[p].ret
        /\ req'[p].op = req[p].op /\ req'[p].scope = req[p].scope
        /\ req'[p].id = req[p].id /\ req'[p].prev = req[p].prev
        /\ req'[p].mine = req[p].mine
    <2>1. \A q \in Procs : q # p => req'[q] = req[q]
      BY <1>2 DEF IInv, TypeOK
    <2>2. req'[p] \in Request
      BY <1>3, <1>5, ZenonT(40) DEF IInv, TypeOK, Request, Pcs, SecretOrNone
    <2>3. req' \in [Procs -> Request]
      BY <1>2, <2>1, <2>2 DEF IInv, TypeOK
    <2> QED BY <1>5, <2>1, <2>3 DEF IInv, TypeOK, Request, OnlyRequest
  <1>7. Control(p)'
    BY <1>2, <1>3, <1>6, ScopesAssumption, Zenon DEF IInv, Control, Idle, InScope, Resting, SecretOrNone
  <1>8. Issued(p)'
    BY <1>2, <1>6 DEF IInv, Issued, cluster
  <1>9. Rotating(p)'
    BY <1>2, <1>4, <1>6, ZenonT(60) DEF IInv, Rotating, Idle, Resting, Recorded, tables
  <1> QED BY <1>1, <1>2, <1>3, <1>6, <1>7, <1>8, <1>9, AdvanceStep, Zenon DEF Holding

\* A lost lookup leaves the record alone and marks the request.
LEMMA LookupSwallowedStep == ASSUME IInv, NEW p \in Procs, LookupSwallowed(p) PROVE IInv'
  <1>1. StoresAdvance
    BY SameStoresAdvance DEF IInv, LookupSwallowed
  <1>2. /\ ~Idle(p) /\ req[p].pc = "lookup" /\ "lookup" \in Faults
        /\ req[p].scope \in Scopes /\ req[p].op \in Ops
        /\ UNCHANGED <<cluster, tables>>
    BY DEF LookupSwallowed, At, Idle, Resting, IInv, Control, InScope
  <1>3. CASE req[p].ret = "done"
    <2>1. req[p].mine \in SecretOrNone
      BY Zenon DEF IInv, TypeOK, Request
    <2> QED BY <1>1, <1>3, <2>1, FinishStep DEF LookupSwallowed, Return, Resting
  <1>4. CASE req[p].ret # "done"
    <2>1. req' = [req EXCEPT ![p].pc = req[p].ret, ![p].existing = "unknown"]
      BY <1>4 DEF LookupSwallowed
    <2>2. req'[p] = [req[p] EXCEPT !.pc = req[p].ret, !.existing = "unknown"]
      BY <2>1 DEF IInv, TypeOK
    <2>3. /\ OnlyRequest(p)
          /\ req'[p].pc = req[p].ret /\ req'[p].existing = "unknown"
          /\ req'[p].ret = req[p].ret
          /\ req'[p].op = req[p].op /\ req'[p].scope = req[p].scope
          /\ req'[p].id = req[p].id /\ req'[p].prev = req[p].prev
      <3>1. \A q \in Procs : q # p => req'[q] = req[q]
        BY <2>1 DEF IInv, TypeOK
      <3>2. req'[p] \in Request
        BY <2>2, Zenon DEF IInv, TypeOK, Request
      <3>3. req' \in [Procs -> Request]
        BY <2>1, <3>1, <3>2 DEF IInv, TypeOK
      <3> QED BY <2>2, <3>1, <3>3 DEF IInv, TypeOK, Request, OnlyRequest
    <2>4. req[p].ret \in {"find", "confirm", "dropOld"}
      BY <1>4 DEF LookupSwallowed, IInv, Control
    <2>5. Control(p)'
      BY <1>2, <2>3, <2>4, Zenon DEF IInv, Control, InScope, Rotating
    <2>6. Issued(p)' /\ req'[p].pc \notin Holding
      BY <2>3, <2>4, Zenon DEF Issued, Holding
    <2>7. Rotating(p)'
      BY <1>2, <2>3, <2>4, Zenon DEF IInv, Rotating, Idle, Resting, Recorded, tables
    <2> QED BY <1>1, <2>3, <2>5, <2>6, <2>7, ScopesAssumption, AdvanceStep, Zenon
  <1> QED BY <1>3, <1>4, Zenon

\* A subroutine is called by requests other than rotations only.
LEMMA CallStep ==
    ASSUME IInv, StoresAdvance, NEW p \in Procs, ~Idle(p), req[p].op # "rotate",
           NEW x \in {"renew", "find"}, NEW y \in {"done", "find", "confirm"}, Call(p, x, y)
    PROVE  IInv'
  <1>1. OnlyRequest(p) /\ SameLocals(p) /\ req'[p].pc = x /\ req'[p].ret = y
    BY CallFacts, Zenon DEF IInv, Pcs, Resting
  <1>2. Control(p) /\ InScope(p) /\ req[p].op \in Ops
    BY Zenon DEF IInv, Control
  <1>3. Control(p)'
    BY <1>1, <1>2, Zenon DEF Control, SameLocals, Idle, InScope
  <1>4. Issued(p)'
    BY <1>1, Zenon DEF Issued
  <1> QED BY <1>1, <1>3, <1>4, MoveStep, Zenon DEF Holding

\* A request that fails.
LEMMA ErrorStep ==
    ASSUME IInv, StoresAdvance, NEW p \in Procs, Error(p) PROVE IInv'
  BY FinishStep DEF Error, Resting, SecretOrNone

\* A request that succeeds.
LEMMA ReturnStep ==
    ASSUME IInv, StoresAdvance, NEW p \in Procs, NEW k \in SecretOrNone, Return(p, k)
    PROVE  IInv'
  BY FinishStep DEF Return, Resting

\* The round trips that only read.
LEMMA ReadStep ==
    ASSUME IInv, NEW p \in Procs,
           MintTimeout(p) \/ RereadRow(p) \/ FindRecord(p) \/ ConfirmRecord(p)
             \/ RotateReport(p) \/ CountRecords(p) \/ NamespacesDropped(p)
    PROVE  IInv'
  <1>1. UNCHANGED <<cluster, tables>>
    BY Zenon DEF MintTimeout, RereadRow, FindRecord, ConfirmRecord, RotateReport,
           CountRecords, NamespacesDropped
  <1>2. StoresAdvance
    BY <1>1, SameStoresAdvance DEF IInv
  <1>3. ~Idle(p) /\ Control(p) /\ req[p].scope \in Scopes
    BY Zenon DEF MintTimeout, RereadRow, FindRecord, ConfirmRecord, RotateReport,
           CountRecords, NamespacesDropped, At, Idle, Resting, IInv, Control, InScope
  <1>4. /\ req[p].mine \in SecretOrNone /\ None \in SecretOrNone
        /\ holderKc[req[p].scope] \in SecretOrNone
        /\ rec[req[p].scope] # None => rec[req[p].scope].secret \in SecretOrNone
    BY <1>3, Zenon DEF IInv, TypeOK, Request, Record, SecretOrNone
  <1>5. CASE MintTimeout(p)
    BY <1>2, <1>5, ErrorStep, Zenon DEF MintTimeout
  <1>6. CASE RereadRow(p)
    <2>1. req[p].op # "rotate"
      BY <1>3, <1>6 DEF RereadRow, At, Control
    <2>2. \/ Error(p) \/ Return(p, holderKc[req[p].scope])
          \/ Call(p, "renew", "find") \/ Call(p, "find", "done")
      BY <1>6, Zenon DEF RereadRow
    <2> QED BY <1>2, <1>3, <1>4, <2>1, <2>2, ErrorStep, ReturnStep, CallStep, Zenon
  <1>7. CASE FindRecord(p)
    <2>1. req[p].op # "rotate"
      BY <1>3, <1>7, Zenon DEF FindRecord, At, Control
    <2>2. \/ rec[req[p].scope] # None /\ Return(p, rec[req[p].scope].secret)
          \/ Call(p, "renew", "confirm")
      BY <1>7, Zenon DEF FindRecord
    <2> QED BY <1>2, <1>3, <1>4, <2>1, <2>2, ReturnStep, CallStep, Zenon
  <1>8. CASE ConfirmRecord(p)
    BY <1>2, <1>4, <1>8, ErrorStep, ReturnStep, Zenon DEF ConfirmRecord
  <1>9. CASE RotateReport(p)
    BY <1>2, <1>4, <1>9, ErrorStep, ReturnStep, Zenon DEF RotateReport
  <1>10. CASE CountRecords(p)
    <2>1. Go(p, "dropAccount") \/ Return(p, None)
      BY <1>10, Zenon DEF CountRecords
    <2>2. req[p].op \in RevokingOps
      BY <1>3, <1>10, Zenon DEF CountRecords, At, Control
    <2> QED BY <1>2, <1>3, <1>4, <2>1, <2>2, ReturnStep, GoStep, Zenon DEF Pcs
  <1>11. CASE NamespacesDropped(p)
    <2>1. Go(p, "softDelete") /\ req[p].op \in RevokingOps
      BY <1>3, <1>11, Zenon DEF NamespacesDropped, At, Control
    <2> QED BY <1>2, <1>3, <2>1, GoStep, Zenon DEF Pcs
  <1> QED BY <1>5, <1>6, <1>7, <1>8, <1>9, <1>10, <1>11

\* CreateProject stores the Secret it minted in the new project row.
LEMMA InsertProjectStep == ASSUME IInv, NEW p \in Procs, InsertProject(p) PROVE IInv'
  <1>1. /\ req[p].scope \in Scopes /\ Issued(p) /\ req[p].pc = "insertProject"
        /\ UNCHANGED <<rec, gone, cluster>> /\ Return(p, req[p].mine)
    BY Zenon DEF InsertProject, At, Idle, Resting, IInv, Control, InScope
  <1>2. /\ req[p].mine \in Secrets /\ sec[req[p].mine] \in {"live", "gone"}
        /\ home[req[p].mine] = req[p].scope
    BY <1>1, Zenon DEF Issued
  <1>3. StoresAdvance
    BY <1>1, <1>2, Zenon DEF StoresAdvance, IInv, TypeOK, SecretOrNone, cluster, InsertProject
  <1> QED BY <1>1, <1>2, <1>3, ReturnStep, Zenon DEF SecretOrNone

\* A rotation withdraws the superseded Secret, which no record names.
LEMMA DropOldSecretStep == ASSUME IInv, NEW p \in Procs, DropOldSecret(p) PROVE IInv'
  <1>1. /\ ~Idle(p) /\ req[p].pc = "dropOld" /\ Go(p, "report")
        /\ req[p].op = "rotate" /\ req[p].prev \in Secrets
        /\ UNCHANGED <<sa, home, tables>>
    BY Zenon DEF DropOldSecret, At, Idle, Resting, IInv, Control
  <1>2. sec' = sec \/ sec' = [sec EXCEPT ![req[p].prev] = "gone"]
    BY DEF DropOldSecret
  <1>3. NoRevocation => ~Recorded(req[p].prev)
    BY <1>1, Zenon DEF IInv, Rotating, Control, NoRevocation
  <1>4. \A q \in Procs : req[q].pc \in Holding => req[q].mine # req[p].prev
    BY Zenon DEF IInv, Held
  <1>5. sec[req[p].prev] # "unborn"
    BY <1>1, Zenon DEF IInv, UnbornInv
  <1>6. StoresAdvance
    BY <1>1, <1>2, <1>3, <1>4, <1>5, Zenon DEF StoresAdvance, IInv, TypeOK, tables
  <1> QED BY <1>1, <1>6, GoStep, Zenon DEF Pcs

\* Only the operations that revoke on purpose withdraw tokens.
LEMMA WithdrawAdvance ==
    ASSUME IInv, NEW p \in Procs, ~Idle(p), req[p].op \in RevokingOps,
           sa' \in [Scopes -> BOOLEAN],
           sec' \in [Secrets -> {"unborn", "pending", "live", "gone"}],
           \A k \in Secrets : sec'[k] = sec[k] \/ (sec[k] # "unborn" /\ sec'[k] = "gone"),
           UNCHANGED <<home, tables>>
    PROVE  StoresAdvance
  <1>1. ~NoRevocation
    BY Zenon DEF IInv, Control, NoRevocation
  <1> QED BY <1>1, Zenon DEF StoresAdvance, IInv, TypeOK, tables

\* The steps of a revocation that withdraw tokens.
LEMMA RevokeStep ==
    ASSUME IInv, NEW p \in Procs,
           DropSecret(p) \/ DropServiceAccount(p) \/ DropNamespace(p)
    PROVE  IInv'
  <1>1. /\ ~Idle(p) /\ Control(p) /\ req[p].scope \in Scopes
        /\ req[p].op \in RevokingOps /\ UNCHANGED <<home, tables>>
    BY DEF DropSecret, DropServiceAccount, DropNamespace, At, Idle, Resting,
           IInv, Control, InScope
  <1>2. sa' \in [Scopes -> BOOLEAN]
    BY Zenon DEF DropSecret, DropServiceAccount, DropNamespace, IInv, TypeOK
  <1>3. /\ sec' \in [Secrets -> {"unborn", "pending", "live", "gone"}]
        /\ \A k \in Secrets : sec'[k] = sec[k] \/ (sec[k] # "unborn" /\ sec'[k] = "gone")
    <2>1. CASE DropSecret(p)
      <3>1. req[p].prev \in Secrets
        BY <1>1, <2>1, Zenon DEF DropSecret, At, Control
      <3>2. sec[req[p].prev] # "unborn"
        BY <3>1, Zenon DEF IInv, UnbornInv
      <3> QED BY <2>1, <3>1, <3>2, Zenon DEF DropSecret, IInv, TypeOK
    <2>2. CASE DropServiceAccount(p)
      BY <2>2, Zenon DEF DropServiceAccount, Withdrawn, IInv, TypeOK
    <2>3. CASE DropNamespace(p)
      BY <2>3 DEF DropNamespace, Withdrawn, IInv, TypeOK
    <2> QED BY <2>1, <2>2, <2>3, Zenon
  <1>4. StoresAdvance
    BY <1>1, <1>2, <1>3, WithdrawAdvance
  <1>5. CASE DropSecret(p)
    BY <1>1, <1>4, <1>5, GoStep, Zenon DEF DropSecret, Pcs
  <1>6. CASE DropServiceAccount(p)
    BY <1>4, <1>6, ReturnStep DEF DropServiceAccount, SecretOrNone
  <1>7. CASE DropNamespace(p)
    <2>1. PICK d \in SUBSET Scopes : req' = [req EXCEPT ![p].todo = d]
      <3>1. PICK s \in req[p].todo : req' = [req EXCEPT ![p].todo = @ \ {s}]
        BY <1>7, Zenon DEF DropNamespace
      <3>2. req[p].todo \ {s} \in SUBSET Scopes
        BY Zenon DEF IInv, TypeOK, Request
      <3> QED BY <3>1, <3>2, Zenon
    <2>2. req'[p] = [req[p] EXCEPT !.todo = d]
      BY <2>1 DEF IInv, TypeOK
    <2>3. /\ OnlyRequest(p) /\ SameLocals(p)
          /\ req'[p].pc = req[p].pc /\ req'[p].ret = req[p].ret
      <3>1. req'[p] \in Request
        BY <2>2, Zenon DEF IInv, TypeOK, Request
      <3>2. \A q \in Procs : q # p => req'[q] = req[q]
        BY <2>1 DEF IInv, TypeOK
      <3>3. req' \in [Procs -> Request]
        BY <2>1, <3>1, <3>2 DEF IInv, TypeOK
      <3> QED BY <2>2, <3>2, <3>3 DEF IInv, TypeOK, Request, OnlyRequest, SameLocals
    <2>4. req[p].pc = "dropNamespaces"
      BY <1>7 DEF DropNamespace, At
    <2>5. Control(p)' /\ Issued(p)'
      BY <1>1, <2>3, <2>4, Zenon DEF Control, Issued, SameLocals, Idle, InScope
    <2> QED BY <1>1, <1>4, <2>3, <2>4, <2>5, MoveStep, Zenon DEF Holding
  <1> QED BY <1>5, <1>6, <1>7

\* The steps of a revocation that change rows.
LEMMA TablesStep ==
    ASSUME IInv, NEW p \in Procs, ClearRow(p) \/ DropRecord(p)
                               \/ SoftDelete(p) \/ SoftDeleteUser(p)
    PROVE  IInv'
  <1>1. /\ ~Idle(p) /\ Control(p) /\ req[p].scope \in Scopes
        /\ req[p].op \in RevokingOps /\ UNCHANGED cluster
    BY Zenon DEF ClearRow, DropRecord, SoftDelete, SoftDeleteUser, At, Idle, Resting, IInv, Control, InScope
  <1>2. CASE ClearRow(p)
    <2>1. StoresAdvance
      BY <1>1, <1>2, Zenon DEF ClearRow, StoresAdvance, IInv, TypeOK, SecretOrNone, cluster
    <2> QED BY <1>1, <1>2, <2>1, GoStep, Zenon DEF ClearRow, Pcs
  <1>3. CASE DropRecord(p)
    <2>1. StoresAdvance
      BY <1>1, <1>3, Zenon DEF DropRecord, StoresAdvance, IInv, TypeOK, cluster
    <2> QED BY <1>1, <1>3, <2>1, GoStep, Zenon DEF DropRecord, Pcs
  <1>4. CASE SoftDelete(p)
    <2>1. holder' \in [Scopes -> {"absent", "live", "deleted"}]
      BY <1>4, Zenon DEF SoftDelete, IInv, TypeOK
    <2>2. UNCHANGED <<holderKc, rec, gone, cluster>>
      BY <1>4, Zenon DEF SoftDelete
    <2>3. StoresAdvance
      BY <2>1, <2>2, Zenon DEF StoresAdvance, IInv, TypeOK, cluster
    <2>4. Return(p, None) \/ Go(p, "forget")
      BY <1>4, Zenon DEF SoftDelete
    <2> QED BY <1>1, <2>3, <2>4, ReturnStep, GoStep, Zenon DEF SecretOrNone, Pcs
  <1>5. CASE SoftDeleteUser(p)
    <2>1. gone' \subseteq Users
      BY <1>1, <1>5, Zenon DEF SoftDeleteUser, IInv, TypeOK, Users
    <2>2. UNCHANGED <<holder, holderKc, rec, cluster>> /\ Return(p, None)
      BY <1>5, Zenon DEF SoftDeleteUser
    <2>3. StoresAdvance
      BY <2>1, <2>2, Zenon DEF StoresAdvance, IInv, TypeOK, cluster
    <2> QED BY <2>2, <2>3, ReturnStep DEF SecretOrNone
  <1> QED BY <1>2, <1>3, <1>4, <1>5

\* The token controller issues or removes a pending Secret.
LEMMA TokenStep ==
    ASSUME IInv, NEW k \in Secrets, TokenIssued(k) \/ TokenRefused(k)
    PROVE  IInv'
  <1>1. StoresAdvance
    BY Zenon DEF TokenIssued, TokenRefused, StoresAdvance, IInv, TypeOK, tables
  <1> QED BY <1>1, StoresStep DEF TokenIssued, TokenRefused

-----------------------------------------------------------------------------
(* The theorems.                                                           *)

\* The invariant holds of the empty control plane ...
LEMMA InitIInv == Init => IInv
  <1> SUFFICES ASSUME Init PROVE IInv
    OBVIOUS
  <1>1. TypeOK
    BY BlankType DEF Init, TypeOK, SecretOrNone
  <1>2. \A p \in Procs : /\ req[p].pc = "idle" /\ req[p].ret = "done" /\ req[p].id = None
                         /\ req[p].prev = None /\ req[p].existing = None
    BY Zenon DEF Init, Blank
  <1>3. \A s \in Scopes : rec[s] = None /\ holderKc[s] = None
    BY Zenon DEF Init
  <1>4. UnbornInv /\ StoredTokensWereIssued /\ RecordedTokensLive
    BY <1>2, <1>3, ScopesAssumption, Zenon
    DEF UnbornInv, Known, StoredTokensWereIssued, RecordedTokensLive, Holding
  <1>5. \A p \in Procs : Control(p) /\ Held(p) /\ Issued(p) /\ Rotating(p)
    BY <1>2, ScopesAssumption, Zenon DEF Control, Held, Issued, Rotating, Idle, Resting, Holding
  <1> QED BY <1>1, <1>4, <1>5 DEF IInv

\* ... and every step, of any request or of the token controller, keeps it.
LEMMA NextIInv == IInv /\ [Next]_vars => IInv'
  <1> SUFFICES ASSUME IInv, [Next]_vars PROVE IInv'
    OBVIOUS
  <1>1. ASSUME NEW p \in Procs, Client(p) PROVE IInv'
    BY <1>1, ClientStep
  <1>2. ASSUME NEW p \in Procs, Step(p) PROVE IInv'
    BY <1>2, ApplyNamespaceStep, RenewBeginStep, MintCreateStep, MintReadyStep,
       StoreInRowStep, LookupRecordStep, LookupSwallowedStep, WriteRecordStep,
       ReadStep, InsertProjectStep, DropOldSecretStep, RevokeStep, TablesStep, Zenon
    DEF Step
  <1>3. ASSUME NEW p \in Procs, Stop(p) PROVE IInv'
    BY <1>3, SameStoresAdvance, ErrorStep, Zenon DEF Stop, IInv
  <1>4. ASSUME NEW k \in Secrets, TokenIssued(k) \/ TokenRefused(k) PROVE IInv'
    BY <1>4, TokenStep
  <1>5. CASE UNCHANGED vars
    <2>1. StoresAdvance /\ req' = req
      BY <1>5, SameStoresAdvance DEF vars, cluster, tables, IInv
    <2> QED BY <2>1, StoresStep
  <1> QED BY <1>1, <1>2, <1>3, <1>4, <1>5 DEF Next

\* The inductive invariant behind all results below: a Secret between minting
\* and recording is known to its request only, and the Secret a rotation found
\* is named by no row but the one it was found in.
THEOREM Inductive == Spec => []IInv
  BY InitIInv, NextIInv, PTL DEF Spec

\* The rows, Secrets and requests stay in their domains.
THEOREM TypeCorrect == Spec => []TypeOK
  <1>1. IInv => TypeOK
    BY DEF IInv
  <1> QED BY <1>1, Inductive, PTL

\* Whatever runs beside it, RotateKubeconfigByID deletes a superseded Secret:
\* no record names it any more, unless the rotation's own lookup was lost.
THEOREM RotationSafe == Spec => []RotationSupersedes
  <1>1. IInv => RotationSupersedes
    BY Zenon DEF IInv, RotationSupersedes, Control, Rotating, At, Idle, Resting
  <1> QED BY <1>1, Inductive, PTL

\* Neither copy of a kubeconfig ever embeds a token that was not issued, or
\* that was issued for another scope.
THEOREM StoredTokensAreReal == Spec => []StoredTokensWereIssued
  <1>1. IInv => StoredTokensWereIssued
    BY DEF IInv
  <1> QED BY <1>1, Inductive, PTL

\* While no client revokes and no lookup is lost, every recorded kubeconfig
\* works, for any number of concurrent ensures, renewals and rotations.
THEOREM IssuingKeepsRecordsLive ==
    ASSUME NoRevocation PROVE Spec => []RecordedTokensLive
  <1>1. IInv => RecordedTokensLive
    BY DEF IInv
  <1> QED BY <1>1, Inductive, PTL

-----------------------------------------------------------------------------
(* Requests one after the other, without faults.                           *)

\* One request at a time, nothing fails, and a kubeconfig that works is only
\* replaced by a rotation.
Sequential ==
    /\ Faults = {} /\ \A p, q \in Procs : p = q
    /\ Ops \subseteq {"ensure", "bootstrap", "create", "rotate", "delete", "deleteProject"}

LiveAt(s, k) == home[k] = s /\ sec[k] = "live"
Named(s, k) == rec[s] # None /\ rec[s].secret = k
NoneLive(s) == \A k \in Secrets : ~LiveAt(s, k)
NamedLive(s) == \A k \in Secrets : LiveAt(s, k) <=> Named(s, k)
CopiesEqual(s) ==
    /\ rec[s] = None => holderKc[s] = None
    /\ rec[s] # None => holderKc[s] = rec[s].secret
Agree(s) == holder[s] # "deleted" => CopiesEqual(s) /\ NamedLive(s)

\* A token that is no longer waited for will not come: only a project loses its
\* ServiceAccount for good.
Orphan(k) ==
    sec[k] = "pending" /\ (\A p \in Procs : At(p, "poll") => req[p].mine # k) =>
        /\ home[k] \in ProjectScopes
        /\ ~sa[home[k]] /\ holder[home[k]] # "absent"

Account(s) ==
    /\ s \in UserScopes => holder[s] # "deleted" /\ (rec[s] # None => sa[s])
    /\ holder[s] = "absent" => holderKc[s] = None

\* The record is as the request found it.
Found(p) ==
    LET s == req[p].scope IN
    /\ req[p].op \in {"rotate", "delete"} =>
          rec[s] # None /\ rec[s].secret = req[p].prev /\ rec[s].id = req[p].id
    /\ req[p].op \notin {"rotate", "delete"} => rec[s] = None

\* All but the Secret minted is as recorded.
RestNamed(p) ==
    LET s == req[p].scope
        m == req[p].mine IN
    /\ home[m] = s /\ ~Named(s, m)
    /\ \A k \in Secrets : k # m => (LiveAt(s, k) <=> Named(s, k))

\* Where the caller of the issuing subroutine goes on.
Returns(p) ==
    /\ req[p].op = "rotate" => req[p].ret = "dropOld"
    /\ req[p].op = "create" => req[p].ret = "insertProject"
    /\ req[p].op \notin {"rotate", "create"} =>
          /\ req[p].op \in {"ensure", "bootstrap"}
          /\ req[p].ret = IF req[p].scope \in UserScopes THEN "reread" ELSE "confirm"
    /\ req[p].op = "bootstrap" => req[p].scope \in UserScopes

\* Before, while and after a Secret is minted: what the request has done so far.
IssuingStage(p) ==
    LET s == req[p].scope
        m == req[p].mine
        at == req[p].pc IN
    /\ at \in {"provision", "renew", "mint", "poll", "store", "lookup", "write"} =>
          Found(p) /\ Returns(p)
    /\ at \in {"provision", "renew", "mint"} => Agree(s)
    /\ at \notin {"provision", "renew"} => holder[s] # "deleted"
    /\ at \in {"mint", "poll", "store", "lookup", "write"} =>
          sa[s] \/ (s \in ProjectScopes /\ holder[s] = "live")
    /\ req[p].op = "create" => /\ at \notin {"renew", "store"}
                               /\ s \in ProjectScopes /\ holder[s] = "absent"
    /\ at = "provision" => req[p].op \in {"ensure", "bootstrap", "create"}
    /\ at = "provision" /\ req[p].op # "create" => s \in UserScopes
    /\ at = "renew" /\ s \in UserScopes => req[p].op = "rotate"
    /\ at \in {"poll", "store"} => CopiesEqual(s)
    /\ at \in {"poll", "store", "lookup", "write"} => RestNamed(p)
    /\ at \in {"store", "lookup", "write"} => sec[m] = "live"
    /\ at \in {"lookup", "write"} /\ req[p].op # "create" => holderKc[s] = m
    /\ at = "write" => /\ rec[s] = None => req[p].existing = None
                       /\ rec[s] # None => req[p].existing = rec[s].id
    /\ at = "insertProject" => Named(s, m) /\ NamedLive(s)

ReadingStage(p) ==
    LET s == req[p].scope IN
    /\ Agree(s) /\ holder[s] # "deleted"
    /\ req[p].op \in {"ensure", "bootstrap"}
    /\ req[p].pc \in {"reread", "find"} /\ s \in UserScopes => rec[s] # None
    /\ req[p].pc = "reread" => s \in UserScopes
    /\ req[p].pc # "reread" => req[p].op = "ensure"

DropOldStage(p) ==
    LET s == req[p].scope
        m == req[p].mine IN
    /\ holder[s] # "deleted" /\ holderKc[s] = m /\ Named(s, m) /\ LiveAt(s, m)
    /\ home[req[p].prev] = s /\ m # req[p].prev
    /\ \A k \in Secrets : LiveAt(s, k) => k \in {m, req[p].prev}

DeletingStage(p) ==
    LET s == req[p].scope
        at == req[p].pc IN
    /\ req[p].op = "delete"
    /\ at \in {"dropSecret", "clear", "dropRecord"} => Found(p)
    /\ at \in {"dropSecret", "count", "dropAccount"} => Agree(s)
    /\ at = "clear" /\ holder[s] # "deleted" => CopiesEqual(s)
    /\ at \in {"clear", "dropRecord"} /\ holder[s] # "deleted" => NoneLive(s)
    /\ at = "dropRecord" => holderKc[s] = None
    /\ at \in {"count", "dropAccount"} => rec[s] = None

Stage(p) ==
    LET s == req[p].scope
        at == req[p].pc IN
    /\ at \in {"provision", "renew", "mint", "poll", "store", "lookup", "write",
               "insertProject"} => IssuingStage(p)
    /\ at \in {"reread", "find", "confirm"} => ReadingStage(p)
    /\ at = "dropOld" => DropOldStage(p)
    /\ at = "report" => Agree(s)
    /\ at \in {"dropSecret", "clear", "dropRecord", "count", "dropAccount"} => DeletingStage(p)
    /\ at \in {"dropNamespaces", "softDelete"} =>
          /\ req[p].op = "deleteProject" /\ s \in ProjectScopes
          /\ req[p].todo \subseteq {s} /\ holder[s] # "absent"
    /\ at # "forget"

SeqInv ==
    /\ \A k \in Secrets : Orphan(k)
    /\ \A s \in Scopes : Account(s) /\ (Agree(s) \/ \E p \in Procs : ~Idle(p) /\ req[p].scope = s)
    /\ \A p \in Procs : ~Idle(p) => Stage(p)

-----------------------------------------------------------------------------
(* A step of the one request.                                              *)

\* It touches nothing outside its scope.
Frame(s) ==
    /\ \A t \in Scopes : t # s =>
          /\ holder'[t] = holder[t] /\ holderKc'[t] = holderKc[t]
          /\ rec'[t] = rec[t] /\ sa'[t] = sa[t]
    /\ \A k \in Secrets :
          /\ home'[k] # s => home'[k] = home[k] /\ sec'[k] = sec[k]
          /\ home'[k] # home[k] => sec[k] = "unborn"

\* It leaves no Secret that waits for a token that comes.
LeavesNone(p, s) ==
    \A k \in Secrets : home'[k] = s /\ sec'[k] = "pending" =>
        \/ req'[p].pc = "poll" /\ req'[p].mine = k
        \/ s \in ProjectScopes /\ ~sa'[s] /\ holder'[s] # "absent"

\* The request under way, and what is known of it.
Working(p, s) == p \in Procs /\ s \in Scopes /\ ~Idle(p) /\ req[p].scope = s

\* What is known when the request is under way.
LEMMA SeqFacts ==
    ASSUME Sequential, IInv, SeqInv, NEW p, NEW s, Working(p, s)
    PROVE  /\ p \in Procs /\ s \in Scopes /\ req[p] \in Request /\ Stage(p)
           /\ req[p].op \in Ops /\ Account(s)
           /\ Control(p) /\ Held(p) /\ Rotating(p)
           /\ \A t \in Scopes : t # s => Agree(t)
           /\ \A q \in Procs : q = p
  <1>1. p \in Procs /\ ~Idle(p) /\ s \in Scopes /\ req[p].scope = s
    BY DEF Working
  <1>2. \A q \in Procs : q = p
    BY <1>1 DEF Sequential
  <1>3. Control(p) /\ Held(p) /\ Rotating(p) /\ req[p].op \in Ops
    BY <1>1, Zenon DEF IInv, Control
  <1>4. req[p] \in Request
    BY <1>1, Zenon DEF IInv, TypeOK
  <1> QED BY <1>1, <1>2, <1>3, <1>4, Zenon DEF SeqInv

\* Such a step keeps the invariant if the scope is left in order.
LEMMA SeqMove ==
    ASSUME Sequential, IInv, SeqInv, NEW p, NEW s, Working(p, s), Frame(s), LeavesNone(p, s),
           Account(s)', Idle(p)' => Agree(s)', ~Idle(p)' => req'[p].scope = s /\ Stage(p)'
    PROVE  SeqInv'
  <1>1. /\ p \in Procs /\ s \in Scopes /\ Stage(p) /\ Held(p) /\ \A q \in Procs : q = p
        /\ req[p].scope = s /\ \A t \in Scopes : t # s => Agree(t)
    BY SeqFacts, Zenon DEF Working
  <1>2. ASSUME NEW k \in Secrets PROVE Orphan(k)'
    <2> SUFFICES ASSUME sec'[k] = "pending", \A q \in Procs : At(q, "poll")' => req'[q].mine # k
                 PROVE  home'[k] \in ProjectScopes /\ ~sa'[home'[k]] /\ holder'[home'[k]] # "absent"
      BY Zenon DEF Orphan
    <2>1. CASE home'[k] = s
      BY <1>1, <2>1, Zenon DEF LeavesNone, At
    <2>2. CASE home'[k] # s
      <3>1. home'[k] = home[k] /\ sec[k] = "pending"
        BY <2>2, Zenon DEF Frame
      <3>2. \A q \in Procs : At(q, "poll") => req[q].mine # k
        BY <1>1, <2>2, <3>1, Zenon DEF Held, Holding, At
      <3>3. home[k] \in ProjectScopes /\ ~sa[home[k]] /\ holder[home[k]] # "absent"
        BY <3>1, <3>2, Zenon DEF SeqInv, Orphan
      <3> QED BY <2>2, <3>1, <3>3, Zenon DEF Frame, ProjectScopes
    <2> QED BY <2>1, <2>2, Zenon
  <1>3. ASSUME NEW t \in Scopes, t # s PROVE Account(t)' /\ Agree(t)'
    <2>1. /\ holder'[t] = holder[t] /\ holderKc'[t] = holderKc[t]
          /\ rec'[t] = rec[t] /\ sa'[t] = sa[t]
      BY <1>3, Zenon DEF Frame
    <2>2. Account(t) /\ Agree(t)
      BY <1>1, <1>3, Zenon DEF SeqInv
    <2>3. \A k \in Secrets : LiveAt(t, k)' <=> LiveAt(t, k)
      BY <1>1, <1>3, Zenon DEF Frame, LiveAt
    <2>4. (CopiesEqual(t) => CopiesEqual(t)') /\ (NamedLive(t) => NamedLive(t)')
      BY <2>1, <2>3, Zenon DEF CopiesEqual, NamedLive, Named
    <2> QED BY <2>1, <2>2, <2>4, Zenon DEF Account, Agree
  <1>4. Account(s)' /\ (Agree(s)' \/ (~Idle(p)' /\ req'[p].scope = s))
    OBVIOUS
  <1>5. ASSUME NEW t \in Scopes
        PROVE  Account(t)' /\ (Agree(t)' \/ \E q \in Procs : ~Idle(q)' /\ req'[q].scope = t)
    <2>1. CASE t = s
      BY <1>1, <1>4, <2>1, Zenon
    <2>2. CASE t # s
      BY <1>3, <2>2
    <2> QED BY <2>1, <2>2, Zenon
  <1>6. ASSUME NEW q \in Procs, ~Idle(q)' PROVE Stage(q)'
    <2>1. q = p
      BY <1>1, Zenon
    <2> QED BY <1>6, <2>1
  <1> QED BY <1>2, <1>5, <1>6, Zenon DEF SeqInv

\* Nobody waits for a Secret but a request that polls.
LEMMA KeepOrphans ==
    ASSUME Sequential, IInv, SeqInv, NEW p, NEW s, Working(p, s), req[p].pc # "poll",
           home' = home, \A k \in Secrets : sec'[k] = "pending" => sec[k] = "pending",
           sa'[s] => sa[s], holder'[s] = "absent" => holder[s] = "absent"
    PROVE  LeavesNone(p, s)
  <1> SUFFICES ASSUME NEW k \in Secrets, home'[k] = s, sec'[k] = "pending"
               PROVE  s \in ProjectScopes /\ ~sa'[s] /\ holder'[s] # "absent"
    BY Zenon DEF LeavesNone
  <1>1. \A q \in Procs : ~At(q, "poll")
    BY SeqFacts, Zenon DEF At
  <1>2. home[k] \in ProjectScopes /\ ~sa[home[k]] /\ holder[home[k]] # "absent"
    BY <1>1, Zenon DEF SeqInv, Orphan
  <1> QED BY <1>2, Zenon

\* A step that touches no store.
LEMMA SeqQuiet ==
    ASSUME Sequential, IInv, SeqInv, NEW p, NEW s, Working(p, s), req[p].pc # "poll",
           UNCHANGED <<cluster, tables>>,
           Idle(p)' => Agree(s), ~Idle(p)' => req'[p].scope = s /\ Stage(p)'
    PROVE  SeqInv'
  <1>1. UNCHANGED <<holder, holderKc, rec, sa, sec, home>>
    BY Zenon DEF cluster, tables
  <1>2. Frame(s)
    BY <1>1, Zenon DEF Frame
  <1>3. LeavesNone(p, s)
    BY <1>1, KeepOrphans, Zenon
  <1>4. Account(s) => Account(s)'
    BY <1>1, Zenon DEF Account
  <1>5. Agree(s) => Agree(s)'
    BY <1>1, Zenon DEF Agree, CopiesEqual, NamedLive, Named, LiveAt
  <1> QED BY <1>2, <1>3, <1>4, <1>5, SeqMove, SeqFacts, Zenon

-----------------------------------------------------------------------------
(* Steps that read.                                                        *)

\* A request somewhere between its first and its last step works on its scope.
LEMMA WorkingAt ==
    ASSUME IInv, NEW p \in Procs, req[p].pc \notin Resting
    PROVE  \E s : Working(p, s)
  BY Zenon DEF IInv, Control, InScope, Idle, Working

\* What a step keeps that changes neither the stores nor the locals.
LEMMA SameFacts ==
    ASSUME UNCHANGED <<cluster, tables>>, NEW p, NEW s, SameLocals(p), req[p].scope = s
    PROVE  /\ Found(p)' <=> Found(p)
           /\ RestNamed(p)' <=> RestNamed(p)
           /\ Agree(s)' <=> Agree(s)
           /\ CopiesEqual(s)' <=> CopiesEqual(s)
           /\ \A k : Named(s, k)' <=> Named(s, k)
           /\ NamedLive(s)' <=> NamedLive(s)
           /\ UNCHANGED <<holder, holderKc, rec, sa, sec, home>>
           /\ req'[p].op = req[p].op /\ req'[p].scope = s /\ req'[p].mine = req[p].mine
  <1>1. /\ UNCHANGED <<holder, holderKc, rec, sa, sec, home>>
        /\ req'[p].op = req[p].op /\ req'[p].scope = s /\ req'[p].mine = req[p].mine
        /\ req'[p].prev = req[p].prev /\ req'[p].id = req[p].id
    BY Zenon DEF cluster, tables, SameLocals
  <1>2. Found(p)' <=> Found(p)
    BY <1>1, Zenon DEF Found
  <1>3. \A k : (Named(s, k)' <=> Named(s, k)) /\ (LiveAt(s, k)' <=> LiveAt(s, k))
    BY <1>1, Zenon DEF Named, LiveAt
  <1>4. RestNamed(p)' <=> RestNamed(p)
    BY <1>1, <1>3, Zenon DEF RestNamed
  <1>5. /\ CopiesEqual(s)' <=> CopiesEqual(s)
        /\ NamedLive(s)' <=> NamedLive(s)
    BY <1>1, <1>3, Zenon DEF CopiesEqual, NamedLive
  <1>6. Agree(s)' <=> Agree(s)
    BY <1>1, <1>5, Zenon DEF Agree
  <1> QED BY <1>1, <1>2, <1>3, <1>4, <1>5, <1>6, Zenon

\* A request that ends leaves its scope at rest.
LEMMA SeqFinish ==
    ASSUME Sequential, IInv, SeqInv, NEW p, NEW s, Working(p, s), req[p].pc # "poll",
           UNCHANGED <<cluster, tables>>, NEW x \in Resting, NEW k \in SecretOrNone,
           Finish(p, x, k), Agree(s)
    PROVE  SeqInv'
  <1>1. Idle(p)'
    BY FinishFacts, Zenon DEF IInv, Idle, Working
  <1> QED BY <1>1, SeqQuiet, Zenon

\* A request that goes on without touching a store.
LEMMA SeqGoOn ==
    ASSUME Sequential, IInv, SeqInv, NEW p, NEW s, Working(p, s), req[p].pc # "poll",
           UNCHANGED <<cluster, tables>>,
           req'[p].pc \notin Resting, req'[p].scope = s, Stage(p)'
    PROVE  SeqInv'
  <1>1. ~Idle(p)'
    BY Zenon DEF Idle
  <1> QED BY <1>1, SeqQuiet, Zenon

\* A renewal goes on only for a scope that is not deleted.
LEMMA SeqRenewBegin ==
    ASSUME Sequential, IInv, SeqInv, NEW p \in Procs, RenewBegin(p) PROVE SeqInv'
  <1>1. PICK s : Working(p, s) /\ req[p].pc = "renew" /\ UNCHANGED <<cluster, tables>>
    BY WorkingAt, Zenon DEF RenewBegin, At, Resting
  <1>2. IssuingStage(p) /\ Account(s) /\ s \in Scopes /\ req[p].scope = s
    BY <1>1, SeqFacts, Zenon DEF Stage, Working
  <1>3. CASE holder[s] = "live"
    <2>1. OnlyRequest(p) /\ SameLocals(p) /\ req'[p].pc = "mint" /\ req'[p].ret = req[p].ret
      BY <1>1, <1>2, <1>3, GoFacts, Zenon DEF RenewBegin, IInv, Pcs
    <2>2. /\ Found(p)' <=> Found(p)
          /\ Agree(s)' <=> Agree(s)
          /\ UNCHANGED <<holder, sa, rec>>
          /\ req'[p].op = req[p].op /\ req'[p].scope = s
      BY <1>1, <1>2, <2>1, SameFacts, Zenon
    <2>3. Returns(p)'
      BY <1>1, <1>2, <2>1, <2>2, Zenon DEF IssuingStage, Returns
    <2>4. sa[s] \/ (s \in ProjectScopes /\ holder[s] = "live")
      BY <1>1, <1>2, <1>3, Zenon DEF IssuingStage, Account, Found, ProjectScopes
    <2>5. IssuingStage(p)'
      BY <1>1, <1>2, <1>3, <2>1, <2>2, <2>3, <2>4, Zenon DEF IssuingStage
    <2>6. Stage(p)'
      BY <2>1, <2>5, Zenon DEF Stage
    <2> QED BY <1>1, <2>1, <2>2, <2>6, SeqGoOn, Zenon DEF Resting
  <1>4. CASE holder[s] # "live"
    <2>1. Finish(p, "failed", None)
      BY <1>2, <1>4, Zenon DEF RenewBegin, Error
    <2>2. Agree(s)
      BY <1>1, <1>2, Zenon DEF IssuingStage
    <2> QED BY <1>1, <2>1, <2>2, SeqFinish, Zenon DEF Resting, SecretOrNone
  <1> QED BY <1>3, <1>4

\* The record is looked up as it is.
LEMMA SeqLookupRecord ==
    ASSUME Sequential, IInv, SeqInv, NEW p \in Procs, LookupRecord(p) PROVE SeqInv'
  <1>1. PICK s : Working(p, s) /\ req[p].pc = "lookup" /\ UNCHANGED <<cluster, tables>>
    BY WorkingAt DEF LookupRecord, At, Resting
  <1>2. /\ IssuingStage(p) /\ s \in Scopes /\ req[p].scope = s /\ req[p] \in Request
        /\ rec[s] \in Record \cup {None}
    BY <1>1, SeqFacts, Zenon DEF Stage, Working, IInv, TypeOK
  <1> DEFINE e == IF rec[s] = None THEN None ELSE rec[s].id
  <1>3. e \in SecretOrNone
    BY <1>2, Zenon DEF Record, SecretOrNone
  <1>4. req'[p] = [req[p] EXCEPT !.pc = "write", !.existing = e]
    BY <1>2 DEF LookupRecord, IInv, TypeOK
  <1> HIDE DEF e
  <1>5. /\ req'[p].pc = "write" /\ req'[p].existing = e /\ req'[p].ret = req[p].ret
        /\ req'[p].op = req[p].op /\ req'[p].scope = s /\ req'[p].mine = req[p].mine
        /\ req'[p].prev = req[p].prev /\ req'[p].id = req[p].id
    BY <1>2, <1>3, <1>4 DEF Request
  <1>6. UNCHANGED <<holder, holderKc, rec, sa, sec, home>>
    BY <1>1, Zenon DEF cluster, tables
  <1>7. Found(p)' /\ Returns(p)' /\ RestNamed(p)'
    <2>1. Found(p) /\ Returns(p) /\ RestNamed(p)
      BY <1>1, <1>2, Zenon DEF IssuingStage
    <2>2. Found(p)' /\ Returns(p)'
      BY <1>2, <1>5, <1>6, <2>1, Zenon DEF Found, Returns
    <2>3. RestNamed(p)'
      BY <1>2, <1>5, <1>6, <2>1, Zenon DEF RestNamed, Named, LiveAt
    <2> QED BY <2>2, <2>3
  <1>8. IssuingStage(p)'
    BY <1>1, <1>2, <1>5, <1>6, <1>7, Zenon DEF IssuingStage, e
  <1>9. Stage(p)'
    BY <1>5, <1>8, Zenon DEF Stage
  <1> QED BY <1>1, <1>5, <1>9, SeqGoOn, Zenon DEF Resting

\* After provisioning the row carries the kubeconfig, and so does the record.
LEMMA SeqRereadRow ==
    ASSUME Sequential, IInv, SeqInv, NEW p \in Procs, RereadRow(p) PROVE SeqInv'
  <1>1. PICK s : Working(p, s) /\ req[p].pc = "reread" /\ UNCHANGED <<cluster, tables>>
    BY WorkingAt DEF RereadRow, At, Resting
  <1>2. /\ ReadingStage(p) /\ s \in Scopes /\ req[p].scope = s
        /\ rec[s] \in Record \cup {None}
    BY <1>1, SeqFacts, Zenon DEF Stage, Working, IInv, TypeOK
  <1>3. Agree(s) /\ s \in UserScopes /\ rec[s] # None /\ holder[s] # "deleted"
    BY <1>1, <1>2, Zenon DEF ReadingStage
  <1>4. holderKc[s] = rec[s].secret /\ rec[s].secret \in Secrets
    BY <1>2, <1>3, Zenon DEF Agree, CopiesEqual, Record
  <1>5. holderKc[s] # None
    BY <1>4, ScopesAssumption, Zenon
  <1>6. CASE req[p].op = "bootstrap"
    <2>1. Finish(p, "done", holderKc[s])
      BY <1>2, <1>5, <1>6 DEF RereadRow, Return
    <2> QED BY <1>1, <1>3, <1>4, <2>1, SeqFinish, Zenon DEF Resting, SecretOrNone
  <1>7. CASE req[p].op # "bootstrap"
    <2>1. Call(p, "find", "done")
      BY <1>2, <1>5, <1>7, Zenon DEF RereadRow
    <2>2. SameLocals(p) /\ req'[p].pc = "find"
      BY <2>1, CallFacts, Zenon DEF IInv, Pcs, Resting
    <2>3. /\ Agree(s)' <=> Agree(s)
          /\ UNCHANGED <<holder, rec>>
          /\ req'[p].op = req[p].op /\ req'[p].scope = s
      BY <1>1, <1>2, <2>2, SameFacts, Zenon
    <2>4. ReadingStage(p)'
      BY <1>2, <1>3, <1>7, <2>2, <2>3, Zenon DEF ReadingStage
    <2>5. Stage(p)'
      BY <2>2, <2>4, Zenon DEF Stage
    <2> QED BY <1>1, <2>2, <2>3, <2>5, SeqGoOn, Zenon DEF Resting
  <1> QED BY <1>6, <1>7, Zenon

\* Only a project can be without a record while its row is live.
LEMMA SeqFindRecord ==
    ASSUME Sequential, IInv, SeqInv, NEW p \in Procs, FindRecord(p) PROVE SeqInv'
  <1>1. PICK s : Working(p, s) /\ req[p].pc = "find" /\ UNCHANGED <<cluster, tables>>
    BY WorkingAt, Zenon DEF FindRecord, At, Resting
  <1>2. /\ ReadingStage(p) /\ s \in Scopes /\ req[p].scope = s
        /\ rec[s] \in Record \cup {None}
    BY <1>1, SeqFacts, Zenon DEF Stage, Working, IInv, TypeOK
  <1>3. Agree(s) /\ holder[s] # "deleted" /\ req[p].op = "ensure"
    BY <1>1, <1>2, Zenon DEF ReadingStage
  <1>4. CASE rec[s] # None
    <2>1. Finish(p, "done", rec[s].secret) /\ rec[s].secret \in SecretOrNone
      BY <1>2, <1>4, Zenon DEF FindRecord, Return, Record, SecretOrNone
    <2> QED BY <1>1, <1>3, <2>1, SeqFinish, Zenon DEF Resting
  <1>5. CASE rec[s] = None
    <2>1. Call(p, "renew", "confirm") /\ s \notin UserScopes
      BY <1>1, <1>2, <1>5, Zenon DEF FindRecord, ReadingStage
    <2>2. SameLocals(p) /\ req'[p].pc = "renew" /\ req'[p].ret = "confirm"
      BY <2>1, CallFacts, Zenon DEF IInv, Pcs
    <2>3. /\ Agree(s)' <=> Agree(s)
          /\ UNCHANGED <<holder, rec>>
          /\ req'[p].op = req[p].op /\ req'[p].scope = s
      BY <1>1, <1>2, <2>2, SameFacts, Zenon
    <2>4. IssuingStage(p)'
      BY <1>3, <1>5, <2>1, <2>2, <2>3, Zenon DEF IssuingStage, Found, Returns
    <2>5. Stage(p)'
      BY <2>2, <2>4, Zenon DEF Stage
    <2> QED BY <1>1, <2>2, <2>3, <2>5, SeqGoOn, Zenon DEF Resting
  <1> QED BY <1>4, <1>5

\* Reads that end a request.
LEMMA SeqLastRead ==
    ASSUME Sequential, IInv, SeqInv, NEW p \in Procs, ConfirmRecord(p) \/ RotateReport(p)
    PROVE  SeqInv'
  <1>1. PICK s : /\ Working(p, s) /\ req[p].pc \in {"confirm", "report"}
                 /\ UNCHANGED <<cluster, tables>>
    BY WorkingAt, Zenon DEF ConfirmRecord, RotateReport, At, Resting
  <1>2. /\ Agree(s) /\ s \in Scopes /\ req[p].scope = s /\ req[p] \in Request
        /\ rec[s] \in Record \cup {None}
    BY <1>1, SeqFacts, Zenon DEF Stage, ReadingStage, Working, IInv, TypeOK
  <1>3. CASE Error(p)
    BY <1>1, <1>2, <1>3, SeqFinish, Zenon DEF Error, Resting, SecretOrNone
  <1>4. CASE Return(p, req[p].mine)
    <2>1. req[p].mine \in SecretOrNone
      BY <1>2, Zenon DEF Request
    <2> QED BY <1>1, <1>2, <1>4, <2>1, SeqFinish, Zenon DEF Return, Resting
  <1>5. CASE rec[s] # None /\ Return(p, rec[s].secret)
    <2>1. rec[s].secret \in SecretOrNone
      BY <1>2, <1>5, Zenon DEF Record, SecretOrNone
    <2> QED BY <1>1, <1>2, <1>5, <2>1, SeqFinish, Zenon DEF Return, Resting
  <1> QED BY <1>2, <1>3, <1>4, <1>5, Zenon DEF ConfirmRecord, RotateReport

\* The records of the account are counted after the record is gone.
LEMMA SeqCountRecords ==
    ASSUME Sequential, IInv, SeqInv, NEW p \in Procs, CountRecords(p) PROVE SeqInv'
  <1>1. PICK s : Working(p, s) /\ req[p].pc = "count" /\ UNCHANGED <<cluster, tables>>
    BY WorkingAt, Zenon DEF CountRecords, At, Resting
  <1>2. DeletingStage(p) /\ s \in Scopes /\ req[p].scope = s
    BY <1>1, SeqFacts, Zenon DEF Stage, Working
  <1>3. Agree(s) /\ rec[s] = None /\ req[p].op = "delete"
    BY <1>1, <1>2, Zenon DEF DeletingStage
  <1>4. CASE Return(p, None)
    BY <1>1, <1>3, <1>4, SeqFinish, Zenon DEF Return, Resting, SecretOrNone
  <1>5. CASE Go(p, "dropAccount")
    <2>1. SameLocals(p) /\ req'[p].pc = "dropAccount"
      BY <1>5, GoFacts, Zenon DEF IInv, Pcs
    <2>2. /\ Agree(s)' <=> Agree(s)
          /\ UNCHANGED rec
          /\ req'[p].op = req[p].op /\ req'[p].scope = s
      BY <1>1, <1>2, <2>1, SameFacts, Zenon
    <2>3. Stage(p)'
      BY <1>3, <2>1, <2>2, Zenon DEF Stage, DeletingStage
    <2> QED BY <1>1, <2>1, <2>2, <2>3, SeqGoOn, Zenon DEF Resting
  <1> QED BY <1>4, <1>5, Zenon DEF CountRecords

\* All namespaces are gone; the row follows.
LEMMA SeqNamespacesDropped ==
    ASSUME Sequential, IInv, SeqInv, NEW p \in Procs, NamespacesDropped(p) PROVE SeqInv'
  <1>1. PICK s : Working(p, s) /\ req[p].pc = "dropNamespaces" /\ UNCHANGED <<cluster, tables>>
    BY WorkingAt, Zenon DEF NamespacesDropped, At, Resting
  <1>2. /\ req[p].op = "deleteProject" /\ s \in ProjectScopes /\ holder[s] # "absent"
        /\ req[p].scope = s /\ req[p].todo = {} /\ req[p] \in Request
    BY <1>1, SeqFacts, Zenon DEF Stage, Working, NamespacesDropped
  <1>3. /\ req'[p].pc = "softDelete" /\ req'[p].op = req[p].op /\ req'[p].scope = s
        /\ req'[p].todo = {}
    BY <1>1, <1>2 DEF NamespacesDropped, Go, IInv, TypeOK, Request, Working
  <1>4. Stage(p)'
    BY <1>1, <1>2, <1>3, Zenon DEF Stage, tables
  <1> QED BY <1>1, <1>3, <1>4, SeqGoOn, Zenon DEF Resting

-----------------------------------------------------------------------------
(* Steps that issue.                                                       *)

\* A scope that is provisioned has no Secret waiting for an account.
LEMMA SeqApplyNamespace ==
    ASSUME Sequential, IInv, SeqInv, NEW p \in Procs, ApplyNamespace(p) PROVE SeqInv'
  <1>1. PICK s : /\ Working(p, s) /\ req[p].pc = "provision"
                 /\ UNCHANGED <<sec, home, holder, holderKc, rec>>
    BY WorkingAt, Zenon DEF ApplyNamespace, At, Resting, tables
  <1>2. /\ IssuingStage(p) /\ Account(s) /\ s \in Scopes /\ req[p].scope = s
        /\ \A q \in Procs : q = p
    BY <1>1, SeqFacts, Zenon DEF Stage, Working
  <1>3. OnlyRequest(p) /\ SameLocals(p) /\ req'[p].pc = "mint" /\ req'[p].ret = req[p].ret
    BY GoFacts, Zenon DEF ApplyNamespace, IInv, Pcs
  <1>4. sa'[s] /\ \A t \in Scopes : t # s => sa'[t] = sa[t]
    BY <1>2, Zenon DEF ApplyNamespace, IInv, TypeOK
  <1>5. Frame(s)
    BY <1>1, <1>4, Zenon DEF Frame
  <1>6. LeavesNone(p, s)
    <2>1. s \notin ProjectScopes \/ holder[s] = "absent"
      BY <1>1, <1>2, Zenon DEF IssuingStage, ProjectScopes
    <2>2. \A q \in Procs : ~At(q, "poll")
      BY <1>1, <1>2, Zenon DEF At
    <2>3. \A k \in Secrets : ~(home[k] = s /\ sec[k] = "pending")
      BY <2>1, <2>2, Zenon DEF SeqInv, Orphan
    <2> QED BY <1>1, <2>3, Zenon DEF LeavesNone
  <1>7. Account(s)'
    BY <1>1, <1>2, <1>4, Zenon DEF Account
  <1>8. /\ req'[p].op = req[p].op /\ req'[p].scope = s
        /\ req'[p].id = req[p].id /\ req'[p].prev = req[p].prev
    BY <1>2, <1>3, Zenon DEF SameLocals
  <1>9. Agree(s)' /\ Found(p)' /\ Returns(p)'
    <2>1. Agree(s) /\ Found(p) /\ Returns(p)
      BY <1>1, <1>2, Zenon DEF IssuingStage
    <2>2. Agree(s)'
      BY <1>1, <2>1, Zenon DEF Agree, CopiesEqual, NamedLive, Named, LiveAt
    <2>3. Found(p)' /\ Returns(p)'
      BY <1>1, <1>2, <1>3, <1>8, <2>1, Zenon DEF Found, Returns
    <2> QED BY <2>2, <2>3
  <1>10. holder[s] # "deleted"
    BY <1>1, <1>2, Zenon DEF IssuingStage, Account
  <1>11. IssuingStage(p)'
    BY <1>1, <1>2, <1>3, <1>4, <1>8, <1>9, <1>10, Zenon DEF IssuingStage
  <1>12. Stage(p)' /\ ~Idle(p)'
    BY <1>3, <1>11, Zenon DEF Stage, Idle, Resting
  <1> QED BY <1>1, <1>5, <1>6, <1>7, <1>8, <1>12, SeqMove, Zenon

\* A new Secret is the request's own.
LEMMA SeqMintCreate ==
    ASSUME Sequential, IInv, SeqInv, NEW p \in Procs, MintCreate(p) PROVE SeqInv'
  <1>1. PICK s : /\ Working(p, s) /\ req[p].pc = "mint"
                 /\ UNCHANGED <<sa, holder, holderKc, rec>>
    BY WorkingAt DEF MintCreate, At, Resting, tables
  <1>2. /\ IssuingStage(p) /\ Account(s) /\ s \in Scopes /\ req[p].scope = s
        /\ \A q \in Procs : q = p
    BY <1>1, SeqFacts, Zenon DEF Stage, Working
  <1>3. PICK m \in Secrets :
            /\ sec[m] = "unborn"
            /\ sec' = [sec EXCEPT ![m] = "pending"]
            /\ home' = [home EXCEPT ![m] = s]
            /\ req' = [req EXCEPT ![p].pc = "poll", ![p].mine = m]
    BY <1>2, Zenon DEF MintCreate
  <1>4. /\ req'[p].pc = "poll" /\ req'[p].mine = m /\ req'[p].ret = req[p].ret
        /\ req'[p].op = req[p].op /\ req'[p].scope = s
        /\ req'[p].id = req[p].id /\ req'[p].prev = req[p].prev
    <2>1. req'[p] = [req[p] EXCEPT !.pc = "poll", !.mine = m]
      BY <1>3 DEF IInv, TypeOK
    <2> QED BY <1>2, <2>1 DEF IInv, TypeOK, Request
  <1>5. /\ home'[m] = s /\ sec'[m] = "pending"
        /\ \A k \in Secrets : k # m => home'[k] = home[k] /\ sec'[k] = sec[k]
    BY <1>3 DEF IInv, TypeOK
  <1>6. Frame(s)
    BY <1>1, <1>3, <1>5 DEF Frame
  <1>7. LeavesNone(p, s)
    <2>1. \A q \in Procs : ~At(q, "poll")
      BY <1>1, <1>2, Zenon DEF At
    <2>2. ASSUME NEW k \in Secrets, k # m, home'[k] = s, sec'[k] = "pending"
          PROVE  s \in ProjectScopes /\ ~sa'[s] /\ holder'[s] # "absent"
      BY <1>1, <1>5, <2>1, <2>2, SMTT(40) DEF SeqInv, Orphan
    <2> QED BY <1>4, <2>2, Zenon DEF LeavesNone
  <1>8. Account(s)' /\ CopiesEqual(s)' /\ Found(p)' /\ Returns(p)'
    <2>1. Agree(s) /\ Found(p) /\ Returns(p) /\ holder[s] # "deleted"
      BY <1>1, <1>2, Zenon DEF IssuingStage
    <2>2. Found(p)' /\ Returns(p)'
      BY <1>1, <1>2, <1>4, <2>1, Zenon DEF Found, Returns
    <2> QED BY <1>1, <1>2, <2>1, <2>2, Zenon DEF Account, CopiesEqual, Agree
  <1>9. RestNamed(p)'
    <2>1. \A k \in Secrets : LiveAt(s, k) <=> Named(s, k)
      BY <1>1, <1>2, Zenon DEF IssuingStage, Agree, NamedLive
    <2>2. ~Named(s, m)
      BY <1>3, <2>1 DEF LiveAt
    <2>3. home'[m] = s /\ ~Named(s, m)'
      BY <1>1, <1>5, <2>2, Zenon DEF Named
    <2>4. ASSUME NEW k \in Secrets, k # m PROVE LiveAt(s, k)' <=> Named(s, k)'
      <3>1. (LiveAt(s, k)' <=> LiveAt(s, k)) /\ (Named(s, k)' <=> Named(s, k))
        BY <1>1, <1>5, <2>4, Zenon DEF LiveAt, Named
      <3> QED BY <2>1, <3>1
    <2> QED BY <1>4, <2>3, <2>4, Zenon DEF RestNamed
  <1>10. IssuingStage(p)'
    BY <1>1, <1>2, <1>4, <1>8, <1>9, Zenon DEF IssuingStage
  <1>11. Stage(p)' /\ ~Idle(p)'
    BY <1>4, <1>10, Zenon DEF Stage, Idle, Resting
  <1> QED BY <1>1, <1>4, <1>6, <1>7, <1>8, <1>11, SeqMove, Zenon

\* The token is there.
LEMMA SeqMintReady ==
    ASSUME Sequential, IInv, SeqInv, NEW p \in Procs, MintReady(p) PROVE SeqInv'
  <1>1. PICK s : /\ Working(p, s) /\ req[p].pc = "poll" /\ sec[req[p].mine] = "live"
                 /\ UNCHANGED <<cluster, tables>>
    BY WorkingAt, Zenon DEF MintReady, At, Resting
  <1>2. /\ IssuingStage(p) /\ Account(s) /\ s \in Scopes /\ req[p].scope = s
        /\ \A q \in Procs : q = p
    BY <1>1, SeqFacts, Zenon DEF Stage, Working
  <1> DEFINE x == IF req[p].op = "create" THEN "lookup" ELSE "store"
  <1>3. x \in {"lookup", "store"} /\ (req[p].op = "create" <=> x = "lookup")
    OBVIOUS
  <1>4. Go(p, x)
    BY Zenon DEF MintReady
  <1> HIDE DEF x
  <1>5. SameLocals(p) /\ req'[p].pc = x /\ req'[p].ret = req[p].ret
    BY <1>3, <1>4, GoFacts, Zenon DEF IInv, Pcs
  <1>6. /\ Found(p)' <=> Found(p)
        /\ RestNamed(p)' <=> RestNamed(p)
        /\ CopiesEqual(s)' <=> CopiesEqual(s)
        /\ UNCHANGED <<holder, holderKc, rec, sa, sec, home>>
        /\ req'[p].op = req[p].op /\ req'[p].scope = s /\ req'[p].mine = req[p].mine
    BY <1>1, <1>2, <1>5, SameFacts, Zenon
  <1>7. Found(p) /\ Returns(p) /\ RestNamed(p) /\ CopiesEqual(s)
    BY <1>1, <1>2, Zenon DEF IssuingStage
  <1>8. Returns(p)' /\ Account(s)'
    BY <1>2, <1>5, <1>6, <1>7, Zenon DEF Returns, Account
  <1>9. IssuingStage(p)'
    BY <1>1, <1>2, <1>3, <1>5, <1>6, <1>7, <1>8, Zenon DEF IssuingStage
  <1>10. Stage(p)' /\ ~Idle(p)'
    BY <1>3, <1>5, <1>9, Zenon DEF Stage, Idle, Resting
  <1>11. Frame(s)
    BY <1>6, Zenon DEF Frame
  <1>12. LeavesNone(p, s)
    <2>1. ASSUME NEW k \in Secrets, home[k] = s, sec[k] = "pending"
          PROVE  s \in ProjectScopes /\ ~sa[s] /\ holder[s] # "absent"
      BY <1>1, <1>2, <2>1, Zenon DEF SeqInv, Orphan, At
    <2> QED BY <1>6, <2>1, Zenon DEF LeavesNone
  <1> QED BY <1>1, <1>6, <1>8, <1>10, <1>11, <1>12, SeqMove, Zenon

\* A token that does not come is one of a project without its account.
LEMMA SeqMintTimeout ==
    ASSUME Sequential, IInv, SeqInv, NEW p \in Procs, MintTimeout(p) PROVE SeqInv'
  <1>1. PICK s : /\ Working(p, s) /\ req[p].pc = "poll" /\ sec[req[p].mine] # "live"
                 /\ UNCHANGED <<cluster, tables>>
    BY WorkingAt, Zenon DEF MintTimeout, At, Resting
  <1>2. /\ IssuingStage(p) /\ Account(s) /\ s \in Scopes /\ req[p].scope = s
        /\ \A q \in Procs : q = p
    BY <1>1, SeqFacts, Zenon DEF Stage, Working
  <1>3. Idle(p)'
    BY FinishFacts, Zenon DEF MintTimeout, Error, IInv, Idle, Resting, SecretOrNone
  <1>4. UNCHANGED <<holder, holderKc, rec, sa, sec, home>>
    BY <1>1, Zenon DEF cluster, tables
  <1>5. Agree(s)' /\ Account(s)'
    <2>1. CopiesEqual(s) /\ RestNamed(p)
      BY <1>1, <1>2, Zenon DEF IssuingStage
    <2>2. \A k \in Secrets : LiveAt(s, k) <=> Named(s, k)
      BY <1>1, <1>2, <2>1, Zenon DEF RestNamed, LiveAt
    <2>3. \A k \in Secrets : LiveAt(s, k)' <=> Named(s, k)'
      BY <1>4, <2>2, Zenon DEF LiveAt, Named
    <2> QED BY <1>2, <1>4, <2>1, <2>3, Zenon DEF Agree, CopiesEqual, NamedLive, Account
  <1>6. Frame(s)
    BY <1>4, Zenon DEF Frame
  <1>7. LeavesNone(p, s)
    <2>1. sec[req[p].mine] = "pending" => s \in ProjectScopes /\ ~sa[s] /\ holder[s] # "absent"
      BY <1>1, <1>2, Zenon DEF MintTimeout, IssuingStage
    <2>2. ASSUME NEW k \in Secrets, k # req[p].mine, home[k] = s, sec[k] = "pending"
          PROVE  s \in ProjectScopes /\ ~sa[s] /\ holder[s] # "absent"
      BY <1>1, <1>2, <2>2, Zenon DEF SeqInv, Orphan, At
    <2> QED BY <1>4, <2>1, <2>2, Zenon DEF LeavesNone
  <1> QED BY <1>1, <1>3, <1>5, <1>6, <1>7, SeqMove, Zenon

\* The row takes the new kubeconfig first.
LEMMA SeqStoreInRow ==
    ASSUME Sequential, IInv, SeqInv, NEW p \in Procs, StoreInRow(p) PROVE SeqInv'
  <1>1. PICK s : /\ Working(p, s) /\ req[p].pc = "store"
                 /\ UNCHANGED <<rec, sa, sec, home>>
    BY WorkingAt, Zenon DEF StoreInRow, At, Resting, cluster
  <1>2. IssuingStage(p) /\ Account(s) /\ s \in Scopes /\ req[p].scope = s
    BY <1>1, SeqFacts, Zenon DEF Stage, Working
  <1>3. SameLocals(p) /\ req'[p].pc = "lookup" /\ req'[p].ret = req[p].ret
    BY GoFacts, Zenon DEF StoreInRow, IInv, Pcs
  <1>4. /\ holderKc'[s] = req[p].mine
        /\ holder'[s] \in {"live", holder[s]} /\ holder'[s] # "absent"
        /\ \A t \in Scopes : t # s => holderKc'[t] = holderKc[t] /\ holder'[t] = holder[t]
    BY <1>2, Zenon DEF StoreInRow, IInv, TypeOK
  <1>5. Frame(s)
    BY <1>1, <1>4, Zenon DEF Frame
  <1>6. LeavesNone(p, s)
    BY <1>1, <1>4, KeepOrphans, Zenon
  <1>7. /\ req'[p].op = req[p].op /\ req'[p].scope = s /\ req'[p].mine = req[p].mine
        /\ req'[p].id = req[p].id /\ req'[p].prev = req[p].prev
    BY <1>2, <1>3, Zenon DEF SameLocals
  <1>8. Account(s)' /\ Found(p)' /\ Returns(p)' /\ RestNamed(p)'
    <2>1. Found(p) /\ Returns(p) /\ RestNamed(p)
      BY <1>1, <1>2, Zenon DEF IssuingStage
    <2>2. Found(p)' /\ Returns(p)'
      BY <1>1, <1>2, <1>3, <1>7, <2>1, Zenon DEF Found, Returns
    <2>3. RestNamed(p)'
      BY <1>1, <1>2, <1>7, <2>1, Zenon DEF RestNamed, Named, LiveAt
    <2>4. Account(s)'
      BY <1>1, <1>2, <1>4, Zenon DEF Account
    <2> QED BY <2>2, <2>3, <2>4
  <1>9. IssuingStage(p)'
    <2>1. /\ req[p].op # "create" /\ sec[req[p].mine] = "live" /\ holder[s] # "deleted"
          /\ sa[s] \/ (s \in ProjectScopes /\ holder[s] = "live")
      BY <1>1, <1>2, Zenon DEF IssuingStage
    <2> QED BY <1>1, <1>2, <1>3, <1>4, <1>7, <1>8, <2>1, ZenonT(60) DEF IssuingStage
  <1>10. Stage(p)' /\ ~Idle(p)'
    BY <1>3, <1>9, Zenon DEF Stage, Idle, Resting
  <1> QED BY <1>1, <1>5, <1>6, <1>7, <1>8, <1>10, SeqMove, Zenon

\* The record follows; from here on the old Secret is superseded.
LEMMA SeqWriteRecord ==
    ASSUME Sequential, IInv, SeqInv, NEW p \in Procs, WriteRecord(p) PROVE SeqInv'
  <1>1. PICK s : /\ Working(p, s) /\ req[p].pc = "write"
                 /\ UNCHANGED <<holder, holderKc, sa, sec, home>>
    BY WorkingAt, Zenon DEF WriteRecord, At, Resting, cluster
  <1>2. /\ IssuingStage(p) /\ Account(s) /\ s \in Scopes /\ req[p].scope = s
        /\ req[p] \in Request /\ Held(p) /\ rec[s] \in Record \cup {None}
    BY <1>1, SeqFacts, Zenon DEF Stage, Working, IInv, TypeOK
  <1> DEFINE e == req[p].existing
  <1>3. PICK m \in Secrets : m = req[p].mine /\ home[m] = s /\ sec[m] = "live" /\ ~Named(s, m)
    BY <1>1, <1>2, Zenon DEF Held, Holding, IssuingStage, RestNamed
  <1>4. /\ Found(p) /\ Returns(p) /\ RestNamed(p)
        /\ rec[s] = None => e = None
        /\ rec[s] # None => e = rec[s].id /\ e # None
    <2>1. rec[s] # None => rec[s].id \in Secrets
      BY <1>2, Zenon DEF Record
    <2> QED BY <1>1, <1>2, <2>1, ScopesAssumption, Zenon DEF IssuingStage
  <1>5. PICK i \in Secrets : /\ rec' = [rec EXCEPT ![s] = [id |-> i, secret |-> m]]
                             /\ Resume(p)
    <2>1. CASE rec[s] = None
      BY <1>2, <1>3, <1>4, <2>1, Zenon DEF WriteRecord
    <2>2. CASE rec[s] # None
      <3>1. rec[s].id \in Secrets
        BY <1>2, <2>2, Zenon DEF Record
      <3> QED BY <1>2, <1>3, <1>4, <2>2, <3>1, Zenon DEF WriteRecord
    <2> QED BY <2>1, <2>2, Zenon
  <1>6. /\ rec'[s] = [id |-> i, secret |-> m] /\ rec'[s] # None /\ rec'[s].secret = m
        /\ \A t \in Scopes : t # s => rec'[t] = rec[t]
    <2>1. [id |-> i, secret |-> m] \in Record
      BY <1>3, Zenon DEF Record
    <2> QED BY <1>2, <1>5, <2>1, ScopesAssumption, Zenon DEF IInv, TypeOK
  <1>7. /\ req[p].ret \in {"dropOld", "insertProject", "reread", "confirm"}
    BY <1>4, Zenon DEF Returns
  <1>8. /\ SameLocals(p) /\ req'[p].pc = req[p].ret
    <2>1. Go(p, req[p].ret) /\ req[p].ret \in Pcs
      BY <1>5, <1>7, Zenon DEF Resume, Pcs
    <2> QED BY <2>1, GoFacts, Zenon DEF IInv
  <1>9. /\ req'[p].op = req[p].op /\ req'[p].scope = s /\ req'[p].mine = m
        /\ req'[p].prev = req[p].prev
    BY <1>2, <1>3, <1>8, Zenon DEF SameLocals
  <1>10. Frame(s)
    BY <1>1, <1>6, Zenon DEF Frame
  <1>11. LeavesNone(p, s)
    BY <1>1, KeepOrphans, Zenon
  <1>12. holder[s] # "deleted" /\ (sa[s] \/ s \in ProjectScopes)
    BY <1>1, <1>2, Zenon DEF IssuingStage
  <1>13. Account(s)'
    BY <1>1, <1>2, <1>12, Zenon DEF Account, ProjectScopes
  <1>14. \A k \in Secrets : (LiveAt(s, k)' <=> LiveAt(s, k)) /\ (Named(s, k)' <=> k = m)
    BY <1>1, <1>6, Zenon DEF LiveAt, Named
  <1>15. \A k \in Secrets : k # m => (LiveAt(s, k) <=> Named(s, k))
    BY <1>2, <1>3, <1>4, Zenon DEF RestNamed
  <1>16. CASE req[p].op = "rotate"
    <2>1. req'[p].pc = "dropOld" /\ holderKc[s] = m
      BY <1>1, <1>2, <1>3, <1>4, <1>8, <1>16, Zenon DEF Returns, IssuingStage
    <2>2. rec[s] # None /\ rec[s].secret = req[p].prev
      BY <1>2, <1>4, <1>16, Zenon DEF Found
    <2>3. home[req[p].prev] = s /\ m # req[p].prev
      <3>1. home[rec[s].secret] = s
        BY <1>2, <2>2, Zenon DEF IInv, StoredTokensWereIssued
      <3>2. ~Named(s, m)
        BY <1>3, Zenon
      <3> QED BY <2>2, <3>1, <3>2, Zenon DEF Named
    <2>4. \A k \in Secrets : LiveAt(s, k)' => k \in {m, req[p].prev}
      BY <1>14, <1>15, <2>2, Zenon DEF Named
    <2>5. LiveAt(s, m)' /\ Named(s, m)'
      <3>1. LiveAt(s, m)
        BY <1>3, Zenon DEF LiveAt
      <3> QED BY <1>3, <1>14, <3>1, Zenon
    <2>6. DropOldStage(p)'
      BY <1>1, <1>9, <1>12, <2>1, <2>3, <2>4, <2>5, Zenon DEF DropOldStage
    <2>7. Stage(p)' /\ ~Idle(p)'
      BY <2>1, <2>6, Zenon DEF Stage, Idle, Resting
    <2> QED BY <1>1, <1>9, <1>10, <1>11, <1>13, <2>7, SeqMove, Zenon
  <1>17. CASE req[p].op # "rotate"
    <2>1. rec[s] = None
      BY <1>1, <1>2, <1>4, <1>17, Zenon DEF Found, Returns
    <2>2. NamedLive(s)' /\ Named(s, m)'
      <3>1. \A k \in Secrets : LiveAt(s, k)' <=> Named(s, k)'
        BY <1>3, <1>14, <1>15, <2>1, Zenon DEF Named, LiveAt
      <3>2. NamedLive(s)'
        BY <3>1 DEF NamedLive
      <3> QED BY <1>3, <1>14, <3>2, Zenon
    <2>3. CASE req[p].op = "create"
      <3>1. req'[p].pc = "insertProject" /\ s \in ProjectScopes /\ holder[s] = "absent"
        BY <1>1, <1>2, <1>4, <1>8, <2>3, Zenon DEF Returns, IssuingStage
      <3>2. IssuingStage(p)'
        BY <1>1, <1>9, <2>2, <2>3, <3>1, Zenon DEF IssuingStage
      <3>3. Stage(p)' /\ ~Idle(p)'
        BY <3>1, <3>2, Zenon DEF Stage, Idle, Resting
      <3> QED BY <1>1, <1>9, <1>10, <1>11, <1>13, <3>3, SeqMove, Zenon
    <2>4. CASE req[p].op # "create"
      <3>1. /\ holderKc[s] = m /\ req[p].op \in {"ensure", "bootstrap"}
            /\ req'[p].pc = IF s \in UserScopes THEN "reread" ELSE "confirm"
        BY <1>1, <1>2, <1>3, <1>4, <1>8, <1>17, <2>4, Zenon DEF Returns, IssuingStage
      <3>2. Agree(s)'
        BY <1>1, <1>6, <2>2, <3>1, Zenon DEF Agree, CopiesEqual
      <3>3. req'[p].pc # "reread" => req[p].op = "ensure"
        BY <1>2, <1>4, <3>1, Zenon DEF Returns
      <3>4. ReadingStage(p)'
        BY <1>1, <1>6, <1>9, <1>12, <3>1, <3>2, <3>3, Zenon DEF ReadingStage
      <3>5. Stage(p)' /\ ~Idle(p)'
        BY <3>1, <3>4, Zenon DEF Stage, Idle, Resting
      <3> QED BY <1>1, <1>9, <1>10, <1>11, <1>13, <3>5, SeqMove, Zenon
    <2> QED BY <2>3, <2>4, Zenon
  <1> QED BY <1>16, <1>17, Zenon

\* The project row comes last and carries the recorded kubeconfig.
LEMMA SeqInsertProject ==
    ASSUME Sequential, IInv, SeqInv, NEW p \in Procs, InsertProject(p) PROVE SeqInv'
  <1>1. PICK s : /\ Working(p, s) /\ req[p].pc = "insertProject"
                 /\ UNCHANGED <<rec, sa, sec, home>>
    BY WorkingAt, Zenon DEF InsertProject, At, Resting, cluster
  <1>2. /\ IssuingStage(p) /\ Account(s) /\ s \in Scopes /\ req[p].scope = s
        /\ req[p] \in Request
    BY <1>1, SeqFacts, Zenon DEF Stage, Working
  <1>3. Idle(p)'
    <2>1. req[p].mine \in SecretOrNone
      BY <1>2, Zenon DEF Request
    <2> QED BY <2>1, FinishFacts, Zenon DEF InsertProject, Return, IInv, Idle, Resting
  <1>4. /\ holderKc'[s] = req[p].mine /\ holder'[s] = "live"
        /\ \A t \in Scopes : t # s => holderKc'[t] = holderKc[t] /\ holder'[t] = holder[t]
    BY <1>2, Zenon DEF InsertProject, IInv, TypeOK
  <1>5. Frame(s)
    BY <1>1, <1>4, Zenon DEF Frame
  <1>6. LeavesNone(p, s)
    BY <1>1, <1>4, KeepOrphans, Zenon
  <1>7. Account(s)'
    BY <1>1, <1>2, <1>4, Zenon DEF Account
  <1>8. Agree(s)'
    <2>1. Named(s, req[p].mine) /\ NamedLive(s)
      BY <1>1, <1>2, Zenon DEF IssuingStage
    <2>2. NamedLive(s)'
      BY <1>1, <2>1, Zenon DEF NamedLive, Named, LiveAt
    <2>3. CopiesEqual(s)'
      BY <1>1, <1>4, <2>1, Zenon DEF CopiesEqual, Named
    <2> QED BY <2>2, <2>3 DEF Agree
  <1> QED BY <1>1, <1>3, <1>5, <1>6, <1>7, <1>8, SeqMove, Zenon

\* The superseded Secret goes, and the new one is the only one left.
LEMMA SeqDropOldSecret ==
    ASSUME Sequential, IInv, SeqInv, NEW p \in Procs, DropOldSecret(p) PROVE SeqInv'
  <1>1. PICK s : /\ Working(p, s) /\ req[p].pc = "dropOld"
                 /\ UNCHANGED <<rec, sa, home, holder, holderKc>>
    BY WorkingAt, Zenon DEF DropOldSecret, At, Resting, tables
  <1>2. DropOldStage(p) /\ Account(s) /\ s \in Scopes /\ req[p].scope = s
    BY <1>1, SeqFacts, Zenon DEF Stage, Working
  <1>3. SameLocals(p) /\ req'[p].pc = "report"
    BY GoFacts, Zenon DEF DropOldSecret, IInv, Pcs
  <1>4. sec' = [sec EXCEPT ![req[p].prev] = "gone"]
    BY Zenon DEF DropOldSecret, Sequential
  <1>5. \A k \in Secrets : /\ k = req[p].prev => sec'[k] = "gone"
                           /\ k # req[p].prev => sec'[k] = sec[k]
    BY <1>4, Zenon DEF IInv, TypeOK
  <1>6. Frame(s)
    BY <1>1, <1>2, <1>5, Zenon DEF Frame, DropOldStage
  <1>7. LeavesNone(p, s)
    BY <1>1, <1>5, KeepOrphans, Zenon
  <1>8. Account(s)'
    BY <1>1, <1>2, Zenon DEF Account
  <1>9. Agree(s)'
    <2>1. \A k \in Secrets : LiveAt(s, k)' <=> Named(s, k)'
      BY <1>1, <1>2, <1>5, Zenon DEF DropOldStage, LiveAt, Named
    <2>2. CopiesEqual(s)'
      BY <1>1, <1>2, Zenon DEF DropOldStage, CopiesEqual, Named
    <2> QED BY <2>1, <2>2 DEF Agree, NamedLive
  <1>10. req'[p].scope = s
    BY <1>2, <1>3, Zenon DEF SameLocals
  <1>11. Stage(p)' /\ ~Idle(p)'
    BY <1>3, <1>9, <1>10, Zenon DEF Stage, Idle, Resting
  <1> QED BY <1>1, <1>6, <1>7, <1>8, <1>10, <1>11, SeqMove, Zenon

\* Revocation: the Secret goes first ...
LEMMA SeqDropSecret ==
    ASSUME Sequential, IInv, SeqInv, NEW p \in Procs, DropSecret(p) PROVE SeqInv'
  <1>1. PICK s : /\ Working(p, s) /\ req[p].pc = "dropSecret"
                 /\ UNCHANGED <<rec, sa, home, holder, holderKc>>
    BY WorkingAt, Zenon DEF DropSecret, At, Resting, tables
  <1>2. DeletingStage(p) /\ Account(s) /\ s \in Scopes /\ req[p].scope = s
    BY <1>1, SeqFacts, Zenon DEF Stage, Working
  <1>3. SameLocals(p) /\ req'[p].pc = "clear"
    BY GoFacts, Zenon DEF DropSecret, IInv, Pcs
  <1>4. \A k \in Secrets : /\ k = req[p].prev => sec'[k] = "gone"
                           /\ k # req[p].prev => sec'[k] = sec[k]
    BY Zenon DEF DropSecret, IInv, TypeOK
  <1>5. Found(p) /\ Agree(s) /\ req[p].op = "delete"
    BY <1>1, <1>2, Zenon DEF DeletingStage
  <1>6. rec[s] # None /\ rec[s].secret = req[p].prev /\ home[req[p].prev] = s
    BY <1>2, <1>5, Zenon DEF Found, IInv, StoredTokensWereIssued
  <1>7. Frame(s)
    BY <1>1, <1>4, <1>6, Zenon DEF Frame
  <1>8. LeavesNone(p, s)
    BY <1>1, <1>4, KeepOrphans, Zenon
  <1>9. Account(s)'
    BY <1>1, <1>2, Zenon DEF Account
  <1>10. /\ req'[p].op = "delete" /\ req'[p].scope = s
         /\ req'[p].id = req[p].id /\ req'[p].prev = req[p].prev
    BY <1>2, <1>3, <1>5, Zenon DEF SameLocals
  <1>11. Found(p)'
    BY <1>1, <1>2, <1>5, <1>10, Zenon DEF Found
  <1>12. holder'[s] # "deleted" => CopiesEqual(s)' /\ NoneLive(s)'
    BY <1>1, <1>4, <1>5, <1>6, Zenon DEF Agree, CopiesEqual, NamedLive, NoneLive, Named, LiveAt
  <1>13. DeletingStage(p)'
    BY <1>3, <1>10, <1>11, <1>12, Zenon DEF DeletingStage
  <1>14. Stage(p)' /\ ~Idle(p)'
    BY <1>3, <1>13, Zenon DEF Stage, Idle, Resting
  <1> QED BY <1>1, <1>7, <1>8, <1>9, <1>10, <1>14, SeqMove, Zenon

\* ... then the copy in the row ...
LEMMA SeqClearRow ==
    ASSUME Sequential, IInv, SeqInv, NEW p \in Procs, ClearRow(p) PROVE SeqInv'
  <1>1. PICK s : /\ Working(p, s) /\ req[p].pc = "clear"
                 /\ UNCHANGED <<rec, sa, sec, home, holder>>
    BY WorkingAt, Zenon DEF ClearRow, At, Resting, cluster
  <1>2. DeletingStage(p) /\ Account(s) /\ s \in Scopes /\ req[p].scope = s
    BY <1>1, SeqFacts, Zenon DEF Stage, Working
  <1>3. SameLocals(p) /\ req'[p].pc = "dropRecord"
    BY GoFacts, Zenon DEF ClearRow, IInv, Pcs
  <1>4. /\ holderKc'[s] = None
        /\ \A t \in Scopes : t # s => holderKc'[t] = holderKc[t]
    BY <1>2, Zenon DEF ClearRow, IInv, TypeOK, Sequential
  <1>5. Found(p) /\ req[p].op = "delete" /\ (holder[s] # "deleted" => NoneLive(s))
    BY <1>1, <1>2, Zenon DEF DeletingStage
  <1>6. Frame(s)
    BY <1>1, <1>4, Zenon DEF Frame
  <1>7. LeavesNone(p, s)
    BY <1>1, KeepOrphans, Zenon
  <1>8. Account(s)'
    BY <1>1, <1>2, <1>4, Zenon DEF Account
  <1>9. /\ req'[p].op = "delete" /\ req'[p].scope = s
        /\ req'[p].id = req[p].id /\ req'[p].prev = req[p].prev
    BY <1>2, <1>3, <1>5, Zenon DEF SameLocals
  <1>10. Found(p)'
    BY <1>1, <1>2, <1>5, <1>9, Zenon DEF Found
  <1>11. holder'[s] # "deleted" => NoneLive(s)'
    BY <1>1, <1>5, Zenon DEF NoneLive, LiveAt
  <1>12. DeletingStage(p)'
    BY <1>3, <1>4, <1>9, <1>10, <1>11, Zenon DEF DeletingStage
  <1>13. Stage(p)' /\ ~Idle(p)'
    BY <1>3, <1>12, Zenon DEF Stage, Idle, Resting
  <1> QED BY <1>1, <1>6, <1>7, <1>8, <1>9, <1>13, SeqMove, Zenon

\* ... then the record, after which the copies agree again ...
LEMMA SeqDropRecord ==
    ASSUME Sequential, IInv, SeqInv, NEW p \in Procs, DropRecord(p) PROVE SeqInv'
  <1>1. PICK s : /\ Working(p, s) /\ req[p].pc = "dropRecord"
                 /\ UNCHANGED <<sa, sec, home, holder, holderKc>>
    BY WorkingAt, Zenon DEF DropRecord, At, Resting, cluster
  <1>2. DeletingStage(p) /\ Account(s) /\ s \in Scopes /\ req[p].scope = s
    BY <1>1, SeqFacts, Zenon DEF Stage, Working
  <1>3. SameLocals(p) /\ req'[p].pc = "count"
    BY GoFacts, Zenon DEF DropRecord, IInv, Pcs
  <1>4. /\ Found(p) /\ req[p].op = "delete" /\ holderKc[s] = None
        /\ holder[s] # "deleted" => NoneLive(s)
    BY <1>1, <1>2, Zenon DEF DeletingStage
  <1>5. rec' = [rec EXCEPT ![s] = None]
    BY <1>2, <1>4, Zenon DEF DropRecord, Found
  <1>6. rec'[s] = None /\ \A t \in Scopes : t # s => rec'[t] = rec[t]
    BY <1>2, <1>5, Zenon DEF IInv, TypeOK
  <1>7. Frame(s)
    BY <1>1, <1>6, Zenon DEF Frame
  <1>8. LeavesNone(p, s)
    BY <1>1, KeepOrphans, Zenon
  <1>9. Account(s)'
    BY <1>1, <1>2, <1>6, Zenon DEF Account
  <1>10. req'[p].op = "delete" /\ req'[p].scope = s
    BY <1>2, <1>3, <1>4, Zenon DEF SameLocals
  <1>11. Agree(s)'
    BY <1>1, <1>4, <1>6, Zenon DEF Agree, CopiesEqual, NamedLive, NoneLive, Named, LiveAt
  <1>12. DeletingStage(p)'
    BY <1>3, <1>6, <1>10, <1>11, Zenon DEF DeletingStage
  <1>13. Stage(p)' /\ ~Idle(p)'
    BY <1>3, <1>12, Zenon DEF Stage, Idle, Resting
  <1> QED BY <1>1, <1>7, <1>8, <1>9, <1>10, <1>13, SeqMove, Zenon

\* What the deletion of a ServiceAccount leaves of the Secrets.
LEMMA WithdrawnFacts ==
    ASSUME NEW s \in Scopes, sec' = Withdrawn(s), TypeOK, home' = home
    PROVE  /\ \A k \in Secrets : home[k] # s => sec'[k] = sec[k]
           /\ \A k \in Secrets : home[k] = s => sec'[k] \in {"gone", "unborn"}
  BY Zenon DEF Withdrawn, TypeOK

\* ... and last the ServiceAccount, with every Secret of it.
LEMMA SeqDropServiceAccount ==
    ASSUME Sequential, IInv, SeqInv, NEW p \in Procs, DropServiceAccount(p) PROVE SeqInv'
  <1>1. PICK s : /\ Working(p, s) /\ req[p].pc = "dropAccount"
                 /\ UNCHANGED <<home, rec, holder, holderKc>>
    BY WorkingAt, Zenon DEF DropServiceAccount, At, Resting, tables
  <1>2. DeletingStage(p) /\ Account(s) /\ s \in Scopes /\ req[p].scope = s
    BY <1>1, SeqFacts, Zenon DEF Stage, Working
  <1>3. Idle(p)'
    BY FinishFacts, Zenon DEF DropServiceAccount, Return, IInv, Idle, Resting, SecretOrNone
  <1>4. sa' = [sa EXCEPT ![s] = FALSE] /\ sec' = Withdrawn(s)
    BY <1>2, Zenon DEF DropServiceAccount, Sequential
  <1>5. ~sa'[s] /\ \A t \in Scopes : t # s => sa'[t] = sa[t]
    BY <1>2, <1>4, Zenon DEF IInv, TypeOK
  <1>6. /\ \A k \in Secrets : home[k] # s => sec'[k] = sec[k]
        /\ \A k \in Secrets : home[k] = s => sec'[k] \in {"gone", "unborn"}
    BY <1>1, <1>2, <1>4, WithdrawnFacts, Zenon DEF IInv
  <1>7. Agree(s) /\ rec[s] = None
    BY <1>1, <1>2, Zenon DEF DeletingStage
  <1>8. Frame(s)
    BY <1>1, <1>5, <1>6, Zenon DEF Frame
  <1>9. LeavesNone(p, s)
    BY <1>1, <1>6, Zenon DEF LeavesNone
  <1>10. Account(s)'
    BY <1>1, <1>2, <1>7, Zenon DEF Account
  <1>11. Agree(s)'
    <2>1. NamedLive(s)'
      BY <1>1, <1>6, <1>7, Zenon DEF NamedLive, Named, LiveAt
    <2> QED BY <1>1, <1>7, <2>1, Zenon DEF Agree, CopiesEqual
  <1> QED BY <1>1, <1>3, <1>8, <1>9, <1>10, <1>11, SeqMove, Zenon

\* DeleteProject deletes the one namespace of the project.
LEMMA SeqDropNamespace ==
    ASSUME Sequential, IInv, SeqInv, NEW p \in Procs, DropNamespace(p) PROVE SeqInv'
  <1>1. PICK s : /\ Working(p, s) /\ req[p].pc = "dropNamespaces"
                 /\ UNCHANGED <<home, rec, holder, holderKc>>
    BY WorkingAt DEF DropNamespace, At, Resting, tables
  <1>2. /\ req[p].op = "deleteProject" /\ s \in ProjectScopes /\ req[p].todo \subseteq {s}
        /\ holder[s] # "absent" /\ Account(s) /\ s \in Scopes /\ req[p].scope = s
    BY <1>1, SeqFacts, Zenon DEF Stage, Working
  <1>3. /\ sa' = [sa EXCEPT ![s] = FALSE] /\ sec' = Withdrawn(s)
        /\ req' = [req EXCEPT ![p].todo = @ \ {s}]
    BY <1>2, Zenon DEF DropNamespace, Sequential
  <1>4. /\ req'[p].pc = "dropNamespaces" /\ req'[p].op = "deleteProject" /\ req'[p].scope = s
        /\ req'[p].todo \subseteq {s}
    BY <1>1, <1>2, <1>3, Zenon DEF IInv, TypeOK, Request
  <1>5. ~sa'[s] /\ \A t \in Scopes : t # s => sa'[t] = sa[t]
    BY <1>2, <1>3, Zenon DEF IInv, TypeOK
  <1>6. /\ \A k \in Secrets : home[k] # s => sec'[k] = sec[k]
        /\ \A k \in Secrets : home[k] = s => sec'[k] \in {"gone", "unborn"}
    BY <1>1, <1>2, <1>3, WithdrawnFacts DEF IInv
  <1>7. Frame(s)
    BY <1>1, <1>5, <1>6, Zenon DEF Frame
  <1>8. LeavesNone(p, s)
    BY <1>1, <1>6, Zenon DEF LeavesNone
  <1>9. Account(s)'
    BY <1>1, <1>2, Zenon DEF Account, ProjectScopes
  <1>10. Stage(p)' /\ ~Idle(p)'
    BY <1>1, <1>2, <1>4, Zenon DEF Stage, Idle, Resting
  <1> QED BY <1>1, <1>4, <1>7, <1>8, <1>9, <1>10, SeqMove, Zenon

\* The row of a deleted project keeps whatever copy it held.
LEMMA SeqSoftDelete ==
    ASSUME Sequential, IInv, SeqInv, NEW p \in Procs, SoftDelete(p) PROVE SeqInv'
  <1>1. PICK s : /\ Working(p, s) /\ req[p].pc = "softDelete"
                 /\ UNCHANGED <<home, sec, sa, rec, holderKc>>
    BY WorkingAt, Zenon DEF SoftDelete, At, Resting, cluster
  <1>2. /\ req[p].op = "deleteProject" /\ s \in ProjectScopes
        /\ s \in Scopes /\ req[p].scope = s
    BY <1>1, SeqFacts, Zenon DEF Stage, Working
  <1>3. /\ holder' = [holder EXCEPT ![s] = "deleted"] /\ Return(p, None)
    BY <1>2, Zenon DEF SoftDelete
  <1>4. Idle(p)'
    BY <1>3, FinishFacts, Zenon DEF Return, IInv, Idle, Resting, SecretOrNone
  <1>5. /\ holder'[s] = "deleted"
        /\ \A t \in Scopes : t # s => holder'[t] = holder[t]
    BY <1>2, <1>3, Zenon DEF IInv, TypeOK
  <1>6. Frame(s)
    BY <1>1, <1>5, Zenon DEF Frame
  <1>7. LeavesNone(p, s)
    BY <1>1, <1>5, KeepOrphans, Zenon
  <1>8. Account(s)' /\ Agree(s)'
    BY <1>2, <1>5, Zenon DEF Account, ProjectScopes, Agree
  <1> QED BY <1>1, <1>4, <1>6, <1>7, <1>8, SeqMove, Zenon

\* Between requests every scope is in order.
LEMMA SeqAtRest ==
    ASSUME Sequential, SeqInv, NEW p \in Procs, Idle(p)
    PROVE  /\ \A q \in Procs : q = p
           /\ \A s \in Scopes : Agree(s) /\ Account(s)
           /\ \A k \in Secrets : sec[k] = "pending" =>
                 home[k] \in ProjectScopes /\ ~sa[home[k]] /\ holder[home[k]] # "absent"
  <1>1. \A q \in Procs : q = p
    BY DEF Sequential
  <1>2. \A q \in Procs : ~At(q, "poll")
    BY <1>1 DEF Idle, At, Resting
  <1>3. \A s \in Scopes : Agree(s) /\ Account(s)
    BY <1>1, Zenon DEF SeqInv
  <1>4. ASSUME NEW k \in Secrets, sec[k] = "pending"
        PROVE  home[k] \in ProjectScopes /\ ~sa[home[k]] /\ holder[home[k]] # "absent"
    BY <1>2, <1>4, Zenon DEF SeqInv, Orphan
  <1> QED BY <1>1, <1>3, <1>4, Zenon

\* A client's request changes no store.
LEMMA SeqBegin ==
    ASSUME Sequential, SeqInv, NEW p \in Procs, Idle(p), UNCHANGED <<cluster, tables>>,
           Idle(p)' \/ Stage(p)'
    PROVE  SeqInv'
  <1>1. UNCHANGED <<holder, holderKc, rec, sa, sec, home>>
    BY DEF cluster, tables
  <1>2. /\ \A q \in Procs : q = p
        /\ \A s \in Scopes : Agree(s) /\ Account(s)
        /\ \A k \in Secrets : sec[k] = "pending" =>
              home[k] \in ProjectScopes /\ ~sa[home[k]] /\ holder[home[k]] # "absent"
    BY SeqAtRest, Zenon
  <1>3. \A k \in Secrets : Orphan(k)'
    BY <1>1, <1>2, Zenon DEF Orphan
  <1>4. ASSUME NEW s \in Scopes PROVE Agree(s)' /\ Account(s)'
    <2>1. Agree(s) /\ Account(s)
      BY <1>2, Zenon
    <2>2. Agree(s)'
      BY <1>1, <2>1, Zenon DEF Agree, CopiesEqual, NamedLive, Named, LiveAt
    <2>3. Account(s)'
      BY <1>1, <2>1, Zenon DEF Account
    <2> QED BY <2>2, <2>3
  <1>5. \A q \in Procs : ~Idle(q)' => Stage(q)'
    BY <1>2, Zenon
  <1> QED BY <1>3, <1>4, <1>5, Zenon DEF SeqInv

\* What the first stage of an ensure, a bootstrap or a create asks for.
LEMMA SeqProvision ==
    ASSUME Sequential, SeqInv, NEW p \in Procs, Idle(p), UNCHANGED <<cluster, tables>>,
           NEW s \in Scopes, NEW o \in {"ensure", "bootstrap", "create"},
           req'[p].op = o, req'[p].scope = s, req'[p].pc = "provision",
           req'[p].ret = IF o = "create" THEN "insertProject" ELSE "reread",
           o = "create" => s \in ProjectScopes /\ holder[s] = "absent",
           o # "create" => s \in UserScopes, rec[s] = None
    PROVE  SeqInv'
  <1>1. UNCHANGED <<holder, holderKc, rec, sa, sec, home>>
    BY Zenon DEF cluster, tables
  <1>2. Agree(s)
    BY SeqAtRest, Zenon
  <1>3. Agree(s)'
    BY <1>1, <1>2, Zenon DEF Agree, CopiesEqual, NamedLive, Named, LiveAt
  <1>4. Found(p)'
    BY <1>1, Zenon DEF Found
  <1>5. Returns(p)'
    BY Zenon DEF Returns
  <1>6. IssuingStage(p)'
    BY <1>1, <1>3, <1>4, <1>5, Zenon DEF IssuingStage
  <1>7. Stage(p)'
    BY <1>6, Zenon DEF Stage
  <1> QED BY <1>7, SeqBegin, Zenon

\* An ensure that finds the row with a kubeconfig looks for the record.
LEMMA SeqLook ==
    ASSUME Sequential, SeqInv, NEW p \in Procs, Idle(p), UNCHANGED <<cluster, tables>>,
           NEW s \in Scopes, req'[p].op = "ensure", req'[p].scope = s, req'[p].pc = "find",
           holder[s] # "deleted", s \in UserScopes => rec[s] # None
    PROVE  SeqInv'
  <1>1. UNCHANGED <<holder, holderKc, rec, sa, sec, home>>
    BY Zenon DEF cluster, tables
  <1>2. Agree(s)
    BY SeqAtRest, Zenon
  <1>3. Agree(s)'
    BY <1>1, <1>2, Zenon DEF Agree, CopiesEqual, NamedLive, Named, LiveAt
  <1>4. ReadingStage(p)'
    BY <1>1, <1>3, Zenon DEF ReadingStage
  <1>5. Stage(p)'
    BY <1>4, Zenon DEF Stage
  <1> QED BY <1>5, SeqBegin, Zenon

\* Ensure and bootstrap for a user.
LEMMA SeqUserRequests ==
    ASSUME Sequential, IInv, SeqInv, NEW p \in Procs, EnsureUser(p) \/ BootstrapUser(p)
    PROVE  SeqInv'
  <1>1. Idle(p) /\ UNCHANGED <<cluster, tables>> /\ TypeOK
    BY Zenon DEF EnsureUser, BootstrapUser, IInv
  <1>2. ASSUME NEW s \in UserScopes
        PROVE  /\ s \in Scopes /\ holder[s] # "deleted"
               /\ holderKc[s] = None => rec[s] = None
               /\ holderKc[s] # None => rec[s] # None
               /\ holder[s] = "absent" => holderKc[s] = None
    <2>1. s \in Scopes
      BY ScopesAssumption, Zenon
    <2>2. Agree(s) /\ Account(s)
      BY <1>1, <2>1, SeqAtRest, Zenon
    <2>3. holder[s] # "deleted" /\ CopiesEqual(s)
      BY <2>2, Zenon DEF Agree, Account
    <2>4. rec[s] # None => rec[s].secret \in Secrets
      BY <1>1, <2>1, Zenon DEF TypeOK, Record
    <2>5. rec[s] # None => rec[s].secret # None
      BY <2>4, ScopesAssumption, Zenon
    <2>6. /\ holderKc[s] = None => rec[s] = None
          /\ holderKc[s] # None => rec[s] # None
      BY <2>3, <2>5, Zenon DEF CopiesEqual
    <2>7. holder[s] = "absent" => holderKc[s] = None
      BY <2>2, Zenon DEF Account
    <2> QED BY <2>1, <2>3, <2>6, <2>7, Zenon
  <1>3. PICK s \in UserScopes :
          \/ /\ holder[s] = "absent" \/ holderKc[s] = None
             /\ Begin(p, "ensure", s, "provision", "reread")
                \/ Begin(p, "bootstrap", s, "provision", "reread")
          \/ /\ holderKc[s] # None
             /\ Begin(p, "ensure", s, "find", "reread")
          \/ req' = [req EXCEPT ![p] = [Blank EXCEPT
                !.op = "bootstrap", !.scope = s, !.pc = "done", !.got = holderKc[s]]]
    BY Zenon DEF EnsureUser, BootstrapUser, Sequential
  <1>4. /\ s \in Scopes /\ holder[s] # "deleted"
        /\ holderKc[s] = None => rec[s] = None
        /\ holderKc[s] # None => rec[s] # None
        /\ holder[s] = "absent" => holderKc[s] = None
    BY <1>2, Zenon
  <1>5. ASSUME holderKc[s] = None, NEW o \in {"ensure", "bootstrap"},
               Begin(p, o, s, "provision", "reread")
        PROVE  SeqInv'
    <2>1. /\ req'[p].op = o /\ req'[p].scope = s
          /\ req'[p].pc = "provision" /\ req'[p].ret = "reread"
      <3>1. o \in AllOps /\ "provision" \in Pcs /\ "reread" \in Pcs
        BY Zenon DEF AllOps, Pcs
      <3> QED BY <1>1, <1>4, <1>5, <3>1, BeginFacts, Zenon
    <2>2. /\ o \in {"ensure", "bootstrap", "create"} /\ o # "create" /\ rec[s] = None
          /\ req'[p].ret = IF o = "create" THEN "insertProject" ELSE "reread"
      BY <1>4, <1>5, <2>1, Zenon
    <2> QED BY <1>1, <1>4, <2>1, <2>2, SeqProvision, Zenon
  <1>6. ASSUME holderKc[s] # None, Begin(p, "ensure", s, "find", "reread")
        PROVE  SeqInv'
    <2>1. req'[p].op = "ensure" /\ req'[p].scope = s /\ req'[p].pc = "find"
      BY <1>1, <1>4, <1>6, BeginFacts, ZenonT(60) DEF AllOps, Pcs
    <2> QED BY <1>1, <1>4, <1>6, <2>1, SeqLook, Zenon
  <1>7. ASSUME req' = [req EXCEPT ![p] = [Blank EXCEPT
                  !.op = "bootstrap", !.scope = s, !.pc = "done", !.got = holderKc[s]]]
        PROVE  SeqInv'
    <2>1. req'[p].pc = "done"
      BY <1>1, <1>7 DEF TypeOK, Blank
    <2> QED BY <1>1, <2>1, SeqBegin, Zenon DEF Idle, Resting
  <1> QED BY <1>3, <1>4, <1>5, <1>6, <1>7

\* Ensure for a project, and the creation of one.
LEMMA SeqProjectRequests ==
    ASSUME Sequential, IInv, SeqInv, NEW p \in Procs, EnsureProject(p) \/ CreateProject(p)
    PROVE  SeqInv'
  <1>1. Idle(p) /\ UNCHANGED <<cluster, tables>> /\ TypeOK
    BY Zenon DEF EnsureProject, CreateProject, IInv
  <1>2. CASE EnsureProject(p)
    <2>1. PICK s \in ProjectScopes : holder[s] = "live" /\ Begin(p, "ensure", s, "find", "done")
      BY <1>2, Zenon DEF EnsureProject
    <2>2. s \in Scopes /\ s \notin UserScopes
      BY DEF ProjectScopes
    <2>3. req'[p].op = "ensure" /\ req'[p].scope = s /\ req'[p].pc = "find"
      BY <1>1, <2>1, <2>2, BeginFacts, ZenonT(60) DEF AllOps, Pcs, Resting
    <2> QED BY <1>1, <2>1, <2>2, <2>3, SeqLook, Zenon
  <1>3. CASE CreateProject(p)
    <2>1. PICK s \in ProjectScopes : /\ holder[s] = "absent" /\ rec[s] = None
                                     /\ Begin(p, "create", s, "provision", "insertProject")
      BY <1>3, Zenon DEF CreateProject
    <2>2. s \in Scopes
      BY DEF ProjectScopes
    <2>3. /\ req'[p].op = "create" /\ req'[p].scope = s
          /\ req'[p].pc = "provision" /\ req'[p].ret = "insertProject"
      BY <1>1, <2>1, <2>2, BeginFacts, ZenonT(60) DEF AllOps, Pcs
    <2> QED BY <1>1, <2>1, <2>2, <2>3, SeqProvision, Zenon
  <1> QED BY <1>2, <1>3

\* Rotation, revocation and the deletion of a project.
LEMMA SeqOtherRequests ==
    ASSUME Sequential, IInv, SeqInv, NEW p \in Procs,
           RotateBegin(p) \/ DeleteBegin(p) \/ DeleteProjectBegin(p)
    PROVE  SeqInv'
  <1>1. Idle(p) /\ UNCHANGED <<cluster, tables>> /\ TypeOK
    BY Zenon DEF RotateBegin, DeleteBegin, DeleteProjectBegin, IInv
  <1>2. UNCHANGED <<holder, holderKc, rec, sa, sec, home>>
    BY <1>1, Zenon DEF cluster, tables
  <1>3. ASSUME NEW s \in Scopes PROVE Agree(s)'
    <2>1. Agree(s)
      BY <1>1, SeqAtRest, Zenon
    <2> QED BY <1>2, <2>1, Zenon DEF Agree, CopiesEqual, NamedLive, Named, LiveAt
  <1>4. CASE RotateBegin(p)
    <2>1. PICK s \in Scopes :
            /\ rec[s] # None
            /\ req' = [req EXCEPT ![p] = [Blank EXCEPT
                  !.op = "rotate", !.scope = s, !.pc = "renew", !.ret = "dropOld",
                  !.id = rec[s].id, !.prev = rec[s].secret]]
      BY <1>4, Zenon DEF RotateBegin
    <2>2. /\ req'[p].op = "rotate" /\ req'[p].scope = s /\ req'[p].pc = "renew"
          /\ req'[p].ret = "dropOld" /\ req'[p].id = rec[s].id
          /\ req'[p].prev = rec[s].secret
      BY <1>1, <2>1 DEF TypeOK, Blank
    <2>3. Found(p)' /\ Returns(p)' /\ Agree(s)'
      BY <1>2, <1>3, <2>1, <2>2 DEF Found, Returns
    <2>4. IssuingStage(p)'
      BY <2>2, <2>3, Zenon DEF IssuingStage
    <2>5. Stage(p)'
      BY <2>2, <2>4, Zenon DEF Stage
    <2> QED BY <1>1, <2>5, SeqBegin, Zenon
  <1>5. CASE DeleteBegin(p)
    <2>1. PICK s \in Scopes :
            /\ rec[s] # None
            /\ req' = [req EXCEPT ![p] = [Blank EXCEPT
                  !.op = "delete", !.scope = s, !.pc = "dropSecret",
                  !.id = rec[s].id, !.prev = rec[s].secret]]
      BY <1>5, Zenon DEF DeleteBegin
    <2>2. /\ req'[p].op = "delete" /\ req'[p].scope = s /\ req'[p].pc = "dropSecret"
          /\ req'[p].id = rec[s].id /\ req'[p].prev = rec[s].secret
      BY <1>1, <2>1 DEF TypeOK, Blank
    <2>3. Found(p)' /\ Agree(s)'
      BY <1>2, <1>3, <2>1, <2>2 DEF Found
    <2>4. DeletingStage(p)'
      BY <2>2, <2>3, Zenon DEF DeletingStage
    <2>5. Stage(p)'
      BY <2>2, <2>4, Zenon DEF Stage
    <2> QED BY <1>1, <2>5, SeqBegin
  <1>6. CASE DeleteProjectBegin(p)
    <2>1. PICK s \in ProjectScopes :
            /\ holder[s] = "live"
            /\ req' = [req EXCEPT ![p] = [Blank EXCEPT
                  !.op = "deleteProject", !.scope = s, !.pc = "dropNamespaces",
                  !.todo = {s}]]
      BY <1>6, Zenon DEF DeleteProjectBegin
    <2>2. /\ req'[p].op = "deleteProject" /\ req'[p].scope = s
          /\ req'[p].pc = "dropNamespaces" /\ req'[p].todo = {s}
      BY <1>1, <2>1 DEF TypeOK, Blank
    <2>3. Stage(p)'
      BY <1>2, <2>1, <2>2 DEF Stage
    <2> QED BY <1>1, <2>3, SeqBegin, Zenon
  <1> QED BY <1>4, <1>5, <1>6, Zenon

\* A token is issued only for the Secret the request waits for.
LEMMA SeqTokenIssued ==
    ASSUME Sequential, IInv, SeqInv, NEW k \in Secrets, TokenIssued(k) PROVE SeqInv'
  <1>1. /\ sec[k] = "pending" /\ sa[home[k]] /\ req' = req
        /\ UNCHANGED <<holder, holderKc, rec, sa, home>>
        /\ sec' = [sec EXCEPT ![k] = "live"]
    BY Zenon DEF TokenIssued, tables
  <1>2. PICK p \in Procs : At(p, "poll") /\ req[p].mine = k
    BY <1>1, Zenon DEF SeqInv, Orphan
  <1>3. PICK s : Working(p, s) /\ req[p].pc = "poll"
    BY <1>2, WorkingAt, Zenon DEF At, Resting
  <1>4. /\ IssuingStage(p) /\ Account(s) /\ s \in Scopes /\ req[p].scope = s
        /\ Held(p) /\ \A q \in Procs : q = p
    BY <1>3, SeqFacts, Zenon DEF Stage, Working
  <1>5. home[k] = s
    BY <1>2, <1>3, <1>4, Zenon DEF Held, Holding
  <1>6. \A j \in Secrets : (j = k => sec'[j] = "live") /\ (j # k => sec'[j] = sec[j])
    BY <1>1, Zenon DEF IInv, TypeOK
  <1>7. Frame(s)
    BY <1>1, <1>5, <1>6, Zenon DEF Frame
  <1>8. LeavesNone(p, s)
    <2> SUFFICES ASSUME NEW j \in Secrets, home'[j] = s, sec'[j] = "pending" PROVE FALSE
      BY Zenon DEF LeavesNone
    <2>1. j # k /\ sec[j] = "pending" /\ home[j] = s
      BY <1>1, <1>6, Zenon
    <2>2. \A q \in Procs : At(q, "poll") => req[q].mine # j
      BY <1>2, <1>4, <2>1, Zenon
    <2> QED BY <1>1, <1>5, <2>1, <2>2, Zenon DEF SeqInv, Orphan
  <1>9. Account(s)'
    BY <1>1, <1>4, Zenon DEF Account
  <1>10. IssuingStage(p)'
    <2>1. Found(p) /\ Returns(p) /\ RestNamed(p) /\ CopiesEqual(s)
      BY <1>3, <1>4, Zenon DEF IssuingStage
    <2>2. Found(p)' /\ Returns(p)' /\ CopiesEqual(s)'
      BY <1>1, <2>1, Zenon DEF Found, Returns, CopiesEqual
    <2>3. RestNamed(p)'
      BY <1>1, <1>2, <1>6, <2>1, ZenonT(60) DEF RestNamed, Named, LiveAt
    <2> QED BY <1>1, <1>3, <1>4, <2>2, <2>3, Zenon DEF IssuingStage
  <1>11. Stage(p)' /\ ~Idle(p)' /\ req'[p].scope = s
    BY <1>1, <1>3, <1>4, <1>10, Zenon DEF Stage, Idle, Resting
  <1> QED BY <1>3, <1>7, <1>8, <1>9, <1>11, SeqMove, Zenon

\* A token that is refused makes no Secret live and none wait.
LEMMA SeqTokenRefused ==
    ASSUME Sequential, IInv, SeqInv, NEW k \in Secrets, TokenRefused(k) PROVE SeqInv'
  <1>1. /\ sec[k] = "pending" /\ req' = req
        /\ UNCHANGED <<holder, holderKc, rec, sa, home>>
        /\ sec' = [sec EXCEPT ![k] = "gone"]
    BY Zenon DEF TokenRefused, tables
  <1>2. \A j \in Secrets : /\ sec'[j] = "live" <=> sec[j] = "live"
                           /\ sec'[j] = "pending" => sec[j] = "pending"
    BY <1>1, Zenon DEF IInv, TypeOK
  <1>3. \A j \in Secrets : Orphan(j)'
    BY <1>1, <1>2, Zenon DEF SeqInv, Orphan, At
  <1>4. /\ \A s, j : j \in Secrets => (LiveAt(s, j)' <=> LiveAt(s, j))
        /\ \A s, j : Named(s, j)' <=> Named(s, j)
        /\ \A s : CopiesEqual(s)' <=> CopiesEqual(s)
        /\ \A s : Account(s)' <=> Account(s)
    BY <1>1, <1>2, Zenon DEF LiveAt, Named, CopiesEqual, Account
  <1>5. /\ \A s : NoneLive(s)' <=> NoneLive(s)
        /\ \A s : NamedLive(s)' <=> NamedLive(s)
    BY <1>4, Zenon DEF NoneLive, NamedLive
  <1>6. \A s : Agree(s)' <=> Agree(s)
    BY <1>1, <1>4, <1>5, Zenon DEF Agree
  <1>7. ASSUME NEW p \in Procs, ~Idle(p) PROVE Stage(p)'
    <2>1. Stage(p) /\ Held(p) /\ req'[p] = req[p]
      BY <1>1, <1>7, Zenon DEF SeqInv, IInv
    <2>2. (Found(p) => Found(p)') /\ (Returns(p) => Returns(p)')
      BY <1>1, Zenon DEF Found, Returns
    <2>3. RestNamed(p) => RestNamed(p)'
      BY <1>1, <1>4, Zenon DEF RestNamed
    <2>4. IssuingStage(p) => IssuingStage(p)'
      <3>1. req[p].pc \in {"store", "lookup", "write"} => req[p].mine \in Secrets
        BY <2>1, Zenon DEF Held, Holding
      <3> QED BY <1>1, <1>2, <1>4, <1>5, <1>6, <2>2, <2>3, <3>1, ZenonT(60) DEF IssuingStage
    <2>5. ReadingStage(p) => ReadingStage(p)'
      BY <1>1, <1>6, Zenon DEF ReadingStage
    <2>6. req[p].pc = "dropOld" /\ DropOldStage(p) => DropOldStage(p)'
      <3>1. DropOldStage(p) => req[p].mine \in Secrets
        <4>1. req[p].scope \in Scopes
          BY <1>7, Zenon DEF IInv, Control, InScope
        <4>2. rec[req[p].scope] \in Record \cup {None}
          BY <4>1, Zenon DEF IInv, TypeOK
        <4> QED BY <4>2, Zenon DEF DropOldStage, Named, Record
      <3> QED BY <1>1, <1>4, <3>1, Zenon DEF DropOldStage
    <2>7. DeletingStage(p) => DeletingStage(p)'
      BY <1>1, <1>4, <1>5, <1>6, <2>2, Zenon DEF DeletingStage
    <2> QED BY <1>1, <1>6, <2>1, <2>4, <2>5, <2>6, <2>7, Zenon DEF Stage
  <1>8. \A p \in Procs : ~Idle(p)' => Stage(p)'
    BY <1>1, <1>7, Zenon DEF Idle
  <1>9. \A s \in Scopes : /\ Account(s)'
                          /\ Agree(s)' \/ \E p \in Procs : ~Idle(p)' /\ req'[p].scope = s
    BY <1>1, <1>4, <1>6, Zenon DEF SeqInv, Idle
  <1> QED BY <1>3, <1>8, <1>9, Zenon DEF SeqInv

\* Nothing but the one request and the token controller moves the system.
LEMMA SeqNext == ASSUME Sequential, IInv, SeqInv, Next PROVE SeqInv'
  <1>1. CASE \E k \in Secrets : TokenIssued(k) \/ TokenRefused(k)
    BY <1>1, SeqTokenIssued, SeqTokenRefused, Zenon
  <1>2. ASSUME NEW p \in Procs, Client(p) PROVE SeqInv'
    <2>1. ~RenewKubeconfig(p) /\ ~DeleteUserBegin(p)
      BY Zenon DEF RenewKubeconfig, DeleteUserBegin, Sequential
    <2> QED BY <1>2, <2>1, SeqUserRequests, SeqProjectRequests, SeqOtherRequests, Zenon DEF Client
  <1>3. ASSUME NEW p \in Procs, Step(p) PROVE SeqInv'
    <2>1. ~LookupSwallowed(p)
      BY DEF LookupSwallowed, Sequential
    <2>2. ~SoftDeleteUser(p)
      <3> SUFFICES ASSUME SoftDeleteUser(p) PROVE FALSE
        OBVIOUS
      <3>1. req[p].pc = "forget" /\ ~Idle(p)
        BY Zenon DEF SoftDeleteUser, At, Idle, Resting
      <3> QED BY <3>1, Zenon DEF SeqInv, Stage
    <2>3. CASE ApplyNamespace(p) \/ RenewBegin(p) \/ MintCreate(p) \/ MintReady(p)
               \/ MintTimeout(p) \/ StoreInRow(p) \/ LookupRecord(p)
      BY <2>3, SeqApplyNamespace, SeqRenewBegin, SeqMintCreate, SeqMintReady,
         SeqMintTimeout, SeqStoreInRow, SeqLookupRecord, Zenon
    <2>4. CASE WriteRecord(p) \/ InsertProject(p) \/ RereadRow(p) \/ FindRecord(p)
               \/ ConfirmRecord(p) \/ DropOldSecret(p) \/ RotateReport(p)
      BY <2>4, SeqWriteRecord, SeqInsertProject, SeqRereadRow, SeqFindRecord,
         SeqLastRead, SeqDropOldSecret, Zenon
    <2>5. CASE DropSecret(p) \/ ClearRow(p) \/ DropRecord(p) \/ CountRecords(p)
               \/ DropServiceAccount(p) \/ DropNamespace(p) \/ NamespacesDropped(p)
               \/ SoftDelete(p)
      BY <2>5, SeqDropSecret, SeqClearRow, SeqDropRecord, SeqCountRecords,
         SeqDropServiceAccount, SeqDropNamespace, SeqNamespacesDropped, SeqSoftDelete, Zenon
    <2> QED BY <1>3, <2>1, <2>2, <2>3, <2>4, <2>5, Zenon DEF Step
  <1>4. ASSUME NEW p \in Procs PROVE ~Stop(p)
    BY Zenon DEF Stop, Sequential
  <1> QED BY <1>1, <1>2, <1>3, <1>4, Zenon DEF Next

\* Neither does a stuttering step.
LEMMA SeqStutter == ASSUME SeqInv, UNCHANGED vars PROVE SeqInv'
  <1>1. UNCHANGED <<holder, holderKc, rec, sa, sec, home, req>>
    BY Zenon DEF vars
  <1> USE <1>1 DEF SeqInv
  <1>2. \A k \in Secrets : Orphan(k)'
    BY Zenon DEF Orphan, At
  <1>3. /\ \A s : Agree(s)' <=> Agree(s)
        /\ \A s : Account(s)' <=> Account(s)
        /\ \A s, k : Named(s, k)' <=> Named(s, k)
        /\ \A s, k : LiveAt(s, k)' <=> LiveAt(s, k)
        /\ \A s : CopiesEqual(s)' <=> CopiesEqual(s)
        /\ \A s : NoneLive(s)' <=> NoneLive(s)
        /\ \A s : NamedLive(s)' <=> NamedLive(s)
    BY Zenon DEF Agree, Account, CopiesEqual, NoneLive, NamedLive, Named, LiveAt
  <1>4. ASSUME NEW p \in Procs, ~Idle(p) PROVE Stage(p)'
    <2>1. Stage(p)
      BY <1>4, Zenon
    <2>2. /\ Found(p)' <=> Found(p)
          /\ Returns(p)' <=> Returns(p)
          /\ RestNamed(p)' <=> RestNamed(p)
      BY <1>3, Zenon DEF Found, Returns, RestNamed
    <2>3. IssuingStage(p)' <=> IssuingStage(p)
      BY <1>3, <2>2, ZenonT(60) DEF IssuingStage
    <2>4. ReadingStage(p)' <=> ReadingStage(p)
      BY <1>3, Zenon DEF ReadingStage
    <2>5. DropOldStage(p)' <=> DropOldStage(p)
      BY <1>3, Zenon DEF DropOldStage
    <2>6. DeletingStage(p)' <=> DeletingStage(p)
      BY <1>3, <2>2, Zenon DEF DeletingStage
    <2> QED BY <1>3, <2>1, <2>3, <2>4, <2>5, <2>6, Zenon DEF Stage
  <1> QED BY <1>2, <1>3, <1>4, Zenon DEF Idle

\* An empty system is in order.
LEMMA SeqInit == Init => SeqInv
  <1> SUFFICES ASSUME Init PROVE SeqInv
    OBVIOUS
  <1>1. \A p \in Procs : Idle(p)
    BY Zenon DEF Init, Idle, Resting, Blank
  <1>2. \A k \in Secrets : Orphan(k)
    BY Zenon DEF Init, Orphan
  <1>3. \A s \in Scopes : Account(s) /\ Agree(s)
    BY Zenon DEF Init, Account, Agree, CopiesEqual, NamedLive, Named, LiveAt
  <1> QED BY <1>1, <1>2, <1>3, Zenon DEF SeqInv

\* When requests do not overlap and nothing fails, the two copies of every
\* kubeconfig agree between requests and its token is the only live one:
\* for any number of projects, users and Secrets, and any sequence of ensures,
\* bootstraps, creations, rotations, revocations and project deletions.
THEOREM CopiesAgree == ASSUME Sequential PROVE Spec => []CopiesAgreeAtRest
  <1>1. Init => IInv /\ SeqInv
    BY InitIInv, SeqInit
  <1>2. IInv /\ SeqInv /\ [Next]_vars => IInv' /\ SeqInv'
    BY NextIInv, SeqNext, SeqStutter
  <1>3. IInv /\ SeqInv => CopiesAgreeAtRest
    <2> SUFFICES ASSUME IInv, SeqInv, \A p \in Procs : Idle(p), NEW s \in Scopes,
                        holder[s] # "deleted"
                 PROVE  /\ holderKc[s] = IF rec[s] = None THEN None ELSE rec[s].secret
                        /\ {k \in Secrets : home[k] = s /\ sec[k] = "live"}
                              = IF rec[s] = None THEN {} ELSE {rec[s].secret}
      BY Zenon DEF CopiesAgreeAtRest
    <2>1. Agree(s)
      BY Zenon DEF SeqInv
    <2>2. CopiesEqual(s) /\ \A k \in Secrets : LiveAt(s, k) <=> Named(s, k)
      BY <2>1, Zenon DEF Agree, NamedLive
    <2>3. rec[s] # None => rec[s].secret \in Secrets
      BY Zenon DEF IInv, TypeOK, Record
    <2> QED BY <2>2, <2>3, Zenon DEF CopiesEqual, LiveAt, Named
  <1> QED BY <1>1, <1>2, <1>3, PTL DEF Spec
=============================================================================
