---------------------------- MODULE UsageLedger ----------------------------
(***************************************************************************)
(* What the usage writer promises of the hourly records: there is one per  *)
(* subject and hour; a record holds what was observed last, in one         *)
(* collection for all subjects; and only the records of the hour being     *)
(* written change, so those of earlier hours are final.                    *)
(***************************************************************************)
EXTENDS Naturals, Sequences

CONSTANTS Accounts, Hours, Absent

VARIABLES
    open,     \* the hour being written
    observed, \* the observation of this collection, once it is made
    ledger    \* the records

ledgerVars == <<open, observed, ledger>>

LedgerInit ==
    /\ open = 0 /\ observed = <<>>
    /\ ledger = [e \in Accounts \X Hours |-> Absent]

\* A new collection begins, in the same hour or a later one.
OpenHour ==
    /\ open' >= open /\ observed' = <<>>
    /\ UNCHANGED ledger

Observe ==
    /\ observed = <<>> /\ Len(observed') = 1 /\ DOMAIN observed'[1] = Accounts
    /\ UNCHANGED <<open, ledger>>

\* A record of this hour takes the value observed for its subject.
Enter ==
    /\ observed # <<>>
    /\ \E a \in Accounts : ledger' = [ledger EXCEPT ![<<a, open>>] = observed[1][a]]
    /\ UNCHANGED <<open, observed>>

LedgerNext == OpenHour \/ Observe \/ Enter
LedgerSpec == LedgerInit /\ [][LedgerNext]_ledgerVars
=============================================================================
