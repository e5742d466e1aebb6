--------------------------- MODULE LifecycleLedger ---------------------------
(***************************************************************************)
(* RecommendationLifecycle implements ApprovalLedger: the credits of a     *)
(* recommendation are the requests that may still write or schedule for    *)
(* it, and the executor's debt.                                            *)
(***************************************************************************)
EXTENDS RecommendationLifecycle

Ledger == INSTANCE ApprovalLedger WITH
              credit   <- [r \in Recs |-> Owed(r)],
              approved <- approvals,
              written  <- calls,
              repeated <- faults

\* Only an approval or the death of a thread opens a credit, one at a time,
\* and a write spends one of its own recommendation: whatever the requests,
\* the executor, the synchronisation, the pull requests and the detectors do,
\* no step turns one approval into two writes still to come (a row scheduled,
\* selected, cancelled, approved again and executed late).
ApprovalsAreCredits == Ledger!Spec
=============================================================================
