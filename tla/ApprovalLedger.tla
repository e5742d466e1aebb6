--------------------------- MODULE ApprovalLedger ---------------------------
(***************************************************************************)
(* What the approval of recommendations promises, without its threads, its *)
(* tables and its grace period: an approval opens one credit for one AWS   *)
(* write, a write spends a credit, and a credit may lapse (a refusal, a    *)
(* cancellation, a simulation, a pull request).  Nothing else opens a      *)
(* credit, except that a thread that dies after its write may leave behind *)
(* the row that says the write is still to be done.                        *)
(***************************************************************************)
EXTENDS Naturals

CONSTANT Recs

VARIABLES
    credit,     \* writes still to come, per recommendation
    approved,   \* approvals received
    written,    \* writes issued
    repeated    \* threads that died

ledger == <<credit, approved, written, repeated>>

Init ==
    /\ credit = [r \in Recs |-> 0]
    /\ approved = [r \in Recs |-> 0]
    /\ written = [r \in Recs |-> 0]
    /\ repeated = 0

Approve(r) ==
    /\ approved' = [approved EXCEPT ![r] = @ + 1]
    /\ credit' = [credit EXCEPT ![r] = @ + 1]
    /\ UNCHANGED <<written, repeated>>

Write(r) ==
    /\ credit[r] > 0
    /\ credit' = [credit EXCEPT ![r] = @ - 1]
    /\ written' = [written EXCEPT ![r] = @ + 1]
    /\ UNCHANGED <<approved, repeated>>

\* One decision may void several: a pull request opened for a scheduled row.
Lapse(r) ==
    /\ \E c \in 0..(credit[r] - 1) : credit' = [credit EXCEPT ![r] = c]
    /\ UNCHANGED <<approved, written, repeated>>

\* The thread that dies held r; what it held of the others is at most lost.
Die(r) ==
    /\ repeated' = repeated + 1
    /\ credit' \in [Recs -> Nat]
    /\ credit'[r] <= credit[r] + 1
    /\ \A s \in Recs \ {r} : credit'[s] <= credit[s]
    /\ UNCHANGED <<approved, written>>

Next == \E r \in Recs : Approve(r) \/ Write(r) \/ Lapse(r) \/ Die(r)

Spec == Init /\ [][Next]_ledger
=============================================================================
