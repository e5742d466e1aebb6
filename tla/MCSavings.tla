------------------------------ MODULE MCSavings ------------------------------
(* Small instances of SavingsVerification for TLC. *)
EXTENDS SavingsVerification, TLC

CONSTANTS r1, r2, w1

TwoRecs == {r1, r2}
OneWorker == {w1}
\* The first instance costs something or nothing, the other one always the same.
MCCosts == r1 :> {0, 1} @@ r2 :> {1}

Entry(type, dry) == [type |-> type, status |-> "success", dry |-> dry]

StopOrTerminate == {Entry("stop", FALSE), Entry("stop", TRUE), Entry("terminate", FALSE)}
==============================================================================
