----------------------------- MODULE MCLifecycle -----------------------------
(***************************************************************************)
(* Constants for model checking RecommendationLifecycle.                   *)
(***************************************************************************)
EXTENDS LifecycleLedger

CONSTANTS r1, q1, q2, job, button

OneRec      == {r1}
OneRequest  == {q1}
TwoRequests == {q1, q2}
OneSync     == {job}
TwoSyncs    == {job, button}

Nothing     == {}

Typed(t)     == [r \in {r1} |-> t]

Stop         == Typed("stop_instance")
Snapshot     == Typed("delete_snapshot")

Real    == [dryRun |-> FALSE, enabled |-> TRUE, grace |-> TRUE]
AtOnce  == [Real EXCEPT !.grace = FALSE]
Dry     == [Real EXCEPT !.dryRun = TRUE]
Degrade == [Real EXCEPT !.enabled = FALSE]

RealOnly    == {Real, AtOnce}
AllSettings == {Real, AtOnce, Dry, Degrade}
==============================================================================
