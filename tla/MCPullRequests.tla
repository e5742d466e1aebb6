--------------------------- MODULE MCPullRequests ---------------------------
(* Small instances of PullRequests for TLC. *)
EXTENDS PullRequests, TLC

CONSTANTS w1, w2, r1, r2, b1, b2, main, release

OneWorker == {w1}
TwoWorkers == {w1, w2}
OneResource == {r1}
TwoResources == {r1, r2}
TwoBlocks == {b1, b2}

OneBase == {main}
TwoBases == {main, release}

\* The first block is there, or it is not yet; references come by edits.
FullVersion == {[blocks |-> {b1}, refs |-> {}]}
AnyVersion == FullVersion \cup {[blocks |-> {}, refs |-> {}]}

\* The second resource is declared in a child module kept elsewhere.
RootModule == {b1}
Declared == r1 :> b1 @@ r2 :> b2

BothRemoved == r1 :> "remove" @@ r2 :> "remove"
OneMigrated == r1 :> "change" @@ r2 :> "remove"
==============================================================================
