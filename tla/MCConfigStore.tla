---------------------------- MODULE MCConfigStore ----------------------------
(***************************************************************************)
(* Constants for model checking ConfigStore and InstanceSchedule: one      *)
(* instance, the default times, a request for each section of the file.     *)
(***************************************************************************)
EXTENDS InstanceSchedule, TLC

CONSTANTS t1, t2, i1, office

TwoThreads   == {t1, t2}
OneInstance  == {i1}
OneTime      == {office}

Imported == [dry_run |-> Absent, whitelist |-> {i1}, instance_schedule |-> Absent]

GoLive   == [op |-> "dry_run", value |-> FALSE]
Protect  == [op |-> "add", id |-> i1]
Import   == [op |-> "import", document |-> Imported]
TurnOn   == [op |-> "schedule", enabled |-> TRUE, times |-> Absent]
TurnOff  == [op |-> "schedule", enabled |-> FALSE, times |-> Absent]

\* What the run of a schedule can see change: the switch, the whitelist and the
\* schedule, each by itself and, with an import, all at once.
Switches == {GoLive, Import, TurnOn, TurnOff}
Clicks   == {GoLive, Protect}

Interchangeable == Permutations(TwoThreads)

\* The invariants are about what happens until something overtaken is used.
Undisturbed == ~disturbed
=============================================================================
