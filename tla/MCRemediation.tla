---------------------------- MODULE MCRemediation ----------------------------
(* Two workers on one resource, of each kind in turn.                      *)
EXTENDS Remediation

CONSTANTS w1, w2, r1

MCWorkers == {w1, w2}
MCResources == {r1}

Permissive == [enabled |-> TRUE, disabled |-> {}, ids |-> {}, tagged |-> {},
               sure |-> {r1}, hours |-> FALSE]
\* Automation is off, and at certain hours there are dry runs only.
OffDuty == [Permissive EXCEPT !.enabled = FALSE, !.hours = TRUE]
Shielded == [Permissive EXCEPT !.ids = {r1}]
TagProtected == [Permissive EXCEPT !.tagged = {r1}]

MCPolicies == {Permissive, OffDuty, Shielded, TagProtected}
==============================================================================
