---------------------------- MODULE MCActionBatch ----------------------------
(* Two requests on one recommendation of each execution mode, their lists  *)
(* in both orders.                                                         *)
EXTENDS ActionBatch

CONSTANTS q1, q2, man, ec2, vol

MCRequests == {q1, q2}
MCRecs == {man, ec2, vol}
MCMode == [r \in MCRecs |-> CASE r = man -> "manual" [] r = ec2 -> "boto3"
                              [] r = vol -> "remediator"]
AllPending == [r \in MCRecs |-> "pending"]

MCInitial == {AllPending, [AllPending EXCEPT ![ec2] = "scheduled"],
              [AllPending EXCEPT ![ec2] = "scheduled", ![man] = "rejected"],
              [AllPending EXCEPT ![ec2] = "rejected", ![man] = "scheduled"]}

Lists == {<<man, vol>>, <<vol, man>>, <<ec2, man>>, <<man, ec2, vol>>}

MCBatches ==
    [verb : {"approve"}, ids : Lists, grace : BOOLEAN]
    \cup [verb : {"reject", "dismiss"}, ids : {<<vol, man>>, <<man, ec2>>},
          grace : {FALSE}]
    \cup [verb : {"cancel", "restore"}, ids : {<<ec2, man>>}, grace : {FALSE}]
==============================================================================
