------------------------- MODULE PullRequestsProofs -------------------------
(***************************************************************************)
(* Theorems about PullRequests, for any set of resources, request threads  *)
(* and blocks of Terraform code, and any bounds.                           *)
(*                                                                         *)
(* Each property has a short invariant of its own, on top of the types:    *)
(* the name of the branch says whose pull request it is (Heads); what is   *)
(* referred to while its removal is under way is late (CutsAreLate); the   *)
(* direct route is taken for a reason that does not go away (RouteJustified);*)
(* and whoever holds the number of a pull request knows whose it is and    *)
(* what became of it (NumbersKnown, RunKnows, RowFollows).                 *)
(***************************************************************************)
EXTENDS PullRequests, SequenceTheorems, TLAPS

-----------------------------------------------------------------------------
(* Types.                                                                  *)

Places == {"idle", "route", "prepare", "push", "create", "record", "api"}

PrRecord == [res : Resources, head : {<<r>> : r \in Resources},
             block : {None} \cup Blocks, edit : {"remove"},
             state : {"open", "closed", "merged"}]

ApprovalRecord == [pc : Places, res : Resources \cup {None}, dry : BOOLEAN, pr : Nat]

Question == [res : Resources, pr : Nat]

RunRecord == [pc : {"idle", "next", "update"}, todo : SUBSET Question,
              ask : Question \cup {None}, answer : {None, "approved", "rejected"},
              staged : SUBSET [res : Resources, status : {"approved", "rejected"}]]

CodeTypes ==
    /\ base \in Bases /\ late \subseteq Blocks
    /\ declared \in [{Default, base} -> SUBSET Blocks]
    /\ refs \in [{Default, base} -> SUBSET Blocks]
    /\ prs \in Seq(PrRecord)

RowTypes ==
    /\ rec \in [Resources -> Statuses] /\ url \in [Resources -> Nat]
    /\ api \subseteq Resources /\ blind \subseteq Resources

AtTypes ==
    /\ at \in [Workers -> ApprovalRecord]
    /\ \A w \in Workers : at[w].pc # "idle" => at[w].res \in Resources

RunTypes ==
    /\ sync \in RunRecord
    /\ sync.pc = "update" => sync.ask \in Question /\ sync.answer # None

Types == CodeTypes /\ RowTypes /\ AtTypes /\ RunTypes

\* Of a pull request only the state changes: once merged it stays so, and one
\* that was closed and is not any more was reopened.
PrsMove ==
    /\ reopened \subseteq reopened'
    /\ \A n \in DOMAIN prs :
          /\ n \in DOMAIN prs'
          /\ prs'[n].res = prs[n].res /\ prs'[n].head = prs[n].head
          /\ prs'[n].block = prs[n].block
          /\ prs[n].state = "merged" => prs'[n].state = "merged"
          /\ prs[n].state = "closed" => prs'[n].state = "closed" \/ n \in reopened'

\* The states of the pull requests move, their number does not.
SameNumber == prs' \in Seq(PrRecord) /\ DOMAIN prs' = DOMAIN prs /\ Len(prs') = Len(prs)

LEMMA SameLength ==
    ASSUME NEW S, NEW s \in Seq(S), NEW t \in [1..Len(s) -> S]
    PROVE  t \in Seq(S) /\ DOMAIN t = DOMAIN s /\ Len(t) = Len(s)
<1>1. Len(s) \in Nat /\ DOMAIN s = 1..Len(s)
  BY LenProperties
<1>2. t \in Seq(S)
  BY <1>1, SeqDef
<1>3. Len(t) \in Nat /\ DOMAIN t = 1..Len(t)
  BY <1>2, LenProperties
<1> QED
  BY <1>1, <1>2, <1>3

LEMMA StateType ==
    ASSUME Types, NEW n \in DOMAIN prs, NEW s \in {"open", "closed", "merged"},
           prs' = [prs EXCEPT ![n].state = s]
    PROVE  /\ SameNumber
           /\ \A m \in DOMAIN prs :
                 /\ prs'[m].res = prs[m].res /\ prs'[m].head = prs[m].head
                 /\ prs'[m].block = prs[m].block
                 /\ prs'[m].state = IF m = n THEN s ELSE prs[m].state
<1> DEFINE x == [prs[n] EXCEPT !.state = s]
<1>1. prs[n] \in PrRecord
  BY DEF Types, CodeTypes
<1>2. x \in PrRecord /\ x = [res |-> prs[n].res, head |-> prs[n].head,
                            block |-> prs[n].block, edit |-> prs[n].edit, state |-> s]
  BY <1>1 DEF PrRecord
<1>3. prs' = [prs EXCEPT ![n] = x]
  OBVIOUS
<1> HIDE DEF x
<1>4. prs \in Seq(PrRecord) /\ DOMAIN prs = 1..Len(prs) /\ prs \in [1..Len(prs) -> PrRecord]
  BY LenProperties DEF Types, CodeTypes
<1>6. prs' \in [1..Len(prs) -> PrRecord]
  BY <1>2, <1>3, <1>4
<1>7. SameNumber
  BY <1>4, <1>6, SameLength DEF SameNumber
<1>5. \A m \in DOMAIN prs : prs'[m] = IF m = n THEN x ELSE prs[m]
  BY <1>3
<1> QED
  BY <1>2, <1>5, <1>7

LEMMA DeleteType ==
    ASSUME Types, NEW head, DeleteBranch(head)
    PROVE  /\ SameNumber
           /\ \A m \in DOMAIN prs :
                 /\ prs'[m].res = prs[m].res /\ prs'[m].head = prs[m].head
                 /\ prs'[m].block = prs[m].block
                 /\ prs'[m].state = IF prs[m].head = head /\ prs[m].state = "open"
                                    THEN "closed" ELSE prs[m].state
<1> DEFINE x(m) == IF prs[m].head = head /\ prs[m].state = "open"
                   THEN [prs[m] EXCEPT !.state = "closed"] ELSE prs[m]
<1>4. \A m \in DOMAIN prs : prs[m] \in PrRecord
  BY DEF Types, CodeTypes
<1>5. \A m \in DOMAIN prs :
        [prs[m] EXCEPT !.state = "closed"]
          = [res |-> prs[m].res, head |-> prs[m].head, block |-> prs[m].block,
             edit |-> prs[m].edit, state |-> "closed"]
  BY <1>4 DEF PrRecord
<1>1. \A m \in DOMAIN prs : prs[m] \in PrRecord /\ x(m) \in PrRecord
  BY <1>4, <1>5 DEF PrRecord
<1>2. prs' = [m \in 1..Len(prs) |-> x(m)] /\ DOMAIN prs = 1..Len(prs) /\ Len(prs) \in Nat
  BY LenProperties DEF DeleteBranch, Types, CodeTypes
<1>3. SameNumber
  <2> HIDE DEF x
  <2> QED
    BY <1>1, <1>2, SameLength DEF SameNumber, Types, CodeTypes
<1> QED
  BY <1>2, <1>3, <1>5
LEMMA OneApproval ==
    ASSUME AtTypes, NEW w \in Workers, NEW x \in ApprovalRecord,
           x.pc # "idle" => x.res \in Resources, at' = [at EXCEPT ![w] = x]
    PROVE  AtTypes' /\ \A v \in Workers : at'[v] = IF v = w THEN x ELSE at[v]
<1>1. \A v \in Workers : at'[v] = IF v = w THEN x ELSE at[v]
  BY DEF AtTypes
<1> QED
  BY <1>1 DEF AtTypes

LEMMA GoesType ==
    ASSUME AtTypes, NEW w \in Workers, NEW p \in Places, Goes(w, p),
           at[w].pc # "idle"
    PROVE  /\ AtTypes'
           /\ \A v \in Workers \ {w} : at'[v] = at[v]
           /\ at'[w].pc = p /\ at'[w].res = at[w].res /\ at'[w].dry = at[w].dry
<1> DEFINE x == [at[w] EXCEPT !.pc = p]
<1>1. at[w] \in ApprovalRecord /\ at[w].res \in Resources
  BY DEF AtTypes
<1>2. /\ x \in ApprovalRecord /\ x.pc = p /\ x.res = at[w].res /\ x.dry = at[w].dry
      /\ at' = [at EXCEPT ![w] = x]
  BY <1>1 DEF ApprovalRecord, Goes
<1> HIDE DEF x
<1>3. AtTypes'
  BY <1>1, <1>2, OneApproval
<1>4. \A v \in Workers : at'[v] = IF v = w THEN x ELSE at[v]
  BY <1>1, <1>2, OneApproval
<1> QED
  BY <1>2, <1>3, <1>4

LEMMA EndsType ==
    ASSUME AtTypes, NEW w \in Workers, Ends(w)
    PROVE  /\ AtTypes'
           /\ \A v \in Workers \ {w} : at'[v] = at[v]
           /\ at'[w].pc = "idle" /\ at'[w].pr = 0
<1>1. NoApproval \in ApprovalRecord /\ NoApproval.pc = "idle" /\ NoApproval.pr = 0
  BY DEF NoApproval, ApprovalRecord, Places
<1>2. at' = [at EXCEPT ![w] = NoApproval]
  BY DEF Ends
<1>3. AtTypes' 
  BY <1>1, <1>2, OneApproval
<1>4. \A v \in Workers : at'[v] = IF v = w THEN NoApproval ELSE at[v]
  BY <1>1, <1>2, OneApproval
<1> QED
  BY <1>1, <1>3, <1>4

LEMMA NewPrType ==
    ASSUME Types, NEW w \in Workers, at[w].pc = "create"
    PROVE  /\ NewPr(w) \in PrRecord
           /\ Append(prs, NewPr(w)) \in Seq(PrRecord)
           /\ Len(Append(prs, NewPr(w))) = Len(prs) + 1
           /\ DOMAIN Append(prs, NewPr(w)) = DOMAIN prs \cup {Len(prs) + 1}
           /\ DOMAIN prs = 1..Len(prs) /\ Len(prs) \in Nat
           /\ \A n \in DOMAIN prs : Append(prs, NewPr(w))[n] = prs[n]
           /\ Append(prs, NewPr(w))[Len(prs) + 1] = NewPr(w)
<1>1. at[w].res \in Resources
  BY DEF Types, AtTypes
<1>2. NewPr(w) \in PrRecord
  BY <1>1, PullRequestsAssumption DEF NewPr, Branch, PrRecord
<1>3. prs \in Seq(PrRecord) /\ Len(prs) \in Nat /\ DOMAIN prs = 1..Len(prs)
  BY LenProperties DEF Types, CodeTypes
<1>4. /\ Append(prs, NewPr(w)) \in Seq(PrRecord)
      /\ Len(Append(prs, NewPr(w))) = Len(prs) + 1
      /\ \A i \in 1..Len(prs) : Append(prs, NewPr(w))[i] = prs[i]
      /\ Append(prs, NewPr(w))[Len(prs) + 1] = NewPr(w)
  BY <1>2, <1>3, AppendProperties
<1>5. DOMAIN Append(prs, NewPr(w)) = 1..(Len(prs) + 1)
  BY <1>4, LenProperties
<1> QED
  BY <1>2, <1>3, <1>4, <1>5

LEMMA InitTypes == Init => Types
<1> SUFFICES ASSUME Init PROVE Types
  OBVIOUS
<1>4. PICK v \in [{Default, base} -> Versions] :
        /\ declared = [x \in {Default, base} |-> v[x].blocks]
        /\ refs = [x \in {Default, base} |-> v[x].refs]
  BY DEF Init
<1>5. \A x \in {Default, base} : v[x].blocks \subseteq Blocks /\ v[x].refs \subseteq Blocks
  BY PullRequestsAssumption
<1>1. CodeTypes /\ RowTypes
  BY <1>4, <1>5, EmptySeq DEF Init, CodeTypes, RowTypes, Statuses
<1>2. AtTypes
  BY DEF Init, AtTypes, NoApproval, ApprovalRecord, Places
<1>3. RunTypes
  BY DEF Init, RunTypes, NoRun, RunRecord
<1> QED
  BY <1>1, <1>2, <1>3 DEF Types

-----------------------------------------------------------------------------
(* What each action does to the types and to the pull requests.            *)

LEMMA ApproveMoves ==
    ASSUME Types, NEW w \in Workers, NEW r \in Resources, NEW dry \in BOOLEAN,
           Approve(w, r, dry)
    PROVE  Types' /\ PrsMove
<1> DEFINE x == [NoApproval EXCEPT !.pc = "route", !.res = r, !.dry = dry]
<1>1. x \in ApprovalRecord /\ x.res = r
  BY DEF NoApproval, ApprovalRecord, Places
<1>5. at' = [at EXCEPT ![w] = x]
  BY DEF Approve
<1>2. AtTypes'
  <2> HIDE DEF x
  <2> QED
    BY <1>1, <1>5, OneApproval DEF Types
<1>3. UNCHANGED <<github, rows, sync, route>>
  BY DEF Approve
<1>4. Types'
  BY <1>2, <1>3 DEF Types, CodeTypes, RowTypes, RunTypes, github, rows, route
<1> QED
  BY <1>3, <1>4 DEF PrsMove, github

LEMMA RouteMoves ==
    ASSUME Types, NEW w \in Workers, Route(w)
    PROVE  Types' /\ PrsMove
<1>1. AtTypes'
  BY GoesType DEF Route, Types, Places
<1>2. UNCHANGED <<github, rows, sync, api>> /\ blind' \subseteq Resources
  BY DEF Route, Types, RowTypes, AtTypes
<1> QED
  BY <1>1, <1>2 DEF Types, CodeTypes, RowTypes, RunTypes, github, rows, PrsMove

LEMMA PrepareMoves ==
    ASSUME Types, NEW w \in Workers, Prepare(w)
    PROVE  Types' /\ PrsMove
<1>1. AtTypes'
  BY GoesType, EndsType DEF Prepare, Unprepared, Types, Places
<1>2. UNCHANGED <<github, rows, sync, route>>
  BY DEF Prepare
<1> QED
  BY <1>1, <1>2 DEF Types, CodeTypes, RowTypes, RunTypes, github, rows, route, PrsMove

LEMMA PushMoves ==
    ASSUME Types, NEW w \in Workers, Push(w)
    PROVE  Types' /\ PrsMove
<1>1. AtTypes'
  BY GoesType, EndsType DEF Push, Types, Places
<1>2. UNCHANGED <<base, declared, refs, prs, late, reopened, rows, sync, route>>
  BY DEF Push
<1> QED
  BY <1>1, <1>2 DEF Types, CodeTypes, RowTypes, RunTypes, rows, route, PrsMove

\* The thread keeps the number of the pull request it opened.
Keeps(w, k) == at' = [at EXCEPT ![w].pc = "record", ![w].pr = k]

LEMMA OpenedType ==
    ASSUME AtTypes, NEW w \in Workers, at[w].res \in Resources, NEW k \in Nat,
           Keeps(w, k)
    PROVE  /\ AtTypes'
           /\ \A v \in Workers \ {w} : at'[v] = at[v]
           /\ at'[w].pc = "record" /\ at'[w].pr = k /\ at'[w].res = at[w].res
<1> DEFINE y == [at[w] EXCEPT !.pc = "record"]
           x == [y EXCEPT !.pr = k]
<1>1. at[w] \in ApprovalRecord
  BY DEF AtTypes
<1>2. y \in ApprovalRecord /\ y.pc = "record" /\ y.res = at[w].res
  BY <1>1 DEF ApprovalRecord, Places
<1>3. x \in ApprovalRecord /\ x.pc = "record" /\ x.res = at[w].res /\ x.pr = k
  <2> HIDE DEF y
  <2> QED
    BY <1>2 DEF ApprovalRecord
<1>4. at' = [at EXCEPT ![w] = x]
  BY <1>1 DEF AtTypes, ApprovalRecord, Keeps
<1> HIDE DEF x, y
<1>5. AtTypes'
  BY <1>3, <1>4, OneApproval
<1>6. \A v \in Workers : at'[v] = IF v = w THEN x ELSE at[v]
  BY <1>3, <1>4, OneApproval
<1> QED
  BY <1>3, <1>5, <1>6

LEMMA CreatePrMoves ==
    ASSUME Types, NEW w \in Workers, CreatePr(w)
    PROVE  Types' /\ PrsMove
<1>1. /\ at[w] \in ApprovalRecord /\ at[w].res \in Resources
      /\ at[w].pc = "create" /\ at[w].pc # "idle"
  BY DEF CreatePr, Types, AtTypes
<1>2. ASSUME Keeps(w, Len(Append(prs, NewPr(w))))
      PROVE  AtTypes'
  <2> DEFINE k == Len(Append(prs, NewPr(w)))
  <2>1. k \in Nat
    BY <1>1, NewPrType
  <2>2. Keeps(w, k)
    BY <1>2
  <2>3. AtTypes
    BY DEF Types
  <2> HIDE DEF k
  <2> QED
    BY <1>1, <2>1, <2>2, <2>3, OpenedType
<1>3. AtTypes'
  BY <1>2, EndsType DEF CreatePr, Keeps, Types
<1>4. prs' \in {prs, Append(prs, NewPr(w))}
  BY DEF CreatePr
<1>5. prs' \in Seq(PrRecord) /\ \A m \in DOMAIN prs : m \in DOMAIN prs' /\ prs'[m] = prs[m]
  BY <1>1, <1>4, NewPrType DEF Types, CodeTypes
<1>6. UNCHANGED <<base, declared, refs, late, reopened, rows, sync, route>>
  BY DEF CreatePr
<1> QED
  BY <1>3, <1>5, <1>6 DEF Types, CodeTypes, RowTypes, RunTypes, rows, route, PrsMove

LEMMA RecordMoves ==
    ASSUME Types, NEW w \in Workers, Record(w)
    PROVE  Types' /\ PrsMove
<1>1. AtTypes'
  BY EndsType DEF Record, Types
<1>2. at[w] \in ApprovalRecord /\ at[w].res \in Resources
  BY DEF Record, Types, AtTypes
<1>3. rec' \in [Resources -> Statuses] /\ url' \in [Resources -> Nat]
  BY <1>2 DEF Record, rows, Types, RowTypes, Statuses, ApprovalRecord
<1>4. UNCHANGED <<github, sync, route>>
  BY DEF Record
<1> QED
  BY <1>1, <1>3, <1>4 DEF Types, CodeTypes, RowTypes, RunTypes, github, route, PrsMove

LEMMA DirectMoves ==
    ASSUME Types, NEW w \in Workers, Direct(w)
    PROVE  Types' /\ PrsMove
<1>1. AtTypes'
  BY EndsType DEF Direct, Types
<1>2. at[w].res \in Resources
  BY DEF Direct, Types, AtTypes
<1>3. rec' \in [Resources -> Statuses] /\ api' \subseteq Resources
  BY <1>2 DEF Direct, Types, RowTypes, Statuses
<1>4. UNCHANGED <<github, url, sync, blind>>
  BY DEF Direct
<1> QED
  BY <1>1, <1>3, <1>4 DEF Types, CodeTypes, RowTypes, RunTypes, github, PrsMove

LEMMA ApprovalMoves ==
    ASSUME Types, NEW w \in Workers, Approval(w)
    PROVE  Types' /\ PrsMove
  BY RouteMoves, PrepareMoves, PushMoves, CreatePrMoves, RecordMoves, DirectMoves
     DEF Approval

LEMMA FollowMoves ==
    ASSUME Types, Follow
    PROVE  Types' /\ PrsMove
<1>1. UNCHANGED <<github, url, at, route>>
  BY DEF Follow, SyncRead, SyncAsk, SyncUpdate, SyncCommit, rows
<1>2. CASE SyncRead
  <2> DEFINE asked == {[res |-> r, pr |-> url[r]] :
                         r \in {q \in Resources : rec[q] = "pr_open" /\ url[q] # 0}}
  <2>1. asked \subseteq Question
    BY DEF Question, Types, RowTypes
  <2> HIDE DEF asked
  <2>2. sync' = [NoRun EXCEPT !.pc = "next", !.todo = asked] /\ UNCHANGED rec
    BY <1>2 DEF SyncRead, asked, rows
  <2>3. RunTypes'
    BY <2>1, <2>2 DEF NoRun, RunTypes, RunRecord
  <2> QED
    BY <1>1, <2>2, <2>3 DEF Types, CodeTypes, RowTypes, AtTypes, github, route, PrsMove
<1>3. CASE SyncAsk
  <2>1. PICK t \in sync.todo :
          \/ sync' = [sync EXCEPT !.todo = @ \ {t},
                         !.pc = IF Answer(prs[t.pr].state) = None THEN "next"
                                ELSE "update",
                         !.ask = t, !.answer = Answer(prs[t.pr].state)]
          \/ sync' = [sync EXCEPT !.todo = @ \ {t}]
    BY <1>3 DEF SyncAsk
  <2>2. Answer(prs[t.pr].state) \in {None, "approved", "rejected"}
    BY DEF Answer
  <2>3. sync \in RunRecord /\ t \in Question /\ sync.pc = "next"
    BY <1>3, <2>1 DEF Types, RunTypes, RunRecord, SyncAsk
  <2>4. RunTypes'
    BY <2>1, <2>2, <2>3 DEF RunTypes, RunRecord
  <2>5. UNCHANGED rec
    BY <1>3 DEF SyncAsk, rows
  <2> QED
    BY <1>1, <2>4, <2>5 DEF Types, CodeTypes, RowTypes, AtTypes, github, route, PrsMove
<1>4. CASE SyncUpdate
  <2>3. PICK staged \in SUBSET [res : Resources, status : {"approved", "rejected"}] :
           sync' = [sync EXCEPT !.pc = "next", !.ask = None, !.answer = None,
                                !.staged = staged]
    <3>1. sync.ask.res \in Resources /\ sync.answer \in {"approved", "rejected"}
      BY <1>4 DEF SyncUpdate, Types, RunTypes, RunRecord, Question
    <3>2. sync.staged \in SUBSET [res : Resources, status : {"approved", "rejected"}]
      BY DEF Types, RunTypes, RunRecord
    <3> DEFINE staged == IF rec[sync.ask.res] = "pr_open"
                         THEN sync.staged \cup {[res |-> sync.ask.res,
                                                 status |-> sync.answer]}
                         ELSE sync.staged
    <3>3. staged \in SUBSET [res : Resources, status : {"approved", "rejected"}]
      BY <3>1, <3>2
    <3>4. sync' = [sync EXCEPT !.pc = "next", !.ask = None, !.answer = None,
                               !.staged = staged]
      BY <1>4 DEF SyncUpdate
    <3> QED
      BY <3>3, <3>4
  <2>1. RunTypes'
    BY <2>3 DEF Types, RunTypes, RunRecord
  <2>2. UNCHANGED rec
    BY <1>4 DEF SyncUpdate, rows
  <2> QED
    BY <1>1, <2>1, <2>2 DEF Types, CodeTypes, RowTypes, AtTypes, github, route, PrsMove
<1>5. CASE SyncCommit
  <2>1. RunTypes'
    BY <1>5 DEF SyncCommit, NoRun, RunTypes, RunRecord
  <2>2. \A r \in Resources : Locked(r) =>
          (CHOOSE u \in sync.staged : u.res = r).status \in Statuses
    BY DEF Locked, Types, RunTypes, RunRecord, Statuses
  <2>3. rec' \in [Resources -> Statuses]
    BY <1>5, <2>2 DEF SyncCommit, Types, RowTypes
  <2> QED
    BY <1>1, <2>1, <2>3 DEF Types, CodeTypes, RowTypes, AtTypes, github, route, PrsMove
<1> QED
  BY <1>2, <1>3, <1>4, <1>5 DEF Follow

LEMMA MergeType ==
    ASSUME Types, NEW n \in DOMAIN prs, Merge(n)
    PROVE  /\ declared' \in [{Default, base} -> SUBSET Blocks]
           /\ refs' \in [{Default, base} -> SUBSET Blocks]
<1>1. CASE base = Default
  BY <1>1 DEF Merge, Types, CodeTypes
<1>2. CASE base # Default
  <2>1. PICK v \in Crossed(prs[n].block) :
          /\ declared' = [declared EXCEPT ![base] = v.blocks]
          /\ refs' = [refs EXCEPT ![base] = v.refs]
    BY <1>2 DEF Merge
  <2>2. v.blocks \subseteq Blocks /\ v.refs \subseteq Blocks
    BY DEF Crossed, Types, CodeTypes
  <2> QED
    BY <2>1, <2>2 DEF Types, CodeTypes
<1> QED
  BY <1>1, <1>2

LEMMA PeopleMove ==
    ASSUME Types, People
    PROVE  Types' /\ PrsMove
<1>1. UNCHANGED <<url, at, sync, route>>
  BY DEF People, Merge, Close, Reopen, DeleteBranch, EditCode, Skip, rows
<1>2. ASSUME NEW n \in DOMAIN prs, Merge(n) \/ Close(n) \/ Reopen(n)
      PROVE  Types' /\ PrsMove
  <2>1. PICK s \in {"open", "closed", "merged"} :
          /\ prs' = [prs EXCEPT ![n].state = s]
          /\ \/ s # "open" /\ prs[n].state = "open" /\ reopened' = reopened
             \/ s = "open" /\ prs[n].state = "closed" /\ reopened' = reopened \cup {n}
          /\ UNCHANGED <<base, late, rows>>
    BY <1>2 DEF Merge, Close, Reopen
  <2>2. /\ declared' \in [{Default, base} -> SUBSET Blocks]
        /\ refs' \in [{Default, base} -> SUBSET Blocks]
    BY <1>2, MergeType DEF Close, Reopen, Types, CodeTypes
  <2> QED
    BY <1>1, <2>1, <2>2, StateType DEF SameNumber, Types, CodeTypes, RowTypes, AtTypes,
       RunTypes, rows, route, PrsMove
<1>3. ASSUME NEW head \in branches, DeleteBranch(head)
      PROVE  Types' /\ PrsMove
  <2>1. UNCHANGED <<base, declared, refs, late, reopened, rows>>
    BY <1>3 DEF DeleteBranch
  <2>2. /\ prs' \in Seq(PrRecord) /\ DOMAIN prs' = DOMAIN prs
        /\ \A m \in DOMAIN prs :
              /\ prs'[m].res = prs[m].res /\ prs'[m].head = prs[m].head
              /\ prs'[m].block = prs[m].block
              /\ prs[m].state # "open" => prs'[m].state = prs[m].state
    BY <1>3, DeleteType DEF SameNumber
  <2>3. PrsMove
    BY <2>1, <2>2 DEF PrsMove
  <2> QED
    BY <1>1, <2>1, <2>2, <2>3 DEF Types, CodeTypes, RowTypes, AtTypes, RunTypes,
       rows, route
<1>4. ASSUME NEW x \in {Default, base}, NEW b \in Blocks, EditCode(x, b)
      PROVE  Types' /\ PrsMove
  BY <1>1, <1>4 DEF EditCode, Types, CodeTypes, RowTypes, AtTypes, RunTypes, rows,
     route, PrsMove
<1>5. ASSUME NEW r \in Resources, Skip(r)
      PROVE  Types' /\ PrsMove
  BY <1>1, <1>5 DEF Skip, Types, CodeTypes, RowTypes, AtTypes, RunTypes, github,
     Statuses, route, PrsMove
<1> QED
  BY <1>2, <1>3, <1>4, <1>5 DEF People

LEMMA StutterMoves ==
    ASSUME Types, UNCHANGED vars
    PROVE  Types' /\ PrsMove
  BY DEF vars, Types, CodeTypes, RowTypes, AtTypes, RunTypes, PrsMove

LEMMA NextMoves ==
    ASSUME Types, [Next]_vars
    PROVE  Types' /\ PrsMove
  BY ApproveMoves, ApprovalMoves, FollowMoves, PeopleMove, StutterMoves DEF Next

-----------------------------------------------------------------------------
(* One pull request open for a resource.                                   *)

Heads == \A n \in DOMAIN prs : prs[n].head = <<prs[n].res>>

LEMMA PrsChange ==
    ASSUME [Next]_vars
    PROVE  \/ UNCHANGED prs
           \/ \E w \in Workers : CreatePr(w)
           \/ \E n \in DOMAIN prs : Merge(n) \/ Close(n) \/ Reopen(n)
           \/ \E head \in branches : DeleteBranch(head)
  BY DEF Next, Approve, Approval, Route, Prepare, Push, Record, Direct, Follow,
     SyncRead, SyncAsk, SyncUpdate, SyncCommit, People, EditCode, Skip, vars, github

LEMMA NextHeads ==
    ASSUME Types, Heads, OneOpenPr, [Next]_vars
    PROVE  Heads' /\ OneOpenPr'
<1>1. CASE UNCHANGED prs
  BY <1>1 DEF Heads, OneOpenPr
<1>2. ASSUME NEW w \in Workers, CreatePr(w)
      PROVE  Heads' /\ OneOpenPr'
  <2>1. CASE prs' = prs
    BY <2>1 DEF Heads, OneOpenPr
  <2>2. CASE prs' # prs
    <3> DEFINE k == Len(prs) + 1
    <3>1. ~OpenOn(<<at[w].res>>) /\ prs' = Append(prs, NewPr(w)) /\ at[w].pc = "create"
      BY <1>2, <2>2 DEF CreatePr, Branch
    <3>2. NewPr(w).head = <<at[w].res>> /\ NewPr(w).res = at[w].res
      BY DEF NewPr, Branch
    <3>3. /\ DOMAIN prs' = DOMAIN prs \cup {k}
          /\ \A n \in DOMAIN prs : prs'[n] = prs[n]
          /\ prs'[k] = NewPr(w)
      BY <3>1, NewPrType
    <3>4. \A n \in DOMAIN prs : prs[n].res = at[w].res => prs[n].state # "open"
      BY <3>1 DEF Heads, OpenOn
    <3> HIDE DEF k
    <3> QED
      BY <3>2, <3>3, <3>4 DEF Heads, OneOpenPr
  <2> QED
    BY <2>1, <2>2
<1>3. ASSUME NEW n \in DOMAIN prs, Merge(n) \/ Close(n)
      PROVE  Heads' /\ OneOpenPr'
  <2>1. PICK s \in {"closed", "merged"} : prs' = [prs EXCEPT ![n].state = s]
    BY <1>3 DEF Merge, Close
  <2> QED
    BY <2>1, StateType DEF SameNumber, Heads, OneOpenPr
<1>4. ASSUME NEW n \in DOMAIN prs, Reopen(n)
      PROVE  Heads' /\ OneOpenPr'
  <2>1. prs' = [prs EXCEPT ![n].state = "open"] /\ ~OpenOn(prs[n].head)
    BY <1>4 DEF Reopen
  <2>2. \A m \in DOMAIN prs : prs[m].res = prs[n].res => prs[m].state # "open"
    BY <2>1 DEF Heads, OpenOn
  <2> QED
    BY <2>1, <2>2, StateType DEF SameNumber, Heads, OneOpenPr
<1>5. ASSUME NEW head \in branches, DeleteBranch(head)
      PROVE  Heads' /\ OneOpenPr'
  BY <1>5, DeleteType DEF SameNumber, Heads, OneOpenPr
<1> QED
  BY <1>1, <1>2, <1>3, <1>4, <1>5, PrsChange

\* Every step keeps the types.
THEOREM TypesHold == Spec => []Types
<1>1. Init => Types
  BY InitTypes
<1>2. Types /\ [Next]_vars => Types'
  BY NextMoves
<1> QED
  BY <1>1, <1>2, PTL DEF Spec

\* However many requests approve a resource, whatever times out and is retried,
\* closed or reopened: it never has two pull requests open.
THEOREM OneOpenPrEver == Spec => []OneOpenPr
<1>1. Init => Heads /\ OneOpenPr
  BY DEF Init, Heads, OneOpenPr
<1>2. Types /\ Heads /\ OneOpenPr /\ [Next]_vars => (Heads /\ OneOpenPr)'
  BY NextHeads
<1> QED
  BY <1>1, <1>2, TypesHold, PTL DEF Spec

-----------------------------------------------------------------------------
(* Whatever dangles was written late.                                      *)

CutsAreLate == base = Default => \A b \in refs[base] : UnderWay(b) => b \in late

\* A step that refers to nothing more starts no cut of what is referred to.
LEMMA KeepsCuts ==
    ASSUME CutsAreLate, UNCHANGED <<base, refs>>, late \subseteq late',
           base = Default => \A b \in refs[base] : UnderWay(b)' => UnderWay(b)
    PROVE  CutsAreLate'
  BY DEF CutsAreLate

LEMMA KeepsDangling ==
    ASSUME DanglingIsLate, UNCHANGED <<base, declared, refs>>, late \subseteq late'
    PROVE  DanglingIsLate'
  BY DEF DanglingIsLate

LEMMA ApprovalCuts ==
    ASSUME Types, CutsAreLate, NEW w \in Workers, Approval(w)
    PROVE  CutsAreLate'
<1>1. /\ UNCHANGED <<base, declared, refs, late>> /\ at[w].pc # "idle" /\ AtTypes
      /\ at[w].res \in Resources
  BY DEF Approval, Route, Prepare, Push, CreatePr, Record, Direct, github, Types,
     AtTypes
<1>2. CASE Route(w) \/ Record(w) \/ Direct(w)
  <2>1. UNCHANGED prs
    BY <1>2 DEF Route, Record, Direct, github
  <2>2. /\ \A v \in Workers \ {w} : at'[v] = at[v]
        /\ at'[w].pc \notin {"push", "create"}
    BY <1>1, <1>2, GoesType, EndsType DEF Route, Record, Direct, Places
  <2> QED
    BY <1>1, <2>1, <2>2, KeepsCuts DEF UnderWay
<1>3. CASE Prepare(w)
  <2>1. UNCHANGED prs
    BY <1>3 DEF Prepare, github
  <2>2. /\ \A v \in Workers \ {w} : at'[v] = at[v]
        /\ at'[w].pc \in {"push", "create"} =>
              at'[w].res = at[w].res /\ Declares[at[w].res] \notin refs[Default]
    BY <1>1, <1>3, GoesType, EndsType DEF Prepare, Unprepared, Places, Referenced, Cloned
  <2> QED
    BY <1>1, <2>1, <2>2, KeepsCuts DEF UnderWay
<1>4. CASE Push(w)
  <2>1. UNCHANGED prs
    BY <1>4 DEF Push
  <2>2. /\ \A v \in Workers \ {w} : at'[v] = at[v]
        /\ at[w].pc = "push"
        /\ at'[w].pc \in {"push", "create"} => at'[w].res = at[w].res
    BY <1>1, <1>4, GoesType, EndsType DEF Push, Places
  <2> QED
    BY <1>1, <2>1, <2>2, KeepsCuts DEF UnderWay
<1>5. CASE CreatePr(w)
  <2>1. /\ \A v \in Workers \ {w} : at'[v] = at[v]
        /\ at[w].pc = "create"
        /\ at'[w].pc \notin {"push", "create"}
    <3> DEFINE k == Len(Append(prs, NewPr(w)))
    <3>1. k \in Nat
      BY <1>5, NewPrType DEF CreatePr
    <3>2. CASE Keeps(w, k)
      <4> HIDE DEF k
      <4> QED
        BY <1>1, <1>5, <3>1, <3>2, OpenedType DEF CreatePr
    <3>3. CASE Ends(w)
      BY <1>1, <1>5, <3>3, EndsType DEF CreatePr
    <3> QED
      BY <1>5, <3>2, <3>3 DEF CreatePr, Keeps
  <2>2. prs' \in {prs, Append(prs, NewPr(w))}
    BY <1>5 DEF CreatePr
  <2>3. \A n \in DOMAIN prs' : \/ n \in DOMAIN prs /\ prs'[n] = prs[n]
                               \/ prs'[n] = NewPr(w)
    BY <2>1, <2>2, NewPrType
  <2>4. NewPr(w).block = Declares[at[w].res]
    BY DEF NewPr
  <2> QED
    BY <1>1, <2>1, <2>3, <2>4, KeepsCuts DEF UnderWay
<1> QED
  BY <1>2, <1>3, <1>4, <1>5 DEF Approval

LEMMA NextCuts ==
    ASSUME Types, CutsAreLate, DanglingIsLate, [Next]_vars
    PROVE  CutsAreLate' /\ DanglingIsLate'
<1>1. ASSUME NEW w \in Workers, NEW r \in Resources, NEW dry \in BOOLEAN,
             Approve(w, r, dry)
      PROVE  CutsAreLate' /\ DanglingIsLate'
  <2>1. UNCHANGED <<base, declared, refs, late, prs>>
    BY <1>1 DEF Approve, github
  <2>2. \A v \in Workers : at'[v].pc \in {"push", "create"} => at'[v] = at[v]
    BY <1>1 DEF Approve, NoApproval, Types, AtTypes
  <2> QED
    BY <2>1, <2>2, KeepsCuts, KeepsDangling DEF UnderWay
<1>2. ASSUME NEW w \in Workers, Approval(w)
      PROVE  CutsAreLate' /\ DanglingIsLate'
  <2>1. UNCHANGED <<base, declared, refs, late>>
    BY <1>2 DEF Approval, Route, Prepare, Push, CreatePr, Record, Direct, github
  <2> QED
    BY <1>2, <2>1, ApprovalCuts, KeepsDangling
<1>3. ASSUME Follow \/ UNCHANGED vars \/ \E r \in Resources : Skip(r)
      PROVE  CutsAreLate' /\ DanglingIsLate'
  <2>1. UNCHANGED <<base, declared, refs, late, prs, at>>
    BY <1>3 DEF Follow, SyncRead, SyncAsk, SyncUpdate, SyncCommit, Skip, vars, github
  <2> QED
    BY <2>1, KeepsCuts, KeepsDangling DEF UnderWay
<1>4. ASSUME NEW n \in DOMAIN prs, Merge(n) \/ Close(n) \/ Reopen(n)
      PROVE  CutsAreLate' /\ DanglingIsLate'
  <2>1. /\ UNCHANGED <<base, late, at>> /\ prs[n].state # "merged"
        /\ base = Default =>
              /\ UNCHANGED refs
              /\ \/ declared' = declared
                 \/ declared' = [declared EXCEPT ![base] = @ \ {prs[n].block}]
    BY <1>4 DEF Merge, Close, Reopen
  <2>2. PICK s \in {"open", "closed", "merged"} : prs' = [prs EXCEPT ![n].state = s]
    BY <1>4 DEF Merge, Close, Reopen
  <2>3. /\ DOMAIN prs' = DOMAIN prs
        /\ \A m \in DOMAIN prs :
              /\ prs'[m].block = prs[m].block
              /\ prs'[m].state # "merged" => prs[m].state # "merged"
    BY <2>1, <2>2, StateType DEF SameNumber
  <2>4. UnderWay(prs[n].block)
    BY <2>1 DEF UnderWay
  <2>5. CutsAreLate'
    BY <2>1, <2>3 DEF CutsAreLate, UnderWay
  <2>7. base = Default => declared[base] \subseteq declared'[base] \cup {prs[n].block}
    BY <2>1 DEF Types, CodeTypes
  <2>6. DanglingIsLate'
    BY <2>1, <2>4, <2>7 DEF DanglingIsLate, CutsAreLate
  <2> QED
    BY <2>5, <2>6
<1>5. ASSUME NEW head \in branches, DeleteBranch(head)
      PROVE  CutsAreLate' /\ DanglingIsLate'
  <2>1. UNCHANGED <<base, declared, refs, late, at>>
    BY <1>5 DEF DeleteBranch
  <2>2. /\ DOMAIN prs' = DOMAIN prs
        /\ \A m \in DOMAIN prs :
              /\ prs'[m].block = prs[m].block
              /\ prs'[m].state # "merged" => prs[m].state # "merged"
    BY <1>5, DeleteType DEF SameNumber
  <2> QED
    BY <2>1, <2>2, KeepsCuts, KeepsDangling DEF UnderWay
<1>6. ASSUME NEW x \in {Default, base}, NEW b \in Blocks, EditCode(x, b)
      PROVE  CutsAreLate' /\ DanglingIsLate'
  <2>1. UNCHANGED <<base, declared, prs, at>> /\ b \in declared[x]
    BY <1>6 DEF EditCode
  <2>2. \A c : UnderWay(c)' <=> UnderWay(c)
    BY <2>1 DEF UnderWay
  <2>3. /\ late \subseteq late'
        /\ base = Default =>
              /\ refs'[base] \subseteq refs[base] \cup {b} /\ b \in declared[base]
              /\ b \in refs'[base] \ refs[base] /\ UnderWay(b) => b \in late'
    BY <1>6 DEF EditCode, Types, CodeTypes
  <2> QED
    BY <2>1, <2>2, <2>3 DEF CutsAreLate, DanglingIsLate
<1> QED
  BY <1>1, <1>2, <1>3, <1>4, <1>5, <1>6 DEF Next, People

\* Whoever merges in whatever order, where pull requests go to the branch that is
\* cloned: code that refers to a removed block was committed while the removal was
\* under way, never overlooked by it.  Of another base branch it says nothing.
THEOREM NothingOverlooked == Spec => []DanglingIsLate
<1>1. Init => CutsAreLate /\ DanglingIsLate
  <2> SUFFICES ASSUME Init PROVE CutsAreLate /\ DanglingIsLate
    OBVIOUS
  <2>1. PICK v \in [{Default, base} -> Versions] :
          /\ declared = [x \in {Default, base} |-> v[x].blocks]
          /\ refs = [x \in {Default, base} |-> v[x].refs]
    BY DEF Init
  <2>2. refs[base] \subseteq declared[base]
    BY <2>1, PullRequestsAssumption
  <2>3. \A b : ~UnderWay(b)
    BY DEF Init, UnderWay, NoApproval
  <2> QED
    BY <2>2, <2>3 DEF CutsAreLate, DanglingIsLate
<1>2. Types /\ CutsAreLate /\ DanglingIsLate /\ [Next]_vars
        => (CutsAreLate /\ DanglingIsLate)'
  BY NextCuts
<1> QED
  BY <1>1, <1>2, TypesHold, PTL DEF Spec

-----------------------------------------------------------------------------
(* The direct route.                                                       *)

\* A reason to go the direct way that does not go away.
Justified(r) ==
    (r \in Routed /\ Declares[r] \in Root) => (r \in blind \/ Declares[r] \notin declared[Default])

RouteJustified == \A w \in Workers : at[w].pc = "api" => Justified(at[w].res)

DirectJustified == \A r \in api : Justified(r)

LEMMA KeepsJustified ==
    ASSUME declared'[Default] \subseteq declared[Default], blind \subseteq blind', NEW r,
           Justified(r)
    PROVE  Justified(r)'
  BY DEF Justified

\* A merge changes the base branch, and nothing comes back to the default one.
LEMMA DefaultShrinks ==
    ASSUME Types, [Next]_vars
    PROVE  declared'[Default] \subseteq declared[Default]
<1>1. UNCHANGED declared \/ \E n \in DOMAIN prs : Merge(n)
  BY DEF Next, Approve, Approval, Route, Prepare, Push, CreatePr, Record, Direct,
     Follow, SyncRead, SyncAsk, SyncUpdate, SyncCommit, People, Close, Reopen,
     DeleteBranch, EditCode, Skip, vars, github
<1>2. ASSUME NEW n \in DOMAIN prs, Merge(n)
      PROVE  declared'[Default] \subseteq declared[Default]
  BY <1>2 DEF Merge, Types, CodeTypes
<1> QED
  BY <1>1, <1>2

LEMMA NextJustified ==
    ASSUME Types, RouteJustified, DirectJustified, [Next]_vars
    PROVE  RouteJustified' /\ DirectJustified'
<1>1. declared'[Default] \subseteq declared[Default] /\ blind \subseteq blind'
  BY DefaultShrinks DEF Next, Approve, Approval, Route, Prepare, Push, CreatePr, Record, Direct,
     Follow, SyncRead, SyncAsk, SyncUpdate, SyncCommit, People, Merge, Close, Reopen,
     DeleteBranch, EditCode, Skip, vars, github, route
<1>2. ASSUME NEW w \in Workers, Route(w) \/ Prepare(w)
      PROVE  RouteJustified' /\ DirectJustified'
  <2>1. AtTypes /\ at[w].pc # "idle"
    BY <1>2 DEF Route, Prepare, Types
  <2>2. /\ \A v \in Workers \ {w} : at'[v] = at[v]
        /\ at'[w].pc = "api" => at'[w].res = at[w].res /\ Justified(at[w].res)'
    <3>1. CASE Route(w)
      BY <2>1, <3>1, GoesType DEF Route, Places, Justified
    <3>2. CASE Prepare(w)
      BY <2>1, <3>2, GoesType, EndsType DEF Prepare, Unprepared, Places, Justified, Editable, Cloned,
         github, route
    <3> QED
      BY <1>2, <3>1, <3>2
  <2>3. UNCHANGED api
    BY <1>2 DEF Route, Prepare, route
  <2> QED
    BY <1>1, <2>2, <2>3, KeepsJustified DEF RouteJustified, DirectJustified
<1>3. ASSUME NEW w \in Workers, Push(w) \/ Record(w) \/ Direct(w) \/ CreatePr(w)
      PROVE  RouteJustified' /\ DirectJustified'
  <2>1. AtTypes /\ at[w].pc # "idle" /\ at[w].res \in Resources
    BY <1>3 DEF Push, Record, Direct, CreatePr, Types, AtTypes
  <2>2. /\ \A v \in Workers \ {w} : at'[v] = at[v]
        /\ at'[w].pc # "api"
    <3>1. CASE Push(w) \/ Record(w) \/ Direct(w)
      BY <2>1, <3>1, GoesType, EndsType DEF Push, Record, Direct, Places
    <3>2. CASE CreatePr(w)
      <4> DEFINE k == Len(Append(prs, NewPr(w)))
      <4>1. k \in Nat
        BY <3>2, NewPrType DEF CreatePr
      <4>2. CASE Keeps(w, k)
        <5> HIDE DEF k
        <5> QED
          BY <2>1, <4>1, <4>2, OpenedType
      <4>3. CASE Ends(w)
        BY <2>1, <4>3, EndsType
      <4> QED
        BY <3>2, <4>2, <4>3 DEF CreatePr, Keeps
    <3> QED
      BY <1>3, <3>1, <3>2
  <2>3. api' = api \/ (api' = api \cup {at[w].res} /\ at[w].pc = "api")
    BY <1>3 DEF Push, Record, Direct, CreatePr, route
  <2> QED
    BY <1>1, <2>2, <2>3, KeepsJustified DEF RouteJustified, DirectJustified
<1>4. ASSUME NEW w \in Workers, NEW r \in Resources, NEW dry \in BOOLEAN,
             Approve(w, r, dry)
      PROVE  RouteJustified' /\ DirectJustified'
  <2>1. /\ UNCHANGED api
        /\ \A v \in Workers : at'[v].pc = "api" => at'[v] = at[v]
    BY <1>4 DEF Approve, NoApproval, Types, AtTypes, route
  <2> QED
    BY <1>1, <2>1, KeepsJustified DEF RouteJustified, DirectJustified
<1>5. CASE Follow \/ People \/ UNCHANGED vars
  <2>1. UNCHANGED <<at, api>>
    BY <1>5 DEF Follow, SyncRead, SyncAsk, SyncUpdate, SyncCommit, People, Merge, Close,
       Reopen, DeleteBranch, EditCode, Skip, vars, route
  <2> QED
    BY <1>1, <2>1, KeepsJustified DEF RouteJustified, DirectJustified
<1> QED
  BY <1>2, <1>3, <1>4, <1>5 DEF Next, Approval

\* However an approval fails on its way to the pull request, it never falls back
\* to the direct route for what Terraform manages and the policy wants reviewed;
\* only a policy that could not be read lets it, or a default branch that never
\* declared it or does not any more.
THEOREM ManagedNeverDirect == Spec => []ManagedByPrOnly
<1>1. Init => RouteJustified /\ DirectJustified
  BY DEF Init, RouteJustified, DirectJustified, NoApproval
<1>2. Types /\ RouteJustified /\ DirectJustified /\ [Next]_vars
        => (RouteJustified /\ DirectJustified)'
  BY NextJustified
<1>3. DirectJustified => ManagedByPrOnly
  BY DEF DirectJustified, Justified, ManagedByPrOnly
<1> QED
  BY <1>1, <1>2, <1>3, TypesHold, PTL DEF Spec

-----------------------------------------------------------------------------
(* The rows follow the pull requests.                                      *)

Known(k, r) == k \in DOMAIN prs /\ prs[k].res = r

Merged(r) == \E n \in DOMAIN prs : prs[n].res = r /\ prs[n].state = "merged"

Settled(k) == prs[k].state = "closed" \/ k \in reopened

\* The row may stay rejected.
Refusal(r) == url[r] # 0 => (Settled(url[r]) \/ r \in overtaken)

\* The number a run holds is the one of the row, unless the row was overtaken.
Current(q) == q.res \in overtaken \/ url[q.res] = q.pr

\* Whoever holds the number of a pull request knows whose it is.
NumbersKnown ==
    /\ \A w \in Workers : at[w].pc = "record" => Known(at[w].pr, at[w].res)
    /\ \A r \in Resources : url[r] # 0 => Known(url[r], r)
    /\ \A q \in sync.todo : Known(q.pr, q.res)
    /\ sync.pc = "update" => Known(sync.ask.pr, sync.ask.res)

\* What the job read, was told and has staged.
RunKnows ==
    /\ sync.pc = "idle" => sync.todo = {} /\ sync.staged = {}
    /\ \A q \in sync.todo : Current(q)
    /\ sync.pc = "update" =>
          /\ Current(sync.ask)
          /\ sync.answer = "approved" => Merged(sync.ask.res)
          /\ sync.answer = "rejected" => Settled(sync.ask.pr)
    /\ \A u \in sync.staged :
          /\ u.status = "approved" => Merged(u.res)
          /\ u.status = "rejected" => Refusal(u.res)

\* StatusFollowsPr, of the rows a restoration made pending again as well.
RowFollows ==
    \A r \in Resources :
        /\ (rec[r] = "approved" /\ r \notin api) => Merged(r)
        /\ rec[r] \in {"rejected", "pending"} => Refusal(r)

LEMMA KnownStays ==
    ASSUME PrsMove, NEW k, NEW r, Known(k, r)
    PROVE  Known(k, r)'
  BY DEF PrsMove, Known

LEMMA MergedStays ==
    ASSUME PrsMove, NEW r, Merged(r)
    PROVE  Merged(r)'
  BY DEF PrsMove, Merged

LEMMA SettledStays ==
    ASSUME PrsMove, NEW k \in DOMAIN prs, Settled(k)
    PROVE  Settled(k)'
  BY DEF PrsMove, Settled

LEMMA RefusalStays ==
    ASSUME PrsMove, NumbersKnown, overtaken \subseteq overtaken', NEW r \in Resources,
           url'[r] = url[r], Refusal(r)
    PROVE  Refusal(r)'
  BY SettledStays DEF Refusal, NumbersKnown, Known

\* What moves neither the rows nor the job.
LEMMA ElsewhereFollows ==
    ASSUME Types, NumbersKnown, RunKnows, RowFollows, PrsMove,
           UNCHANGED <<rows, sync, overtaken, api>>
    PROVE  RunKnows' /\ RowFollows'
<1>1. /\ \A r \in Resources : Merged(r) => Merged(r)'
      /\ \A r \in Resources : Refusal(r) => Refusal(r)'
  BY MergedStays, RefusalStays DEF rows
<1>2. RowFollows'
  BY <1>1 DEF RowFollows, rows
<1>3. \A q \in Question : Current(q) => Current(q)'
  BY DEF Current, rows
<1>4. sync.pc = "update" =>
          /\ sync.ask \in Question /\ sync.ask.res \in Resources
          /\ sync.ask.pr \in DOMAIN prs
  BY DEF NumbersKnown, Known, Types, RunTypes, Question
<1>5. /\ sync.todo \subseteq Question
      /\ \A u \in sync.staged : u.res \in Resources
  BY DEF Types, RunTypes, RunRecord
<1>6. RunKnows'
  BY <1>1, <1>3, <1>4, <1>5, SettledStays DEF RunKnows
<1> QED
  BY <1>2, <1>6

LEMMA AsksOfResources ==
    ASSUME Types
    PROVE  /\ sync.todo \subseteq Question
           /\ \A q \in Question : q.res \in Resources
           /\ sync.pc = "update" => sync.ask \in Question
           /\ sync.staged \subseteq [res : Resources, status : {"approved", "rejected"}]
           /\ \A u \in sync.staged : u.res \in Resources
  BY DEF Types, RunTypes, RunRecord, Question

LEMMA RecordFollows ==
    ASSUME Types, NumbersKnown, RunKnows, RowFollows, NEW w \in Workers, Record(w)
    PROVE  RunKnows' /\ RowFollows'
<1> DEFINE r == at[w].res
<1>1. PrsMove /\ UNCHANGED <<prs, reopened, sync, api>> /\ r \in Resources
      /\ overtaken \subseteq overtaken'
  BY RecordMoves DEF Record, github, route, Types, AtTypes
<1>2. CASE UNCHANGED <<rows, overtaken>>
  BY <1>1, <1>2, ElsewhereFollows
<1>3. CASE /\ rec' = [rec EXCEPT ![r] = "pr_open"]
           /\ url' = [url EXCEPT ![r] = at[w].pr]
           /\ overtaken' = IF sync.pc = "idle" THEN overtaken ELSE overtaken \cup {r}
  <2>1. /\ \A p \in Resources \ {r} : rec'[p] = rec[p] /\ url'[p] = url[p]
        /\ rec'[r] = "pr_open"
    BY <1>1, <1>3 DEF Types, RowTypes
  <2>2. /\ \A p : Merged(p) => Merged(p)'
        /\ \A p \in Resources \ {r} : Refusal(p) => Refusal(p)'
    BY <1>1, <2>1 DEF Merged, Refusal, Settled
  <2>3. RowFollows'
    BY <1>1, <2>1, <2>2 DEF RowFollows
  <2>4. CASE sync.pc = "idle"
    BY <1>1, <2>3, <2>4 DEF RunKnows
  <2>5. CASE sync.pc # "idle"
    <3>1. r \in overtaken'
      BY <1>3, <2>5
    <3>2. \A p \in Resources : Refusal(p) => Refusal(p)'
      BY <2>2, <3>1 DEF Refusal
    <3>3. \A q \in Question : Current(q) => Current(q)'
      BY <1>1, <2>1, <3>1, AsksOfResources DEF Current
    <3>4. \A k : Settled(k) => Settled(k)'
      BY <1>1 DEF Settled
    <3> QED
      BY <1>1, <2>2, <2>3, <2>5, <3>2, <3>3, <3>4, AsksOfResources DEF RunKnows
  <2> QED
    BY <2>3, <2>4, <2>5
<1> QED
  BY <1>2, <1>3 DEF Record

LEMMA DecisionFollows ==
    ASSUME Types, NumbersKnown, RunKnows, RowFollows,
           \/ \E w \in Workers : Direct(w)
           \/ \E r \in Resources : Skip(r)
    PROVE  RunKnows' /\ RowFollows'
<1>1. UNCHANGED <<prs, reopened, url, sync, overtaken>> /\ api \subseteq api'
  BY DEF Direct, Skip, github, route
<1>2. /\ \A p : Merged(p) <=> Merged(p)'
      /\ \A p \in Resources : Refusal(p) <=> Refusal(p)'
      /\ \A q : Current(q) <=> Current(q)'
      /\ \A k : Settled(k) <=> Settled(k)'
  BY <1>1 DEF Merged, Refusal, Settled, Current
<1>3. RunKnows'
  BY <1>1, <1>2, AsksOfResources DEF RunKnows
<1>4. \A r \in Resources : 
        \/ rec'[r] = rec[r]
        \/ rec'[r] = "approved" /\ r \in api'
        \/ rec[r] \in {"pending", "rejected"} /\ rec'[r] \in {"pending", "rejected"}
  BY DEF Direct, Skip, Types, RowTypes, AtTypes
<1>5. RowFollows'
  BY <1>1, <1>2, <1>4 DEF RowFollows
<1> QED
  BY <1>3, <1>5

LEMMA FollowFollows ==
    ASSUME Types, NumbersKnown, RunKnows, RowFollows, Follow
    PROVE  RunKnows' /\ RowFollows'
<1>1. UNCHANGED <<prs, reopened, url, api, overtaken>>
  BY DEF Follow, SyncRead, SyncAsk, SyncUpdate, SyncCommit, github, route, rows
<1>2. /\ \A p : Merged(p) <=> Merged(p)'
      /\ \A p \in Resources : Refusal(p) <=> Refusal(p)'
      /\ \A q : Current(q) <=> Current(q)'
      /\ \A k : Settled(k) <=> Settled(k)'
  BY <1>1 DEF Merged, Refusal, Settled, Current
<1>3. UNCHANGED rec => RowFollows'
  BY <1>1, <1>2 DEF RowFollows
<1>4. sync \in RunRecord
  BY DEF Types, RunTypes
<1>5. CASE SyncRead
  <2>1. /\ UNCHANGED rec /\ sync'.pc = "next" /\ sync'.staged = {}
        /\ sync'.todo = {[res |-> r, pr |-> url[r]] :
                           r \in {q \in Resources : rec[q] = "pr_open" /\ url[q] # 0}}
    BY <1>5 DEF SyncRead, NoRun, rows
  <2>2. \A q \in sync'.todo : Current(q)'
    BY <1>1, <2>1 DEF Current
  <2> QED
    BY <1>3, <2>1, <2>2 DEF RunKnows
<1>6. CASE SyncAsk
  <2>1. PICK t \in sync.todo :
          \/ sync' = [sync EXCEPT !.todo = @ \ {t},
                         !.pc = IF Answer(prs[t.pr].state) = None THEN "next"
                                ELSE "update",
                         !.ask = t, !.answer = Answer(prs[t.pr].state)]
          \/ sync' = [sync EXCEPT !.todo = @ \ {t}]
    BY <1>6 DEF SyncAsk
  <2>2. UNCHANGED rec /\ sync.pc = "next"
    BY <1>6 DEF SyncAsk, rows
  <2>3. /\ sync'.todo = sync.todo \ {t} /\ sync'.staged = sync.staged
        /\ sync'.pc # "idle"
        /\ sync'.pc = "update" =>
              /\ sync'.ask = t /\ sync'.answer = Answer(prs[t.pr].state)
              /\ sync'.answer # None
    BY <1>4, <2>1, <2>2 DEF RunRecord
  <2>4. Known(t.pr, t.res) /\ Current(t)
    BY <2>1 DEF NumbersKnown, RunKnows
  <2>5. sync'.pc = "update" =>
           /\ sync'.answer = "approved" => Merged(t.res)
           /\ sync'.answer = "rejected" => Settled(t.pr)
    BY <2>3, <2>4 DEF Answer, Known, Merged, Settled
  <2>6. RunKnows'
    BY <1>2, <2>3, <2>4, <2>5, AsksOfResources DEF RunKnows
  <2> QED
    BY <1>3, <2>2, <2>6
<1>7. CASE SyncUpdate
  <2>1. /\ UNCHANGED rec /\ sync.pc = "update"
        /\ sync'.pc = "next" /\ sync'.todo = sync.todo
        /\ \/ sync'.staged = sync.staged
           \/ sync'.staged = sync.staged \cup
                               {[res |-> sync.ask.res, status |-> sync.answer]}
    BY <1>4, <1>7 DEF SyncUpdate, RunRecord, rows
  <2>2. sync.answer = "approved" => Merged(sync.ask.res)
    BY <2>1 DEF RunKnows
  <2>3. sync.answer = "rejected" => Refusal(sync.ask.res)
    BY <2>1 DEF RunKnows, Refusal, Current
  <2>4. \A u \in sync'.staged : \/ u \in sync.staged
                                \/ u.res = sync.ask.res /\ u.status = sync.answer
    BY <2>1
  <2>5. sync.ask.res \in Resources
    BY <2>1, AsksOfResources
  <2>6. RunKnows'
    BY <1>2, <2>1, <2>2, <2>3, <2>4, <2>5, AsksOfResources DEF RunKnows
  <2> QED
    BY <1>3, <2>1, <2>6
<1>8. CASE SyncCommit
  <2>1. RunKnows'
    BY <1>8 DEF SyncCommit, NoRun, RunKnows
  <2>2. CASE UNCHANGED rec
    BY <1>3, <2>1, <2>2
  <2>3. ASSUME NEW r \in Resources, rec'[r] # rec[r]
        PROVE  \/ rec'[r] = "approved" /\ Merged(r)
               \/ rec'[r] = "rejected" /\ Refusal(r)
    <3>1. Locked(r) /\ rec'[r] = (CHOOSE u \in sync.staged : u.res = r).status
      BY <1>8, <2>3 DEF SyncCommit
    <3>2. \E u \in sync.staged : u.res = r
      BY <3>1 DEF Locked
    <3>3. PICK u \in sync.staged : u.res = r /\ rec'[r] = u.status
      BY <3>1, <3>2
    <3>4. u.status \in {"approved", "rejected"}
      BY AsksOfResources
    <3> QED
      BY <3>3, <3>4 DEF RunKnows
  <2>4. RowFollows'
    BY <1>1, <1>2, <2>3 DEF RowFollows
  <2> QED
    BY <2>1, <2>4
<1> QED
  BY <1>5, <1>6, <1>7, <1>8 DEF Follow

LEMMA NextFollows ==
    ASSUME Types, NumbersKnown, RunKnows, RowFollows, [Next]_vars
    PROVE  RunKnows' /\ RowFollows'
<1>1. PrsMove
  BY NextMoves
<1>2. ASSUME NEW w \in Workers,
             Route(w) \/ Prepare(w) \/ Push(w) \/ CreatePr(w)
      PROVE  RunKnows' /\ RowFollows'
  BY <1>1, <1>2, ElsewhereFollows DEF Route, Prepare, Push, CreatePr, route
<1>3. ASSUME NEW w \in Workers, NEW r \in Resources, NEW dry \in BOOLEAN,
             Approve(w, r, dry)
      PROVE  RunKnows' /\ RowFollows'
  BY <1>1, <1>3, ElsewhereFollows DEF Approve, route
<1>4. CASE (People /\ ~(\E r \in Resources : Skip(r))) \/ UNCHANGED vars
  <2>1. UNCHANGED <<rows, sync, overtaken, api>>
    BY <1>4 DEF People, Merge, Close, Reopen, DeleteBranch, EditCode, vars, route, rows
  <2> QED
    BY <1>1, <2>1, ElsewhereFollows
<1> QED
  BY <1>2, <1>3, <1>4, RecordFollows, DecisionFollows, FollowFollows
     DEF Next, Approval, People

LEMMA NextNumbers ==
    ASSUME Types, NumbersKnown, [Next]_vars
    PROVE  NumbersKnown'
<1>1. PrsMove /\ AtTypes
  BY NextMoves DEF Types
<1>2. \A k, r : Known(k, r) => Known(k, r)'
  BY <1>1, KnownStays
<1>3. CASE Follow
  <2>1. UNCHANGED <<url, at>> /\ sync \in RunRecord
    BY <1>3 DEF Follow, SyncRead, SyncAsk, SyncUpdate, SyncCommit, rows, Types, RunTypes
  <2>2. /\ \A q \in sync'.todo : Known(q.pr, q.res)
        /\ sync'.pc = "update" => Known(sync'.ask.pr, sync'.ask.res)
    <3>1. CASE SyncRead
      BY <3>1 DEF SyncRead, NoRun, NumbersKnown
    <3>2. CASE SyncAsk
      <4>1. PICK t \in sync.todo :
              \/ sync' = [sync EXCEPT !.todo = @ \ {t},
                             !.pc = IF Answer(prs[t.pr].state) = None THEN "next"
                                    ELSE "update",
                             !.ask = t, !.answer = Answer(prs[t.pr].state)]
              \/ sync' = [sync EXCEPT !.todo = @ \ {t}]
        BY <3>2 DEF SyncAsk
      <4>2. sync.pc = "next"
        BY <3>2 DEF SyncAsk
      <4>3. sync'.todo = sync.todo \ {t} /\ (sync'.pc = "update" => sync'.ask = t)
        BY <2>1, <4>1, <4>2 DEF RunRecord
      <4> QED
        BY <4>1, <4>3 DEF NumbersKnown
    <3>3. CASE SyncUpdate
      BY <2>1, <3>3 DEF SyncUpdate, RunRecord, NumbersKnown
    <3>4. CASE SyncCommit
      BY <3>4 DEF SyncCommit, NoRun
    <3> QED
      BY <1>3, <3>1, <3>2, <3>3, <3>4 DEF Follow
  <2> QED
    BY <1>2, <2>1, <2>2 DEF NumbersKnown
<1>4. CASE People \/ UNCHANGED vars
  <2>1. UNCHANGED <<url, at, sync>>
    BY <1>4 DEF People, Merge, Close, Reopen, DeleteBranch, EditCode, Skip, vars, rows
  <2> QED
    BY <1>2, <2>1 DEF NumbersKnown
<1>5. ASSUME NEW w \in Workers, NEW r \in Resources, NEW dry \in BOOLEAN,
             Approve(w, r, dry)
      PROVE  NumbersKnown'
  <2>1. /\ UNCHANGED <<url, sync>>
        /\ \A v \in Workers : at'[v].pc = "record" => at'[v] = at[v]
    BY <1>1, <1>5 DEF Approve, NoApproval, AtTypes, rows
  <2> QED
    BY <1>2, <2>1 DEF NumbersKnown
<1>6. ASSUME NEW w \in Workers,
             Route(w) \/ Prepare(w) \/ Push(w) \/ Record(w) \/ Direct(w)
      PROVE  NumbersKnown'
  <2>1. /\ \A v \in Workers \ {w} : at'[v] = at[v]
        /\ at'[w].pc # "record" /\ UNCHANGED sync
    BY <1>1, <1>6, GoesType, EndsType DEF Route, Prepare, Unprepared, Push, Record, Direct, Places
  <2>2. \A r \in Resources : url'[r] = url[r] \/ (Known(url'[r], r))
    BY <1>6 DEF Route, Prepare, Push, Record, Direct, rows, NumbersKnown, Types, RowTypes
  <2> QED
    BY <1>2, <2>1, <2>2 DEF NumbersKnown
<1>7. ASSUME NEW w \in Workers, CreatePr(w)
      PROVE  NumbersKnown'
  <2>1. UNCHANGED <<url, sync>> /\ at[w].pc = "create" /\ at[w].res \in Resources
    BY <1>1, <1>7 DEF CreatePr, rows, AtTypes
  <2>2. CASE Ends(w)
    BY <1>1, <1>2, <2>1, <2>2, EndsType DEF NumbersKnown
  <2>3. CASE prs' = Append(prs, NewPr(w)) /\ Keeps(w, Len(Append(prs, NewPr(w))))
    <3>1. /\ Len(Append(prs, NewPr(w))) = Len(prs) + 1
          /\ Len(prs) + 1 \in DOMAIN prs' /\ Len(prs) + 1 \in Nat
          /\ prs'[Len(prs) + 1] = NewPr(w)
      BY <2>1, <2>3, NewPrType
    <3>2. /\ \A v \in Workers \ {w} : at'[v] = at[v]
          /\ at'[w].pr = Len(prs) + 1 /\ at'[w].res = at[w].res
      BY <1>1, <2>1, <2>3, <3>1, OpenedType
    <3>3. at'[w].pr \in DOMAIN prs' /\ prs'[at'[w].pr].res = at'[w].res
      BY <3>1, <3>2 DEF NewPr
    <3>4. \A v \in Workers : at'[v].pc = "record" =>
             at'[v].pr \in DOMAIN prs' /\ prs'[at'[v].pr].res = at'[v].res
      BY <1>2, <3>2, <3>3 DEF NumbersKnown, Known
    <3>5. \A v \in Workers : at'[v].pc = "record" => Known(at[v].pr, at[v].res)'
      BY <3>4 DEF Known
    <3> QED
      BY <1>2, <2>1, <3>5 DEF NumbersKnown
  <2> QED
    BY <1>7, <2>2, <2>3 DEF CreatePr, Keeps
<1> QED
  BY <1>3, <1>4, <1>5, <1>6, <1>7 DEF Next, Approval

LEMMA InitFollows == Init => NumbersKnown /\ RunKnows /\ RowFollows
  BY DEF Init, NumbersKnown, RunKnows, RowFollows, NoApproval, NoRun, Refusal

\* What the rows say of the pull requests is so: approved only after a merge, and
\* rejected by the job only when its pull request was closed, whatever is
\* reopened, replaced, lost or decided while the job is at work.
THEOREM RowsFollowPrs == Spec => []StatusFollowsPr
<1>1. Types /\ NumbersKnown /\ RunKnows /\ RowFollows /\ [Next]_vars
        => (NumbersKnown /\ RunKnows /\ RowFollows)'
  BY NextNumbers, NextFollows
<1>2. RowFollows => StatusFollowsPr
  BY DEF RowFollows, StatusFollowsPr, Merged, Refusal, Settled
<1> QED
  BY <1>1, <1>2, InitFollows, TypesHold, PTL DEF Spec

\* Every variable keeps its type; a url is the number of a pull request.
THEOREM TypeCorrect == Spec => []TypeOK
<1>1. Types /\ NumbersKnown /\ [Next]_vars => NumbersKnown'
  BY NextNumbers
<1>2. Types /\ NumbersKnown => TypeOK
  <2> SUFFICES ASSUME Types, NumbersKnown PROVE TypeOK
    OBVIOUS
  <2>1. DOMAIN prs = 1..Len(prs) /\ Len(prs) \in Nat
    BY LenProperties DEF Types, CodeTypes
  <2>5. \A r \in Resources : url[r] \in Nat /\ (url[r] # 0 => url[r] \in 1..Len(prs))
    BY <2>1 DEF NumbersKnown, Known, Types, RowTypes
  <2>6. \A r \in Resources : url[r] \in 0..Len(prs)
    BY <2>1, <2>5
  <2>2. url \in [Resources -> 0..Len(prs)]
    BY <2>6 DEF Types, RowTypes
  <2>7. \A n \in DOMAIN prs : prs[n] \in PrRecord
    BY <2>1 DEF Types, CodeTypes
  <2>3. \A n \in DOMAIN prs : prs[n].state \in {"open", "closed", "merged"}
    BY <2>7 DEF PrRecord
  <2>4. \A w \in Workers : at[w].pc \in Places
    BY DEF Types, AtTypes, ApprovalRecord
  <2> QED
    BY <2>2, <2>3, <2>4 DEF TypeOK, Types, CodeTypes, RowTypes, RunTypes, RunRecord,
       Places
<1> QED
  BY <1>1, <1>2, InitFollows, TypesHold, PTL DEF Spec
=============================================================================
