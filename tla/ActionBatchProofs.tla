-------------------------- MODULE ActionBatchProofs --------------------------
(***************************************************************************)
(* The transactions of POST /api/actions, proved for any number of         *)
(* requests, lists and faults.  The lock of a row stands behind everything *)
(* a transaction decided about it, so only the transaction itself can      *)
(* change what it decided upon; and an abort takes the records of the      *)
(* writes to AWS along, but marks the request.                             *)
(***************************************************************************)
EXTENDS ActionBatch, SequenceTheorems, TLAPS

\* What is not committed is behind a lock.
StagedIsLocked ==
    \A q \in Requests, r \in Recs : req[q].staged[r] # None => lock[r] = q

\* The database's error is among the answers of the request it aborted.
Flagged(state) == state.aborted => \E i \in DOMAIN state.answers : ~state.answers[i]

AbortedIsFlagged == \A q \in Requests : Flagged(req[q])

\* Where the record of a write is: committed, staged, still to be staged, or lost
\* with the transaction.
WritesAreSomewhere ==
    \A q \in Requests, i \in Nat \ {0} :
        <<q, i>> \in aws =>
            \/ <<q, i>> \in logged
            \/ i \in req[q].rows
            \/ req[q].pc = "record" /\ req[q].ok /\ i = Place(q)
            \/ req[q].aborted \/ req[q].pc = "dead"

DoneIsCommitted == \A q \in Requests : req[q].pc = "done" => req[q].rows = {}

\* A record is about an entry of the list.
RecordHasEntry == \A q \in Requests : req[q].pc = "record" => More(q)

BatchInv ==
    /\ TypeOK /\ RecordHasEntry /\ StagedIsLocked /\ DecidedOnCurrent
    /\ AbortedIsFlagged /\ WritesAreSomewhere /\ DoneIsCommitted

-----------------------------------------------------------------------------
(* Operators.                                                              *)

\* The entry a request that goes on is about.
LEMMA RecType ==
    ASSUME TypeOK, NEW q \in Requests, req[q].pc # "idle", More(q)
    PROVE  Rec(q) \in Recs /\ Place(q) \in Nat \ {0}
<1>1. req[q].batch.ids \in Seq(Recs)
  BY BatchAssumption DEF TypeOK
<1>2. req[q].answers \in Seq(BOOLEAN)
  BY DEF TypeOK, RequestStates
<1> QED
  BY <1>1, <1>2 DEF Rec, Place, More

LEMMA ReqType ==
    ASSUME BatchInv, NEW q \in Requests
    PROVE  req[q] \in RequestStates
BY DEF BatchInv, TypeOK

LEMMA AnsweredFields ==
    ASSUME TypeOK, NEW q \in Requests, NEW yes \in BOOLEAN
    PROVE  /\ Answered(q, yes) \in RequestStates
           /\ Answered(q, yes).pc = "next"
           /\ Answered(q, yes).batch = req[q].batch
           /\ Answered(q, yes).answers = Append(req[q].answers, yes)
           /\ Answered(q, yes).aborted = req[q].aborted
           /\ Answered(q, yes).staged = req[q].staged
           /\ Answered(q, yes).rows = req[q].rows
<1>1. req[q] \in RequestStates
  BY DEF TypeOK
<1>2. Append(req[q].answers, yes) \in Seq(BOOLEAN)
  BY <1>1, AppendProperties DEF RequestStates
<1> QED
  BY <1>1, <1>2 DEF Answered, RequestStates

\* A false answer is never taken back.
LEMMA AnswersStay ==
    ASSUME NEW s \in Seq(BOOLEAN), NEW yes \in BOOLEAN
    PROVE  /\ (\E i \in DOMAIN s : ~s[i])
                => \E i \in DOMAIN Append(s, yes) : ~Append(s, yes)[i]
           /\ ~yes => \E i \in DOMAIN Append(s, yes) : ~Append(s, yes)[i]
<1>1. /\ Append(s, yes) \in Seq(BOOLEAN) /\ Len(Append(s, yes)) = Len(s) + 1
      /\ \A i \in 1..Len(s) : Append(s, yes)[i] = s[i]
      /\ Append(s, yes)[Len(s) + 1] = yes
  BY AppendProperties
<1>2. DOMAIN Append(s, yes) = 1..(Len(s) + 1) /\ DOMAIN s = 1..Len(s) /\ Len(s) \in Nat
  BY <1>1
<1> QED
  BY <1>1, <1>2

LEMMA StagingFields ==
    ASSUME TypeOK, NEW q \in Requests, NEW state \in RequestStates,
           NEW to \in Statuses, Rec(q) \in Recs
    PROVE  /\ Staging(q, state, to) \in RequestStates
           /\ Staging(q, state, to).pc = state.pc
           /\ Staging(q, state, to).batch = state.batch
           /\ Staging(q, state, to).answers = state.answers
           /\ Staging(q, state, to).aborted = state.aborted
           /\ Staging(q, state, to).rows = state.rows
           /\ \A r \in Recs \ {Rec(q)} :
                 Staging(q, state, to).staged[r] = state.staged[r]
           /\ Staging(q, state, to).staged[Rec(q)].from =
                 IF state.staged[Rec(q)] = None THEN table[Rec(q)]
                 ELSE state.staged[Rec(q)].from
<1> DEFINE old == state.staged[Rec(q)]
           new == [from |-> IF old = None THEN table[Rec(q)] ELSE old.from, to |-> to]
           f == [state.staged EXCEPT ![Rec(q)] = new]
<1>1. state.staged \in [Recs -> {None} \cup [from : Statuses, to : Statuses]]
  BY DEF RequestStates
<1>2. new \in [from : Statuses, to : Statuses]
  BY <1>1 DEF TypeOK
<1>3. f \in [Recs -> {None} \cup [from : Statuses, to : Statuses]]
  BY <1>1, <1>2
<1>4. Staging(q, state, to) = [state EXCEPT !.staged = f]
  BY <1>1 DEF Staging, RequestStates
<1>5. /\ f[Rec(q)].from = IF old = None THEN table[Rec(q)] ELSE old.from
      /\ \A r \in Recs \ {Rec(q)} : f[r] = state.staged[r]
  BY <1>1
<1> HIDE DEF f, new
<1> QED
  BY <1>3, <1>4, <1>5 DEF RequestStates

\* What is left of a request whose transaction is over.
LEMMA LostFields ==
    ASSUME NEW state \in RequestStates
    PROVE  /\ Lost(state) \in RequestStates
           /\ Lost(state).staged = Nothing /\ Lost(state).rows = {}
           /\ Lost(state).pc = state.pc /\ Lost(state).batch = state.batch
           /\ Lost(state).answers = state.answers
           /\ Lost(state).aborted = state.aborted
<1>1. Nothing \in [Recs -> {None} \cup [from : Statuses, to : Statuses]]
  BY DEF Nothing
<1> QED
  BY <1>1 DEF Lost, RequestStates

\* The state of a request that commits or breaks.
LEMMA EndedFields ==
    ASSUME TypeOK, NEW q \in Requests, NEW step \in {"done", "dead"}
    PROVE  LET state == [Lost(req[q]) EXCEPT !.pc = step]
           IN  /\ state \in RequestStates /\ state.pc = step
               /\ state.batch = req[q].batch
               /\ state.staged = Nothing /\ state.rows = {}
               /\ state.aborted = req[q].aborted /\ state.answers = req[q].answers
<1>1. req[q] \in RequestStates
  BY DEF TypeOK
<1>2. Lost(req[q]) \in RequestStates
  BY <1>1, LostFields
<1> QED
  BY <1>1, <1>2, LostFields DEF RequestStates

-----------------------------------------------------------------------------
(* Steps.                                                                  *)

\* What the requests but q see of a step of q.
FrameOf(q) ==
    /\ table' \in [Recs -> Statuses]
    /\ lock' \in [Recs -> {None} \cup Requests]
    /\ aws' \subseteq Requests \X (Nat \ {0})
    /\ logged' \subseteq Requests \X (Nat \ {0})
    /\ faults' \in 0..MaxFaults
    /\ \A p \in Requests \ {q}, r \in Recs :
          lock[r] = p => lock'[r] = p /\ table'[r] = table[r]
    /\ logged \subseteq logged'
    /\ \A p \in Requests \ {q}, i \in Nat : <<p, i>> \in aws' => <<p, i>> \in aws

\* What the rows say of the new state of q, and its writes.
RowsAgree(q, state) ==
    \A r \in Recs :
        state.staged[r] # None => lock'[r] = q /\ state.staged[r].from = table'[r]

WritesAgree(q, state) ==
    \A i \in Nat \ {0} :
        <<q, i>> \in aws' =>
            \/ <<q, i>> \in logged'
            \/ i \in state.rows
            \/ state.pc = "record" /\ state.ok /\ i = Len(state.answers) + 1
            \/ state.aborted \/ state.pc = "dead"

\* A step of q keeps the invariant if the others see nothing of it, and its own
\* new state agrees with the tables.
LEMMA StepOfOne ==
    ASSUME BatchInv, NEW q \in Requests, NEW state \in RequestStates,
           req' = [req EXCEPT ![q] = state],
           state.pc # "idle" => state.batch \in Batches,
           state.pc = "record" => Len(state.answers) + 1 <= Len(state.batch.ids),
           FrameOf(q), RowsAgree(q, state), WritesAgree(q, state), Flagged(state),
           state.pc = "done" => state.rows = {}
    PROVE  BatchInv'
<1>1. /\ req'[q] = state
      /\ \A p \in Requests \ {q} : req'[p] = req[p]
      /\ req' \in [Requests -> RequestStates]
  BY DEF BatchInv, TypeOK
<1>2. TypeOK'
  BY <1>1 DEF BatchInv, TypeOK, FrameOf
<1>3. RecordHasEntry'
  BY <1>1 DEF BatchInv, RecordHasEntry, More, Place
<1>4. StagedIsLocked'
  BY <1>1 DEF BatchInv, StagedIsLocked, FrameOf, RowsAgree
<1>5. DecidedOnCurrent'
  BY <1>1 DEF BatchInv, DecidedOnCurrent, StagedIsLocked, FrameOf, RowsAgree
<1>6. AbortedIsFlagged'
  <2> SUFFICES ASSUME NEW p \in Requests PROVE Flagged(req'[p])
    BY DEF AbortedIsFlagged, Flagged
  <2> QED
    BY <1>1 DEF BatchInv, AbortedIsFlagged
<1>7. WritesAreSomewhere'
  <2> SUFFICES ASSUME NEW p \in Requests, NEW i \in Nat \ {0}, <<p, i>> \in aws'
               PROVE  \/ <<p, i>> \in logged'
                      \/ i \in req'[p].rows
                      \/ req'[p].pc = "record" /\ req'[p].ok /\ i = Place(p)'
                      \/ req'[p].aborted \/ req'[p].pc = "dead"
    BY DEF WritesAreSomewhere
  <2>1. CASE p = q
    BY <1>1, <2>1 DEF Place, WritesAgree
  <2>2. CASE p # q
    <3>1. req'[p] = req[p] /\ <<p, i>> \in aws
      BY <1>1, <2>2 DEF FrameOf
    <3> QED
      BY <3>1 DEF BatchInv, WritesAreSomewhere, Place, FrameOf
  <2> QED
    BY <2>1, <2>2
<1>8. DoneIsCommitted'
  BY <1>1 DEF BatchInv, DoneIsCommitted
<1> QED
  BY <1>2, <1>3, <1>4, <1>5, <1>6, <1>7, <1>8 DEF BatchInv

\* What is known of q itself before a step.
LEMMA KnownOfOne ==
    ASSUME BatchInv, NEW q \in Requests
    PROVE  /\ req[q] \in RequestStates
           /\ req[q].pc # "idle" => req[q].batch \in Batches
           /\ Flagged(req[q])
           /\ \A r \in Recs :
                 req[q].staged[r] # None =>
                    lock[r] = q /\ req[q].staged[r].from = table[r]
           /\ \A i \in Nat \ {0} :
                 <<q, i>> \in aws =>
                    \/ <<q, i>> \in logged
                    \/ i \in req[q].rows
                    \/ req[q].pc = "record" /\ req[q].ok
                          /\ i = Len(req[q].answers) + 1
                    \/ req[q].aborted \/ req[q].pc = "dead"
BY DEF BatchInv, TypeOK, StagedIsLocked, DecidedOnCurrent, AbortedIsFlagged,
       WritesAreSomewhere, Place

LEMMA AnsweredFlagged ==
    ASSUME BatchInv, NEW q \in Requests, NEW yes \in BOOLEAN
    PROVE  /\ Flagged(Answered(q, yes))
           /\ ~yes => \E i \in DOMAIN Answered(q, yes).answers :
                         ~Answered(q, yes).answers[i]
<1>1. /\ Answered(q, yes).answers = Append(req[q].answers, yes)
      /\ Answered(q, yes).aborted = req[q].aborted
  BY AnsweredFields DEF BatchInv
<1>2. req[q].answers \in Seq(BOOLEAN)
  BY KnownOfOne DEF RequestStates
<1>3. Flagged(req[q])
  BY KnownOfOne
<1> QED
  BY <1>1, <1>2, <1>3, AnswersStay DEF Flagged

\* An answer and no other change of the request.
LEMMA AnswerStep ==
    ASSUME BatchInv, NEW q \in Requests, NEW yes \in BOOLEAN,
           req[q].pc \notin {"idle", "record", "dead"},
           req' = [req EXCEPT ![q] = Answered(q, yes)],
           table' \in [Recs -> Statuses],
           \A r \in Recs : lock[r] # None => table'[r] = table[r],
           faults' \in 0..MaxFaults, UNCHANGED <<lock, aws, logged>>
    PROVE  BatchInv'
<1> DEFINE state == Answered(q, yes)
<1>1. /\ state \in RequestStates /\ state.pc = "next" /\ state.batch = req[q].batch
      /\ state.aborted = req[q].aborted /\ state.staged = req[q].staged
      /\ state.rows = req[q].rows
  BY AnsweredFields DEF BatchInv
<1>2. Flagged(state)
  BY AnsweredFlagged
<1>3. req' = [req EXCEPT ![q] = state]
  OBVIOUS
<1> HIDE DEF state
<1>4. WritesAgree(q, state)
  BY <1>1, KnownOfOne DEF WritesAgree
<1>5. RowsAgree(q, state)
  BY <1>1, KnownOfOne, BatchAssumption DEF RowsAgree
<1>6. FrameOf(q)
  BY BatchAssumption DEF FrameOf, BatchInv, TypeOK
<1>7. state.batch \in Batches
  BY <1>1, KnownOfOne
<1> QED
  BY <1>1, <1>2, <1>3, <1>4, <1>5, <1>6, <1>7, StepOfOne

\* An answer and an update of the row, which q has locked or can lock.
LEMMA StagingStep ==
    ASSUME BatchInv, NEW q \in Requests, NEW base \in RequestStates,
           NEW to \in Statuses, Rec(q) \in Recs, CanLock(q, Rec(q)),
           req' = [req EXCEPT ![q] = Staging(q, base, to)],
           lock' = [lock EXCEPT ![Rec(q)] = q],
           base.pc = "next", base.batch \in Batches,
           base.staged = req[q].staged, Flagged(base), WritesAgree(q, base),
           UNCHANGED <<table, aws, logged, faults>>
    PROVE  BatchInv'
<1> DEFINE state == Staging(q, base, to)
<1>1. /\ state \in RequestStates /\ state.pc = "next" /\ state.batch = base.batch
      /\ state.answers = base.answers /\ state.aborted = base.aborted
      /\ state.rows = base.rows
      /\ \A r \in Recs \ {Rec(q)} : state.staged[r] = base.staged[r]
      /\ state.staged[Rec(q)].from =
            IF base.staged[Rec(q)] = None THEN table[Rec(q)]
            ELSE base.staged[Rec(q)].from
  BY StagingFields DEF BatchInv
<1>2. req' = [req EXCEPT ![q] = state]
  OBVIOUS
<1> HIDE DEF state
<1>3. /\ lock' \in [Recs -> {None} \cup Requests] /\ lock'[Rec(q)] = q
      /\ \A r \in Recs \ {Rec(q)} : lock'[r] = lock[r]
  BY DEF BatchInv, TypeOK
<1>4. RowsAgree(q, state)
  BY <1>1, <1>3, KnownOfOne DEF RowsAgree
<1>5. FrameOf(q)
  BY <1>3, BatchAssumption DEF FrameOf, BatchInv, TypeOK, CanLock
<1>6. WritesAgree(q, state)
  BY <1>1 DEF WritesAgree
<1>7. Flagged(state)
  BY <1>1 DEF Flagged
<1> QED
  BY <1>1, <1>2, <1>4, <1>5, <1>6, <1>7, StepOfOne

\* The transaction is lost, and the request marked or dead.
LEMMA LosingStep ==
    ASSUME BatchInv, NEW q \in Requests, NEW state \in RequestStates,
           req' = [req EXCEPT ![q] = state], lock' = Released(q),
           state.pc # "idle" => state.batch \in Batches,
           state.staged = Nothing, state.rows = {}, Flagged(state),
           state.aborted \/ state.pc = "dead", state.pc # "record",
           faults' \in 0..MaxFaults, UNCHANGED <<table, aws, logged>>
    PROVE  BatchInv'
<1>1. FrameOf(q)
  BY DEF Released, FrameOf, BatchInv, TypeOK
<1>2. RowsAgree(q, state)
  BY DEF Nothing, RowsAgree
<1>3. WritesAgree(q, state)
  BY DEF WritesAgree
<1> QED
  BY <1>1, <1>2, <1>3, StepOfOne

-----------------------------------------------------------------------------
(* The actions.                                                            *)

LEMMA StartStep ==
    ASSUME BatchInv, NEW q \in Requests, Start(q)
    PROVE  BatchInv'
<1>1. PICK b \in Batches : req' = [req EXCEPT ![q].pc = "next", ![q].batch = b]
  BY DEF Start
<1> DEFINE state == [req[q] EXCEPT !.pc = "next", !.batch = b]
<1>2. /\ state \in RequestStates /\ state.pc = "next" /\ state.batch = b
      /\ state.answers = req[q].answers /\ state.aborted = req[q].aborted
      /\ state.staged = req[q].staged /\ state.rows = req[q].rows
  BY ReqType DEF RequestStates
<1>3. req' = [req EXCEPT ![q] = state]
  BY <1>1 DEF BatchInv, TypeOK
<1>4. req[q].pc = "idle" /\ UNCHANGED <<table, lock, aws, logged, faults>>
  BY DEF Start
<1> HIDE DEF state
<1>5. FrameOf(q)
  BY <1>4 DEF FrameOf, BatchInv, TypeOK
<1>6. RowsAgree(q, state)
  BY <1>2, <1>4, KnownOfOne DEF RowsAgree
<1>7. WritesAgree(q, state)
  BY <1>2, <1>4, KnownOfOne DEF WritesAgree
<1>8. Flagged(state)
  BY <1>2, KnownOfOne DEF Flagged
<1> QED
  BY <1>2, <1>3, <1>5, <1>6, <1>7, <1>8, StepOfOne

LEMMA DecideStep ==
    ASSUME BatchInv, NEW q \in Requests, Decide(q)
    PROVE  BatchInv'
<1> DEFINE op == Operation(q)
<1>1. /\ req[q].pc = "next" /\ More(q) /\ op \in DOMAIN To
      /\ UNCHANGED <<table, aws, logged, faults>>
  BY DEF Decide, Ready
<1>2. To[op] \in Statuses
  BY <1>1 DEF To, Statuses
<1>3. Rec(q) \in Recs
  BY <1>1, RecType DEF BatchInv
<1>4. CASE req' = [req EXCEPT ![q] = Answered(q, FALSE)] /\ UNCHANGED lock
  <2>1. table' \in [Recs -> Statuses] /\ faults' \in 0..MaxFaults
    BY <1>1 DEF BatchInv, TypeOK
  <2> QED
    BY <1>1, <1>4, <2>1, AnswerStep
<1>5. CASE /\ CanLock(q, Rec(q)) /\ lock' = [lock EXCEPT ![Rec(q)] = q]
           /\ req' = [req EXCEPT ![q] = Staging(q, Answered(q, TRUE), To[op])]
  <2> DEFINE base == Answered(q, TRUE)
  <2>1. /\ base \in RequestStates /\ base.pc = "next" /\ base.batch = req[q].batch
        /\ base.staged = req[q].staged /\ base.rows = req[q].rows
        /\ base.aborted = req[q].aborted
    BY AnsweredFields DEF BatchInv
  <2>2. Flagged(base)
    BY AnsweredFlagged
  <2> HIDE DEF base
  <2>3. WritesAgree(q, base)
    BY <1>1, <2>1, KnownOfOne DEF WritesAgree
  <2>4. base.batch \in Batches
    BY <1>1, <2>1, KnownOfOne
  <2>5. req' = [req EXCEPT ![q] = Staging(q, base, To[op])]
    BY <1>5 DEF base
  <2> HIDE DEF op
  <2> QED
    BY <1>1, <1>2, <1>3, <1>5, <2>1, <2>2, <2>3, <2>4, <2>5, StagingStep
<1> QED
  BY <1>4, <1>5 DEF Decide

LEMMA CallAwsStep ==
    ASSUME BatchInv, NEW q \in Requests, CallAws(q)
    PROVE  BatchInv'
<1>1. PICK ok \in BOOLEAN :
         /\ req' = [req EXCEPT ![q].pc = "record", ![q].ok = ok]
         /\ aws' = IF ok THEN aws \cup {<<q, Place(q)>>} ELSE aws
  BY DEF CallAws
<1> DEFINE state == [req[q] EXCEPT !.pc = "record", !.ok = ok]
<1>2. /\ state \in RequestStates /\ state.pc = "record" /\ state.batch = req[q].batch
      /\ state.answers = req[q].answers /\ state.aborted = req[q].aborted
      /\ state.staged = req[q].staged /\ state.rows = req[q].rows /\ state.ok = ok
  BY ReqType DEF RequestStates
<1>3. req' = [req EXCEPT ![q] = state]
  BY <1>1 DEF BatchInv, TypeOK
<1>4. /\ req[q].pc = "next" /\ More(q)
      /\ UNCHANGED <<table, lock, logged, faults>>
  BY DEF CallAws, Ready
<1>5. Place(q) \in Nat \ {0}
  BY <1>4, RecType DEF BatchInv
<1> HIDE DEF state
<1>6. FrameOf(q)
  BY <1>1, <1>4, <1>5 DEF FrameOf, BatchInv, TypeOK
<1>7. RowsAgree(q, state)
  BY <1>2, <1>4, KnownOfOne DEF RowsAgree
<1>8. WritesAgree(q, state)
  BY <1>1, <1>2, <1>4, KnownOfOne DEF WritesAgree, Place
<1>9. Flagged(state)
  BY <1>2, KnownOfOne DEF Flagged
<1>10. state.batch \in Batches
  BY <1>2, <1>4, KnownOfOne
<1>11. Len(state.answers) + 1 <= Len(state.batch.ids)
  BY <1>2, <1>4 DEF More, Place
<1> QED
  BY <1>11, <1>2, <1>3, <1>6, <1>7, <1>8, <1>9, <1>10, StepOfOne

LEMMA RecordStep ==
    ASSUME BatchInv, NEW q \in Requests, Record(q), Rec(q) \in Recs
    PROVE  BatchInv'
<1> DEFINE ok == req[q].ok
           base == [Answered(q, ok) EXCEPT !.rows = @ \cup {Place(q)}]
           to == IF ok THEN "approved" ELSE "pending"
<1>1. /\ req[q].pc = "record" /\ CanLock(q, Rec(q))
      /\ lock' = [lock EXCEPT ![Rec(q)] = q]
      /\ req' = [req EXCEPT ![q] = Staging(q, base, to)]
      /\ UNCHANGED <<table, aws, logged, faults>>
  BY DEF Record
<1>2. ok \in BOOLEAN /\ to \in Statuses
  BY KnownOfOne DEF RequestStates, Statuses
<1>3. Place(q) \in Nat \ {0}
  BY KnownOfOne DEF Place, RequestStates
<1>4. /\ base \in RequestStates /\ base.pc = "next" /\ base.batch = req[q].batch
      /\ base.staged = req[q].staged /\ base.rows = req[q].rows \cup {Place(q)}
      /\ base.aborted = req[q].aborted /\ base.answers = Answered(q, ok).answers
      /\ base.aborted = Answered(q, ok).aborted
  BY <1>2, <1>3, AnsweredFields DEF BatchInv, RequestStates
<1>5. Flagged(base)
  BY <1>2, <1>4, AnsweredFlagged DEF Flagged
<1> HIDE DEF base, to
<1>6. WritesAgree(q, base)
  BY <1>1, <1>4, KnownOfOne DEF WritesAgree, Place
<1>7. base.batch \in Batches
  BY <1>1, <1>4, KnownOfOne
<1> QED
  BY <1>1, <1>2, <1>4, <1>5, <1>6, <1>7, StagingStep

LEMMA RemediateStep ==
    ASSUME BatchInv, NEW q \in Requests, Remediate(q)
    PROVE  BatchInv'
<1>1. req[q].pc = "next" /\ More(q) /\ UNCHANGED <<table, lock, faults>>
  BY DEF Remediate, Ready
<1>2. CASE req' = [req EXCEPT ![q] = Answered(q, FALSE)] /\ UNCHANGED <<aws, logged>>
  <2>1. table' \in [Recs -> Statuses] /\ faults' \in 0..MaxFaults
    BY <1>1 DEF BatchInv, TypeOK
  <2> QED
    BY <1>1, <1>2, <2>1, AnswerStep
<1>3. CASE /\ req' = [req EXCEPT ![q].pc = "apply"]
           /\ logged' = logged \cup {<<q, Place(q)>>}
           /\ aws' = aws \cup {<<q, Place(q)>>}
  <2> DEFINE state == [req[q] EXCEPT !.pc = "apply"]
  <2>1. /\ state \in RequestStates /\ state.pc = "apply" /\ state.batch = req[q].batch
        /\ state.answers = req[q].answers /\ state.aborted = req[q].aborted
        /\ state.staged = req[q].staged /\ state.rows = req[q].rows
    BY ReqType DEF RequestStates
  <2>2. req' = [req EXCEPT ![q] = state]
    BY <1>3 DEF BatchInv, TypeOK
  <2>3. Place(q) \in Nat \ {0}
    BY <1>1, RecType DEF BatchInv
  <2> HIDE DEF state
  <2>4. FrameOf(q)
    BY <1>1, <1>3, <2>3 DEF FrameOf, BatchInv, TypeOK
  <2>5. RowsAgree(q, state)
    BY <1>1, <2>1, KnownOfOne DEF RowsAgree
  <2>6. WritesAgree(q, state)
    BY <1>1, <1>3, <2>1, KnownOfOne DEF WritesAgree
  <2>7. Flagged(state)
    BY <2>1, KnownOfOne DEF Flagged
  <2>8. state.batch \in Batches
    BY <1>1, <2>1, KnownOfOne
  <2> QED
    BY <2>1, <2>2, <2>4, <2>5, <2>6, <2>7, <2>8, StepOfOne
<1> QED
  BY <1>2, <1>3 DEF Remediate

LEMMA ApplyStep ==
    ASSUME BatchInv, NEW q \in Requests, Apply(q)
    PROVE  BatchInv'
<1>1. req[q].pc = "apply" /\ UNCHANGED <<lock, aws, logged>>
  BY DEF Apply
<1>2. CASE /\ lock[Rec(q)] = None
           /\ table' = [table EXCEPT ![Rec(q)] = "applied"]
           /\ req' = [req EXCEPT ![q] = Answered(q, TRUE)] /\ UNCHANGED faults
  <2>1. table' \in [Recs -> Statuses] /\ faults' \in 0..MaxFaults
    BY <1>2 DEF BatchInv, TypeOK, Statuses
  <2>2. \A r \in Recs : lock[r] # None => table'[r] = table[r]
    BY <1>2 DEF BatchInv, TypeOK
  <2> QED
    BY <1>1, <1>2, <2>1, <2>2, AnswerStep
<1>3. CASE Fault /\ req' = [req EXCEPT ![q] = Answered(q, FALSE)] /\ UNCHANGED table
  <2>1. table' \in [Recs -> Statuses] /\ faults' \in 0..MaxFaults
    BY <1>3, BatchAssumption DEF BatchInv, TypeOK, Fault
  <2> QED
    BY <1>1, <1>3, <2>1, AnswerStep
<1> QED
  BY <1>2, <1>3 DEF Apply

LEMMA AbortStep ==
    ASSUME BatchInv, NEW q \in Requests, Aborts(q), req[q].pc # "idle",
           faults' \in 0..MaxFaults
    PROVE  BatchInv'
<1> DEFINE answered == Answered(q, FALSE)
           state == [Lost(answered) EXCEPT !.aborted = TRUE]
<1>1. /\ answered \in RequestStates /\ answered.pc = "next"
      /\ answered.batch = req[q].batch
  BY AnsweredFields DEF BatchInv
<1>2. \E i \in DOMAIN answered.answers : ~answered.answers[i]
  BY AnsweredFlagged
<1> HIDE DEF answered
<1>3. /\ state \in RequestStates /\ state.pc = "next" /\ state.batch = req[q].batch
      /\ state.staged = Nothing /\ state.rows = {} /\ state.aborted
      /\ state.answers = answered.answers
  <2>1. Lost(answered) \in RequestStates
    BY <1>1, LostFields
  <2>2. /\ state \in RequestStates /\ state.aborted /\ state.pc = Lost(answered).pc
        /\ state.batch = Lost(answered).batch /\ state.rows = Lost(answered).rows
        /\ state.staged = Lost(answered).staged
        /\ state.answers = Lost(answered).answers
    BY <2>1 DEF RequestStates
  <2> QED
    BY <1>1, <2>2, LostFields
<1>4. Flagged(state)
  BY <1>2, <1>3 DEF Flagged
<1>5. req' = [req EXCEPT ![q] = state] /\ lock' = Released(q)
      /\ UNCHANGED <<table, aws, logged>>
  BY DEF Aborts, answered
<1>6. state.batch \in Batches
  BY <1>3, KnownOfOne
<1> HIDE DEF state
<1> QED
  BY <1>3, <1>4, <1>5, <1>6, LosingStep

LEMMA CommitStep ==
    ASSUME BatchInv, NEW q \in Requests, Commit(q)
    PROVE  BatchInv'
<1> DEFINE state == [Lost(req[q]) EXCEPT !.pc = "done"]
<1>1. /\ req[q].pc = "next" /\ lock' = Released(q)
      /\ table' = [r \in Recs |-> IF req[q].staged[r] = None THEN table[r]
                                  ELSE req[q].staged[r].to]
      /\ logged' = logged \cup {<<q, i>> : i \in req[q].rows}
      /\ UNCHANGED <<aws, faults>>
  BY DEF Commit
<1>2. req' = [req EXCEPT ![q] = state]
  BY DEF Commit, BatchInv, TypeOK
<1>3. /\ state \in RequestStates /\ state.pc = "done" /\ state.batch = req[q].batch
      /\ state.staged = Nothing /\ state.rows = {}
      /\ state.aborted = req[q].aborted /\ state.answers = req[q].answers
  BY EndedFields DEF BatchInv
<1> HIDE DEF state
<1>4. table' \in [Recs -> Statuses]
  BY <1>1, KnownOfOne DEF RequestStates, BatchInv, TypeOK
<1>5. lock' \in [Recs -> {None} \cup Requests]
      /\ \A r \in Recs : lock[r] # q => lock'[r] = lock[r] /\ table'[r] = table[r]
  BY <1>1, KnownOfOne DEF Released, BatchInv, TypeOK
<1>6. FrameOf(q)
  <2>1. req[q].rows \subseteq Nat \ {0}
    BY KnownOfOne DEF RequestStates
  <2> QED
    BY <1>1, <1>4, <1>5, <2>1 DEF FrameOf, BatchInv, TypeOK
<1>7. RowsAgree(q, state)
  BY <1>3 DEF RowsAgree, Nothing
<1>8. WritesAgree(q, state)
  BY <1>1, <1>3, KnownOfOne DEF WritesAgree
<1>9. Flagged(state)
  BY <1>3, KnownOfOne DEF Flagged
<1>10. state.batch \in Batches
  BY <1>1, <1>3, KnownOfOne
<1> QED
  BY <1>2, <1>3, <1>6, <1>7, <1>8, <1>9, <1>10, StepOfOne

LEMMA BreakStep ==
    ASSUME BatchInv, NEW q \in Requests, Break(q)
    PROVE  BatchInv'
<1> DEFINE state == [Lost(req[q]) EXCEPT !.pc = "dead"]
<1>1. /\ state \in RequestStates /\ state.pc = "dead" /\ state.batch = req[q].batch
      /\ state.staged = Nothing /\ state.rows = {}
      /\ state.aborted = req[q].aborted /\ state.answers = req[q].answers
  BY EndedFields DEF BatchInv
<1>2. /\ req' = [req EXCEPT ![q] = state] /\ lock' = Released(q)
      /\ UNCHANGED <<table, aws, logged>> /\ req[q].pc # "idle"
  BY DEF Break, BatchInv, TypeOK
<1>3. faults' \in 0..MaxFaults
  BY BatchAssumption DEF Break, Fault, BatchInv, TypeOK
<1> HIDE DEF state
<1>4. Flagged(state)
  BY <1>1, KnownOfOne DEF Flagged
<1>5. state.batch \in Batches
  BY <1>1, <1>2, KnownOfOne
<1> QED
  BY <1>1, <1>2, <1>3, <1>4, <1>5, LosingStep

\* A record is that of the entry at hand.
LEMMA RecordsOwn ==
    ASSUME BatchInv, NEW q \in Requests, Record(q)
    PROVE  Rec(q) \in Recs
BY RecType DEF Record, BatchInv, RecordHasEntry

LEMMA StepKeeps ==
    ASSUME BatchInv, NEW q \in Requests, Step(q)
    PROVE  BatchInv'
<1>1. CASE Record(q) /\ Rec(q) \in Recs
  BY <1>1, RecordStep
<1>2. CASE Deadlock(q)
  <2>1. PICK S \in SUBSET Requests : q \in S /\ S = {WaitsFor(p) : p \in S}
    BY <1>2 DEF Deadlock
  <2>2. WaitsFor(q) \in Requests
    BY <2>1
  <2>3. req[q].pc # "idle"
    BY <2>2, BatchAssumption DEF WaitsFor, Ready
  <2> QED
    BY <1>2, <2>3, AbortStep DEF Deadlock, BatchInv, TypeOK
<1>3. CASE FailNext(q)
  <2>1. table' \in [Recs -> Statuses] /\ faults' \in 0..MaxFaults
    BY <1>3 DEF FailNext, BatchInv, TypeOK
  <2> QED
    BY <1>3, <2>1, AnswerStep DEF FailNext
<1> QED
  BY <1>1, <1>2, <1>3, RecordsOwn, DecideStep, CallAwsStep, RemediateStep, ApplyStep,
     CommitStep DEF Step

LEMMA BatchInductive == BatchInv /\ [Next]_vars => BatchInv'
<1> SUFFICES ASSUME BatchInv, [Next]_vars PROVE BatchInv'
  OBVIOUS
<1>1. ASSUME NEW q \in Requests, StatementFails(q) PROVE BatchInv'
  <2>1. faults' \in 0..MaxFaults
    BY <1>1, BatchAssumption DEF StatementFails, Fault, BatchInv, TypeOK
  <2>2. req[q].pc # "idle" /\ Aborts(q)
    BY <1>1 DEF StatementFails, Ready
  <2> QED
    BY <2>1, <2>2, AbortStep
<1>2. CASE UNCHANGED vars
  BY <1>2 DEF vars, BatchInv, TypeOK, RecordHasEntry, More, Place,
      StagedIsLocked, DecidedOnCurrent, AbortedIsFlagged, Flagged,
      WritesAreSomewhere, DoneIsCommitted
<1> QED
  BY <1>1, <1>2, StartStep, StepKeeps, BreakStep DEF Next

LEMMA BatchInitially == Init => BatchInv
<1> SUFFICES ASSUME Init PROVE BatchInv
  OBVIOUS
<1>1. NotSent \in RequestStates
  <2>1. <<>> \in Seq(BOOLEAN)
    BY EmptySeq
  <2> QED
    BY <2>1 DEF NotSent, RequestStates, Nothing
<1>2. \A q \in Requests : req[q] = NotSent
  BY DEF Init
<1>3. TypeOK
  <2>1. req \in [Requests -> RequestStates]
    BY <1>1 DEF Init
  <2>2. \A q \in Requests : req[q].pc = "idle"
    <3>1. NotSent.pc = "idle"
      BY DEF NotSent
    <3> QED
      BY <1>2, <3>1
  <2>3. table \in [Recs -> Statuses] /\ lock \in [Recs -> {None} \cup Requests]
    BY BatchAssumption DEF Init, Nothing
  <2>4. aws = {} /\ logged = {} /\ faults \in 0..MaxFaults
    BY BatchAssumption DEF Init
  <2> QED
    BY <2>1, <2>2, <2>3, <2>4 DEF TypeOK
<1>4. StagedIsLocked /\ DecidedOnCurrent
  BY <1>2 DEF StagedIsLocked, DecidedOnCurrent, NotSent, Nothing
<1>5. AbortedIsFlagged /\ DoneIsCommitted /\ RecordHasEntry
  BY <1>2 DEF RecordHasEntry, AbortedIsFlagged, Flagged, DoneIsCommitted, NotSent
<1>6. WritesAreSomewhere
  BY DEF Init, WritesAreSomewhere
<1> QED
  BY <1>3, <1>4, <1>5, <1>6 DEF BatchInv

LEMMA BatchInvariant == Spec => []BatchInv
BY BatchInitially, BatchInductive, PTL DEF Spec

-----------------------------------------------------------------------------
(* Theorems.                                                               *)

\* Every reachable state of the requests is type correct.
THEOREM BatchTypeCorrect == Spec => []TypeOK
<1>1. BatchInv => TypeOK
  BY DEF BatchInv
<1> QED
  BY <1>1, BatchInvariant, PTL

\* No other request changes a row between an UPDATE of it and the commit of that
\* UPDATE, however long the list in between.  Between the approval of a row and the
\* UPDATE that records it another request may: Record overwrites what it finds.
THEOREM DecisionsAreCurrent == Spec => []DecidedOnCurrent
<1>1. BatchInv => DecidedOnCurrent
  BY DEF BatchInv
<1> QED
  BY <1>1, BatchInvariant, PTL

\* Whoever's decisions were rolled back finds the error among the answers.
THEOREM RollbacksAreFlagged == Spec => []RolledBackIsFlagged
<1>1. BatchInv => RolledBackIsFlagged
  BY DEF BatchInv, AbortedIsFlagged, Flagged, RolledBackIsFlagged
<1> QED
  BY <1>1, BatchInvariant, PTL

\* The history of a request that was answered and not aborted has its writes.
THEOREM WritesReachHistory == Spec => []WritesAreLogged
<1>1. BatchInv => WritesAreLogged
  <2> SUFFICES ASSUME BatchInv, NEW w \in aws,
                      req[w[1]].pc = "done", ~req[w[1]].aborted
               PROVE  w \in logged
    BY DEF WritesAreLogged
  <2>1. PICK q \in Requests, i \in Nat \ {0} : w = <<q, i>>
    BY DEF BatchInv, TypeOK
  <2>2. <<q, i>> \in logged \/ i \in req[q].rows
    BY <2>1 DEF BatchInv, WritesAreSomewhere
  <2> QED
    BY <2>1, <2>2 DEF BatchInv, DoneIsCommitted
<1> QED
  BY <1>1, BatchInvariant, PTL
==============================================================================
