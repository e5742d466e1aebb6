-------------------------- MODULE CollectLockProofs --------------------------
(***************************************************************************)
(* Proof that spaced runs of the collect lock exclude each other, for any  *)
(* number of collections, crashes and stops and for both launchers.        *)
(***************************************************************************)
EXTENDS CollectLock, TLAPS

\* At most one collection is taking or giving back the lock. A lock that is
\* held is in place and names its holder; while a collection is between two
\* calls on the lock, nobody holds it, or its holder is about to be seen.
SpacedInv ==
    /\ \A p, q \in Procs : pc[p] \in Handling /\ pc[q] \in Handling => p = q
    /\ \A p \in Procs : pc[p] = "collect" => dir /\ pid = p
    /\ \A p \in Procs : pc[p] \in {"check", "write"} => dir
    /\ \A p \in Procs :
          pc[p] \in {"unlink", "rmdir", "retry", "write"} \cup Releasing
             => \A q \in Procs : pc[q] # "collect"
    /\ \A p \in Procs : pc[p] \in {"rmdir", "leave", "write"} => pid = NoPid
    /\ ~dir => pid = NoPid

LockInv == TypeOK /\ (~disturbed => SpacedInv)

\* A step that leaves the lock undisturbed starts handling it only when no
\* other collection does.
LEMMA GotoSpaced ==
    ASSUME TypeOK, NEW p \in Procs, NEW l \in {"idle", "collect"} \cup Handling,
           Goto(p, l)
    PROVE  /\ pc' \in [Procs -> {"idle", "collect"} \cup Handling]
           /\ disturbed' \in BOOLEAN
           /\ pc'[p] = l
           /\ \A q \in Procs \ {p} : pc'[q] = pc[q]
           /\ ~disturbed' => /\ ~disturbed
                             /\ l \in Handling =>
                                   \A q \in Procs \ {p} : pc[q] \notin Handling
  BY DEF Goto, TypeOK

\* Every step keeps the types.
LEMMA TypeStep ==
    ASSUME TypeOK, [Next]_vars
    PROVE  TypeOK'
<1> USE LockAssumption DEF TypeOK
<1>1. ASSUME NEW p \in Procs, Start(p) \/ Acquire(p) \/ GiveBack(p) \/ Crash(p)
      PROVE  TypeOK'
  <2>1. CASE Start(p)
    BY <2>1 DEF Start, Goto, Handling, Acquiring
  <2>2. CASE Acquire(p)
    BY <2>2 DEF Acquire, Check, Unlink, Rmdir, Retry, Write, Goto, Handling, Acquiring
  <2>3. CASE GiveBack(p)
    BY <2>3 DEF GiveBack, Finish, Release, Leave, PidAfter, Goto, Handling, Releasing
  <2>4. CASE Crash(p)
    BY <2>4 DEF Crash, PidAfter, Goto
  <2> QED
    BY <1>1, <2>1, <2>2, <2>3, <2>4
<1>2. CASE Stop
  <2>1. stops' \in Nat
    BY <1>2 DEF Stop
  <2>2. dir' \in BOOLEAN /\ disturbed' \in BOOLEAN
    BY <1>2, Zenon DEF Stop
  <2> QED
    BY <1>2, <2>1, <2>2 DEF Stop
<1>3. CASE UNCHANGED vars
  BY <1>3 DEF vars
<1> QED
  BY <1>1, <1>2, <1>3 DEF Next

LEMMA AcquireSpaced ==
    ASSUME TypeOK, SpacedInv, ~disturbed',
           NEW p \in Procs, Start(p) \/ Acquire(p)
    PROVE  SpacedInv'
<1> USE LockAssumption DEF TypeOK, SpacedInv, Handling, Acquiring, Releasing
<1>1. CASE Start(p)
  <2>1. Goto(p, IF dir THEN "check" ELSE "write")
    BY <1>1 DEF Start
  <2> QED
    BY <1>1, <2>1, GotoSpaced DEF Start
<1>2. CASE Check(p)
  <2>1. Goto(p, IF pid \in Procs THEN "idle" ELSE "unlink")
    BY <1>2 DEF Check
  <2> QED
    BY <1>2, <2>1, GotoSpaced DEF Check
<1>3. CASE Unlink(p)
  BY <1>3, GotoSpaced DEF Unlink
<1>4. CASE Rmdir(p)
  BY <1>4, GotoSpaced DEF Rmdir
<1>5. CASE Retry(p)
  <2>1. Goto(p, IF dir THEN "idle" ELSE "write")
    BY <1>5 DEF Retry
  <2> QED
    BY <1>5, <2>1, GotoSpaced DEF Retry
<1>6. CASE Write(p)
  <2>1. Goto(p, IF dir \/ Launcher = "shell" THEN "collect" ELSE "idle")
    BY <1>6 DEF Write
  <2> QED
    BY <1>6, <2>1, GotoSpaced DEF Write
<1> QED
  BY <1>1, <1>2, <1>3, <1>4, <1>5, <1>6 DEF Acquire

LEMMA GiveBackSpaced ==
    ASSUME TypeOK, SpacedInv, ~disturbed',
           NEW p \in Procs, GiveBack(p) \/ Crash(p)
    PROVE  SpacedInv'
<1> USE LockAssumption DEF TypeOK, SpacedInv, Handling, Acquiring, Releasing
<1>1. CASE Finish(p)
  BY <1>1, GotoSpaced DEF Finish
<1>2. CASE Release(p)
  BY <1>2, GotoSpaced DEF Release
<1>3. CASE Leave(p)
  <2>1. pid = NoPid /\ dir' = FALSE /\ pid' = NoPid
    BY <1>3 DEF Leave, PidAfter
  <2> QED
    BY <1>3, <2>1, GotoSpaced DEF Leave
<1>4. CASE Crash(p)
  BY <1>4, GotoSpaced DEF Crash, PidAfter
<1> QED
  BY <1>1, <1>2, <1>3, <1>4 DEF GiveBack

\* The lock names a collection, a dead process or nobody, and a collection is
\* at a line of one of the two launchers: also when it was disturbed.
THEOREM LockTypeCorrect == Spec => []TypeOK
<1>1. Init => TypeOK
  <2> SUFFICES ASSUME Init
               PROVE  TypeOK
    OBVIOUS
  <2> QED
    BY DEF Init, TypeOK
<1>2. TypeOK /\ [Next]_vars => TypeOK'
  BY TypeStep
<1> QED
  BY <1>1, <1>2, PTL DEF Spec

\* As long as no two collections take or give back the lock at once and
\* nobody removes it from outside, two collections never run together: for
\* any number of collections and of crashes, at any point of the protocol.
THEOREM SpacedRunsAreExclusive == Spec => []SpacedRunsExclude
<1>1. Init => LockInv
  <2> SUFFICES ASSUME Init
               PROVE  LockInv
    OBVIOUS
  <2>1. TypeOK
    BY DEF Init, TypeOK
  <2>2. \A p \in Procs : pc[p] = "idle"
    BY DEF Init
  <2>3. SpacedInv
    BY <2>2 DEF Init, SpacedInv, Handling, Acquiring, Releasing
  <2> QED
    BY <2>1, <2>3 DEF LockInv
<1>2. LockInv /\ [Next]_vars => LockInv'
  <2> SUFFICES ASSUME LockInv, [Next]_vars
               PROVE  LockInv'
    OBVIOUS
  <2>1. TypeOK /\ TypeOK'
    BY TypeStep DEF LockInv
  <2>2. ASSUME ~disturbed'
        PROVE  SpacedInv'
    <3>1. ASSUME NEW p \in Procs,
                 Start(p) \/ Acquire(p) \/ GiveBack(p) \/ Crash(p)
          PROVE  SpacedInv'
      <4>1. ~disturbed
        BY <2>2, <3>1 DEF Start, Acquire, Check, Unlink, Rmdir, Retry, Write,
           GiveBack, Finish, Release, Leave, Crash, Goto
      <4> QED
        BY <2>1, <2>2, <3>1, <4>1, AcquireSpaced, GiveBackSpaced DEF LockInv
    <3>2. CASE Stop
      BY <2>2, <3>2 DEF Stop
    <3>3. CASE UNCHANGED vars
      BY <2>1, <2>2, <3>3 DEF vars, LockInv, SpacedInv
    <3> QED
      BY <3>1, <3>2, <3>3 DEF Next
  <2> QED
    BY <2>1, <2>2 DEF LockInv
<1>3. LockInv => SpacedRunsExclude
  BY LockAssumption DEF LockInv, SpacedInv, SpacedRunsExclude, Exclusive, TypeOK
<1> QED
  BY <1>1, <1>2, <1>3, PTL DEF Spec
=============================================================================
