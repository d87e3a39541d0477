---------------------- MODULE NotificationOutboxProofs ----------------------
(***************************************************************************)
(* Proofs about the notification outbox, for any number of events, threads *)
(* and crashes.  What makes the bounds hold is a relation between the      *)
(* status of a row, the failures recorded in it and the notifications it   *)
(* has made (Accounts); it survives the unconditional failure report only  *)
(* because a claimed row is locked (Exclusive, ClaimedWaits).              *)
(***************************************************************************)
EXTENDS NotificationOutbox, FiniteSetTheorems, TLAPS

\* One thread at a time has the lock of a row.
Exclusive ==
    \A v, w \in Workers :
        /\ workers[v].phase = "claimed"
        /\ workers[w].phase = "claimed"
        /\ workers[v].event = workers[w].event
        => v = w

\* A claimed row stays as it was when the thread claimed it.
ClaimedWaits ==
    \A w \in Workers :
        workers[w].phase = "claimed" => Waiting(workers[w].event)

\* Threads only hold events that exist.
HeldExists ==
    \A w \in Workers :
        workers[w].event # NoEvent => rows[workers[w].event].status # "ABSENT"

\* What the status of a row says of its failures and notifications.
Account(row, n) ==
    /\ row.status \in {"ABSENT", "NEW"} => n = 0 /\ row.retries = 0
    /\ row.status = "FAILED" => n <= row.retries /\ row.retries < MaxRetryCount
    /\ row.status = "DONE" => n \in 1..(row.retries + 1) /\ row.retries < MaxRetryCount
    /\ row.status = "DEAD_LETTER" =>
          n <= row.retries /\ n <= MaxRetryCount /\ row.retries >= MaxRetryCount

Accounts == \A e \in Events : Account(rows[e], notified[e])

OutboxInv ==
    /\ TypeOK
    /\ Exclusive
    /\ ClaimedWaits
    /\ HeldExists
    /\ Accounts

-----------------------------------------------------------------------------

LEMMA InitOutbox == Init => OutboxInv
  BY OutboxAssumption
  DEF Init, OutboxInv, TypeOK, Exclusive, ClaimedWaits, HeldExists, Accounts, Account,
      Waiting, Idle, Rows, Statuses, WorkerStates, Phases

\* A failure report keeps the account, whatever happened to the row before it.
LEMMA FailureAccounted ==
    ASSUME NEW row \in Rows, NEW n \in Nat, Account(row, n), row.status # "ABSENT"
    PROVE  /\ AfterFailure(row) \in Rows
           /\ Account(AfterFailure(row), n)
           /\ AfterFailure(row).status # "ABSENT"
  BY OutboxAssumption DEF Account, AfterFailure, Rows, Statuses

\* Steps that leave the rows alone only have to keep the hold of the threads.
LEMMA HoldOnly ==
    ASSUME OutboxInv, UNCHANGED <<rows, notified>>, TypeOK', Exclusive', ClaimedWaits',
           HeldExists'
    PROVE  OutboxInv'
  BY DEF OutboxInv, Accounts, Account

LEMMA StepOutbox == OutboxInv /\ [Next]_vars => OutboxInv'
<1> SUFFICES ASSUME OutboxInv, [Next]_vars PROVE OutboxInv'
  OBVIOUS
<1> USE OutboxAssumption DEF OutboxInv
<1>1. ASSUME NEW w \in Workers, NEW es \in SUBSET Events, Enqueue(w, es) PROVE OutboxInv'
  <2>1. Now \in Nat
    <3>1. IsFiniteSet({e \in Events : rows[e].status # "ABSENT"})
      BY FS_Subset
    <3> QED BY <3>1, FS_CardinalityType DEF Now
  <2>2. \A e \in Events :
           /\ rows'[e] \in Rows
           /\ rows'[e] = rows[e] \/ (rows[e].status = "ABSENT" /\ rows'[e] = [rows[e] EXCEPT !.status = "NEW"])
    BY <1>1 DEF Enqueue, TypeOK, Rows, Statuses
  <2>3. TypeOK'
    BY <1>1, <2>1, <2>2 DEF Enqueue, Goto, TypeOK, WorkerStates, Phases, Rows
  <2>4. Exclusive' /\ ClaimedWaits' /\ HeldExists'
    BY <1>1, <2>2 DEF Enqueue, Goto, TypeOK, WorkerStates, Exclusive, ClaimedWaits, HeldExists,
        Waiting, Rows
  <2>5. Accounts'
    BY <1>1, <2>2 DEF Enqueue, TypeOK, Accounts, Account, Rows
  <2> QED BY <2>3, <2>4, <2>5
<1>2. ASSUME NEW w \in Workers, Poll(w) \/ Finish(w) \/ Claim(w) \/ Fail(w) PROVE OutboxInv'
  <2>1. UNCHANGED <<rows, created, notified, crashes>>
    BY <1>2 DEF Poll, Finish, Claim, Fail
  <2>2. TypeOK' /\ ClaimedWaits' /\ HeldExists'
    <3>1. CASE Poll(w)
      <4>1. PICK batch \in SUBSET Events :
                 workers' = [workers EXCEPT ![w].phase = "working", ![w].batch = batch]
        BY <3>1 DEF Poll, Due
      <4>2. workers[w].event = NoEvent
        BY <3>1 DEF Poll, TypeOK, WorkerStates
      <4>3. workers'[w] = [phase |-> "working", batch |-> batch, event |-> NoEvent]
        BY <4>1, <4>2 DEF TypeOK, WorkerStates
      <4>4. \A v \in Workers : v # w => workers'[v] = workers[v]
        BY <4>1 DEF TypeOK
      <4>5. workers' \in [Workers -> WorkerStates]
        BY <4>1, <4>3, <4>4 DEF TypeOK, WorkerStates, Phases
      <4>6. TypeOK'
        BY <2>1, <4>3, <4>4, <4>5 DEF TypeOK
      <4>7. ClaimedWaits' /\ HeldExists'
        BY <2>1, <4>3, <4>4 DEF ClaimedWaits, HeldExists, Waiting
      <4> QED BY <4>6, <4>7
    <3>2. CASE Finish(w)
      BY <3>2 DEF Finish, Idle, TypeOK, WorkerStates, Phases, ClaimedWaits, HeldExists, Waiting
    <3>3. CASE Claim(w)
      BY <3>3 DEF Claim, Oldest, Claimable, TypeOK, WorkerStates, Phases, ClaimedWaits, HeldExists,
          Waiting
    <3>4. CASE Fail(w)
      BY <3>4 DEF Fail, Goto, TypeOK, WorkerStates, Phases, ClaimedWaits, HeldExists, Waiting
    <3> QED BY <1>2, <3>1, <3>2, <3>3, <3>4
  <2>3. Exclusive'
    <3>1. CASE Claim(w)
      BY <3>1 DEF Claim, Oldest, Locked, TypeOK, WorkerStates, Exclusive
    <3>2. CASE Poll(w) \/ Finish(w) \/ Fail(w)
      BY <3>2 DEF Poll, Finish, Fail, Goto, Idle, TypeOK, WorkerStates, Exclusive
    <3> QED BY <1>2, <3>1, <3>2
  <2> QED BY <2>1, <2>2, <2>3, HoldOnly
<1>3. ASSUME NEW w \in Workers, Deliver(w) PROVE OutboxInv'
  <2> DEFINE e == workers[w].event
  <2>1. e \in Events /\ Waiting(e)
    BY <1>3 DEF Deliver, TypeOK, WorkerStates, ClaimedWaits
  <2>2. /\ workers' \in [Workers -> WorkerStates]
        /\ \/ workers'[w].phase = "working" /\ workers'[w].event = NoEvent
           \/ workers'[w].phase = "failed" /\ workers'[w].event = e
        /\ \A v \in Workers \ {w} : workers'[v] = workers[v]
    <3>1. CASE NextEvent(w)
      BY <3>1, <2>1 DEF NextEvent, TypeOK, WorkerStates, Phases
    <3>2. CASE Goto(w, "failed")
      BY <3>2, <2>1 DEF Goto, TypeOK, WorkerStates, Phases
    <3> QED BY <1>3, <3>1, <3>2 DEF Deliver
  <2>3. /\ rows' \in [Events -> Rows]
        /\ rows'[e].status = "DONE"
        /\ \A f \in Events \ {e} : rows'[f] = rows[f]
    BY <1>3, <2>1 DEF Deliver, TypeOK, Rows, Statuses
  <2>4. \A v \in Workers :
           workers'[v].phase \in {"claimed", "failed"} <=> workers'[v].event # NoEvent
    BY <2>1, <2>2, OutboxAssumption DEF TypeOK
  <2>5. TypeOK'
    BY <1>3, <2>1, <2>2, <2>3, <2>4 DEF Deliver, TypeOK
  <2>6. \A v \in Workers : workers'[v].phase = "claimed" => v # w /\ workers'[v] = workers[v]
    BY <2>2
  <2>7. Exclusive'
    BY <2>6 DEF Exclusive
  <2>8. ClaimedWaits'
    <3> SUFFICES ASSUME NEW v \in Workers, workers'[v].phase = "claimed"
                 PROVE  Waiting(workers[v].event)' /\ workers'[v] = workers[v]
      BY DEF ClaimedWaits
    <3>1. workers[v].phase = "claimed" /\ workers'[v] = workers[v] /\ v # w
      BY <2>6
    <3>2. workers[v].event \in Events \ {e}
      BY <1>3, <3>1, OutboxAssumption DEF Deliver, TypeOK, WorkerStates, Exclusive
    <3> QED BY <2>3, <3>1, <3>2 DEF ClaimedWaits, Waiting
  <2>9. HeldExists'
    BY <2>1, <2>2, <2>3 DEF TypeOK, WorkerStates, HeldExists, Waiting
  <2>10. Accounts'
    BY <1>3, <2>1 DEF Deliver, TypeOK, Accounts, Account, Waiting, Rows
  <2> QED BY <2>5, <2>7, <2>8, <2>9, <2>10
<1>4. ASSUME NEW w \in Workers, RecordFailure(w) PROVE OutboxInv'
  <2> DEFINE e == workers[w].event
  <2>1. e \in Events /\ rows[e].status # "ABSENT" /\ ~Locked(e) /\ rows[e] \in Rows
    BY <1>4 DEF RecordFailure, TypeOK, WorkerStates, HeldExists
  <2>2. /\ AfterFailure(rows[e]) \in Rows
        /\ Account(AfterFailure(rows[e]), notified[e])
        /\ AfterFailure(rows[e]).status # "ABSENT"
    BY <2>1, FailureAccounted DEF TypeOK, Accounts
  <2>3. TypeOK'
    BY <1>4, <2>1, <2>2 DEF RecordFailure, NextEvent, TypeOK, WorkerStates, Phases
  <2>4. Exclusive' /\ ClaimedWaits' /\ HeldExists'
    BY <1>4, <2>1, <2>2 DEF RecordFailure, NextEvent, Locked, TypeOK, WorkerStates, Exclusive,
        ClaimedWaits, HeldExists, Waiting
  <2>5. Accounts'
    BY <1>4, <2>1, <2>2 DEF RecordFailure, TypeOK, Accounts
  <2> QED BY <2>3, <2>4, <2>5
<1>5. ASSUME NEW w \in Workers, LoseFailure(w) PROVE OutboxInv'
  <2>1. TypeOK' /\ Exclusive' /\ ClaimedWaits' /\ HeldExists'
    BY <1>5 DEF LoseFailure, NextEvent, TypeOK, WorkerStates, Phases, Exclusive, ClaimedWaits,
        HeldExists, Waiting
  <2> QED BY <1>5, <2>1, HoldOnly DEF LoseFailure
<1>6. ASSUME NEW e \in Events, RetryComesDue(e) PROVE OutboxInv'
  <2>1. rows' = [rows EXCEPT ![e].due = TRUE] /\ UNCHANGED <<created, notified, workers, crashes>>
    BY <1>6 DEF RetryComesDue
  <2>2. \A f \in Events :
           /\ rows'[f] \in Rows
           /\ rows'[f].status = rows[f].status
           /\ rows'[f].retries = rows[f].retries
    BY <2>1 DEF TypeOK, Rows
  <2>3. TypeOK'
    BY <2>1, <2>2 DEF TypeOK
  <2>4. Exclusive' /\ ClaimedWaits' /\ HeldExists'
    BY <2>1, <2>2 DEF TypeOK, WorkerStates, Exclusive, ClaimedWaits, HeldExists, Waiting
  <2>5. Accounts'
    BY <2>1, <2>2 DEF Accounts, Account
  <2> QED BY <2>3, <2>4, <2>5
<1>7. ASSUME Crash PROVE OutboxInv'
  <2>1. TypeOK' /\ Exclusive' /\ ClaimedWaits' /\ HeldExists'
    BY <1>7 DEF Crash, Idle, TypeOK, WorkerStates, Phases, Exclusive, ClaimedWaits, HeldExists
  <2> QED BY <1>7, <2>1, HoldOnly DEF Crash
<1>8. CASE UNCHANGED vars
  BY <1>8 DEF vars, TypeOK, Exclusive, ClaimedWaits, HeldExists, Waiting, Accounts, Account
<1> QED BY <1>1, <1>2, <1>3, <1>4, <1>5, <1>6, <1>7, <1>8 DEF Next

\* The inductive invariant holds throughout, for any set of threads.
THEOREM OutboxInvariance == Spec => []OutboxInv
<1>1. Init => OutboxInv
  BY InitOutbox
<1>2. OutboxInv /\ [Next]_vars => OutboxInv'
  BY StepOutbox
<1> QED BY <1>1, <1>2, PTL DEF Spec

\* Type correctness of the outbox.
THEOREM OutboxTypeCorrect == Spec => []TypeOK
<1>1. OutboxInv => TypeOK
  BY DEF OutboxInv
<1> QED BY <1>1, OutboxInvariance, PTL

\* Every notification but the last is paid for by a recorded failure.
THEOREM OutboxAccounted == Spec => []NotificationsAccounted
<1>1. OutboxInv => NotificationsAccounted
  BY DEF OutboxInv, TypeOK, Rows, Statuses, Accounts, Account, NotificationsAccounted
<1> QED BY <1>1, OutboxInvariance, PTL

\* A recipient gets an event at most MaxRetryCount times.
THEOREM OutboxBounded == Spec => []NotificationsBounded
<1>1. OutboxInv => NotificationsBounded
  BY OutboxAssumption
  DEF OutboxInv, TypeOK, Rows, Statuses, Accounts, Account, NotificationsBounded
<1> QED BY <1>1, OutboxInvariance, PTL

\* No step takes an event out of DEAD_LETTER: a claim refuses it, and a late
\* failure report finds at least MaxRetryCount failures recorded.
THEOREM OutboxDeadLetters == Spec => DeadLetterIsFinal
<1>1. OutboxInv /\ [Next]_vars =>
        [\A e \in Events : rows[e].status = "DEAD_LETTER" => rows'[e].status = "DEAD_LETTER"]_vars
  <2> SUFFICES ASSUME OutboxInv, [Next]_vars, NEW e \in Events, rows[e].status = "DEAD_LETTER"
               PROVE  rows'[e].status = "DEAD_LETTER"
    OBVIOUS
  <2> USE DEF OutboxInv
  <2>1. rows[e] \in Rows /\ rows[e].retries >= MaxRetryCount
    BY DEF TypeOK, Accounts, Account
  <2>2. CASE \E w \in Workers, es \in SUBSET Events : Enqueue(w, es)
    BY <2>1, <2>2 DEF Enqueue
  <2>3. CASE \E w \in Workers : Deliver(w)
    BY <2>1, <2>3 DEF Deliver, TypeOK, ClaimedWaits, Waiting
  <2>4. CASE \E w \in Workers : RecordFailure(w)
    BY <2>1, <2>4, OutboxAssumption DEF RecordFailure, AfterFailure, TypeOK, Rows
  <2>5. CASE \E f \in Events : RetryComesDue(f)
    BY <2>1, <2>5 DEF RetryComesDue, TypeOK, Rows
  <2>6. CASE UNCHANGED rows
    BY <2>6
  <2> QED
    BY <2>2, <2>3, <2>4, <2>5, <2>6 DEF Next, vars, Poll, Finish, Claim, Fail, LoseFailure, Crash
<1> QED BY <1>1, OutboxInvariance, PTL DEF Spec, DeadLetterIsFinal
=============================================================================
