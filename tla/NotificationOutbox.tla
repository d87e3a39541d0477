------------------------- MODULE NotificationOutbox -------------------------
(***************************************************************************)
(* The outbox between the business transactions and the notifications.     *)
(* Submissions and reviews insert events with their own data; after the    *)
(* commit, the thread that served the request runs processPending, the     *)
(* only consumer there is.  So several threads consume at the same time,   *)
(* and nobody consumes while no request comes.                             *)
(*                                                                         *)
(* A thread reads a batch without locks, then takes each event in a        *)
(* transaction of its own: a conditional UPDATE claims the row, the        *)
(* notification is inserted, the row is DONE.  The PROCESSING that the     *)
(* UPDATE writes is never committed, so the model knows it as the row lock *)
(* of the claiming thread.  A failure rolls that transaction back and is   *)
(* recorded in a second one, which has no condition on the status.         *)
(***************************************************************************)
EXTENDS Naturals, FiniteSets

CONSTANTS
    Events,         \* rows of outbox_events, one per recipient
    NoEvent,        \* a thread that has no event in hand
    Malformed,      \* those whose payload cannot make a notification
    Workers,        \* request threads of the server
    BatchSize,      \* rows read at a time (20 in the code)
    MaxRetryCount,  \* failures after which a row is set aside (3 in the code)
    MaxCrashes      \* bound: server crashes in a run

ASSUME OutboxAssumption ==
    /\ IsFiniteSet(Events)
    /\ NoEvent \notin Events
    /\ Malformed \subseteq Events
    /\ BatchSize \in Nat \ {0}
    /\ MaxRetryCount \in Nat \ {0}
    /\ MaxCrashes \in Nat

VARIABLES
    rows,           \* outbox_events
    created,        \* created_at, the same for all rows of a transaction
    notified,       \* how many notifications each event has made
    workers,        \* what each thread is doing
    crashes         \* server crashes so far

vars == <<rows, created, notified, workers, crashes>>

-----------------------------------------------------------------------------

Statuses == {"ABSENT", "NEW", "FAILED", "DONE", "DEAD_LETTER"}

\* due: next_retry_at is null or has passed.
Rows == [status : Statuses, retries : Nat, due : BOOLEAN]

Phases == {"idle", "polling", "working", "claimed", "failed"}

Idle == [phase |-> "idle", batch |-> {}, event |-> NoEvent]

\* batch: the rows a thread has read and not reached yet; event: the one it has
\* in hand.
WorkerStates == [phase : Phases, batch : SUBSET Events, event : Events \cup {NoEvent}]

TypeOK ==
    /\ rows \in [Events -> Rows]
    /\ created \in [Events -> Nat]
    /\ notified \in [Events -> Nat]
    /\ workers \in [Workers -> WorkerStates]
    /\ \A w \in Workers :
          workers[w].phase \in {"claimed", "failed"} <=> workers[w].event # NoEvent
    /\ crashes \in 0..MaxCrashes

Init ==
    /\ rows = [e \in Events |-> [status |-> "ABSENT", retries |-> 0, due |-> TRUE]]
    /\ created = [e \in Events |-> 0]
    /\ notified = [e \in Events |-> 0]
    /\ workers = [w \in Workers |-> Idle]
    /\ crashes = 0

-----------------------------------------------------------------------------

\* Mutant: an event that failed once is never looked at again.
NeverRetried(row) == row.status = "NEW"

Claimable(row) == row.status \in {"NEW", "FAILED"} /\ row.due

Due == {e \in Events : Claimable(rows[e])}

Oldest(es) == {e \in es : \A f \in es : created[e] <= created[f]}

Locked(e) == \E w \in Workers : workers[w].phase = "claimed" /\ workers[w].event = e

Goto(w, phase) == workers' = [workers EXCEPT ![w].phase = phase]

NextEvent(w) ==
    workers' = [workers EXCEPT ![w] =
        [phase |-> "working", batch |-> @.batch, event |-> NoEvent]]

\* A clock that moves with the transactions.
Now == 1 + Cardinality({e \in Events : rows[e].status # "ABSENT"})

\* A business transaction commits with its events, and its thread goes on to
\* consume.  A replayed request has no events of its own.
Enqueue(w, es) ==
    /\ workers[w].phase = "idle"
    /\ \A e \in es : rows[e].status = "ABSENT"
    /\ rows' = [e \in Events |->
           IF e \in es THEN [rows[e] EXCEPT !.status = "NEW"] ELSE rows[e]]
    /\ created' = [e \in Events |-> IF e \in es THEN Now ELSE created[e]]
    /\ Goto(w, "polling")
    /\ UNCHANGED <<notified, crashes>>

\* The events that are due, the oldest when there are more than the limit.
Poll(w) ==
    /\ workers[w].phase = "polling"
    /\ \E batch \in SUBSET Due :
          /\ \/ batch = Due /\ Cardinality(Due) <= BatchSize
             \/ /\ Cardinality(batch) = BatchSize
                /\ \A e \in batch, f \in Due \ batch : created[e] <= created[f]
          /\ workers' = [workers EXCEPT ![w].phase = "working", ![w].batch = batch]
    /\ UNCHANGED <<rows, created, notified, crashes>>

Finish(w) ==
    /\ workers[w].phase = "working"
    /\ workers[w].batch = {}
    /\ workers' = [workers EXCEPT ![w] = Idle]
    /\ UNCHANGED <<rows, created, notified, crashes>>

\* The UPDATE waits for the row lock and tests the row again once it has it;
\* an event that is no longer claimable is passed over.
Claim(w) ==
    /\ workers[w].phase = "working"
    /\ \E e \in Oldest(workers[w].batch) :
          /\ ~Locked(e)
          /\ workers' = [workers EXCEPT ![w] =
                 [phase |-> IF Claimable(rows[e]) THEN "claimed" ELSE "working",
                  batch |-> @.batch \ {e},
                  event |-> IF Claimable(rows[e]) THEN e ELSE NoEvent]]
    /\ UNCHANGED <<rows, created, notified, crashes>>

\* Mutant: the exception is caught inside the transaction, which commits.
DeliverOrSwallow(w) ==
    LET e == workers[w].event
    IN  /\ workers[w].phase = "claimed"
        /\ notified' = IF e \in Malformed THEN notified ELSE [notified EXCEPT ![e] = @ + 1]
        /\ rows' = [rows EXCEPT ![e].status = "DONE"]
        /\ NextEvent(w)
        /\ UNCHANGED <<created, crashes>>

\* The transaction commits; the thread can still see an exception, when the
\* answer to its COMMIT is lost.
Deliver(w) ==
    LET e == workers[w].event
    IN  /\ workers[w].phase = "claimed"
        /\ e \notin Malformed
        /\ notified' = [notified EXCEPT ![e] = @ + 1]
        /\ rows' = [rows EXCEPT ![e].status = "DONE"]
        /\ NextEvent(w) \/ Goto(w, "failed")
        /\ UNCHANGED <<created, crashes>>

\* A malformed payload always fails, a good one when the database does; the
\* transaction is rolled back.
Fail(w) ==
    /\ workers[w].phase = "claimed"
    /\ Goto(w, "failed")
    /\ UNCHANGED <<rows, created, notified, crashes>>

\* Mutants of the row a failure leaves: one failure too many before the row is
\* set aside, and equality in place of >=.
AfterOneFailureTooMany(row) ==
    [status  |-> IF row.retries + 1 > MaxRetryCount THEN "DEAD_LETTER" ELSE "FAILED",
     retries |-> row.retries + 1,
     due     |-> row.retries + 1 > MaxRetryCount]

AfterExactlyMax(row) ==
    [status  |-> IF row.retries + 1 = MaxRetryCount THEN "DEAD_LETTER" ELSE "FAILED",
     retries |-> row.retries + 1,
     due     |-> row.retries + 1 = MaxRetryCount]

AfterFailure(row) ==
    [status  |-> IF row.retries + 1 >= MaxRetryCount THEN "DEAD_LETTER" ELSE "FAILED",
     retries |-> row.retries + 1,
     due     |-> row.retries + 1 >= MaxRetryCount]

\* The row may have changed since the failure: another thread may have
\* delivered the event, or have recorded a failure of its own.
RecordFailure(w) ==
    LET e == workers[w].event
    IN  /\ workers[w].phase = "failed"
        /\ ~Locked(e)
        /\ rows' = [rows EXCEPT ![e] = AfterFailure(@)]
        /\ NextEvent(w)
        /\ UNCHANGED <<created, notified, crashes>>

\* A failure that cannot be recorded is logged and forgotten.
LoseFailure(w) ==
    /\ workers[w].phase = "failed"
    /\ NextEvent(w)
    /\ UNCHANGED <<rows, created, notified, crashes>>

\* next_retry_at of a failed event passes.
RetryComesDue(e) ==
    /\ rows[e].status = "FAILED"
    /\ ~rows[e].due
    /\ rows' = [rows EXCEPT ![e].due = TRUE]
    /\ UNCHANGED <<created, notified, workers, crashes>>

\* The server stops: what was not committed is gone.
Crash ==
    /\ crashes < MaxCrashes
    /\ crashes' = crashes + 1
    /\ workers' = [w \in Workers |-> Idle]
    /\ UNCHANGED <<rows, created, notified>>

Next ==
    \/ \E w \in Workers :
          \/ \E es \in SUBSET Events : Enqueue(w, es)
          \/ Poll(w) \/ Finish(w) \/ Claim(w) \/ Deliver(w)
          \/ Fail(w) \/ RecordFailure(w) \/ LoseFailure(w)
    \/ \E e \in Events : RetryComesDue(e)
    \/ Crash

Spec == Init /\ [][Next]_vars

\* A thread that serves a request goes on until its batch is done, time
\* passes, and a database that answers sooner or later takes a failure report.
Fairness ==
    /\ \A w \in Workers :
          /\ WF_vars(Poll(w) \/ Finish(w) \/ Claim(w) \/ Deliver(w) \/ Fail(w))
          /\ SF_vars(Claim(w))
          /\ SF_vars(RecordFailure(w))
          /\ WF_vars(RecordFailure(w) \/ LoseFailure(w))
    /\ \A e \in Events : WF_vars(RetryComesDue(e))

FairSpec == Spec /\ Fairness

\* Requests keep coming.
TrafficSpec == FairSpec /\ \A w \in Workers : WF_vars(Enqueue(w, {}))

-----------------------------------------------------------------------------
(* Properties                                                              *)

\* Every notification but the last is paid for by a recorded failure: a thread
\* whose failure report arrives after another thread delivered the event takes
\* the row out of DONE and lets it be delivered again, never without counting.
\* DONE itself is never claimed for an event that made no notification.
NotificationsAccounted ==
    \A e \in Events :
        /\ rows[e].status = "DONE" => notified[e] \in 1..(rows[e].retries + 1)
        /\ rows[e].status # "DONE" => notified[e] <= rows[e].retries

\* However many threads race, fail and crash, a recipient gets an event at most
\* MaxRetryCount times.
NotificationsBounded == \A e \in Events : notified[e] <= MaxRetryCount

\* V10: "DEAD_LETTER is a terminal quarantine state", also for the threads that
\* still hold a failure of the event when it gets there.
DeadLetterIsFinal ==
    [][\A e \in Events :
          rows[e].status = "DEAD_LETTER" => rows'[e].status = "DEAD_LETTER"]_vars

Waiting(e) == rows[e].status \in {"NEW", "FAILED"}

\* While requests keep coming, every event comes to rest: poison at the head of
\* the queue, lost failure reports, races and a crash do not hold it up for ever.
EveryEventSettles == \A e \in Events : Waiting(e) ~> []~Waiting(e)
=============================================================================
