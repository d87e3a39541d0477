--------------------------- MODULE LocalEventSync ---------------------------
(***************************************************************************)
(* How the events of a desktop client reach the server.  Operations put    *)
(* events into a table of the local database; a sync pass sends all of     *)
(* them in one request, and the server inserts those it does not have, by  *)
(* device and idempotency key, in one transaction.  Answered events leave  *)
(* the table, the others stay for a later pass.                            *)
(*                                                                         *)
(* Passes are not exclusive, the network loses requests and replies, and a *)
(* request the client has given up may still arrive.  The local database   *)
(* lives in memory; after every statement the whole of it is written over  *)
(* the file, and concurrent writes end in any order.                       *)
(*                                                                         *)
(* An event is its idempotency key.  The statuses pending and retryable    *)
(* are one: every query of the code treats them alike.                     *)
(***************************************************************************)
EXTENDS Naturals, FiniteSets

CONSTANTS
    Keys,           \* idempotency keys of the events of one device
    Oversized,      \* events with a field the columns of the server cannot hold
    Passes,         \* concurrent runs of syncPending
    Callers,        \* concurrent operations that enqueue
    NoKey,          \* a caller that enqueues nothing
    MaxCrashes      \* bound: crashes of the client in a run

ASSUME SyncAssumption ==
    /\ Oversized \subseteq Keys
    /\ Passes \cap Callers = {}
    /\ NoKey \notin Keys
    /\ MaxCrashes \in Nat

VARIABLES
    queue,          \* local_events of the client, in memory
    saved,          \* the same table in the database file
    writing,        \* the snapshot each pass and caller is writing to the file,
                    \* in a set, empty when there is none
    callers,        \* the event each caller is enqueueing
    passes,         \* the sync passes
    backingOff,     \* nextRetryAtMs lies in the future
    delayed,        \* requests the client has given up, still under way
    recorded,       \* the events with a row in local_events of the server
    crashes         \* crashes so far

clientVars == <<queue, saved, writing, callers, passes, backingOff>>

vars == <<clientVars, delayed, recorded, crashes>>

-----------------------------------------------------------------------------

Writers == Passes \cup Callers

Phases == {"idle", "waiting", "answered", "acking", "failing"}

\* batch: the events of the request; todo: those its result is not applied to.
PassStates == [phase : Phases, batch : SUBSET Keys, todo : SUBSET Keys]

Idle == [phase |-> "idle", batch |-> {}, todo |-> {}]

TypeOK ==
    /\ queue \in SUBSET Keys
    /\ saved \in SUBSET Keys
    /\ writing \in [Writers -> SUBSET SUBSET Keys]
    /\ callers \in [Callers -> Keys \cup {NoKey}]
    /\ passes \in [Passes -> PassStates]
    /\ \A p \in Passes : passes[p].todo \subseteq passes[p].batch
    /\ backingOff \in BOOLEAN
    /\ delayed \in SUBSET SUBSET Keys
    /\ recorded \subseteq Keys
    /\ crashes \in 0..MaxCrashes

Init ==
    /\ queue = {}
    /\ saved = {}
    /\ writing = [w \in Writers |-> {}]
    /\ callers = [c \in Callers |-> NoKey]
    /\ passes = [p \in Passes |-> Idle]
    /\ backingOff = FALSE
    /\ delayed = {}
    /\ recorded = {}
    /\ crashes = 0

-----------------------------------------------------------------------------
(* The local database.                                                     *)

\* A statement has changed the table in memory; its caller awaits the write.
RunStatement(w, table) ==
    /\ writing[w] = {}
    /\ queue' = table
    /\ writing' = [writing EXCEPT ![w] = {table}]

\* A write of the file ends.
Persist(w) ==
    /\ saved' \in writing[w]
    /\ writing' = [writing EXCEPT ![w] = {}]
    /\ UNCHANGED <<queue, callers, passes, backingOff, delayed, recorded, crashes>>

-----------------------------------------------------------------------------
(* enqueue                                                                 *)

\* A key that is in the table already changes nothing: its row is the answer.
Enqueue(c, k) ==
    /\ callers[c] = NoKey
    /\ k \notin queue
    /\ RunStatement(c, queue \cup {k})
    /\ callers' = [callers EXCEPT ![c] = k]
    /\ UNCHANGED <<saved, passes, backingOff, delayed, recorded, crashes>>

EnqueueReturns(c) ==
    /\ callers[c] # NoKey
    /\ writing[c] = {}
    /\ callers' = [callers EXCEPT ![c] = NoKey]
    /\ UNCHANGED <<queue, saved, writing, passes, backingOff, delayed, recorded, crashes>>

-----------------------------------------------------------------------------
(* syncAfterNetworkRecovery and syncPending                                *)

\* With nothing to send, the backoff is forgotten.
SkipEmpty ==
    /\ queue = {}
    /\ backingOff' = FALSE
    /\ UNCHANGED <<queue, saved, writing, callers, passes, delayed, recorded, crashes>>

StartPass(p) ==
    /\ passes[p].phase = "idle"
    /\ queue # {}
    /\ ~backingOff
    /\ passes' = [passes EXCEPT ![p] = [phase |-> "waiting", batch |-> queue, todo |-> {}]]
    /\ UNCHANGED <<queue, saved, writing, callers, backingOff, delayed, recorded,
                   crashes>>

BackoffPasses ==
    /\ backingOff
    /\ backingOff' = FALSE
    /\ UNCHANGED <<queue, saved, writing, callers, passes, delayed, recorded, crashes>>

\* The events of a request that the server inserts.
Inserted(batch) == batch \ recorded

\* Mutant: a duplicate is an error in place of IGNORED.
RecordOrConflict(batch) ==
    /\ Inserted(batch) = batch
    /\ Inserted(batch) \cap Oversized = {}
    /\ recorded' = recorded \cup batch

\* The server's transaction: it inserts what it does not have and answers
\* every event.  A row that cannot be inserted aborts the transaction for the
\* whole request, and so does a duplicate key another request has won.
Record(batch) ==
    /\ Inserted(batch) \cap Oversized = {}
    /\ recorded' = recorded \cup Inserted(batch)

HandleRequest(p) ==
    /\ passes[p].phase = "waiting"
    /\ Record(passes[p].batch)
    /\ passes' = [passes EXCEPT ![p].phase = "answered"]
    /\ UNCHANGED <<queue, saved, writing, callers, backingOff, delayed, crashes>>

HandleDelayed(batch) ==
    /\ batch \in delayed
    /\ Record(batch)
    /\ delayed' = delayed \ {batch}
    /\ UNCHANGED <<clientVars, crashes>>

DropDelayed(batch) ==
    /\ batch \in delayed
    /\ delayed' = delayed \ {batch}
    /\ UNCHANGED <<clientVars, recorded, crashes>>

ReceiveReply(p) ==
    /\ passes[p].phase = "answered"
    /\ passes' = [passes EXCEPT ![p].phase = "acking", ![p].todo = passes[p].batch]
    /\ UNCHANGED <<queue, saved, writing, callers, backingOff, delayed, recorded,
                   crashes>>

\* Mutant: an event is dropped as soon as the request fails for good.
FailAsAnswered(p) ==
    /\ passes[p].phase \in {"waiting", "answered"}
    /\ passes' = [passes EXCEPT ![p].phase = "acking", ![p].todo = passes[p].batch]
    /\ UNCHANGED <<queue, saved, writing, callers, backingOff, delayed, recorded,
                   crashes>>

\* Mutant: the events that are pending now, in place of those that were sent.
FailPending(p) ==
    /\ passes[p].phase \in {"waiting", "answered"}
    /\ passes' = [passes EXCEPT ![p].phase = "failing", ![p].todo = queue]
    /\ UNCHANGED <<queue, saved, writing, callers, backingOff, delayed, recorded,
                   crashes>>

\* No answer: the server is down or refuses, the request or the reply is lost,
\* the client has waited long enough, or applying the hints of the reply fails.
RequestFails(p) ==
    /\ passes[p].phase \in {"waiting", "answered"}
    /\ passes' = [passes EXCEPT ![p].phase = "failing", ![p].todo = passes[p].batch]
    /\ \/ delayed' = delayed
       \/ passes[p].phase = "waiting" /\ delayed' = delayed \cup {passes[p].batch}
    /\ UNCHANGED <<queue, saved, writing, callers, backingOff, recorded, crashes>>

\* markSynced: an answered event leaves the table, unless it has left already.
Acknowledge(p, k) ==
    /\ passes[p].phase = "acking"
    /\ k \in passes[p].todo
    /\ IF k \in queue
       THEN RunStatement(p, queue \ {k})
       ELSE writing[p] = {} /\ UNCHANGED <<queue, writing>>
    /\ passes' = [passes EXCEPT ![p].todo = @ \ {k}]
    /\ UNCHANGED <<saved, callers, backingOff, delayed, recorded, crashes>>

\* A statement that throws sends the pass to its error branch.
AcknowledgeFails(p) ==
    /\ passes[p].phase = "acking"
    /\ writing[p] = {}
    /\ passes' = [passes EXCEPT ![p].phase = "failing", ![p].todo = passes[p].batch]
    /\ UNCHANGED <<queue, saved, writing, callers, backingOff, delayed, recorded,
                   crashes>>

\* markFailed: the event stays, and the file is written.
MarkFailed(p, k) ==
    /\ passes[p].phase = "failing"
    /\ k \in passes[p].todo
    /\ RunStatement(p, queue)
    /\ passes' = [passes EXCEPT ![p].todo = @ \ {k}]
    /\ UNCHANGED <<saved, callers, backingOff, delayed, recorded, crashes>>

\* A pass that ends sets the backoff or resets it.
EndPass(p) ==
    /\ passes[p].phase \in {"acking", "failing"}
    /\ passes[p].todo = {}
    /\ writing[p] = {}
    /\ backingOff' = (passes[p].phase = "failing")
    /\ passes' = [passes EXCEPT ![p] = Idle]
    /\ UNCHANGED <<queue, saved, writing, callers, delayed, recorded, crashes>>

-----------------------------------------------------------------------------

\* The client stops and starts again.  The file has the last completed write
\* or one that was under way; a write that was cut short leaves a file that is
\* empty, or unreadable and rebuilt.
Crash ==
    /\ crashes < MaxCrashes
    /\ crashes' = crashes + 1
    /\ LET underWay == UNION {writing[w] : w \in Writers}
       IN  \E table \in {saved} \cup underWay \cup (IF underWay = {} THEN {} ELSE {{}}) :
               queue' = table /\ saved' = table
    /\ writing' = [w \in Writers |-> {}]
    /\ callers' = [c \in Callers |-> NoKey]
    /\ passes' = [p \in Passes |-> Idle]
    /\ backingOff' = FALSE
    /\ delayed' = delayed \cup {passes[p].batch : p \in {q \in Passes : passes[q].phase = "waiting"}}
    /\ UNCHANGED recorded

Next ==
    \/ \E w \in Writers : Persist(w)
    \/ \E c \in Callers : EnqueueReturns(c) \/ \E k \in Keys : Enqueue(c, k)
    \/ \E p \in Passes :
          \/ StartPass(p) \/ HandleRequest(p) \/ ReceiveReply(p) \/ RequestFails(p)
          \/ AcknowledgeFails(p) \/ EndPass(p)
          \/ \E k \in Keys : Acknowledge(p, k) \/ MarkFailed(p, k)
    \/ \E batch \in delayed : HandleDelayed(batch) \/ DropDelayed(batch)
    \/ SkipEmpty \/ BackoffPasses
    \/ Crash

Spec == Init /\ [][Next]_vars

\* The client syncs again and again (the renderer asks for it at every start),
\* the event loop runs every continuation, and neither the network, the server
\* nor the disk fails for ever.
Fairness ==
    /\ \A w \in Writers : WF_vars(Persist(w))
    /\ \A c \in Callers : WF_vars(EnqueueReturns(c))
    /\ WF_vars(BackoffPasses)
    /\ \A p \in Passes :
          /\ SF_vars(StartPass(p))
          /\ WF_vars(RequestFails(p))
          /\ SF_vars(HandleRequest(p))
          /\ SF_vars(ReceiveReply(p))
          /\ SF_vars(EndPass(p))
          /\ \A k \in Keys : SF_vars(Acknowledge(p, k)) /\ WF_vars(MarkFailed(p, k))

FairSpec == Spec /\ Fairness

-----------------------------------------------------------------------------
(* Properties                                                              *)

\* An event leaves the client's table only when the server has it, whichever
\* pass takes it out; nothing but a crash can lose one.
DroppedIsRecorded ==
    [][\A k \in Keys :
          k \in queue /\ k \notin queue' => k \in recorded' \/ crashes' # crashes]_vars

\* Every event the server can hold reaches it and leaves the table.
EveryGoodEventArrives ==
    \A k \in Keys \ Oversized : k \in queue ~> k \in recorded /\ k \notin queue
=============================================================================
