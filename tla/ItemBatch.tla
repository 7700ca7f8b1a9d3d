----------------------------- MODULE ItemBatch -----------------------------
(***************************************************************************)
(* Bulk registration of clothes in the my-closet API                       *)
(* (apps/api/src/items/batch).  A client posts a batch of up to MaxBatch   *)
(* photos, uploads each photo straight to object storage, and may retry    *)
(* the photos that failed.  Request handlers run concurrently, one step    *)
(* per awaited call; an in-memory queue feeds ONE worker, which handles a  *)
(* job at a time, also one step per awaited call.  Handlers and worker     *)
(* meet in the database rows and in the queue.                             *)
(*                                                                         *)
(* Not represented: completedAt (null exactly when status is PENDING or    *)
(* PROCESSING: every write sets both), the wording of errors, object keys  *)
(* and URLs, what the classifier answers, and getProgress, which only      *)
(* reads.  Requests refused before the first write (400 for a bad count,   *)
(* 404 for a batch that is absent or another user's, a retry that finds    *)
(* nothing failed) change nothing and are stuttering steps.                *)
(***************************************************************************)
EXTENDS Integers, Sequences, FiniteSets

CONSTANTS
    Users,          \* account ids
    Keys,           \* values of the Idempotency-Key header
    Batches,        \* ids of ItemBatch rows; bounds the rows of a run
    Handlers,       \* requests that can be in flight together
    MaxBatch,       \* MAX_BATCH_SIZE
    MaxRetries,     \* bound: a batch with this many resets gets no retry
    Discipline,     \* when clients send a retry, see Disciplines
    Faults,         \* which failures happen, see FaultKinds
    None            \* null

(***************************************************************************)
(* crash    the API process dies and starts again                          *)
(* db       a database call throws and has no effect, or presigning throws *)
(* ack      a worker's write commits but the call throws (reply lost)      *)
(* storage  headObject or the classifier throws                            *)
(***************************************************************************)
FaultKinds == {"crash", "db", "ack", "storage"}

(***************************************************************************)
(* free      whenever they like, several retries of a batch in flight      *)
(* serial    one retry of a batch in flight at a time                      *)
(* finished  as serial, and only for a batch that getProgress shows        *)
(*           COMPLETED or FAILED                                           *)
(***************************************************************************)
Disciplines == {"free", "serial", "finished"}

ASSUME ConstantsAssumption ==
    /\ MaxBatch \in Nat \ {0}
    /\ MaxRetries \in Nat
    /\ Discipline \in Disciplines
    /\ Faults \subseteq FaultKinds
    /\ None \notin Users \cup Keys \cup Batches
    /\ IsFiniteSet(Batches)

VARIABLES
    batch,      \* ItemBatch rows; status "ABSENT" before the row exists
    item,       \* status of the ItemBatchItem rows; "NONE" if there is none
    created,    \* wardrobe Items the worker made from each photo
    uploaded,   \* photos present in object storage
    retries,    \* resets of each batch; only the bound MaxRetries reads it
    queue,      \* InMemoryBatchQueue: batch ids in promise-chain order
    worker,     \* the job being processed
    handler     \* the requests being served

vars == <<batch, item, created, uploaded, retries, queue, worker, handler>>

Slots == 1..MaxBatch

ActiveStatus   == {"PENDING", "PROCESSING"}
FinishedStatus == {"COMPLETED", "FAILED"}
BatchStatus    == ActiveStatus \cup FinishedStatus

SlotState == {"NONE", "PENDING", "COMPLETED", "FAILED"}

BatchRow == [status: BatchStatus \cup {"ABSENT"},
             user: Users \cup {None}, key: Keys \cup {None},
             total: 0..MaxBatch, completed: Nat, failed: Int]

NoRow == [status |-> "ABSENT", user |-> None, key |-> None,
          total |-> 0, completed |-> 0, failed |-> 0]

WorkerPC == {"idle", "start", "next", "createItem", "markCompleted",
             "markMissing", "markFailed", "finish"}

\* todo is the rest of the snapshot the job read; slot the photo at hand;
\* verdict the status computed from the final read.
WorkerState == [pc: WorkerPC, batch: Batches \cup {None}, todo: SUBSET Slots,
                slot: 0..MaxBatch, verdict: BatchStatus \cup {None}]

IdleWorker == [pc |-> "idle", batch |-> None, todo |-> {}, slot |-> 0,
               verdict |-> None]

HandlerPC == {"idle", "findKey", "findActive", "insert", "presign",
              "reset", "enqueue"}

\* seen is the number of failed photos a retry read before its transaction.
HandlerState == [pc: HandlerPC, user: Users \cup {None},
                 key: Keys \cup {None}, count: 0..MaxBatch,
                 batch: Batches \cup {None}, seen: Nat]

IdleHandler == [pc |-> "idle", user |-> None, key |-> None, count |-> 0,
                batch |-> None, seen |-> 0]

SlotsIn(b, st) == {s \in Slots : item[b][s] = st}

Exists(b) == batch[b].status # "ABSENT"

Init ==
    /\ batch = [b \in Batches |-> NoRow]
    /\ item = [b \in Batches |-> [s \in Slots |-> "NONE"]]
    /\ created = [b \in Batches |-> [s \in Slots |-> 0]]
    /\ uploaded = {}
    /\ retries = [b \in Batches |-> 0]
    /\ queue = <<>>
    /\ worker = IdleWorker
    /\ handler = [h \in Handlers |-> IdleHandler]

----------------------------------------------------------------------------
(* The rows' and the queue's operations.  An operator commented "mutant" is *)
(* a plausible bug of the definition after it and no part of the model.     *)

EnqueueOnce(b) ==                   \* mutant: a batch with a job gets no other
    queue' = IF worker.batch = b \/ \E i \in DOMAIN queue : queue[i] = b
             THEN queue ELSE Append(queue, b)

Enqueue(b) == queue' = Append(queue, b)

\* markItemResult's counter
CountBoth(row, outcome) ==          \* mutant: every result counts as done
    [row EXCEPT !.completed = @ + 1,
                !.failed = IF outcome = "FAILED" THEN @ + 1 ELSE @]

Count(row, outcome) ==
    IF outcome = "COMPLETED" THEN [row EXCEPT !.completed = @ + 1]
                             ELSE [row EXCEPT !.failed = @ + 1]

\* markItemResult: the photo and the counter of its batch, one transaction.
MarkItem(b, s, outcome) ==
    /\ item' = [item EXCEPT ![b][s] = outcome]
    /\ batch' = [batch EXCEPT ![b] = Count(batch[b], outcome)]

\* resetItemsForRetry's write to the batch; n failed photos were seen.
UncountAll(row, n) ==               \* mutant: the retry empties the counter
    [row EXCEPT !.status = "PROCESSING", !.failed = @ - row.total]

UncountNone(row, n) ==              \* mutant: the retry forgets the counter
    [row EXCEPT !.status = "PROCESSING"]

Uncount(row, n) == [row EXCEPT !.status = "PROCESSING", !.failed = @ - n]

\* The photos a reset makes wait again.
RetriedAll(b) ==                    \* mutant: the WHERE loses its status
    {s \in Slots : item[b][s] # "NONE"}

Retried(b) == SlotsIn(b, "FAILED")

----------------------------------------------------------------------------
(* POST /items/batch                                                       *)

\* Rows with a given owner and Idempotency-Key (findByIdempotencyKey).
WithKey(u, k) == {b \in Batches : Exists(b) /\ batch[b].user = u
                                            /\ batch[b].key = k}

\* findActiveByUser
ActiveOf(u) == {b \in Batches : batch[b].user = u
                                /\ batch[b].status \in ActiveStatus}

\* Bound on the rows: a create starts only while an id is left for it.
IdLeft == Cardinality({h \in Handlers : handler[h].pc \in
                            {"findKey", "findActive", "insert"}})
            < Cardinality({b \in Batches : ~Exists(b)})

Goto(h, pc) == handler' = [handler EXCEPT ![h].pc = pc]

Respond(h) == handler' = [handler EXCEPT ![h] = IdleHandler]

PostBatch(h, u, k, n) ==
    /\ handler[h].pc = "idle"
    /\ n \in 1..MaxBatch
    /\ IdLeft
    /\ handler' = [handler EXCEPT ![h] =
            [IdleHandler EXCEPT !.pc = IF k # None THEN "findKey" ELSE "findActive",
                                !.user = u, !.key = k, !.count = n]]
    /\ UNCHANGED <<batch, item, created, uploaded, retries, queue, worker>>

ReplayAgain(h) ==                   \* mutant: the replay queues a second job
    /\ handler[h].pc = "findKey"
    /\ \E b \in WithKey(handler[h].user, handler[h].key) : Enqueue(b)
    /\ Respond(h)
    /\ UNCHANGED <<batch, item, created, uploaded, retries, worker>>

\* The key is known: the batch of the first request is presented again.
Replay(h) ==
    /\ handler[h].pc = "findKey"
    /\ WithKey(handler[h].user, handler[h].key) # {}
    /\ Respond(h)
    /\ UNCHANGED <<batch, item, created, uploaded, retries, queue, worker>>

KeyIsNew(h) ==
    /\ handler[h].pc = "findKey"
    /\ WithKey(handler[h].user, handler[h].key) = {}
    /\ Goto(h, "findActive")
    /\ UNCHANGED <<batch, item, created, uploaded, retries, queue, worker>>

\* 409 batch_in_progress
RejectActive(h) ==
    /\ handler[h].pc = "findActive"
    /\ ActiveOf(handler[h].user) # {}
    /\ Respond(h)
    /\ UNCHANGED <<batch, item, created, uploaded, retries, queue, worker>>

NoneActive(h) ==
    /\ handler[h].pc = "findActive"
    /\ ActiveOf(handler[h].user) = {}
    /\ Goto(h, "insert")
    /\ UNCHANGED <<batch, item, created, uploaded, retries, queue, worker>>

\* The unique index on (userId, idempotencyKey) refuses the row: 500.
InsertRefused(h) ==
    /\ handler[h].pc = "insert"
    /\ handler[h].key # None
    /\ WithKey(handler[h].user, handler[h].key) # {}
    /\ Respond(h)
    /\ UNCHANGED <<batch, item, created, uploaded, retries, queue, worker>>

Insert(h, b) ==
    /\ handler[h].pc = "insert"
    /\ handler[h].key # None => WithKey(handler[h].user, handler[h].key) = {}
    /\ ~Exists(b)
    /\ batch' = [batch EXCEPT ![b] =
            [status |-> "PENDING", user |-> handler[h].user,
             key |-> handler[h].key, total |-> handler[h].count,
             completed |-> 0, failed |-> 0]]
    /\ item' = [item EXCEPT ![b] =
            [s \in Slots |-> IF s \in 1..handler[h].count THEN "PENDING"
                                                         ELSE "NONE"]]
    /\ handler' = [handler EXCEPT ![h].pc = "presign", ![h].batch = b]
    /\ UNCHANGED <<created, uploaded, retries, queue, worker>>

\* The upload URLs are signed; enqueue and the answer follow at once.
PresignAndEnqueue(h) ==
    /\ handler[h].pc = "presign"
    /\ Enqueue(handler[h].batch)
    /\ Respond(h)
    /\ UNCHANGED <<batch, item, created, uploaded, retries, worker>>

----------------------------------------------------------------------------
(* POST /items/batch/:batchId/retry                                        *)

\* How the clients of a run use the retry button.
MayRetry(b) ==
    /\ Discipline # "free" =>
          ~\E h \in Handlers : handler[h].pc \in {"reset", "enqueue"}
                               /\ handler[h].batch = b
    /\ Discipline = "finished" => batch[b].status \in FinishedStatus

\* findById and the owner check read what never changes, so they are taken
\* together with the first step of resetItemsForRetry, which counts the
\* failed photos OUTSIDE the transaction.
Retry(h, u, b) ==
    /\ handler[h].pc = "idle"
    /\ Exists(b) /\ batch[b].user = u
    /\ retries[b] < MaxRetries
    /\ MayRetry(b)
    /\ SlotsIn(b, "FAILED") # {}
    /\ handler' = [handler EXCEPT ![h] =
            [IdleHandler EXCEPT !.pc = "reset", !.user = u, !.batch = b,
                                !.seen = Cardinality(SlotsIn(b, "FAILED"))]]
    /\ UNCHANGED <<batch, item, created, uploaded, retries, queue, worker>>

\* The transaction: every photo failed NOW waits again, the counter goes
\* down by the number seen BEFORE.
Reset(h) ==
    LET b == handler[h].batch IN
    /\ handler[h].pc = "reset"
    /\ item' = [item EXCEPT ![b] =
            [s \in Slots |-> IF s \in Retried(b) THEN "PENDING"
                                                 ELSE item[b][s]]]
    /\ batch' = [batch EXCEPT ![b] = Uncount(batch[b], handler[h].seen)]
    /\ retries' = [retries EXCEPT ![b] = @ + 1]
    /\ Goto(h, "enqueue")
    /\ UNCHANGED <<created, uploaded, queue, worker>>

EnqueueRetry(h) ==
    /\ handler[h].pc = "enqueue"
    /\ Enqueue(handler[h].batch)
    /\ Respond(h)
    /\ UNCHANGED <<batch, item, created, uploaded, retries, worker>>

\* An awaited call of the handler throws: 500, nothing more is done.  At
\* "presign" and "enqueue" this is also the write whose reply is lost.
HandlerFails(h) ==
    /\ "db" \in Faults
    /\ handler[h].pc # "idle"
    /\ Respond(h)
    /\ UNCHANGED <<batch, item, created, uploaded, retries, queue, worker>>

HandlerStep(h) ==
    \/ Replay(h) \/ KeyIsNew(h) \/ RejectActive(h) \/ NoneActive(h)
    \/ InsertRefused(h) \/ \E b \in Batches : Insert(h, b)
    \/ PresignAndEnqueue(h) \/ Reset(h) \/ EnqueueRetry(h)

Request(h) ==
    \E u \in Users :
        \/ \E k \in Keys \cup {None}, n \in 1..MaxBatch : PostBatch(h, u, k, n)
        \/ \E b \in Batches : Retry(h, u, b)

----------------------------------------------------------------------------
(* The worker: BatchService.process, called by InMemoryBatchQueue          *)

\* A worker's write answers, or commits and then throws.
Answers == {"ok"} \cup (IF "ack" \in Faults THEN {"lost"} ELSE {})

\* An exception inside the try block of the loop goes to the catch block;
\* one outside it rejects the job, which the queue logs and forgets.
Swallowed ==                        \* mutant: the exception is ignored
    worker' = [worker EXCEPT !.pc = "markCompleted"]

Caught == worker' = [worker EXCEPT !.pc = "markFailed"]

EndJob == worker' = IdleWorker

\* The photos of the snapshot the loop does not skip.
SnapshotOpen(b) ==                  \* mutant: only COMPLETED is skipped
    SlotsIn(b, "PENDING") \cup SlotsIn(b, "FAILED")

Snapshot(b) == SlotsIn(b, "PENDING")

TakeJob ==
    /\ worker.pc = "idle"
    /\ queue # <<>>
    /\ worker' = [IdleWorker EXCEPT !.pc = "start", !.batch = Head(queue),
                                    !.todo = Snapshot(Head(queue))]
    /\ queue' = Tail(queue)
    /\ UNCHANGED <<batch, item, created, uploaded, retries, handler>>

MarkProcessing(a) ==
    /\ worker.pc = "start"
    /\ batch' = [batch EXCEPT ![worker.batch].status = "PROCESSING"]
    /\ IF a = "ok" THEN worker' = [worker EXCEPT !.pc = "next"] ELSE EndJob
    /\ UNCHANGED <<item, created, uploaded, retries, queue, handler>>

\* headObject, then the classifier: neither changes anything.  The order of
\* the photos is the database's (no ORDER BY).
Inspect(s) ==
    /\ worker.pc = "next"
    /\ s \in worker.todo
    /\ worker' = [worker EXCEPT !.todo = @ \ {s}, !.slot = s,
            !.pc = IF <<worker.batch, s>> \in uploaded THEN "createItem"
                                                       ELSE "markMissing"]
    /\ UNCHANGED <<batch, item, created, uploaded, retries, queue, handler>>

InspectFails(s) ==
    /\ "storage" \in Faults
    /\ worker.pc = "next"
    /\ s \in worker.todo
    /\ worker' = [worker EXCEPT !.todo = @ \ {s}, !.slot = s,
                                !.pc = "markFailed"]
    /\ UNCHANGED <<batch, item, created, uploaded, retries, queue, handler>>

CreateItem(a) ==
    /\ worker.pc = "createItem"
    /\ created' = [created EXCEPT ![worker.batch][worker.slot] = @ + 1]
    /\ IF a = "ok" THEN worker' = [worker EXCEPT !.pc = "markCompleted"]
                   ELSE Caught
    /\ UNCHANGED <<batch, item, uploaded, retries, queue, handler>>

MarkCompleted(a) ==
    /\ worker.pc = "markCompleted"
    /\ MarkItem(worker.batch, worker.slot, "COMPLETED")
    /\ IF a = "ok" THEN worker' = [worker EXCEPT !.pc = "next"] ELSE Caught
    /\ UNCHANGED <<created, uploaded, retries, queue, handler>>

\* "markMissing" is the object_not_found write inside the try block,
\* "markFailed" the write of the catch block.
MarkFailed(a) ==
    /\ worker.pc \in {"markMissing", "markFailed"}
    /\ MarkItem(worker.batch, worker.slot, "FAILED")
    /\ IF a = "ok" THEN worker' = [worker EXCEPT !.pc = "next"]
       ELSE IF worker.pc = "markMissing" THEN Caught ELSE EndJob
    /\ UNCHANGED <<created, uploaded, retries, queue, handler>>

VerdictPartial(row) ==              \* mutant: a status the schema lacks
    IF row.failed > 0 /\ row.completed > 0 THEN "PARTIAL" ELSE "COMPLETED"

VerdictSwapped(row) ==              \* mutant: the two tests in the other order
    IF row.completed + row.failed = row.total THEN "COMPLETED"
    ELSE IF row.failed > 0 /\ row.completed = 0 THEN "FAILED"
    ELSE "PROCESSING"

VerdictAllDone(row) ==              \* mutant: failed photos are not counted in
    IF row.failed > 0 /\ row.completed = 0 THEN "FAILED"
    ELSE IF row.completed = row.total THEN "COMPLETED"
    ELSE "PROCESSING"

Verdict(row) ==
    IF row.failed > 0 /\ row.completed = 0 THEN "FAILED"
    ELSE IF row.completed + row.failed = row.total THEN "COMPLETED"
    ELSE "PROCESSING"

ReadFinal ==
    /\ worker.pc = "next"
    /\ worker.todo = {}
    /\ worker' = [worker EXCEPT !.pc = "finish",
                                !.verdict = Verdict(batch[worker.batch])]
    /\ UNCHANGED <<batch, item, created, uploaded, retries, queue, handler>>

MarkFinal ==
    /\ worker.pc = "finish"
    /\ batch' = [batch EXCEPT ![worker.batch].status = worker.verdict]
    /\ EndJob
    /\ UNCHANGED <<item, created, uploaded, retries, queue, handler>>

\* A call inside the try block throws with no effect.
WorkerCallFails ==
    /\ "db" \in Faults
    /\ worker.pc \in {"createItem", "markCompleted", "markMissing"}
    /\ Caught
    /\ UNCHANGED <<batch, item, created, uploaded, retries, queue, handler>>

\* A call outside the try block throws with no effect.
JobFails ==
    /\ "db" \in Faults
    /\ \/ worker.pc \in {"start", "markFailed", "finish"}
       \/ worker.pc = "next" /\ worker.todo = {}
    /\ EndJob
    /\ UNCHANGED <<batch, item, created, uploaded, retries, queue, handler>>

WorkerStep ==
    \/ TakeJob \/ ReadFinal \/ MarkFinal
    \/ \E s \in Slots : Inspect(s)
    \/ \E a \in Answers : \/ MarkProcessing(a) \/ CreateItem(a)
                          \/ MarkCompleted(a) \/ MarkFailed(a)

----------------------------------------------------------------------------
(* The rest of the world                                                   *)

\* The client PUTs a photo to the URL its answer carried.
Upload(b, s) ==
    /\ item[b][s] # "NONE"
    /\ \A h \in Handlers : ~(handler[h].pc = "presign" /\ handler[h].batch = b)
    /\ <<b, s>> \notin uploaded
    /\ uploaded' = uploaded \cup {<<b, s>>}
    /\ UNCHANGED <<batch, item, created, retries, queue, worker, handler>>

\* The queue lives in memory and nothing rebuilds it at start-up.
Crash ==
    /\ "crash" \in Faults
    /\ queue' = <<>>
    /\ worker' = IdleWorker
    /\ handler' = [h \in Handlers |-> IdleHandler]
    /\ UNCHANGED <<batch, item, created, uploaded, retries>>

Failure ==
    \/ \E h \in Handlers : HandlerFails(h)
    \/ \E s \in Slots : InspectFails(s)
    \/ WorkerCallFails \/ JobFails \/ Crash

Next ==
    \/ \E h \in Handlers : Request(h) \/ HandlerStep(h)
    \/ WorkerStep
    \/ \E b \in Batches, s \in Slots : Upload(b, s)
    \/ Failure

Spec == Init /\ [][Next]_vars

\* The event loop runs every awaited continuation, so a handler and the
\* worker that can step do step.  Clients promise nothing: no fairness for
\* Request and Upload.
FairSpec == /\ Spec
            /\ \A h \in Handlers : WF_vars(HandlerStep(h))
            /\ WF_vars(WorkerStep)
----------------------------------------------------------------------------
(* Properties                                                              *)

TypeOK ==
    /\ batch \in [Batches -> BatchRow]
    /\ item \in [Batches -> [Slots -> SlotState]]
    /\ created \in [Batches -> [Slots -> Nat]]
    /\ uploaded \subseteq Batches \X Slots
    /\ retries \in [Batches -> Nat]
    /\ queue \in Seq(Batches)
    /\ worker \in WorkerState
    /\ handler \in [Handlers -> HandlerState]

\* Photos the running job still has to treat, the one at hand included.
InTreatment == {"createItem", "markCompleted", "markMissing", "markFailed"}

Unfinished == worker.todo \cup (IF worker.pc \in InTreatment
                                THEN {worker.slot} ELSE {})

\* What the program counters imply about the other fields, and that a row
\* that does not exist has no photos and no job: what the proofs add to TypeOK.
Shape ==
    /\ worker.pc = "idle" => worker = IdleWorker
    /\ worker.pc # "idle" => worker.batch \in Batches /\ Exists(worker.batch)
    /\ worker.pc \in InTreatment =>
          worker.slot \in Slots /\ worker.slot \notin worker.todo
    /\ worker.pc = "finish" => worker.verdict \in BatchStatus /\ worker.todo = {}
    /\ \A h \in Handlers :
          /\ handler[h].pc = "idle" => handler[h].batch = None
          /\ handler[h].pc \in {"presign", "reset", "enqueue"} =>
                handler[h].batch \in Batches /\ Exists(handler[h].batch)
          /\ handler[h].pc \in {"findKey", "findActive", "insert"} =>
                handler[h].count \in Slots
    /\ \A i \in DOMAIN queue : Exists(queue[i])
    /\ \A b \in Batches : ~Exists(b) => \A s \in Slots : item[b][s] = "NONE"

\* The job works from a snapshot it read before its first await
\* (batch.service.ts process).  Whatever retries do meanwhile, each photo
\* still ahead of it is PENDING: the snapshot is never stale where it counts.
SnapshotFresh ==
    "ack" \notin Faults =>
        \A s \in Unfinished : item[worker.batch][s] = "PENDING"

\* The counter the progress screen shows is the number of registered
\* photos, through concurrent retries, crashes and failing calls.
CompletedCounted ==
    "ack" \notin Faults =>
        \A b \in Batches :
            batch[b].completed = Cardinality(SlotsIn(b, "COMPLETED"))

\* With one retry of a batch in flight at a time the failed counter never
\* shows fewer photos than failed, though the reset subtracts a number read
\* before its transaction (batch.repository.ts resetItemsForRetry).
FailedNeverUnder ==
    Discipline # "free" /\ "ack" \notin Faults =>
        \A b \in Batches :
            batch[b].failed >= Cardinality(SlotsIn(b, "FAILED"))

\* If clients retry only what they saw finished, the failed counter is exact.
FailedCounted ==
    Discipline = "finished" /\ "ack" \notin Faults =>
        \A b \in Batches :
            batch[b].failed = Cardinality(SlotsIn(b, "FAILED"))

\* A job for batch b is queued, or a handler is about to queue one.
JobComing(b) ==
    \/ \E i \in DOMAIN queue : queue[i] = b
    \/ \E h \in Handlers : handler[h].pc \in {"presign", "enqueue"}
                           /\ handler[h].batch = b

\* While nothing crashes and no database call fails, a waiting photo always
\* has a job that will treat it, even when a retry lands in the middle of a
\* job whose snapshot does not contain that photo.
PendingServed ==
    Faults \subseteq {"storage"} =>
        \A b \in Batches : \A s \in SlotsIn(b, "PENDING") :
            JobComing(b) \/ (worker.batch = b /\ s \in Unfinished)

\* While nothing crashes and no database call fails, a photo has exactly one
\* wardrobe Item from the moment it is made on, and only a registered photo
\* or the one about to be marked so has any: retries and repeated jobs make
\* no duplicates.
ItemPerPhoto ==
    Faults \subseteq {"storage"} =>
        \A b \in Batches, s \in Slots :
            created[b][s] =
                IF \/ item[b][s] = "COMPLETED"
                   \/ worker.pc = "markCompleted" /\ worker.batch = b
                                                 /\ worker.slot = s
                THEN 1 ELSE 0

\* A registered photo has a wardrobe Item, under every failure.
RegisteredHasItem ==
    \A b \in Batches, s \in Slots :
        item[b][s] = "COMPLETED" => created[b][s] > 0

\* Everything that is or becomes a job of batch b.
JobsOf(b) ==
    Cardinality({i \in DOMAIN queue : queue[i] = b})
    + Cardinality({h \in Handlers : handler[h].batch = b})
    + (IF worker.batch = b THEN 1 ELSE 0)

\* If clients retry only what they saw finished, a batch has at most one job
\* queued, running or being prepared, and none once it is finished unless a
\* retry is under way.
OneJobPerBatch ==
    Discipline = "finished" =>
        \A b \in Batches :
            /\ JobsOf(b) <= 1
            /\ batch[b].status \in FinishedStatus =>
                  \A h \in Handlers : handler[h].batch = b =>
                        handler[h].pc = "reset"

\* If clients retry only what they saw finished, a finished batch has no
\* waiting photo, and it is FAILED exactly when no photo was registered.
FinishedIsSettled ==
    Discipline = "finished" /\ "ack" \notin Faults =>
        \A b \in Batches : batch[b].status \in FinishedStatus =>
            /\ SlotsIn(b, "PENDING") = {}
            /\ batch[b].status = "FAILED" <=> SlotsIn(b, "COMPLETED") = {}

\* The handlers, the queue, the worker and every failure but a lost reply
\* implement the plain ledger of photos: registered is for ever, a photo
\* settles only from waiting, a retry takes all failed photos at once.
Ledger == INSTANCE BatchLedger WITH Batches <- Batches, MaxBatch <- MaxBatch, item <- item

LedgerSpec == Ledger!LedgerSpec

\* A waiting photo is eventually registered or failed, whenever clients
\* retry, as long as nothing crashes and no database call fails.
PhotoSettles ==
    \A b \in Batches, s \in Slots :
        item[b][s] = "PENDING" ~> item[b][s] # "PENDING"

\* A batch that is active finishes, so that its owner can post another one,
\* even if it is retried in the middle of a job, unless a reset in the middle of
\* a failing write left its failed counter wrong.
BatchFinishes ==
    \A b \in Batches :
        [](batch[b].failed = Cardinality(SlotsIn(b, "FAILED")))
            => (batch[b].status \in ActiveStatus ~> batch[b].status \in FinishedStatus)

----------------------------------------------------------------------------
(* What the documents, the schema and the tests say, and the code does not *)

\* closet.prisma:33 and spec.md:51: one active batch per user at a time.
OneActivePerUser ==
    \A u \in Users : Cardinality(ActiveOf(u)) <= 1

\* review.md:89: repeating a request with its key is safe.  The batch the
\* replay presents has no waiting photo that no job will ever treat.
ReplayIsServed ==
    [][\A h \in Handlers : Replay(h) =>
        \A b \in WithKey(handler[h].user, handler[h].key) :
            \A s \in SlotsIn(b, "PENDING") :
                JobComing(b) \/ (worker.batch = b /\ s \in Unfinished)]_vars
============================================================================
