------------------------ MODULE ItemBatchJobsProofs ------------------------
(***************************************************************************)
(* Proofs about the jobs of ItemBatch: a waiting photo always has one, and *)
(* a batch whose clients retry only what they saw finished never has two.  *)
(***************************************************************************)
EXTENDS ItemBatchProofs

----------------------------------------------------------------------------
(* What the steps do to the queue, the worker and the requests             *)

\* Before its row exists, and when it ends, a request has no batch.
Early == {"idle", "findKey", "findActive", "insert"}

\* A request that only reads, and the arrival of one that will create a batch.
QuietStep(h) ==
    \/ Replay(h) \/ KeyIsNew(h) \/ RejectActive(h) \/ NoneActive(h)
    \/ InsertRefused(h)
    \/ \E u \in Users, k \in Keys \cup {None}, n \in 1..MaxBatch : PostBatch(h, u, k, n)

LEMMA QuietEffect ==
    ASSUME TypeOK, NEW h \in Handlers, QuietStep(h)
    PROVE  /\ UNCHANGED <<batch, item, created, uploaded, retries, queue, worker>>
           /\ handler[h].pc \in Early
           /\ \A g \in Handlers : g # h => handler'[g] = handler[g]
           /\ handler'[h].pc \in Early
           /\ handler'[h].batch \in {None, handler[h].batch}
  <1>1. /\ UNCHANGED <<batch, item, created, uploaded, retries, queue, worker>>
        /\ handler[h].pc \in Early
    BY DEF QuietStep, Replay, KeyIsNew, RejectActive, NoneActive, InsertRefused,
           PostBatch, Early
  <1>2. handler \in [Handlers -> HandlerState]
    BY DEF TypeOK
  <1>3. CASE Respond(h)
    BY <1>1, <1>2, <1>3 DEF Respond, IdleHandler, Early
  <1>4. ASSUME NEW pc \in {"findActive", "insert"}, Goto(h, pc)
        PROVE  /\ \A g \in Handlers : g # h => handler'[g] = handler[g]
               /\ handler'[h].pc \in Early
               /\ handler'[h].batch = handler[h].batch
    BY <1>2, <1>4 DEF Goto, HandlerState, Early
  <1>5. ASSUME NEW u \in Users, NEW k \in Keys \cup {None}, NEW n \in 1..MaxBatch,
               PostBatch(h, u, k, n)
        PROVE  /\ \A g \in Handlers : g # h => handler'[g] = handler[g]
               /\ handler'[h].pc \in Early
               /\ handler'[h].batch = None
    BY <1>2, <1>5 DEF PostBatch, IdleHandler, Early
  <1>. QED
    BY <1>1, <1>3, <1>4, <1>5
    DEF QuietStep, Replay, KeyIsNew, RejectActive, NoneActive, InsertRefused

\* The steps of a request that have a batch in hand.
LEMMA InsertEffect ==
    ASSUME TypeOK, Shape, NEW h \in Handlers, NEW b \in Batches, Insert(h, b)
    PROVE  /\ UNCHANGED <<created, uploaded, retries, queue, worker>>
           /\ handler[h].pc = "insert" /\ ~Exists(b)
           /\ \A s \in Slots : item[b][s] = "NONE"
           /\ \A c \in Batches : c # b => batch'[c] = batch[c] /\ item'[c] = item[c]
           /\ batch'[b].status = "PENDING" /\ batch'[b].failed = 0
           /\ batch'[b].completed = 0
           /\ \A s \in Slots : item'[b][s] \in {"PENDING", "NONE"}
           /\ item'[b][1] = "PENDING"
           /\ \A g \in Handlers : g # h => handler'[g] = handler[g]
           /\ handler'[h].pc = "presign" /\ handler'[h].batch = b
  <1>1. handler[h].pc = "insert" /\ handler[h].count \in Slots /\ 1 \in Slots
        /\ 1 \in 1..handler[h].count
    BY ConstantsAssumption DEF Insert, Shape, Slots
  <1>2. batch \in [Batches -> BatchRow] /\ item \in [Batches -> [Slots -> SlotState]]
        /\ handler \in [Handlers -> HandlerState]
    BY DEF TypeOK
  <1>3. \A s \in Slots : item[b][s] = "NONE"
    BY DEF Insert, Shape
  <1>. QED
    BY <1>1, <1>2, <1>3 DEF Insert, HandlerState

LEMMA EnqueueEffect ==
    ASSUME TypeOK, Shape, NEW h \in Handlers,
           PresignAndEnqueue(h) \/ EnqueueRetry(h)
    PROVE  /\ UNCHANGED <<batch, item, created, uploaded, retries, worker>>
           /\ handler[h].pc \in {"presign", "enqueue"}
           /\ handler[h].batch \in Batches
           /\ queue' = Append(queue, handler[h].batch)
           /\ \A g \in Handlers : g # h => handler'[g] = handler[g]
           /\ handler'[h] = IdleHandler
  <1>1. handler \in [Handlers -> HandlerState] /\ handler[h].batch \in Batches
    BY DEF TypeOK, Shape, PresignAndEnqueue, EnqueueRetry
  <1>. QED
    BY <1>1 DEF PresignAndEnqueue, EnqueueRetry, Enqueue, Respond

LEMMA RetryEffect ==
    ASSUME TypeOK, NEW h \in Handlers, NEW u \in Users, NEW b \in Batches,
           Retry(h, u, b)
    PROVE  /\ UNCHANGED <<batch, item, created, uploaded, retries, queue, worker>>
           /\ handler[h].pc = "idle" /\ Exists(b) /\ MayRetry(b)
           /\ SlotsIn(b, "FAILED") # {}
           /\ \A g \in Handlers : g # h => handler'[g] = handler[g]
           /\ handler'[h].pc = "reset" /\ handler'[h].batch = b
           /\ handler'[h].seen = Cardinality(SlotsIn(b, "FAILED"))
  <1>1. handler \in [Handlers -> HandlerState]
    BY DEF TypeOK
  <1>. DEFINE n == Cardinality(SlotsIn(b, "FAILED"))
  <1>2. handler' = [handler EXCEPT ![h] =
            [IdleHandler EXCEPT !.pc = "reset", !.user = u, !.batch = b, !.seen = n]]
    BY DEF Retry
  <1>. HIDE DEF n
  <1>3. /\ \A g \in Handlers : g # h => handler'[g] = handler[g]
        /\ handler'[h].pc = "reset" /\ handler'[h].batch = b /\ handler'[h].seen = n
    BY <1>1, <1>2 DEF IdleHandler
  <1>. QED
    BY <1>3 DEF Retry, n

LEMMA ResetEffect ==
    ASSUME TypeOK, Shape, NEW h \in Handlers, Reset(h)
    PROVE  /\ UNCHANGED <<created, uploaded, queue, worker>>
           /\ handler[h].pc = "reset" /\ handler[h].batch \in Batches
           /\ \A c \in Batches : c # handler[h].batch =>
                batch'[c] = batch[c] /\ item'[c] = item[c]
           /\ batch'[handler[h].batch] = Uncount(batch[handler[h].batch], handler[h].seen)
           /\ batch'[handler[h].batch].status = "PROCESSING"
           /\ batch'[handler[h].batch].completed = batch[handler[h].batch].completed
           /\ batch'[handler[h].batch].failed
                = batch[handler[h].batch].failed - handler[h].seen
           /\ \A s \in Slots : item'[handler[h].batch][s] =
                IF item[handler[h].batch][s] = "FAILED" THEN "PENDING"
                                                        ELSE item[handler[h].batch][s]
           /\ \A g \in Handlers : g # h => handler'[g] = handler[g]
           /\ handler'[h].pc = "enqueue" /\ handler'[h].batch = handler[h].batch
  <1>1. PICK b \in Batches : b = handler[h].batch
    BY DEF Reset, Shape
  <1>2. batch \in [Batches -> BatchRow] /\ item \in [Batches -> [Slots -> SlotState]]
        /\ handler \in [Handlers -> HandlerState]
    BY DEF TypeOK
  <1>3. batch' = [batch EXCEPT ![b] = Uncount(batch[b], handler[h].seen)]
        /\ item' = [item EXCEPT ![b] =
            [s \in Slots |-> IF s \in Retried(b) THEN "PENDING" ELSE item[b][s]]]
    BY <1>1 DEF Reset
  <1>4. \A s \in Slots : s \in Retried(b) <=> item[b][s] = "FAILED"
    BY DEF Retried, SlotsIn
  <1>5. \A s \in Slots :
            item'[b][s] = IF item[b][s] = "FAILED" THEN "PENDING" ELSE item[b][s]
    BY <1>2, <1>3, <1>4
  <1>6. batch'[b] = Uncount(batch[b], handler[h].seen)
        /\ \A c \in Batches : c # b => batch'[c] = batch[c] /\ item'[c] = item[c]
    BY <1>2, <1>3
  <1>7. LET row == Uncount(batch[b], handler[h].seen) IN
            /\ row.status = "PROCESSING" /\ row.completed = batch[b].completed
            /\ row.failed = batch[b].failed - handler[h].seen
    BY <1>2 DEF Uncount, BatchRow
  <1>8. /\ \A g \in Handlers : g # h => handler'[g] = handler[g]
        /\ handler'[h].pc = "enqueue" /\ handler'[h].batch = handler[h].batch
    BY <1>2 DEF Reset, Goto, HandlerState
  <1>. HIDE DEF Uncount
  <1>. QED
    BY <1>1, <1>5, <1>6, <1>7, <1>8 DEF Reset

----------------------------------------------------------------------------
(* A waiting photo has a job                                               *)

\* A request without a batch that stays so, and a queue that keeps its jobs,
\* announce as many jobs as before.
LEMMA ComingKept ==
    ASSUME NEW b, JobComing(b),
           \A i \in DOMAIN queue : \E j \in DOMAIN queue' : queue'[j] = queue[i],
           \A g \in Handlers : handler[g].pc \in {"presign", "enqueue"} =>
                                    handler'[g] = handler[g]
    PROVE  JobComing(b)'
  BY DEF JobComing

\* The worker between two photos, and before and after the last one.
LEMMA TreatmentKept ==
    ASSUME TypeOK, Shape, "ack" \notin Faults,
           \/ \E s \in Slots : Inspect(s) \/ InspectFails(s)
           \/ \E a \in Answers : MarkProcessing(a) \/ CreateItem(a)
           \/ ReadFinal \/ MarkFinal
    PROVE  /\ item' = item /\ queue' = queue /\ handler' = handler
           /\ \A c \in Batches, s \in Slots : worker.batch = c /\ s \in Unfinished
                    => worker'.batch = c /\ s \in Unfinished'
  <1>0. worker \in WorkerState /\ Answers = {"ok"}
    BY DEF TypeOK, Answers
  <1>1. item' = item /\ queue' = queue /\ handler' = handler
    BY DEF Inspect, InspectFails, MarkProcessing, CreateItem, ReadFinal, MarkFinal
  <1>2. ASSUME NEW t \in Slots, Inspect(t) \/ InspectFails(t)
        PROVE  worker'.batch = worker.batch /\ Unfinished \subseteq Unfinished'
    <2>1. PICK pc \in InTreatment :
            worker' = [worker EXCEPT !.todo = @ \ {t}, !.slot = t, !.pc = pc]
      BY <1>2 DEF Inspect, InspectFails, InTreatment
    <2>2. worker'.todo = worker.todo \ {t} /\ worker'.slot = t
          /\ worker'.batch = worker.batch /\ worker'.pc \in InTreatment
      BY <1>0, <2>1 DEF WorkerState
    <2>3. worker.pc \notin InTreatment
      BY <1>2 DEF Inspect, InspectFails, InTreatment
    <2>. QED
      BY <2>2, <2>3 DEF Unfinished
  <1>3. ASSUME NEW a \in Answers, MarkProcessing(a)
        PROVE  worker'.batch = worker.batch /\ Unfinished \subseteq Unfinished'
    BY <1>0, <1>3 DEF MarkProcessing, Unfinished, InTreatment, WorkerState
  <1>4. ASSUME NEW a \in Answers, CreateItem(a)
        PROVE  worker'.batch = worker.batch /\ Unfinished \subseteq Unfinished'
    BY <1>0, <1>4 DEF CreateItem, Unfinished, InTreatment, WorkerState
  <1>5. ASSUME ReadFinal \/ MarkFinal
        PROVE  Unfinished = {}
    BY <1>5 DEF ReadFinal, MarkFinal, Unfinished, Shape, InTreatment
  <1>. QED
    BY <1>1, <1>2, <1>3, <1>4, <1>5

\* A worker that has settled a photo goes on with the rest of its snapshot.
LEMMA SettledRest ==
    ASSUME TypeOK, Shape, "ack" \notin Faults,
           NEW a \in Answers, MarkCompleted(a) \/ MarkFailed(a)
    PROVE  /\ worker'.pc = "next" /\ worker'.batch = worker.batch
           /\ worker'.todo = worker.todo
           /\ Unfinished' = Unfinished \ {worker.slot}
  <1>1. a = "ok" /\ worker \in WorkerState
    BY DEF Answers, TypeOK
  <1>2. worker' = [worker EXCEPT !.pc = "next"]
    BY <1>1 DEF MarkCompleted, MarkFailed
  <1>3. worker'.pc = "next" /\ worker'.batch = worker.batch
        /\ worker'.todo = worker.todo
    BY <1>1, <1>2 DEF WorkerState
  <1>4. worker.pc \in InTreatment /\ worker.slot \notin worker.todo
    BY MarkEffect DEF InTreatment
  <1>. QED
    BY <1>3, <1>4 DEF Unfinished, InTreatment

\* A photo of a batch waits with a job to come, or is in the running one.
Served(b, s) == JobComing(b) \/ (worker.batch = b /\ s \in Unfinished)

LEMMA ServedInductive ==
    ASSUME TypeOK, Shape, SnapshotFresh, PendingServed, Faults \subseteq {"storage"},
           [Next]_vars
    PROVE  PendingServed'
  <1>. SUFFICES ASSUME NEW b \in Batches, NEW s \in Slots, item'[b][s] = "PENDING"
                PROVE  Served(b, s)'
    BY DEF PendingServed, Served, SlotsIn
  <1>0. item[b][s] = "PENDING" => Served(b, s)
    BY DEF PendingServed, Served, SlotsIn
  <1>a. "ack" \notin Faults /\ "db" \notin Faults /\ "crash" \notin Faults
    OBVIOUS
  <1>1. ASSUME item[b][s] = "PENDING", UNCHANGED <<queue, worker>>,
               \A g \in Handlers : handler[g].pc \in {"presign", "enqueue"} =>
                                        handler'[g] = handler[g]
        PROVE  Served(b, s)'
    BY <1>0, <1>1, ComingKept DEF Served, Unfinished
  <1>2. ASSUME NEW h \in Handlers, QuietStep(h)
        PROVE  Served(b, s)'
    BY <1>1, <1>2, QuietEffect DEF Early
  <1>3. ASSUME NEW h \in Handlers, NEW u \in Users, NEW c \in Batches, Retry(h, u, c)
        PROVE  Served(b, s)'
    BY <1>1, <1>3, RetryEffect
  <1>4. ASSUME NEW h \in Handlers, NEW c \in Batches, Insert(h, c)
        PROVE  Served(b, s)'
    <2>1. CASE b = c
      BY <1>4, <2>1, InsertEffect DEF Served, JobComing
    <2>2. CASE b # c
      BY <1>1, <1>4, <2>2, InsertEffect
    <2>. QED
      BY <2>1, <2>2
  <1>5. ASSUME NEW h \in Handlers, Reset(h)
        PROVE  Served(b, s)'
    <2>1. CASE b = handler[h].batch
      BY <1>5, <2>1, ResetEffect DEF Served, JobComing
    <2>2. CASE b # handler[h].batch
      BY <1>1, <1>5, <2>2, ResetEffect
    <2>. QED
      BY <2>1, <2>2
  <1>6. ASSUME NEW h \in Handlers, PresignAndEnqueue(h) \/ EnqueueRetry(h)
        PROVE  Served(b, s)'
    <2>1. queue \in Seq(Batches)
      BY DEF TypeOK
    <2>2. /\ \A i \in DOMAIN queue : i \in DOMAIN queue' /\ queue'[i] = queue[i]
          /\ \E i \in DOMAIN queue' : queue'[i] = handler[h].batch
      BY <1>6, <2>1, EnqueueEffect, AppendElements
    <2>3. \A g \in Handlers : g # h => handler'[g] = handler[g]
      BY <1>6, EnqueueEffect
    <2>4. JobComing(b) => JobComing(b)'
      BY <2>2, <2>3 DEF JobComing
    <2>5. item' = item /\ worker' = worker
      BY <1>6, EnqueueEffect
    <2>. QED
      BY <1>0, <2>4, <2>5 DEF Served, Unfinished
  <1>7. CASE TakeJob
    <2>1. queue \in Seq(Batches) /\ queue # <<>> /\ queue' = Tail(queue)
          /\ item' = item /\ handler' = handler /\ worker.pc = "idle"
      BY <1>7 DEF TypeOK, TakeJob
    <2>2. Unfinished = {}
      BY <2>1 DEF Shape, Unfinished, IdleWorker, InTreatment
    <2>3. JobComing(b)
      BY <1>0, <2>1, <2>2 DEF Served
    <2>4. worker'.pc = "start" /\ worker'.batch = Head(queue)
          /\ worker'.todo = SlotsIn(Head(queue), "PENDING")
      BY <1>7 DEF TakeJob, IdleWorker, Snapshot
    <2>5. CASE b = Head(queue)
      BY <2>1, <2>4, <2>5 DEF Served, Unfinished, SlotsIn
    <2>6. CASE b # Head(queue)
      <3>1. Head(queue) = queue[1]
            /\ \A i \in DOMAIN queue : i = 1 \/ \E j \in DOMAIN queue' : queue'[j] = queue[i]
        BY <2>1, TailElements
      <3>. QED
        BY <2>1, <2>3, <2>6, <3>1 DEF Served, JobComing
    <2>. QED
      BY <2>5, <2>6
  <1>8. ASSUME NEW a \in Answers, MarkCompleted(a) \/ MarkFailed(a)
        PROVE  Served(b, s)'
    <2>1. PICK outcome \in {"COMPLETED", "FAILED"} :
              item' = [item EXCEPT ![worker.batch][worker.slot] = outcome]
      BY <1>8, MarkEffect DEF MarkItem
    <2>2. worker.batch \in Batches /\ worker.slot \in Slots
          /\ queue' = queue /\ handler' = handler
      BY <1>8, MarkEffect
    <2>3. \A c \in Batches, t \in Slots :
              item'[c][t] = IF c = worker.batch /\ t = worker.slot THEN outcome
                                                                   ELSE item[c][t]
      BY <2>1, <2>2 DEF TypeOK
    <2>4. item[b][s] = "PENDING" /\ ~(b = worker.batch /\ s = worker.slot)
      BY <2>3
    <2>5. worker'.batch = worker.batch /\ Unfinished' = Unfinished \ {worker.slot}
      BY <1>a, <1>8, SettledRest
    <2>6. JobComing(b) => JobComing(b)'
      BY <2>2 DEF JobComing
    <2>. QED
      BY <1>0, <2>4, <2>5, <2>6 DEF Served
  <1>9. CASE \/ \E t \in Slots : Inspect(t) \/ InspectFails(t)
             \/ \E a \in Answers : MarkProcessing(a) \/ CreateItem(a)
             \/ ReadFinal \/ MarkFinal
    <2>1. item' = item /\ queue' = queue /\ handler' = handler
          /\ (worker.batch = b /\ s \in Unfinished
                => worker'.batch = b /\ s \in Unfinished')
      BY <1>a, <1>9, TreatmentKept
    <2>. QED
      BY <1>0, <2>1 DEF Served, JobComing
  <1>10. CASE UNCHANGED vars \/ \E c \in Batches, t \in Slots : Upload(c, t)
    <2>1. item' = item /\ UNCHANGED <<queue, worker, handler>>
      BY <1>10 DEF vars, Upload
    <2>. QED
      BY <1>1, <2>1
  <1>11. ~Failure \/ \E t \in Slots : InspectFails(t)
    BY <1>a DEF Failure, HandlerFails, WorkerCallFails, JobFails, Crash
  <1>. QED
    BY <1>2, <1>3, <1>4, <1>5, <1>6, <1>7, <1>8, <1>9, <1>10, <1>11
    DEF Next, Request, HandlerStep, QuietStep, WorkerStep

\* While nothing crashes and no database call fails, a waiting photo always
\* has a job queued, about to be queued or running that will treat it, for any
\* number of requests and of retries in flight: a reset in the middle of a
\* running job (resetItemsForRetry) is followed by an enqueue of its own.
THEOREM PendingServedCorrect == Spec => []PendingServed
  <1>1. Init => TypeOK /\ Shape /\ SnapshotFresh /\ PendingServed
    BY InitTyped, InitSnapshot DEF Init, PendingServed, SlotsIn
  <1>2. TypeOK /\ Shape /\ SnapshotFresh /\ PendingServed /\ [Next]_vars
            => (TypeOK /\ Shape /\ SnapshotFresh /\ PendingServed)'
    BY NextTyped, SnapshotInductive, ServedInductive DEF PendingServed
  <1>. QED
    BY <1>1, <1>2, PTL DEF Spec

----------------------------------------------------------------------------
(* One wardrobe Item per photo                                             *)

\* The photo whose Item exists though it is not marked yet.
AboutToMark(b, s) == worker.pc = "markCompleted" /\ worker.batch = b /\ worker.slot = s

\* A step of the ledger takes no registered photo away.
LEMMA RegisteredStays ==
    ASSUME TypeOK, [Ledger!LedgerNext]_item
    PROVE  \A b \in Batches, s \in Slots :
                item[b][s] = "COMPLETED" => item'[b][s] = "COMPLETED"
  <1>1. item \in [Batches -> [1..MaxBatch -> SlotState]]
    BY DEF TypeOK, Slots
  <1>2. ASSUME NEW c \in Batches, NEW n \in 1..MaxBatch, Ledger!Open(c, n)
        PROVE  \A b \in Batches, s \in 1..MaxBatch :
                    item[b][s] = "COMPLETED" => item'[b][s] = "COMPLETED"
    BY <1>1, <1>2 DEF Ledger!Open
  <1>3. ASSUME NEW c \in Batches, NEW t \in 1..MaxBatch,
               NEW outcome \in {"COMPLETED", "FAILED"}, Ledger!Settle(c, t, outcome)
        PROVE  \A b \in Batches, s \in 1..MaxBatch :
                    item[b][s] = "COMPLETED" => item'[b][s] = "COMPLETED"
    BY <1>1, <1>3 DEF Ledger!Settle
  <1>4. ASSUME NEW c \in Batches, Ledger!Reopen(c)
        PROVE  \A b \in Batches, s \in 1..MaxBatch :
                    item[b][s] = "COMPLETED" => item'[b][s] = "COMPLETED"
    BY <1>1, <1>4 DEF Ledger!Reopen
  <1>. QED
    BY <1>2, <1>3, <1>4 DEF Ledger!LedgerNext, Slots

\* Only the mark itself takes the worker away from a made Item.
LEMMA WaitsToMark ==
    ASSUME worker.pc = "markCompleted", Faults \subseteq {"storage"}, [Next]_vars
    PROVE  worker' = worker \/ \E a \in Answers : MarkCompleted(a)
  BY DEF Next, Request, PostBatch, Retry, HandlerStep, Replay, KeyIsNew, RejectActive,
         NoneActive, InsertRefused, Insert, PresignAndEnqueue, Reset, EnqueueRetry,
         WorkerStep, TakeJob, ReadFinal, MarkFinal, Inspect, MarkProcessing,
         CreateItem, MarkFailed, Upload, Failure, HandlerFails, InspectFails,
         WorkerCallFails, JobFails, Crash, vars

LEMMA PerPhotoInductive ==
    ASSUME TypeOK, Shape, SnapshotFresh, ItemPerPhoto, Faults \subseteq {"storage"},
           [Next]_vars
    PROVE  ItemPerPhoto'
  <1>. SUFFICES ASSUME NEW b \in Batches, NEW s \in Slots
                PROVE  created'[b][s] =
                         IF item'[b][s] = "COMPLETED" \/ AboutToMark(b, s)' THEN 1 ELSE 0
    BY DEF ItemPerPhoto, AboutToMark
  <1>0. created[b][s] = IF item[b][s] = "COMPLETED" \/ AboutToMark(b, s) THEN 1 ELSE 0
    BY DEF ItemPerPhoto, AboutToMark
  <1>a. "ack" \notin Faults /\ worker \in WorkerState
    BY DEF TypeOK
  <1>b. item[b][s] = "COMPLETED" => item'[b][s] = "COMPLETED"
    BY <1>a, LedgerStep, RegisteredStays
  <1>1. CASE ~\E a \in Answers : CreateItem(a) \/ MarkCompleted(a) \/ MarkFailed(a)
    <2>1. /\ created' = created
          /\ worker' = worker \/ worker'.pc # "markCompleted"
          /\ item'[b][s] = "COMPLETED" => item[b][s] = "COMPLETED"
      BY <1>1, NothingRegistered
    <2>2. worker.pc = "markCompleted" => worker' = worker
      BY <1>1, WaitsToMark
    <2>3. AboutToMark(b, s)' <=> AboutToMark(b, s)
      BY <2>1, <2>2 DEF AboutToMark
    <2>. QED
      BY <1>0, <1>b, <2>1, <2>3
  <1>2. ASSUME NEW a \in Answers, CreateItem(a)
        PROVE  created'[b][s] =
                 IF item'[b][s] = "COMPLETED" \/ AboutToMark(b, s)' THEN 1 ELSE 0
    <2>1. worker.pc = "createItem" /\ item' = item /\ a = "ok"
          /\ created' = [created EXCEPT ![worker.batch][worker.slot] = @ + 1]
          /\ worker' = [worker EXCEPT !.pc = "markCompleted"]
      BY <1>a, <1>2 DEF CreateItem, Answers
    <2>2. worker.batch \in Batches /\ worker.slot \in Slots
      BY <2>1 DEF Shape, InTreatment
    <2>3. worker'.pc = "markCompleted" /\ worker'.batch = worker.batch
          /\ worker'.slot = worker.slot
      BY <1>a, <2>1 DEF WorkerState
    <2>4. item[worker.batch][worker.slot] = "PENDING"
      BY <1>a, <2>1 DEF SnapshotFresh, Unfinished, InTreatment
    <2>5. CASE b = worker.batch /\ s = worker.slot
      <3>1. created[b][s] = 0
        BY <1>0, <2>1, <2>4, <2>5 DEF AboutToMark
      <3>2. created'[b][s] = created[b][s] + 1
        BY <2>1, <2>5 DEF TypeOK
      <3>. QED
        BY <2>3, <2>5, <3>1, <3>2 DEF AboutToMark
    <2>6. CASE ~(b = worker.batch /\ s = worker.slot)
      <3>1. created'[b][s] = created[b][s]
        BY <2>1, <2>6 DEF TypeOK
      <3>. QED
        BY <1>0, <2>1, <2>3, <2>6, <3>1 DEF AboutToMark
    <2>. QED
      BY <2>5, <2>6
  <1>3. ASSUME NEW a \in Answers, MarkCompleted(a) \/ MarkFailed(a)
        PROVE  created'[b][s] =
                 IF item'[b][s] = "COMPLETED" \/ AboutToMark(b, s)' THEN 1 ELSE 0
    <2>1. PICK outcome \in {"COMPLETED", "FAILED"} :
              /\ item' = [item EXCEPT ![worker.batch][worker.slot] = outcome]
              /\ outcome = "COMPLETED" <=> worker.pc = "markCompleted"
      BY <1>3, MarkEffect DEF MarkItem
    <2>2. worker.batch \in Batches /\ worker.slot \in Slots /\ created' = created
          /\ worker.pc \in InTreatment
      BY <1>3, MarkEffect DEF InTreatment
    <2>3. item'[b][s] = IF b = worker.batch /\ s = worker.slot THEN outcome
                                                               ELSE item[b][s]
      BY <2>1, <2>2 DEF TypeOK
    <2>4. worker'.pc = "next"
      BY <1>3, <1>a, SettledRest
    <2>5. item[worker.batch][worker.slot] = "PENDING"
      BY <1>a, <2>2 DEF SnapshotFresh, Unfinished
    <2>. QED
      BY <1>0, <2>1, <2>2, <2>3, <2>4, <2>5 DEF AboutToMark
  <1>. QED
    BY <1>1, <1>2, <1>3

\* While nothing crashes and no database call fails, repeated jobs and retries
\* make no duplicate: a photo has exactly one wardrobe Item once it is made and
\* none before, whatever the storage and the classifier do.
THEOREM ItemPerPhotoCorrect == Spec => []ItemPerPhoto
  <1>1. Init => TypeOK /\ Shape /\ SnapshotFresh /\ ItemPerPhoto
    BY InitTyped, InitSnapshot DEF Init, ItemPerPhoto, IdleWorker
  <1>2. TypeOK /\ Shape /\ SnapshotFresh /\ ItemPerPhoto /\ [Next]_vars
            => (TypeOK /\ Shape /\ SnapshotFresh /\ ItemPerPhoto)'
    BY NextTyped, SnapshotInductive, PerPhotoInductive DEF ItemPerPhoto
  <1>. QED
    BY <1>1, <1>2, PTL DEF Spec

----------------------------------------------------------------------------
(* At most one job per batch                                               *)

NoBatchYet == \A h \in Handlers : handler[h].pc \in Early => handler[h].batch = None

\* No two of the jobs queued, running and being prepared are of one batch.
JobsApart ==
    /\ \A i, j \in DOMAIN queue : queue[i] = queue[j] => i = j
    /\ \A g, h \in Handlers :
            handler[g].batch = handler[h].batch => g = h \/ handler[h].batch = None
    /\ \A h \in Handlers, i \in DOMAIN queue : queue[i] # handler[h].batch
    /\ worker.pc # "idle" => /\ \A i \in DOMAIN queue : queue[i] # worker.batch
                             /\ \A h \in Handlers : handler[h].batch # worker.batch

\* A batch with a job is active; a batch about to be reset is finished.
JobsActive ==
    /\ \A i \in DOMAIN queue : batch[queue[i]].status \in ActiveStatus
    /\ worker.pc # "idle" => batch[worker.batch].status \in ActiveStatus
    /\ \A h \in Handlers :
        /\ handler[h].pc \in {"presign", "enqueue"} =>
                batch[handler[h].batch].status \in ActiveStatus
        /\ handler[h].pc = "reset" => batch[handler[h].batch].status \in FinishedStatus

OneJob == NoBatchYet /\ JobsApart /\ JobsActive

\* A step of the running job, up to its end.
JobStep ==
    \/ ReadFinal \/ MarkFinal \/ WorkerCallFails \/ JobFails
    \/ \E s \in Slots : Inspect(s) \/ InspectFails(s)
    \/ \E a \in Answers : \/ MarkProcessing(a) \/ CreateItem(a)
                          \/ MarkCompleted(a) \/ MarkFailed(a)

LEMMA JobEffect ==
    ASSUME TypeOK, Shape, JobStep
    PROVE  /\ handler' = handler /\ queue' = queue
           /\ worker.pc # "idle" /\ worker.batch \in Batches
           /\ \/ worker' = IdleWorker
              \/ /\ worker'.pc # "idle" /\ worker'.batch = worker.batch
                 /\ batch'[worker.batch].status
                        \in {batch[worker.batch].status, "PROCESSING"}
           /\ \A c \in Batches : c # worker.batch =>
                batch'[c] = batch[c] /\ item'[c] = item[c]
  <1>. DEFINE Stays == worker'.pc # "idle" /\ worker'.batch = worker.batch
  <1>0. worker \in WorkerState /\ batch \in [Batches -> BatchRow]
    BY DEF TypeOK
  <1>1. handler' = handler /\ queue' = queue /\ worker.pc # "idle"
    BY DEF JobStep, ReadFinal, MarkFinal, WorkerCallFails, JobFails, Inspect,
           InspectFails, MarkProcessing, CreateItem, MarkCompleted, MarkFailed
  <1>2. worker.batch \in Batches
    BY <1>1 DEF Shape
  <1>3. ASSUME NEW pc, pc # "idle", worker' = [worker EXCEPT !.pc = pc]
        PROVE  Stays
    BY <1>0, <1>3 DEF WorkerState
  <1>4. ASSUME ReadFinal \/ \E s \in Slots : Inspect(s) \/ InspectFails(s)
        PROVE  Stays /\ batch' = batch /\ item' = item
    BY <1>0, <1>4 DEF ReadFinal, Inspect, InspectFails, WorkerState
  <1>5. ASSUME WorkerCallFails \/ JobFails \/ \E a \in Answers : CreateItem(a)
        PROVE  (Stays \/ worker' = IdleWorker) /\ batch' = batch /\ item' = item
    BY <1>3, <1>5 DEF WorkerCallFails, JobFails, CreateItem, Caught, EndJob
  <1>6. ASSUME MarkFinal
        PROVE  /\ worker' = IdleWorker /\ item' = item
               /\ \A c \in Batches : c # worker.batch => batch'[c] = batch[c]
    BY <1>0, <1>2, <1>6 DEF MarkFinal, EndJob
  <1>7. ASSUME NEW a \in Answers, MarkProcessing(a)
        PROVE  /\ Stays \/ worker' = IdleWorker
               /\ item' = item /\ batch'[worker.batch].status = "PROCESSING"
               /\ \A c \in Batches : c # worker.batch => batch'[c] = batch[c]
    BY <1>0, <1>2, <1>3, <1>7 DEF MarkProcessing, EndJob, BatchRow
  <1>8. ASSUME NEW a \in Answers, MarkCompleted(a) \/ MarkFailed(a)
        PROVE  /\ Stays \/ worker' = IdleWorker
               /\ batch'[worker.batch].status = batch[worker.batch].status
               /\ \A c \in Batches : c # worker.batch =>
                    batch'[c] = batch[c] /\ item'[c] = item[c]
    <2>1. Stays \/ worker' = IdleWorker
      BY <1>3, <1>8, MarkEffect
    <2>2. PICK outcome : MarkItem(worker.batch, worker.slot, outcome)
      BY <1>8, MarkEffect
    <2>3. Count(batch[worker.batch], outcome).status = batch[worker.batch].status
      BY <1>0, <1>2 DEF Count, BatchRow
    <2>4. item \in [Batches -> [Slots -> SlotState]]
      BY DEF TypeOK
    <2>. QED
      BY <1>0, <1>2, <2>1, <2>2, <2>3, <2>4 DEF MarkItem
  <1>. QED
    BY <1>1, <1>2, <1>4, <1>5, <1>6, <1>7, <1>8 DEF JobStep

LEMMA PcCases ==
    ASSUME TypeOK, NEW h \in Handlers
    PROVE  handler[h].pc \in Early \cup {"presign", "reset", "enqueue"}
  BY DEF TypeOK, HandlerState, HandlerPC, Early

\* A request that has no batch before and after its step, or drops it.
LEMMA OneJobQuiet ==
    ASSUME TypeOK, Shape, OneJob, NEW h \in Handlers,
           UNCHANGED <<batch, queue, worker>>,
           \A g \in Handlers : g # h => handler'[g] = handler[g],
           handler'[h].pc \in Early, handler'[h].batch = None
    PROVE  OneJob'
  <1>1. \A i \in DOMAIN queue : queue[i] \in Batches
    BY DEF TypeOK
  <1>2. worker.pc # "idle" => worker.batch \in Batches
    BY DEF Shape
  <1>3. None \notin Batches
    BY ConstantsAssumption
  <1>4. NoBatchYet'
    BY DEF OneJob, NoBatchYet
  <1>5. JobsApart'
    BY <1>1, <1>2, <1>3 DEF OneJob, JobsApart
  <1>6. JobsActive'
    BY DEF OneJob, JobsActive, Early
  <1>. QED
    BY <1>4, <1>5, <1>6 DEF OneJob

LEMMA OneJobInserted ==
    ASSUME TypeOK, Shape, OneJob, NEW h \in Handlers, NEW b \in Batches, Insert(h, b)
    PROVE  OneJob'
  <1>1. /\ queue' = queue /\ worker' = worker /\ ~Exists(b)
        /\ \A c \in Batches : c # b => batch'[c] = batch[c]
        /\ batch'[b].status = "PENDING"
        /\ \A g \in Handlers : g # h => handler'[g] = handler[g]
        /\ handler'[h].pc = "presign" /\ handler'[h].batch = b
    BY InsertEffect
  <1>2. \A i \in DOMAIN queue : queue[i] # b /\ queue[i] \in Batches
    BY <1>1 DEF Shape, TypeOK
  <1>3. worker.pc # "idle" => worker.batch # b /\ worker.batch \in Batches
    BY <1>1 DEF Shape
  <1>4. \A g \in Handlers : handler[g].batch # b
    BY <1>1, PcCases, ConstantsAssumption DEF Shape, OneJob, NoBatchYet
  <1>5. NoBatchYet'
    BY <1>1 DEF OneJob, NoBatchYet, Early
  <1>6. JobsApart'
    BY <1>1, <1>2, <1>3, <1>4 DEF OneJob, JobsApart
  <1>7. \A g \in Handlers : handler[g].pc \in {"presign", "enqueue", "reset"} =>
            handler[g].batch \in Batches
    BY DEF Shape
  <1>8. JobsActive'
    BY <1>1, <1>2, <1>3, <1>4, <1>7 DEF OneJob, JobsActive, ActiveStatus
  <1>. QED
    BY <1>5, <1>6, <1>8 DEF OneJob

LEMMA OneJobEnqueued ==
    ASSUME TypeOK, Shape, OneJob, NEW h \in Handlers,
           PresignAndEnqueue(h) \/ EnqueueRetry(h)
    PROVE  OneJob'
  <1>. DEFINE b == handler[h].batch
  <1>1. /\ batch' = batch /\ worker' = worker /\ b \in Batches
        /\ handler[h].pc \in {"presign", "enqueue"}
        /\ queue' = Append(queue, b)
        /\ \A g \in Handlers : g # h => handler'[g] = handler[g]
        /\ handler'[h] = IdleHandler
    BY EnqueueEffect
  <1>2. handler'[h].pc = "idle" /\ handler'[h].batch = None
    BY <1>1 DEF IdleHandler
  <1>3. queue \in Seq(Batches)
    BY DEF TypeOK
  <1>4. Len(queue') = Len(queue) + 1 /\ queue'[Len(queue) + 1] = b
        /\ (\A i \in 1..Len(queue) : queue'[i] = queue[i])
        /\ DOMAIN queue' = 1..Len(queue') /\ DOMAIN queue = 1..Len(queue)
        /\ Len(queue) \in Nat /\ \A i \in DOMAIN queue' : queue'[i] \in Batches
    BY <1>1, <1>3, AppendProperties, LenProperties
  <1>5. \A i \in DOMAIN queue : queue[i] # b
    BY DEF OneJob, JobsApart
  <1>6. \A g \in Handlers : g # h => handler[g].batch # b
    BY <1>1, ConstantsAssumption DEF OneJob, JobsApart
  <1>7. worker.pc # "idle" => worker.batch # b
    BY DEF OneJob, JobsApart
  <1>8. batch[b].status \in ActiveStatus
    BY <1>1 DEF OneJob, JobsActive
  <1>. HIDE DEF b
  <1>9. \A i \in DOMAIN queue' : \/ i = Len(queue) + 1 /\ queue'[i] = b
                                 \/ i \in DOMAIN queue /\ queue'[i] = queue[i]
    <2>1. \A i \in 1..(Len(queue) + 1) : i = Len(queue) + 1 \/ i \in 1..Len(queue)
      BY <1>4
    <2>. QED
      BY <1>4, <2>1
  <1>10. NoBatchYet'
    BY <1>1, <1>2 DEF OneJob, NoBatchYet
  <1>11. JobsApart'
    <2>1. \A i, j \in DOMAIN queue' : queue'[i] = queue'[j] => i = j
      BY <1>5, <1>9 DEF OneJob, JobsApart
    <2>2. \A f, g \in Handlers : handler'[f].batch = handler'[g].batch =>
                f = g \/ handler'[g].batch = None
      BY <1>1, <1>2 DEF OneJob, JobsApart
    <2>3. \A g \in Handlers, i \in DOMAIN queue' : queue'[i] # handler'[g].batch
      BY <1>1, <1>2, <1>4, <1>6, <1>9, ConstantsAssumption DEF OneJob, JobsApart
    <2>4. worker'.pc # "idle" => /\ \A i \in DOMAIN queue' : queue'[i] # worker'.batch
                                 /\ \A g \in Handlers : handler'[g].batch # worker'.batch
      BY <1>1, <1>2, <1>7, <1>9, ConstantsAssumption DEF OneJob, JobsApart, Shape
    <2>. QED
      BY <2>1, <2>2, <2>3, <2>4 DEF JobsApart
  <1>12. JobsActive'
    BY <1>1, <1>2, <1>8, <1>9 DEF OneJob, JobsActive
  <1>. QED
    BY <1>10, <1>11, <1>12 DEF OneJob

LEMMA OneJobRetry ==
    ASSUME TypeOK, Shape, OneJob, Discipline = "finished",
           NEW h \in Handlers, NEW u \in Users, NEW b \in Batches, Retry(h, u, b)
    PROVE  OneJob'
  <1>1. /\ UNCHANGED <<batch, queue, worker>>
        /\ handler[h].pc = "idle" /\ MayRetry(b)
        /\ \A g \in Handlers : g # h => handler'[g] = handler[g]
        /\ handler'[h].pc = "reset" /\ handler'[h].batch = b
    BY RetryEffect
  <1>2. /\ batch[b].status \in FinishedStatus
        /\ \A g \in Handlers : handler[g].pc \in {"reset", "enqueue"} => handler[g].batch # b
    BY <1>1 DEF MayRetry
  <1>3. \A st \in FinishedStatus : st \notin ActiveStatus
    BY DEF ActiveStatus, FinishedStatus
  <1>4. \A i \in DOMAIN queue : queue[i] # b
    BY <1>2, <1>3 DEF OneJob, JobsActive
  <1>5. worker.pc # "idle" => worker.batch # b
    BY <1>2, <1>3 DEF OneJob, JobsActive
  <1>6. \A g \in Handlers : handler[g].batch # b
    BY <1>2, <1>3, PcCases, ConstantsAssumption DEF OneJob, JobsActive, NoBatchYet
  <1>7. NoBatchYet'
    BY <1>1 DEF OneJob, NoBatchYet, Early
  <1>8. JobsApart'
    BY <1>1, <1>4, <1>5, <1>6 DEF OneJob, JobsApart
  <1>9. JobsActive'
    BY <1>1, <1>2 DEF OneJob, JobsActive
  <1>. QED
    BY <1>7, <1>8, <1>9 DEF OneJob

LEMMA OneJobReset ==
    ASSUME TypeOK, Shape, OneJob, NEW h \in Handlers, Reset(h)
    PROVE  OneJob'
  <1>1. PICK b \in Batches : b = handler[h].batch
    BY ResetEffect
  <1>2. /\ queue' = queue /\ worker' = worker /\ handler[h].pc = "reset"
        /\ \A c \in Batches : c # b => batch'[c] = batch[c]
        /\ batch'[b].status = "PROCESSING"
        /\ \A g \in Handlers : g # h => handler'[g] = handler[g]
        /\ handler'[h].pc = "enqueue" /\ handler'[h].batch = b
    BY <1>1, ResetEffect
  <1>3. \A g \in Handlers : handler'[g].batch = handler[g].batch
    BY <1>1, <1>2
  <1>4. NoBatchYet'
    BY <1>2 DEF OneJob, NoBatchYet, Early
  <1>5. JobsApart'
    BY <1>2, <1>3 DEF OneJob, JobsApart
  <1>6. \A c \in Batches : batch[c].status \in ActiveStatus =>
            batch'[c].status \in ActiveStatus
    BY <1>2 DEF ActiveStatus
  <1>7. \A i \in DOMAIN queue : queue[i] \in Batches
    BY DEF TypeOK
  <1>8. \A g \in Handlers : g # h /\ handler[g].pc = "reset" =>
            handler[g].batch # b /\ handler[g].batch \in Batches
    BY <1>1, ConstantsAssumption DEF OneJob, JobsApart, Shape
  <1>9. JobsActive'
    <2>1. \A i \in DOMAIN queue' : batch'[queue'[i]].status \in ActiveStatus
      BY <1>2, <1>6, <1>7 DEF OneJob, JobsActive
    <2>2. worker'.pc # "idle" => batch'[worker'.batch].status \in ActiveStatus
      BY <1>2, <1>6 DEF OneJob, JobsActive, Shape
    <2>3. \A g \in Handlers : g # h =>
            /\ handler'[g].pc \in {"presign", "enqueue"} =>
                    batch'[handler'[g].batch].status \in ActiveStatus
            /\ handler'[g].pc = "reset" => batch'[handler'[g].batch].status \in FinishedStatus
      BY <1>2, <1>6, <1>8 DEF OneJob, JobsActive, Shape
    <2>4. batch'[handler'[h].batch].status \in ActiveStatus
      BY <1>2 DEF ActiveStatus
    <2>. QED
      BY <1>2, <2>1, <2>2, <2>3, <2>4 DEF JobsActive
  <1>. QED
    BY <1>4, <1>5, <1>9 DEF OneJob

LEMMA OneJobTaken ==
    ASSUME TypeOK, Shape, OneJob, TakeJob
    PROVE  OneJob'
  <1>1. queue \in Seq(Batches) /\ queue # <<>> /\ queue' = Tail(queue)
        /\ batch' = batch /\ handler' = handler
        /\ worker'.pc = "start" /\ worker'.batch = Head(queue)
    BY DEF TypeOK, TakeJob, IdleWorker
  <1>2. /\ Head(queue) = queue[1] /\ 1 \in DOMAIN queue
        /\ \A i \in DOMAIN queue' : i + 1 \in DOMAIN queue /\ queue'[i] = queue[i + 1]
    BY <1>1, TailElements
  <1>3. DOMAIN queue' \subseteq Nat \ {0}
    <2>1. queue' \in Seq(Batches)
      BY <1>1, TailElements
    <2>. QED
      BY <2>1, LenProperties
  <1>4. NoBatchYet'
    BY <1>1 DEF OneJob, NoBatchYet
  <1>5. JobsApart'
    <2>1. \A i, j \in DOMAIN queue' : queue'[i] = queue'[j] => i = j
      <3>1. \A i, j \in DOMAIN queue' : queue'[i] = queue'[j] => i + 1 = j + 1
        BY <1>2 DEF OneJob, JobsApart
      <3>2. \A i, j \in Nat : i + 1 = j + 1 => i = j
        OBVIOUS
      <3>. QED
        BY <1>3, <3>1, <3>2
    <2>2. \A i \in DOMAIN queue' : queue'[i] # queue[1]
      <3>1. \A i \in DOMAIN queue' : i + 1 # 1
        BY <1>3
      <3>. QED
        BY <1>2, <3>1 DEF OneJob, JobsApart
    <2>. QED
      BY <1>1, <1>2, <2>1, <2>2 DEF OneJob, JobsApart
  <1>6. JobsActive'
    BY <1>1, <1>2 DEF OneJob, JobsActive
  <1>. QED
    BY <1>4, <1>5, <1>6 DEF OneJob

LEMMA OneJobRun ==
    ASSUME TypeOK, Shape, OneJob, JobStep
    PROVE  OneJob'
  <1>1. /\ handler' = handler /\ queue' = queue
        /\ worker.pc # "idle" /\ worker.batch \in Batches
        /\ \/ worker' = IdleWorker
           \/ /\ worker'.pc # "idle" /\ worker'.batch = worker.batch
              /\ batch'[worker.batch].status \in {batch[worker.batch].status, "PROCESSING"}
        /\ \A c \in Batches : c # worker.batch => batch'[c] = batch[c]
    BY JobEffect
  <1>2. /\ \A i \in DOMAIN queue : queue[i] # worker.batch /\ queue[i] \in Batches
        /\ \A h \in Handlers : handler[h].batch # worker.batch
    BY <1>1 DEF OneJob, JobsApart, TypeOK
  <1>3. NoBatchYet'
    BY <1>1 DEF OneJob, NoBatchYet
  <1>4. JobsApart'
    BY <1>1, <1>2 DEF OneJob, JobsApart, IdleWorker
  <1>5. \A h \in Handlers : handler[h].pc \in {"presign", "enqueue", "reset"} =>
            batch'[handler[h].batch] = batch[handler[h].batch]
    BY <1>1, <1>2 DEF Shape
  <1>6. JobsActive'
    BY <1>1, <1>2, <1>5 DEF OneJob, JobsActive, ActiveStatus, IdleWorker
  <1>. QED
    BY <1>3, <1>4, <1>6 DEF OneJob

LEMMA OneJobInductive ==
    ASSUME TypeOK, Shape, OneJob, Discipline = "finished", [Next]_vars
    PROVE  OneJob'
  <1>1. ASSUME NEW h \in Handlers, QuietStep(h)
        PROVE  OneJob'
    <2>1. handler'[h].batch = None
      BY <1>1, QuietEffect DEF OneJob, NoBatchYet
    <2>. QED
      BY <1>1, <2>1, QuietEffect, OneJobQuiet
  <1>2. ASSUME NEW h \in Handlers, HandlerFails(h)
        PROVE  OneJob'
    <2>1. /\ UNCHANGED <<batch, queue, worker>>
          /\ \A g \in Handlers : g # h => handler'[g] = handler[g]
          /\ handler'[h].pc \in Early /\ handler'[h].batch = None
      BY <1>2 DEF HandlerFails, Respond, TypeOK, IdleHandler, Early
    <2>. QED
      BY <2>1, OneJobQuiet
  <1>3. CASE UNCHANGED vars \/ \E b \in Batches, s \in Slots : Upload(b, s)
    <2>1. UNCHANGED <<batch, queue, worker, handler>>
      BY <1>3 DEF vars, Upload
    <2>. QED
      BY <2>1 DEF OneJob, NoBatchYet, JobsApart, JobsActive
  <1>4. CASE Crash
    <2>1. /\ queue' = <<>> /\ worker'.pc = "idle"
          /\ \A h \in Handlers : handler'[h].pc = "idle" /\ handler'[h].batch = None
      BY <1>4 DEF Crash, IdleWorker, IdleHandler
    <2>2. DOMAIN queue' = {}
      BY <2>1
    <2>. QED
      BY <2>1, <2>2 DEF OneJob, NoBatchYet, JobsApart, JobsActive
  <1>. QED
    BY <1>1, <1>2, <1>3, <1>4, OneJobInserted, OneJobEnqueued, OneJobRetry,
       OneJobReset, OneJobTaken, OneJobRun
    DEF Next, Request, HandlerStep, QuietStep, WorkerStep, Failure, JobStep

LEMMA InitOneJob == Init => OneJob
  <1>. SUFFICES ASSUME Init PROVE OneJob
    OBVIOUS
  <1>1. /\ DOMAIN queue = {} /\ worker.pc = "idle"
        /\ \A h \in Handlers : handler[h].pc = "idle" /\ handler[h].batch = None
    BY DEF Init, IdleWorker, IdleHandler
  <1>. QED
    BY <1>1 DEF OneJob, NoBatchYet, JobsApart, JobsActive

\* A set whose members are all the same has at most one.
LEMMA AtMostOne ==
    ASSUME NEW S, \A x, y \in S : x = y
    PROVE  Cardinality(S) = IF S = {} THEN 0 ELSE 1
  <1>1. CASE S = {}
    BY <1>1, FS_EmptySet
  <1>2. ASSUME NEW x \in S
        PROVE  Cardinality(S) = 1
    <2>1. S = {x}
      OBVIOUS
    <2>. QED
      BY <2>1, FS_Singleton
  <1>. QED
    BY <1>1, <1>2

LEMMA OneJobCounts ==
    ASSUME TypeOK, Shape, OneJob, Discipline = "finished"
    PROVE  OneJobPerBatch
  <1>. SUFFICES ASSUME NEW b \in Batches
                PROVE  /\ JobsOf(b) <= 1
                       /\ batch[b].status \in FinishedStatus =>
                            \A h \in Handlers : handler[h].batch = b =>
                                handler[h].pc = "reset"
    BY DEF OneJobPerBatch
  <1>. DEFINE Q == {i \in DOMAIN queue : queue[i] = b}
              H == {h \in Handlers : handler[h].batch = b}
              W == worker.batch = b
  <1>0. b # None
    BY ConstantsAssumption
  <1>1. \A i, j \in Q : i = j
    BY DEF OneJob, JobsApart
  <1>2. \A g, h \in H : g = h
    BY <1>0 DEF OneJob, JobsApart
  <1>3. Q = {} \/ H = {}
    BY DEF OneJob, JobsApart
  <1>4. W => Q = {} /\ H = {}
    <2>1. W => worker.pc # "idle"
      BY <1>0 DEF Shape, IdleWorker
    <2>. QED
      BY <2>1 DEF OneJob, JobsApart
  <1>5. Cardinality(Q) = (IF Q = {} THEN 0 ELSE 1)
        /\ Cardinality(H) = (IF H = {} THEN 0 ELSE 1)
    BY <1>1, <1>2, AtMostOne
  <1>6. JobsOf(b) = Cardinality(Q) + Cardinality(H) + (IF W THEN 1 ELSE 0)
    BY DEF JobsOf
  <1>7. ASSUME batch[b].status \in FinishedStatus, NEW h \in Handlers,
               handler[h].batch = b
        PROVE  handler[h].pc = "reset"
    BY <1>0, <1>7, PcCases
    DEF OneJob, NoBatchYet, JobsActive, ActiveStatus, FinishedStatus
  <1>. HIDE DEF Q, H, W
  <1>8. JobsOf(b) <= 1
    BY <1>3, <1>4, <1>5, <1>6
  <1>. QED
    BY <1>7, <1>8

\* If clients retry only what they saw finished, a batch has at most one job
\* queued, running or being prepared (enqueue, process), whatever crashes, fails
\* or loses its reply.
THEOREM OneJobPerBatchCorrect == Spec => []OneJobPerBatch
  <1>. DEFINE Inv == TypeOK /\ Shape /\ (Discipline = "finished" => OneJob)
  <1>1. Init => Inv
    BY InitTyped, InitOneJob
  <1>2. Inv /\ [Next]_vars => Inv'
    BY NextTyped, OneJobInductive
  <1>3. Inv => OneJobPerBatch
    BY OneJobCounts DEF OneJobPerBatch
  <1>. QED
    BY <1>1, <1>2, <1>3, PTL DEF Spec

============================================================================
