-------------------------- MODULE ItemBatchProofs --------------------------
(***************************************************************************)
(* Proofs about ItemBatch, for every set of users, keys, batches and       *)
(* requests, every batch size and every retry discipline.                  *)
(***************************************************************************)
EXTENDS ItemBatch, FiniteSetTheorems, SequenceTheorems, TLAPS

----------------------------------------------------------------------------
(* Type correctness                                                        *)

\* A batch's slots are a finite set, and so is every set of them.
LEMMA SlotsFinite ==
    ASSUME NEW S \in SUBSET Slots
    PROVE  IsFiniteSet(S) /\ Cardinality(S) \in Nat
  <1>1. IsFiniteSet(1..MaxBatch)
    BY ConstantsAssumption, FS_Interval
  <1>2. IsFiniteSet(S)
    BY <1>1, FS_Subset DEF Slots
  <1>. QED
    BY <1>2, FS_CardinalityType

\* The jobs of a queue after an enqueue.
LEMMA AppendElements ==
    ASSUME NEW S, NEW q \in Seq(S), NEW e \in S, NEW r, r = Append(q, e)
    PROVE  /\ r \in Seq(S)
           /\ \A i \in DOMAIN r : r[i] = e \/ (i \in DOMAIN q /\ r[i] = q[i])
           /\ \A i \in DOMAIN q : i \in DOMAIN r /\ r[i] = q[i]
           /\ \E i \in DOMAIN r : r[i] = e
  <1>1. /\ r \in Seq(S) /\ Len(r) = Len(q) + 1 /\ r[Len(q) + 1] = e
        /\ \A i \in 1..Len(q) : r[i] = q[i]
    BY AppendProperties
  <1>2. DOMAIN r = 1..Len(r) /\ DOMAIN q = 1..Len(q) /\ Len(q) \in Nat
    BY <1>1, LenProperties
  <1>. QED
    BY <1>1, <1>2

\* The jobs of a queue after one is taken.
LEMMA TailElements ==
    ASSUME NEW S, NEW q \in Seq(S), q # <<>>
    PROVE  /\ Head(q) \in S /\ Tail(q) \in Seq(S)
           /\ Head(q) = q[1] /\ 1 \in DOMAIN q
           /\ \A i \in DOMAIN Tail(q) : i + 1 \in DOMAIN q /\ Tail(q)[i] = q[i + 1]
           /\ \A i \in DOMAIN q : i = 1 \/ (i - 1 \in DOMAIN Tail(q)
                                           /\ Tail(q)[i - 1] = q[i])
  <1>1. /\ Head(q) \in S /\ Tail(q) \in Seq(S) /\ Len(Tail(q)) = Len(q) - 1
        /\ \A i \in 1..Len(Tail(q)) : Tail(q)[i] = q[i + 1]
    BY HeadTailProperties
  <1>2. DOMAIN Tail(q) = 1..Len(Tail(q)) /\ DOMAIN q = 1..Len(q)
        /\ Len(q) \in Nat /\ Len(q) # 0
    BY <1>1, LenProperties, EmptySeq
  <1>3. Head(q) = q[1]
    OBVIOUS
  <1>4. \A i \in DOMAIN q : i = 1 \/ (i - 1 \in 1..Len(Tail(q)) /\ (i - 1) + 1 = i)
    BY <1>1, <1>2
  <1>. QED
    BY <1>1, <1>2, <1>3, <1>4

LEMMA IdleTyped ==
    /\ IdleHandler \in HandlerState
    /\ IdleWorker \in WorkerState
    /\ NoRow \in BatchRow
  <1>1. MaxBatch \in Nat
    BY ConstantsAssumption
  <1>2. IdleHandler \in HandlerState
    BY <1>1 DEF IdleHandler, HandlerState, HandlerPC
  <1>3. IdleWorker \in WorkerState
    BY <1>1 DEF IdleWorker, WorkerState, WorkerPC
  <1>4. NoRow \in BatchRow
    BY <1>1 DEF NoRow, BatchRow
  <1>. QED
    BY <1>2, <1>3, <1>4

LEMMA InitTyped == Init => TypeOK /\ Shape
  BY IdleTyped
  DEF Init, TypeOK, Shape, NoRow, IdleWorker, IdleHandler, SlotState,
      InTreatment, Exists

\* A request that ends, or goes on to its next program counter, stays typed.
LEMMA RespondTyped ==
    ASSUME TypeOK, NEW h \in Handlers, Respond(h)
    PROVE  handler' \in [Handlers -> HandlerState]
  BY IdleTyped DEF TypeOK, Respond

LEMMA GotoTyped ==
    ASSUME TypeOK, NEW h \in Handlers, NEW pc \in HandlerPC, Goto(h, pc)
    PROVE  handler' \in [Handlers -> HandlerState]
  <1>1. [handler[h] EXCEPT !.pc = pc] \in HandlerState
    BY DEF TypeOK, HandlerState
  <1>. QED
    BY <1>1 DEF TypeOK, Goto

\* What a step of one handler leaves alone, and what Shape asks of the rest.
LEMMA HandlerShape ==
    ASSUME TypeOK, Shape, NEW h \in Handlers, NEW r,
           handler' = [handler EXCEPT ![h] = r],
           UNCHANGED <<batch, item, queue, worker>>,
           r.pc = "idle" => r.batch = None,
           r.pc \in {"presign", "reset", "enqueue"} =>
                r.batch \in Batches /\ Exists(r.batch),
           r.pc \in {"findKey", "findActive", "insert"} => r.count \in Slots
    PROVE  Shape'
  BY DEF TypeOK, Shape, Exists, InTreatment

LEMMA RespondShape ==
    ASSUME TypeOK, Shape, NEW h \in Handlers, Respond(h),
           UNCHANGED <<batch, item, queue, worker>>
    PROVE  Shape'
  BY HandlerShape DEF Respond, IdleHandler

LEMMA ReadStepsTyped ==
    ASSUME TypeOK, Shape, NEW h \in Handlers,
           \/ Replay(h) \/ KeyIsNew(h) \/ RejectActive(h)
           \/ NoneActive(h) \/ InsertRefused(h) \/ HandlerFails(h)
    PROVE  TypeOK' /\ Shape'
  <1>0. UNCHANGED <<batch, item, created, uploaded, retries, queue, worker>>
    BY DEF Replay, KeyIsNew, RejectActive, NoneActive, InsertRefused, HandlerFails
  <1>1. CASE Respond(h)
    BY <1>0, <1>1, RespondTyped, RespondShape DEF TypeOK
  <1>2. ASSUME NEW pc \in {"findActive", "insert"}, Goto(h, pc),
               handler[h].pc \in {"findKey", "findActive"}
        PROVE  TypeOK' /\ Shape'
    <2>1. pc \in HandlerPC
      BY <1>2 DEF HandlerPC
    <2>2. TypeOK'
      BY <1>0, <1>2, <2>1, GotoTyped DEF TypeOK
    <2>3. handler[h] \in HandlerState /\ handler[h].count \in Slots
      BY <1>2 DEF TypeOK, Shape
    <2>4. [handler[h] EXCEPT !.pc = pc].count \in Slots
          /\ [handler[h] EXCEPT !.pc = pc].pc = pc
      BY <2>3 DEF HandlerState
    <2>5. handler' = [handler EXCEPT ![h] = [handler[h] EXCEPT !.pc = pc]]
      BY <1>2 DEF Goto
    <2>6. Shape'
      BY <1>0, <1>2, <2>4, <2>5, HandlerShape
    <2>. QED
      BY <2>2, <2>6
  <1>. QED
    BY <1>1, <1>2 DEF Replay, KeyIsNew, RejectActive, NoneActive, InsertRefused,
       HandlerFails

LEMMA PostBatchTyped ==
    ASSUME TypeOK, Shape, NEW h \in Handlers, NEW u \in Users,
           NEW k \in Keys \cup {None}, NEW n \in 1..MaxBatch, PostBatch(h, u, k, n)
    PROVE  TypeOK' /\ Shape'
  <1>. DEFINE pc == IF k # None THEN "findKey" ELSE "findActive"
              r == [IdleHandler EXCEPT !.pc = pc, !.user = u, !.key = k, !.count = n]
  <1>1. handler' = [handler EXCEPT ![h] = r]
    BY DEF PostBatch
  <1>2. pc \in {"findKey", "findActive"} /\ MaxBatch \in Nat
    BY ConstantsAssumption
  <1>. HIDE DEF pc
  <1>7. pc \in HandlerPC /\ n \in 0..MaxBatch
    BY <1>2 DEF HandlerPC
  <1>5. r \in HandlerState
    BY <1>7, IdleTyped DEF HandlerState
  <1>6. r.pc = pc /\ r.count \in Slots
    BY DEF IdleHandler, Slots
  <1>3. TypeOK'
    BY <1>1, <1>5 DEF TypeOK, PostBatch
  <1>. HIDE DEF r
  <1>4. Shape'
    BY <1>1, <1>2, <1>6, HandlerShape DEF PostBatch
  <1>. QED
    BY <1>3, <1>4

LEMMA InsertTyped ==
    ASSUME TypeOK, Shape, NEW h \in Handlers, NEW b \in Batches, Insert(h, b)
    PROVE  TypeOK' /\ Shape'
  <1>0. handler[h] \in HandlerState /\ handler[h].count \in 1..MaxBatch
    BY DEF TypeOK, Shape, Insert, Slots
  <1>. DEFINE row == [status |-> "PENDING", user |-> handler[h].user,
                      key |-> handler[h].key, total |-> handler[h].count,
                      completed |-> 0, failed |-> 0]
              r == [handler[h] EXCEPT !.pc = "presign", !.batch = b]
  <1>1. row \in BatchRow
    BY <1>0, ConstantsAssumption
    DEF BatchRow, BatchStatus, ActiveStatus, HandlerState
  <1>2. batch' = [batch EXCEPT ![b] = row] /\ handler' = [handler EXCEPT ![h] = r]
    BY DEF TypeOK, Insert
  <1>3. r \in HandlerState /\ r.pc = "presign" /\ r.batch = b
    BY <1>0 DEF HandlerState, HandlerPC
  <1>4. item' \in [Batches -> [Slots -> SlotState]]
    BY DEF TypeOK, Insert, SlotState
  <1>5. TypeOK'
    BY <1>1, <1>2, <1>3, <1>4 DEF TypeOK, Insert
  <1>6. \A c \in Batches : batch'[c].status # "ABSENT" <=> Exists(c) \/ c = b
    BY <1>2 DEF TypeOK, Exists
  <1>7. \A i \in DOMAIN queue : queue[i] \in Batches
    BY DEF TypeOK
  <1>8. \A c \in Batches : c # b => item'[c] = item[c]
    BY DEF TypeOK, Insert
  <1>9. \A g \in Handlers : handler'[g] = IF g = h THEN r ELSE handler[g]
    BY <1>2 DEF TypeOK
  <1>10. worker' = worker /\ queue' = queue
    BY DEF Insert
  <1>. HIDE DEF r, row
  <1>11. \A g \in Handlers :
            /\ handler'[g].pc = "idle" => handler'[g].batch = None
            /\ handler'[g].pc \in {"presign", "reset", "enqueue"} =>
                  handler'[g].batch \in Batches /\ batch'[handler'[g].batch].status # "ABSENT"
            /\ handler'[g].pc \in {"findKey", "findActive", "insert"} =>
                  handler'[g].count \in Slots
    BY <1>3, <1>6, <1>9 DEF Shape
  <1>12. \A i \in DOMAIN queue : batch'[queue[i]].status # "ABSENT"
    BY <1>6, <1>7 DEF Shape
  <1>13. worker.pc # "idle" => worker.batch \in Batches /\ batch'[worker.batch].status # "ABSENT"
    BY <1>6 DEF Shape
  <1>14. \A c \in Batches : batch'[c].status = "ABSENT" => \A s \in Slots : item'[c][s] = "NONE"
    BY <1>6, <1>8 DEF Shape
  <1>15. Shape'
    BY <1>10, <1>11, <1>12, <1>13, <1>14 DEF Shape, Exists
  <1>. QED
    BY <1>5, <1>15

LEMMA EnqueueStepsTyped ==
    ASSUME TypeOK, Shape, NEW h \in Handlers,
           PresignAndEnqueue(h) \/ EnqueueRetry(h)
    PROVE  TypeOK' /\ Shape'
  <1>. DEFINE b == handler[h].batch
  <1>1. b \in Batches /\ Exists(b) /\ queue \in Seq(Batches)
    BY DEF TypeOK, Shape, PresignAndEnqueue, EnqueueRetry
  <1>2. queue' = Append(queue, b) /\ Respond(h)
        /\ UNCHANGED <<batch, item, created, uploaded, retries, worker>>
    BY DEF PresignAndEnqueue, EnqueueRetry, Enqueue
  <1>. HIDE DEF b
  <1>3. queue' \in Seq(Batches)
    BY <1>1, <1>2
  <1>4. TypeOK'
    BY <1>2, <1>3, RespondTyped DEF TypeOK
  <1>5. \A i \in DOMAIN queue' :
            queue'[i] = b \/ (i \in DOMAIN queue /\ queue'[i] = queue[i])
    BY <1>1, <1>2, AppendElements
  <1>6. \A g \in Handlers : handler'[g] = handler[g] \/ handler'[g] = IdleHandler
    BY <1>2 DEF TypeOK, Respond
  <1>7. Shape'
    BY <1>1, <1>2, <1>5, <1>6 DEF Shape, Exists, IdleHandler
  <1>. QED
    BY <1>4, <1>7

LEMMA RetryTyped ==
    ASSUME TypeOK, Shape, NEW h \in Handlers, NEW u \in Users, NEW b \in Batches,
           Retry(h, u, b)
    PROVE  TypeOK' /\ Shape'
  <1>. DEFINE n == Cardinality(SlotsIn(b, "FAILED"))
              r == [IdleHandler EXCEPT !.pc = "reset", !.user = u, !.batch = b,
                                       !.seen = n]
  <1>1. n \in Nat
    BY SlotsFinite DEF SlotsIn
  <1>2. handler' = [handler EXCEPT ![h] = r] /\ Exists(b)
    BY DEF Retry
  <1>. HIDE DEF n
  <1>3. r \in HandlerState
    BY <1>1, IdleTyped DEF HandlerState, HandlerPC
  <1>4. r.pc = "reset" /\ r.batch = b
    BY DEF IdleHandler
  <1>. HIDE DEF r
  <1>5. TypeOK'
    BY <1>2, <1>3 DEF TypeOK, Retry
  <1>6. Shape'
    BY <1>2, <1>4, HandlerShape DEF Retry
  <1>. QED
    BY <1>5, <1>6

\* Writing to one existing row, with a status or counter change only.
LEMMA RowTyped ==
    ASSUME TypeOK, NEW b \in Batches, NEW row \in BatchRow,
           batch' = [batch EXCEPT ![b] = row]
    PROVE  batch' \in [Batches -> BatchRow]
  BY DEF TypeOK

LEMMA ResetTyped ==
    ASSUME TypeOK, Shape, NEW h \in Handlers, Reset(h)
    PROVE  TypeOK' /\ Shape'
  <1>. DEFINE b == handler[h].batch
              row == Uncount(batch[b], handler[h].seen)
  <1>1. b \in Batches /\ Exists(b) /\ handler[h].seen \in Nat /\ batch[b] \in BatchRow
    BY DEF TypeOK, Shape, Reset, HandlerState
  <1>2. row \in BatchRow /\ row.status = "PROCESSING"
    <2>1. batch[b].failed - handler[h].seen \in Int
      BY <1>1 DEF BatchRow
    <2>2. row = [batch[b] EXCEPT !.status = "PROCESSING",
                                 !.failed = batch[b].failed - handler[h].seen]
      BY DEF Uncount
    <2>. QED
      BY <1>1, <2>1, <2>2 DEF BatchRow, BatchStatus, ActiveStatus
  <1>3. batch' = [batch EXCEPT ![b] = row] /\ Goto(h, "enqueue")
        /\ UNCHANGED <<created, uploaded, queue, worker>>
    BY DEF Reset
  <1>4. item' \in [Batches -> [Slots -> SlotState]]
        /\ \A c \in Batches : c # b => item'[c] = item[c]
    BY <1>1 DEF TypeOK, Reset, SlotState
  <1>5. retries' \in [Batches -> Nat]
    <2>1. retries[b] + 1 \in Nat
      BY <1>1 DEF TypeOK
    <2>2. retries' = [retries EXCEPT ![b] = retries[b] + 1]
      BY DEF Reset
    <2>. QED
      BY <2>1, <2>2 DEF TypeOK
  <1>6. handler' \in [Handlers -> HandlerState]
    BY <1>3, GotoTyped DEF HandlerPC
  <1>7. handler[h].pc = "reset"
    BY DEF Reset
  <1>. HIDE DEF b, row
  <1>8. TypeOK'
    BY <1>1, <1>2, <1>3, <1>4, <1>5, <1>6, RowTyped DEF TypeOK
  <1>9. \A c \in Batches : batch'[c].status # "ABSENT" <=> Exists(c)
    BY <1>1, <1>2, <1>3 DEF TypeOK, Exists
  <1>10. \A g \in Handlers : g # h => handler'[g] = handler[g]
    BY <1>3 DEF TypeOK, Goto
  <1>11. handler'[h].pc = "enqueue" /\ handler'[h].batch = handler[h].batch
    BY <1>3 DEF TypeOK, Goto, HandlerState
  <1>12. \A g \in Handlers :
            /\ handler'[g].pc = "idle" => handler'[g].batch = None
            /\ handler'[g].pc \in {"presign", "reset", "enqueue"} =>
                  handler'[g].batch \in Batches
                  /\ batch'[handler'[g].batch].status # "ABSENT"
            /\ handler'[g].pc \in {"findKey", "findActive", "insert"} =>
                  handler'[g].count \in Slots
    BY <1>7, <1>9, <1>10, <1>11 DEF Shape
  <1>13. \A i \in DOMAIN queue : batch'[queue[i]].status # "ABSENT"
    BY <1>9 DEF TypeOK, Shape
  <1>14. Shape'
    BY <1>1, <1>3, <1>4, <1>9, <1>12, <1>13 DEF Shape, Exists
  <1>. QED
    BY <1>8, <1>14

----------------------------------------------------------------------------
(* The worker's steps                                                      *)

LEMMA TakeJobTyped ==
    ASSUME TypeOK, Shape, TakeJob
    PROVE  TypeOK' /\ Shape'
  <1>. DEFINE b == Head(queue)
              w == [IdleWorker EXCEPT !.pc = "start", !.batch = b,
                                      !.todo = Snapshot(b)]
  <1>1. queue \in Seq(Batches) /\ queue # <<>>
    BY DEF TypeOK, TakeJob
  <1>2. b \in Batches /\ Exists(b)
    BY <1>1, TailElements DEF Shape
  <1>3. queue' = Tail(queue) /\ queue' \in Seq(Batches)
    BY <1>1, TailElements DEF TakeJob
  <1>4. worker' = w
    BY DEF TakeJob
  <1>5. Snapshot(b) \in SUBSET Slots
    BY DEF Snapshot, SlotsIn
  <1>. HIDE DEF b
  <1>6. w \in WorkerState
    BY <1>2, <1>5, IdleTyped DEF WorkerState, WorkerPC
  <1>7. w.pc = "start" /\ w.batch = b
    BY DEF IdleWorker
  <1>. HIDE DEF w
  <1>8. TypeOK'
    BY <1>3, <1>4, <1>6 DEF TypeOK, TakeJob
  <1>9. \A i \in DOMAIN queue' : Exists(queue'[i])
    BY <1>1, <1>3, TailElements DEF Shape
  <1>10. Shape'
    BY <1>2, <1>4, <1>7, <1>9 DEF Shape, TakeJob, Exists, InTreatment
  <1>. QED
    BY <1>8, <1>10

\* What Shape asks of a step that changes the worker alone.
LEMMA WorkerShape ==
    ASSUME TypeOK, Shape, NEW w \in WorkerState, worker' = w,
           UNCHANGED <<batch, item, queue, handler>>,
           \/ w = IdleWorker
           \/ /\ w.pc # "idle" /\ w.batch = worker.batch /\ worker.pc # "idle"
              /\ w.pc \in InTreatment => w.slot \in Slots /\ w.slot \notin w.todo
              /\ w.pc = "finish" => w.verdict \in BatchStatus /\ w.todo = {}
    PROVE  Shape'
  BY DEF Shape, Exists, InTreatment, IdleWorker

LEMMA InspectTyped ==
    ASSUME TypeOK, Shape, NEW s \in Slots, Inspect(s) \/ InspectFails(s)
    PROVE  TypeOK' /\ Shape'
  <1>1. PICK pc \in {"createItem", "markMissing", "markFailed"} :
            worker' = [worker EXCEPT !.todo = @ \ {s}, !.slot = s, !.pc = pc]
    BY DEF Inspect, InspectFails
  <1>. DEFINE w == [worker EXCEPT !.todo = @ \ {s}, !.slot = s, !.pc = pc]
  <1>2. worker \in WorkerState /\ worker.pc = "next"
    BY DEF TypeOK, Inspect, InspectFails
  <1>3. pc \in WorkerPC /\ s \in 0..MaxBatch /\ worker.todo \ {s} \in SUBSET Slots
    BY <1>2, ConstantsAssumption DEF WorkerPC, Slots, WorkerState
  <1>4. w \in WorkerState
    BY <1>2, <1>3 DEF WorkerState
  <1>5. w.pc = pc /\ w.slot = s /\ w.todo = worker.todo \ {s} /\ w.batch = worker.batch
    BY <1>2 DEF WorkerState
  <1>6. worker' = w /\ UNCHANGED <<batch, item, created, uploaded, retries, queue, handler>>
    BY <1>1 DEF Inspect, InspectFails
  <1>. HIDE DEF w
  <1>7. TypeOK'
    BY <1>4, <1>6 DEF TypeOK
  <1>8. Shape'
    BY <1>1, <1>2, <1>4, <1>5, <1>6, WorkerShape
  <1>. QED
    BY <1>7, <1>8

\* The worker after an exception that is caught, or that ends the job.
LEMMA CaughtTyped ==
    ASSUME TypeOK, Caught \/ EndJob
    PROVE  worker' \in WorkerState
  <1>1. worker \in WorkerState /\ "markFailed" \in WorkerPC
    BY DEF TypeOK, WorkerPC
  <1>2. [worker EXCEPT !.pc = "markFailed"] \in WorkerState
    BY <1>1 DEF WorkerState
  <1>. QED
    BY <1>2, IdleTyped DEF Caught, EndJob

LEMMA WorkerOnlyTyped ==
    ASSUME TypeOK, Shape, ReadFinal \/ WorkerCallFails \/ JobFails
    PROVE  TypeOK' /\ Shape'
  <1>0. worker \in WorkerState
        /\ UNCHANGED <<batch, item, created, uploaded, retries, queue, handler>>
    BY DEF TypeOK, ReadFinal, WorkerCallFails, JobFails
  <1>1. CASE ReadFinal
    <2>. DEFINE v == Verdict(batch[worker.batch])
                w == [worker EXCEPT !.pc = "finish", !.verdict = v]
    <2>1. v \in BatchStatus
      BY DEF Verdict, BatchStatus, ActiveStatus, FinishedStatus
    <2>2. worker' = w /\ worker.pc = "next" /\ worker.todo = {}
      BY <1>1 DEF ReadFinal
    <2>. HIDE DEF v
    <2>3. w \in WorkerState
      BY <1>0, <2>1 DEF WorkerState, WorkerPC
    <2>4. w.pc = "finish" /\ w.verdict = v /\ w.batch = worker.batch
          /\ w.todo = worker.todo
      BY <1>0 DEF WorkerState
    <2>. HIDE DEF w
    <2>5. Shape'
      BY <1>0, <2>1, <2>2, <2>3, <2>4, WorkerShape DEF InTreatment
    <2>. QED
      BY <1>0, <2>2, <2>3, <2>5 DEF TypeOK
  <1>2. CASE WorkerCallFails
    <2>. DEFINE w == [worker EXCEPT !.pc = "markFailed"]
    <2>1. worker' = w /\ worker.pc \in InTreatment
      BY <1>2 DEF WorkerCallFails, Caught, InTreatment
    <2>2. w \in WorkerState
      BY <1>2, <2>1, CaughtTyped DEF WorkerCallFails
    <2>3. w.pc = "markFailed" /\ w.batch = worker.batch
          /\ w.slot = worker.slot /\ w.todo = worker.todo
      BY <1>0 DEF WorkerState
    <2>. HIDE DEF w
    <2>4. w.slot \in Slots /\ w.slot \notin w.todo /\ worker.pc # "idle"
      BY <2>1, <2>3 DEF Shape, InTreatment
    <2>5. Shape'
      BY <1>0, <2>1, <2>2, <2>3, <2>4, WorkerShape
    <2>. QED
      BY <1>0, <2>1, <2>2, <2>5 DEF TypeOK
  <1>3. CASE JobFails
    BY <1>0, <1>3, IdleTyped, WorkerShape DEF JobFails, EndJob, TypeOK
  <1>. QED
    BY <1>1, <1>2, <1>3

\* What Shape asks of a step that writes to the row or a photo of the batch of
\* the running job.
LEMMA WorkerWriteShape ==
    ASSUME TypeOK, Shape, worker.pc # "idle",
           NEW w \in WorkerState, worker' = w,
           NEW row \in BatchRow, row.status # "ABSENT",
           batch' = [batch EXCEPT ![worker.batch] = row],
           \A c \in Batches : c # worker.batch => item'[c] = item[c],
           UNCHANGED <<queue, handler>>,
           \/ w = IdleWorker
           \/ /\ w.pc # "idle" /\ w.batch = worker.batch
              /\ w.pc \in InTreatment => w.slot \in Slots /\ w.slot \notin w.todo
              /\ w.pc = "finish" => w.verdict \in BatchStatus /\ w.todo = {}
    PROVE  Shape'
  <1>1. worker.batch \in Batches /\ Exists(worker.batch)
    BY DEF Shape
  <1>2. \A c \in Batches : batch'[c].status # "ABSENT" <=> Exists(c)
    BY <1>1 DEF TypeOK, Exists
  <1>3. \A i \in DOMAIN queue : batch'[queue[i]].status # "ABSENT"
    BY <1>2 DEF TypeOK, Shape
  <1>4. \A g \in Handlers :
            /\ handler[g].pc = "idle" => handler[g].batch = None
            /\ handler[g].pc \in {"presign", "reset", "enqueue"} =>
                  handler[g].batch \in Batches
                  /\ batch'[handler[g].batch].status # "ABSENT"
            /\ handler[g].pc \in {"findKey", "findActive", "insert"} =>
                  handler[g].count \in Slots
    BY <1>2 DEF Shape
  <1>5. \A c \in Batches :
            batch'[c].status = "ABSENT" => \A s \in Slots : item'[c][s] = "NONE"
    BY <1>1, <1>2 DEF Shape
  <1>6. /\ w.pc = "idle" => w = IdleWorker
        /\ w.pc # "idle" => w.batch \in Batches /\ batch'[w.batch].status # "ABSENT"
        /\ w.pc \in InTreatment => w.slot \in Slots /\ w.slot \notin w.todo
        /\ w.pc = "finish" => w.verdict \in BatchStatus /\ w.todo = {}
    BY <1>1, <1>2 DEF IdleWorker, InTreatment
  <1>. QED
    BY <1>3, <1>4, <1>5, <1>6 DEF Shape, Exists, InTreatment

\* The worker goes back to the loop, or an exception reaches it.
LEMMA ContinueTyped ==
    ASSUME TypeOK, Shape, NEW pc \in {"next", "markCompleted", "markFailed"},
           worker' = [worker EXCEPT !.pc = pc],
           pc # "next" => worker.pc \in InTreatment
    PROVE  /\ worker' \in WorkerState
           /\ worker'.pc = pc /\ worker'.batch = worker.batch
           /\ worker'.slot = worker.slot /\ worker'.todo = worker.todo
           /\ worker'.pc \in InTreatment =>
                worker'.slot \in Slots /\ worker'.slot \notin worker'.todo
  <1>1. worker \in WorkerState /\ pc \in WorkerPC
    BY DEF TypeOK, WorkerPC
  <1>. DEFINE w == [worker EXCEPT !.pc = pc]
  <1>2. w \in WorkerState /\ w.pc = pc /\ w.batch = worker.batch
        /\ w.slot = worker.slot /\ w.todo = worker.todo
    BY <1>1 DEF WorkerState
  <1>. HIDE DEF w
  <1>3. worker' = w
    BY DEF w
  <1>4. pc \in InTreatment => worker.slot \in Slots /\ worker.slot \notin worker.todo
    BY DEF Shape, InTreatment
  <1>. QED
    BY <1>2, <1>3, <1>4

LEMMA StatusTyped ==
    ASSUME TypeOK, Shape,
           MarkFinal \/ \E a \in Answers : MarkProcessing(a)
    PROVE  TypeOK' /\ Shape'
  <1>. DEFINE st == IF worker.pc = "start" THEN "PROCESSING" ELSE worker.verdict
              row == [batch[worker.batch] EXCEPT !.status = st]
  <1>1. worker.pc \in {"start", "finish"}
        /\ UNCHANGED <<item, created, uploaded, retries, queue, handler>>
        /\ (EndJob \/ worker' = [worker EXCEPT !.pc = "next"])
    BY DEF MarkFinal, MarkProcessing
  <1>2. worker.batch \in Batches /\ Exists(worker.batch) /\ st \in BatchStatus
    BY <1>1 DEF Shape, BatchStatus, ActiveStatus
  <1>3. batch' = [batch EXCEPT ![worker.batch] = row]
    BY DEF MarkFinal, MarkProcessing
  <1>4. batch[worker.batch] \in BatchRow
    BY <1>2 DEF TypeOK
  <1>. HIDE DEF st
  <1>5. row \in BatchRow /\ row.status = st
    BY <1>2, <1>4 DEF BatchRow
  <1>6. st # "ABSENT"
    BY <1>2 DEF BatchStatus, ActiveStatus, FinishedStatus
  <1>. HIDE DEF row
  <1>7. worker' \in WorkerState
    BY <1>1, IdleTyped, ContinueTyped DEF EndJob
  <1>8. \/ worker' = IdleWorker
        \/ worker'.pc = "next" /\ worker'.batch = worker.batch
    BY <1>1, ContinueTyped DEF EndJob
  <1>9. TypeOK'
    BY <1>1, <1>2, <1>3, <1>5, <1>7, RowTyped DEF TypeOK
  <1>10. Shape'
    <2>. DEFINE w == worker'
    <2>1. w = IdleWorker \/ (w.pc = "next" /\ w.batch = worker.batch)
      BY <1>8
    <2>2. w \in WorkerState
      BY <1>7
    <2>3. worker' = w
      OBVIOUS
    <2>. HIDE DEF w
    <2>. QED
      BY <1>1, <1>3, <1>5, <1>6, <2>1, <2>2, <2>3, WorkerWriteShape DEF InTreatment
  <1>. QED
    BY <1>9, <1>10

LEMMA CreateItemTyped ==
    ASSUME TypeOK, Shape, NEW a \in Answers, CreateItem(a)
    PROVE  TypeOK' /\ Shape'
  <1>1. worker.pc = "createItem"
        /\ UNCHANGED <<batch, item, uploaded, retries, queue, handler>>
    BY DEF CreateItem
  <1>2. PICK pc \in {"markCompleted", "markFailed"} :
            worker' = [worker EXCEPT !.pc = pc]
    BY DEF CreateItem, Caught
  <1>3. /\ worker' \in WorkerState
        /\ worker'.pc = pc /\ worker'.batch = worker.batch
        /\ worker'.slot \in Slots /\ worker'.slot \notin worker'.todo
    BY <1>1, <1>2, ContinueTyped DEF InTreatment
  <1>4. worker.batch \in Batches /\ worker.slot \in Slots
    BY <1>1 DEF Shape, InTreatment
  <1>5. created[worker.batch][worker.slot] + 1 \in Nat
    BY <1>4 DEF TypeOK
  <1>6. created' \in [Batches -> [Slots -> Nat]]
    <2>1. created' = [created EXCEPT ![worker.batch] =
              [created[worker.batch] EXCEPT ![worker.slot] =
                    created[worker.batch][worker.slot] + 1]]
      BY DEF CreateItem
    <2>2. created \in [Batches -> [Slots -> Nat]]
      BY DEF TypeOK
    <2>. QED
      BY <1>4, <1>5, <2>1, <2>2
  <1>7. TypeOK'
    BY <1>1, <1>3, <1>6 DEF TypeOK
  <1>8. Shape'
    <2>. DEFINE w == worker'
    <2>1. w \in WorkerState /\ w.pc = pc /\ w.batch = worker.batch
          /\ w.slot \in Slots /\ w.slot \notin w.todo
      BY <1>3
    <2>2. worker' = w
      OBVIOUS
    <2>. HIDE DEF w
    <2>. QED
      BY <1>1, <1>2, <2>1, <2>2, WorkerShape
  <1>. QED
    BY <1>7, <1>8

\* What a step that settles a photo does.
LEMMA MarkEffect ==
    ASSUME TypeOK, Shape, NEW a \in Answers, MarkCompleted(a) \/ MarkFailed(a)
    PROVE  /\ worker.pc \in {"markCompleted", "markMissing", "markFailed"}
           /\ worker.batch \in Batches /\ Exists(worker.batch)
           /\ worker.slot \in Slots /\ worker.slot \notin worker.todo
           /\ \E outcome \in {"COMPLETED", "FAILED"} :
                /\ MarkItem(worker.batch, worker.slot, outcome)
                /\ outcome = "COMPLETED" <=> worker.pc = "markCompleted"
           /\ UNCHANGED <<created, uploaded, retries, queue, handler>>
           /\ \/ worker' = IdleWorker
              \/ \E pc \in {"next", "markFailed"} : worker' = [worker EXCEPT !.pc = pc]
  <1>1. worker.pc \in {"markCompleted", "markMissing", "markFailed"}
    BY DEF MarkCompleted, MarkFailed
  <1>2. worker.batch \in Batches /\ Exists(worker.batch)
        /\ worker.slot \in Slots /\ worker.slot \notin worker.todo
    BY <1>1 DEF Shape, InTreatment
  <1>3. CASE MarkCompleted(a)
    BY <1>1, <1>2, <1>3 DEF MarkCompleted, Caught
  <1>4. CASE MarkFailed(a)
    BY <1>1, <1>2, <1>4 DEF MarkFailed, Caught, EndJob
  <1>. QED
    BY <1>3, <1>4

LEMMA MarkTyped ==
    ASSUME TypeOK, Shape, NEW a \in Answers, MarkCompleted(a) \/ MarkFailed(a)
    PROVE  TypeOK' /\ Shape'
  <1>. DEFINE b == worker.batch
              s == worker.slot
  <1>1. worker.pc \in InTreatment /\ b \in Batches /\ s \in Slots
        /\ UNCHANGED <<created, uploaded, retries, queue, handler>>
    BY MarkEffect DEF InTreatment
  <1>2. PICK outcome \in {"COMPLETED", "FAILED"} : MarkItem(b, s, outcome)
    BY MarkEffect
  <1>. DEFINE row == Count(batch[b], outcome)
  <1>3. item' = [item EXCEPT ![b][s] = outcome] /\ batch' = [batch EXCEPT ![b] = row]
    BY <1>2 DEF MarkItem
  <1>4. batch[b] \in BatchRow /\ batch[b].status # "ABSENT"
    BY <1>1 DEF TypeOK, Shape, Exists, InTreatment
  <1>5. row \in BatchRow /\ row.status = batch[b].status
    <2>1. batch[b].completed + 1 \in Nat /\ batch[b].failed + 1 \in Int
      BY <1>4 DEF BatchRow
    <2>2. \/ row = [batch[b] EXCEPT !.completed = batch[b].completed + 1]
          \/ row = [batch[b] EXCEPT !.failed = batch[b].failed + 1]
      BY DEF Count
    <2>. QED
      BY <1>4, <2>1, <2>2 DEF BatchRow
  <1>. HIDE DEF row
  <1>6. item' \in [Batches -> [Slots -> SlotState]]
        /\ \A c \in Batches : c # b => item'[c] = item[c]
    BY <1>1, <1>3 DEF TypeOK, SlotState
  <1>. DEFINE w == worker'
  <1>7. \/ w = IdleWorker
        \/ /\ w \in WorkerState /\ w.pc \in {"next", "markFailed"}
           /\ w.batch = b
           /\ w.pc \in InTreatment => w.slot \in Slots /\ w.slot \notin w.todo
    <2>1. CASE worker' = IdleWorker
      BY <2>1
    <2>2. ASSUME NEW pc \in {"next", "markFailed"}, worker' = [worker EXCEPT !.pc = pc]
          PROVE  /\ w \in WorkerState /\ w.pc \in {"next", "markFailed"}
                 /\ w.batch = b
                 /\ w.pc \in InTreatment => w.slot \in Slots /\ w.slot \notin w.todo
      BY <1>1, <2>2, ContinueTyped
    <2>. QED
      BY <2>1, <2>2, MarkEffect
  <1>8. w \in WorkerState /\ worker' = w
    BY <1>7, IdleTyped
  <1>9. TypeOK'
    BY <1>1, <1>3, <1>5, <1>6, <1>8, RowTyped DEF TypeOK
  <1>10. worker.pc # "idle"
    BY <1>1 DEF InTreatment
  <1>. HIDE DEF w
  <1>11. Shape'
    BY <1>1, <1>3, <1>4, <1>5, <1>6, <1>7, <1>8, <1>10, WorkerWriteShape
  <1>. QED
    BY <1>9, <1>11

LEMMA UploadTyped ==
    ASSUME TypeOK, Shape, NEW b \in Batches, NEW s \in Slots, Upload(b, s)
    PROVE  TypeOK' /\ Shape'
  <1>1. UNCHANGED <<batch, item, created, retries, queue, worker, handler>>
        /\ uploaded' = uploaded \cup {<<b, s>>}
    BY DEF Upload
  <1>2. TypeOK'
    BY <1>1 DEF TypeOK
  <1>3. Shape'
    BY <1>1 DEF Shape, Exists, InTreatment
  <1>. QED
    BY <1>2, <1>3

LEMMA CrashTyped ==
    ASSUME TypeOK, Shape, Crash
    PROVE  TypeOK' /\ Shape'
  <1>1. UNCHANGED <<batch, item, created, uploaded, retries>> /\ queue' = <<>>
        /\ worker' = IdleWorker /\ handler' = [h \in Handlers |-> IdleHandler]
    BY DEF Crash
  <1>2. TypeOK'
    BY <1>1, IdleTyped DEF TypeOK
  <1>3. Shape'
    BY <1>1 DEF Shape, Exists, IdleWorker, IdleHandler, InTreatment
  <1>. QED
    BY <1>2, <1>3

\* The inductive step: every action of the API, of its worker and of the
\* world around it.
LEMMA NextTyped ==
    ASSUME TypeOK, Shape, [Next]_vars
    PROVE  TypeOK' /\ Shape'
  <1>1. ASSUME NEW h \in Handlers, Request(h)
        PROVE  TypeOK' /\ Shape'
    BY <1>1, PostBatchTyped, RetryTyped DEF Request
  <1>2. ASSUME NEW h \in Handlers, HandlerStep(h)
        PROVE  TypeOK' /\ Shape'
    BY <1>2, ReadStepsTyped, InsertTyped, EnqueueStepsTyped, ResetTyped
    DEF HandlerStep
  <1>3. CASE WorkerStep
    BY <1>3, TakeJobTyped, WorkerOnlyTyped, StatusTyped, InspectTyped,
       CreateItemTyped, MarkTyped
    DEF WorkerStep
  <1>4. ASSUME NEW b \in Batches, NEW s \in Slots, Upload(b, s)
        PROVE  TypeOK' /\ Shape'
    BY <1>4, UploadTyped
  <1>5. CASE Failure
    BY <1>5, ReadStepsTyped, InspectTyped, WorkerOnlyTyped, CrashTyped DEF Failure
  <1>6. CASE UNCHANGED vars
    <2>1. TypeOK'
      BY <1>6 DEF vars, TypeOK
    <2>2. Shape'
      BY <1>6 DEF vars, Shape, Exists, InTreatment
    <2>. QED
      BY <2>1, <2>2
  <1>. QED
    BY <1>1, <1>2, <1>3, <1>4, <1>5, <1>6 DEF Next

\* Every reachable state of the registration API is well typed, and its
\* program counters agree with its other fields.
THEOREM TypeCorrect == Spec => [](TypeOK /\ Shape)
  <1>1. Init => TypeOK /\ Shape
    BY InitTyped
  <1>2. TypeOK /\ Shape /\ [Next]_vars => (TypeOK /\ Shape)'
    BY NextTyped
  <1>. QED
    BY <1>1, <1>2, PTL DEF Spec

----------------------------------------------------------------------------
(* The job's snapshot                                                      *)

\* No step of a request touches a waiting photo of an existing batch, nor
\* the worker.
LEMMA RequestsKeepPending ==
    ASSUME TypeOK, Shape, NEW h \in Handlers,
           Request(h) \/ HandlerStep(h) \/ HandlerFails(h)
    PROVE  /\ worker' = worker
           /\ \A c \in Batches, s \in Slots :
                Exists(c) /\ item[c][s] = "PENDING" => item'[c][s] = "PENDING"
  <1>1. CASE item' = item /\ worker' = worker
    BY <1>1
  <1>2. ASSUME NEW b \in Batches, Insert(h, b)
        PROVE  /\ worker' = worker
               /\ \A c \in Batches, s \in Slots :
                    Exists(c) /\ item[c][s] = "PENDING" => item'[c][s] = "PENDING"
    BY <1>2 DEF Insert, TypeOK
  <1>3. CASE Reset(h)
    <2>1. handler[h].batch \in Batches
      BY <1>3 DEF Reset, Shape
    <2>. QED
      BY <1>3, <2>1 DEF Reset, Retried, SlotsIn, TypeOK
  <1>. QED
    BY <1>1, <1>2, <1>3
    DEF Request, HandlerStep, PostBatch, Retry, Replay, KeyIsNew, RejectActive,
        NoneActive, InsertRefused, PresignAndEnqueue, EnqueueRetry, HandlerFails

\* A step of the worker that leaves the photos alone leaves none to treat
\* that it had not, unless it takes a job.
LEMMA WorkerKeepsUnfinished ==
    ASSUME TypeOK, Shape,
           \/ \E s \in Slots : Inspect(s) \/ InspectFails(s)
           \/ \E a \in Answers : MarkProcessing(a) \/ CreateItem(a)
           \/ ReadFinal \/ MarkFinal \/ WorkerCallFails \/ JobFails \/ Crash
    PROVE  /\ item' = item
           /\ Unfinished' \subseteq Unfinished
           /\ Unfinished' # {} => worker'.batch = worker.batch
  <1>0. worker \in WorkerState
    BY DEF TypeOK
  <1>1. ASSUME NEW s \in Slots, Inspect(s) \/ InspectFails(s)
        PROVE  /\ item' = item /\ worker'.batch = worker.batch
               /\ Unfinished' \subseteq Unfinished
    <2>1. PICK pc \in InTreatment :
            worker' = [worker EXCEPT !.todo = @ \ {s}, !.slot = s, !.pc = pc]
      BY <1>1 DEF Inspect, InspectFails, InTreatment
    <2>2. s \in worker.todo /\ item' = item
      BY <1>1 DEF Inspect, InspectFails
    <2>3. worker'.todo = worker.todo \ {s} /\ worker'.slot = s
          /\ worker'.batch = worker.batch
      BY <1>0, <2>1 DEF WorkerState
    <2>. QED
      BY <2>2, <2>3 DEF Unfinished
  <1>2. CASE worker' = IdleWorker /\ item' = item
    BY <1>2 DEF Unfinished, IdleWorker, InTreatment
  <1>3. ASSUME NEW pc, worker' = [worker EXCEPT !.pc = pc], item' = item,
               pc \in InTreatment => worker.pc \in InTreatment
        PROVE  /\ item' = item /\ worker'.batch = worker.batch
               /\ Unfinished' \subseteq Unfinished
    <2>1. worker'.pc = pc /\ worker'.todo = worker.todo
          /\ worker'.slot = worker.slot /\ worker'.batch = worker.batch
      BY <1>0, <1>3 DEF WorkerState
    <2>. QED
      BY <1>3, <2>1 DEF Unfinished
  <1>4. CASE ReadFinal
    BY <1>0, <1>4 DEF ReadFinal, Unfinished, InTreatment, WorkerState
  <1>5. ASSUME NEW a \in Answers, MarkProcessing(a)
        PROVE  \/ worker' = IdleWorker /\ item' = item
               \/ worker' = [worker EXCEPT !.pc = "next"] /\ item' = item
    BY <1>5 DEF MarkProcessing, EndJob
  <1>6. ASSUME NEW a \in Answers, CreateItem(a)
        PROVE  \E pc \in InTreatment : worker' = [worker EXCEPT !.pc = pc]
                    /\ item' = item /\ worker.pc \in InTreatment
    BY <1>6 DEF CreateItem, Caught, InTreatment
  <1>7. CASE WorkerCallFails
    <2>1. worker' = [worker EXCEPT !.pc = "markFailed"] /\ item' = item
          /\ worker.pc \in InTreatment
      BY <1>7 DEF WorkerCallFails, Caught, InTreatment
    <2>. QED
      BY <2>1, <1>3
  <1>8. CASE MarkFinal \/ JobFails \/ Crash
    BY <1>2, <1>8 DEF MarkFinal, JobFails, Crash, EndJob
  <1>9. "next" \notin InTreatment
    BY DEF InTreatment
  <1>. QED
    BY <1>1, <1>2, <1>3, <1>4, <1>5, <1>6, <1>7, <1>8, <1>9

LEMMA SnapshotInductive ==
    ASSUME TypeOK, Shape, SnapshotFresh, [Next]_vars
    PROVE  SnapshotFresh'
  <1>. SUFFICES ASSUME "ack" \notin Faults
                PROVE  \A s \in Unfinished' : item'[worker'.batch][s] = "PENDING"
    BY DEF SnapshotFresh
  <1>0. /\ \A s \in Unfinished : item[worker.batch][s] = "PENDING"
        /\ Unfinished \subseteq Slots
        /\ Unfinished # {} => worker.batch \in Batches /\ Exists(worker.batch)
    <2>1. worker \in WorkerState
      BY DEF TypeOK
    <2>2. Unfinished \subseteq Slots
      BY <2>1 DEF Shape, Unfinished, WorkerState
    <2>3. Unfinished # {} => worker.pc # "idle"
      BY DEF Shape, Unfinished, IdleWorker, InTreatment
    <2>. QED
      BY <2>2, <2>3 DEF SnapshotFresh, Shape
  <1>1. ASSUME NEW h \in Handlers, Request(h) \/ HandlerStep(h) \/ HandlerFails(h)
        PROVE  \A s \in Unfinished' : item'[worker'.batch][s] = "PENDING"
    <2>1. worker' = worker /\ Unfinished' = Unfinished
      BY <1>1, RequestsKeepPending DEF Unfinished
    <2>. QED
      BY <1>0, <1>1, <2>1, RequestsKeepPending
  <1>2. CASE TakeJob
    BY <1>2 DEF TakeJob, Unfinished, IdleWorker, InTreatment, Snapshot, SlotsIn
  <1>3. ASSUME NEW a \in Answers, MarkCompleted(a) \/ MarkFailed(a)
        PROVE  \A s \in Unfinished' : item'[worker'.batch][s] = "PENDING"
    <2>1. a = "ok"
      BY <1>3 DEF Answers
    <2>2. worker' = [worker EXCEPT !.pc = "next"] /\ worker \in WorkerState
      BY <1>3, <2>1 DEF MarkCompleted, MarkFailed, TypeOK
    <2>3. Unfinished' = worker.todo /\ worker'.batch = worker.batch
      BY <2>2 DEF Unfinished, InTreatment, WorkerState
    <2>4. worker.slot \notin worker.todo /\ worker.batch \in Batches
          /\ worker.todo \subseteq Unfinished
      BY <1>3, MarkEffect DEF Unfinished
    <2>5. PICK outcome : item' = [item EXCEPT ![worker.batch][worker.slot] = outcome]
      BY <1>3, MarkEffect DEF MarkItem
    <2>6. \A s \in Slots : s # worker.slot =>
                item'[worker.batch][s] = item[worker.batch][s]
      BY <2>4, <2>5 DEF TypeOK
    <2>. QED
      BY <1>0, <2>3, <2>4, <2>6
  <1>4. CASE \/ \E s \in Slots : Inspect(s) \/ InspectFails(s)
             \/ \E a \in Answers : MarkProcessing(a) \/ CreateItem(a)
             \/ ReadFinal \/ MarkFinal \/ WorkerCallFails \/ JobFails \/ Crash
    BY <1>0, <1>4, WorkerKeepsUnfinished
  <1>5. ASSUME NEW b \in Batches, NEW s \in Slots, Upload(b, s)
        PROVE  \A t \in Unfinished' : item'[worker'.batch][t] = "PENDING"
    BY <1>0, <1>5 DEF Upload, Unfinished
  <1>6. CASE UNCHANGED vars
    BY <1>0, <1>6 DEF vars, Unfinished
  <1>. QED
    BY <1>1, <1>2, <1>3, <1>4, <1>5, <1>6 DEF Next, WorkerStep, Failure

LEMMA InitSnapshot == Init => SnapshotFresh
  BY DEF Init, SnapshotFresh, Unfinished, IdleWorker, InTreatment

\* The snapshot a job reads before its first await is never stale where it
\* counts: as long as no committed write loses its reply, every photo the job
\* has still to treat is PENDING, whatever requests and retries interleave.
THEOREM SnapshotFreshCorrect == Spec => []SnapshotFresh
  <1>1. Init => TypeOK /\ Shape /\ SnapshotFresh
    BY InitTyped, InitSnapshot
  <1>2. TypeOK /\ Shape /\ SnapshotFresh /\ [Next]_vars
            => (TypeOK /\ Shape /\ SnapshotFresh)'
    BY NextTyped, SnapshotInductive
  <1>. QED
    BY <1>1, <1>2, PTL DEF Spec

----------------------------------------------------------------------------
(* The counter of registered photos                                        *)

\* The worker's calls answer, or throw with no effect, when no reply is lost.
CountInv == TypeOK /\ Shape /\ SnapshotFresh /\ CompletedCounted

\* A step that keeps the registered photos and the counter of a batch.
LEMMA CountKept ==
    ASSUME CompletedCounted, "ack" \notin Faults, NEW b \in Batches,
           batch'[b].completed = batch[b].completed,
           \A s \in Slots : item'[b][s] = "COMPLETED" <=> item[b][s] = "COMPLETED"
    PROVE  batch'[b].completed = Cardinality(SlotsIn(b, "COMPLETED")')
  <1>1. SlotsIn(b, "COMPLETED")' = SlotsIn(b, "COMPLETED")
    BY DEF SlotsIn
  <1>. QED
    BY <1>1 DEF CompletedCounted

LEMMA CountNotTouched ==
    ASSUME TypeOK, Shape, CompletedCounted, "ack" \notin Faults,
           \/ item' = item /\ \A b \in Batches :
                                batch'[b].completed = batch[b].completed
           \/ \E h \in Handlers : Reset(h)
    PROVE  CompletedCounted'
  <1>1. CASE item' = item /\ \A b \in Batches :
                                batch'[b].completed = batch[b].completed
    BY <1>1, CountKept DEF CompletedCounted
  <1>2. ASSUME NEW h \in Handlers, Reset(h)
        PROVE  CompletedCounted'
    <2>. DEFINE c == handler[h].batch
    <2>1. c \in Batches /\ batch[c] \in BatchRow
      BY <1>2 DEF Reset, Shape, TypeOK
    <2>2. Uncount(batch[c], handler[h].seen).completed = batch[c].completed
      BY <2>1 DEF Uncount, BatchRow
    <2>3. \A b \in Batches : batch'[b].completed = batch[b].completed
      BY <1>2, <2>1, <2>2 DEF Reset, TypeOK
    <2>4. \A b \in Batches, s \in Slots :
                item'[b][s] = "COMPLETED" <=> item[b][s] = "COMPLETED"
      BY <1>2, <2>1 DEF Reset, Retried, SlotsIn, TypeOK
    <2>. QED
      BY <2>3, <2>4, CountKept DEF CompletedCounted
  <1>. QED
    BY <1>1, <1>2

LEMMA CountInserted ==
    ASSUME TypeOK, Shape, CompletedCounted, "ack" \notin Faults,
           NEW h \in Handlers, NEW b \in Batches, Insert(h, b)
    PROVE  CompletedCounted'
  <1>1. \A c \in Batches : c # b => batch'[c] = batch[c] /\ item'[c] = item[c]
    BY DEF Insert, TypeOK
  <1>2. batch'[b].completed = 0 /\ \A s \in Slots : item'[b][s] # "COMPLETED"
    BY DEF Insert, TypeOK
  <1>3. SlotsIn(b, "COMPLETED")' = {}
    BY <1>2 DEF SlotsIn
  <1>4. \A c \in Batches : c # b =>
            batch'[c].completed = Cardinality(SlotsIn(c, "COMPLETED")')
    BY <1>1, CountKept
  <1>. QED
    BY <1>2, <1>3, <1>4, FS_EmptySet DEF CompletedCounted

LEMMA CountSettled ==
    ASSUME CountInv, "ack" \notin Faults, NEW a \in Answers,
           MarkCompleted(a) \/ MarkFailed(a)
    PROVE  CompletedCounted'
  <1>0. TypeOK /\ Shape /\ SnapshotFresh /\ CompletedCounted
    BY DEF CountInv
  <1>b. PICK b \in Batches, t \in Slots : b = worker.batch /\ t = worker.slot
    BY <1>0, MarkEffect
  <1>1. t \in Unfinished
    BY <1>0, <1>b, MarkEffect DEF Unfinished, InTreatment
  <1>2. item[b][t] = "PENDING"
    BY <1>0, <1>1, <1>b DEF SnapshotFresh
  <1>3. PICK outcome \in {"COMPLETED", "FAILED"} : MarkItem(b, t, outcome)
    BY <1>0, <1>b, MarkEffect
  <1>4. batch[b] \in BatchRow /\ batch[b].completed \in Nat
    BY <1>0, <1>1 DEF TypeOK, BatchRow
  <1>5. \A c \in Batches : c # b => batch'[c] = batch[c] /\ item'[c] = item[c]
    BY <1>0, <1>3 DEF MarkItem, TypeOK
  <1>6. \A c \in Batches : c # b =>
            batch'[c].completed = Cardinality(SlotsIn(c, "COMPLETED")')
    BY <1>0, <1>5, CountKept
  <1>7. /\ \A s \in Slots : s # t => item'[b][s] = item[b][s]
        /\ item'[b][t] = outcome
    BY <1>0, <1>1, <1>3 DEF MarkItem, TypeOK
  <1>8. batch'[b] = Count(batch[b], outcome)
    BY <1>0, <1>1, <1>3 DEF MarkItem, TypeOK
  <1>9. batch'[b].completed = Cardinality(SlotsIn(b, "COMPLETED")')
    <2>1. CASE outcome = "FAILED"
      <3>1. batch'[b].completed = batch[b].completed
        BY <1>4, <1>8, <2>1 DEF Count, BatchRow
      <3>2. \A s \in Slots : item'[b][s] = "COMPLETED" <=> item[b][s] = "COMPLETED"
        BY <1>2, <1>7, <2>1
      <3>. QED
        BY <1>0, <1>1, <3>1, <3>2, CountKept
    <2>2. CASE outcome = "COMPLETED"
      <3>. DEFINE Done == SlotsIn(b, "COMPLETED")
      <3>1. Done' = Done \cup {t} /\ t \notin Done
        <4>1. t \notin Done
          BY <1>2 DEF SlotsIn
        <4>2. \A s \in Slots : s \in Done' <=> s \in Done \/ s = t
          BY <1>7, <2>2 DEF SlotsIn
        <4>3. Done \subseteq Slots /\ Done' \subseteq Slots
          BY DEF SlotsIn
        <4>. QED
          BY <4>1, <4>2, <4>3
      <3>2. IsFiniteSet(Done)
        BY SlotsFinite DEF SlotsIn
      <3>3. Cardinality(Done \cup {t}) = Cardinality(Done) + 1
        BY <3>1, <3>2, FS_AddElement
      <3>4. Cardinality(Done) = batch[b].completed
        BY <1>0, <1>1 DEF CompletedCounted
      <3>5. batch'[b].completed = batch[b].completed + 1
        BY <1>4, <1>8, <2>2 DEF Count, BatchRow
      <3>. QED
        BY <3>1, <3>3, <3>4, <3>5
    <2>. QED
      BY <2>1, <2>2
  <1>. QED
    BY <1>6, <1>9 DEF CompletedCounted

LEMMA CountInductive ==
    ASSUME CountInv, [Next]_vars
    PROVE  CompletedCounted'
  <1>. SUFFICES ASSUME "ack" \notin Faults
                PROVE  CompletedCounted'
    BY DEF CompletedCounted
  <1>0. TypeOK /\ Shape /\ SnapshotFresh /\ CompletedCounted
    BY DEF CountInv
  <1>1. CASE item' = item /\ batch' = batch
    BY <1>0, <1>1, CountNotTouched
  <1>2. CASE MarkFinal \/ \E a \in Answers : MarkProcessing(a)
    <2>. DEFINE st == IF worker.pc = "start" THEN "PROCESSING" ELSE worker.verdict
    <2>1. item' = item /\ worker.pc \in {"start", "finish"}
          /\ batch' = [batch EXCEPT ![worker.batch].status = st]
      BY <1>2 DEF MarkFinal, MarkProcessing
    <2>2. worker.batch \in Batches
      BY <1>0, <2>1 DEF Shape
    <2>. HIDE DEF st
    <2>3. \A b \in Batches : batch'[b].completed = batch[b].completed
      BY <1>0, <2>1, <2>2 DEF TypeOK, BatchRow
    <2>. QED
      BY <1>0, <2>1, <2>3, CountNotTouched
  <1>3. ASSUME NEW h \in Handlers, HandlerStep(h)
        PROVE  \/ item' = item /\ batch' = batch
               \/ Reset(h)
               \/ \E b \in Batches : Insert(h, b)
    BY <1>3 DEF HandlerStep, Replay, KeyIsNew, RejectActive, NoneActive,
                InsertRefused, PresignAndEnqueue, EnqueueRetry
  <1>4. ASSUME NEW h \in Handlers, HandlerStep(h)
        PROVE  CompletedCounted'
    BY <1>0, <1>1, <1>3, <1>4, CountNotTouched, CountInserted
  <1>5. ASSUME NEW a \in Answers, MarkCompleted(a) \/ MarkFailed(a)
        PROVE  CompletedCounted'
    BY <1>5, CountSettled
  <1>6. CASE WorkerStep
    BY <1>1, <1>2, <1>5, <1>6
    DEF WorkerStep, TakeJob, ReadFinal, Inspect, CreateItem
  <1>7. CASE \/ \E h \in Handlers : Request(h)
             \/ \E b \in Batches, s \in Slots : Upload(b, s)
             \/ Failure \/ UNCHANGED vars
    BY <1>1, <1>7
    DEF Request, PostBatch, Retry, Upload, Failure, HandlerFails, InspectFails,
        WorkerCallFails, JobFails, Crash, vars
  <1>. QED
    BY <1>4, <1>6, <1>7 DEF Next

LEMMA InitCounted == Init => CompletedCounted
  <1>. SUFFICES ASSUME Init
                PROVE  \A b \in Batches :
                    batch[b].completed = Cardinality(SlotsIn(b, "COMPLETED"))
    BY DEF CompletedCounted
  <1>1. \A b \in Batches : SlotsIn(b, "COMPLETED") = {} /\ batch[b].completed = 0
    BY DEF Init, SlotsIn, NoRow
  <1>. QED
    BY <1>1, FS_EmptySet

\* The counter of registered photos is exact, whatever retries interleave with
\* the job, through crashes and calls that throw with no effect: each photo is
\* counted when it leaves PENDING, and SnapshotFresh says it is PENDING.
THEOREM CompletedCountedCorrect == Spec => []CompletedCounted
  <1>1. Init => CountInv
    BY InitTyped, InitSnapshot, InitCounted DEF CountInv
  <1>2. CountInv /\ [Next]_vars => CountInv'
    BY NextTyped, SnapshotInductive, CountInductive DEF CountInv
  <1>3. CountInv => CompletedCounted
    BY DEF CountInv
  <1>. QED
    BY <1>1, <1>2, <1>3, PTL DEF Spec

----------------------------------------------------------------------------
(* The ledger                                                              *)

LEMMA InsertOpens ==
    ASSUME TypeOK, Shape, NEW h \in Handlers, NEW b \in Batches, Insert(h, b)
    PROVE  \E n \in 1..MaxBatch : Ledger!Open(b, n)
  <1>1. handler[h].count \in 1..MaxBatch
    BY DEF Insert, Shape, Slots
  <1>2. \A s \in 1..MaxBatch : item[b][s] = "NONE"
    BY DEF Insert, Shape, Slots
  <1>3. item' = [item EXCEPT ![b] =
            [s \in 1..MaxBatch |-> IF s \in 1..handler[h].count THEN "PENDING"
                                                               ELSE "NONE"]]
    BY DEF Insert, Slots
  <1>. QED
    BY <1>1, <1>2, <1>3 DEF Ledger!Open

LEMMA ResetReopens ==
    ASSUME TypeOK, Shape, NEW h \in Handlers, Reset(h)
    PROVE  item' = item \/ \E b \in Batches : Ledger!Reopen(b)
  <1>1. PICK b \in Batches : b = handler[h].batch
    BY DEF Reset, Shape
  <1>2. item' = [item EXCEPT ![b] =
            [s \in Slots |-> IF s \in Retried(b) THEN "PENDING" ELSE item[b][s]]]
    BY <1>1 DEF Reset
  <1>3. item \in [Batches -> [Slots -> SlotState]]
    BY DEF TypeOK
  <1>4. CASE \E s \in Slots : item[b][s] = "FAILED"
    <2>1. \A s \in Slots : s \in Retried(b) <=> item[b][s] = "FAILED"
      BY DEF Retried, SlotsIn
    <2>2. item' = [item EXCEPT ![b] =
            [s \in Slots |-> IF item[b][s] = "FAILED" THEN "PENDING"
                                                      ELSE item[b][s]]]
      BY <1>2, <2>1
    <2>3. Ledger!Reopen(b)
      BY <1>4, <2>2 DEF Ledger!Reopen, Slots
    <2>. QED
      BY <2>3
  <1>5. CASE \A s \in Slots : item[b][s] # "FAILED"
    <2>1. [s \in Slots |-> IF s \in Retried(b) THEN "PENDING" ELSE item[b][s]]
            = [s \in Slots |-> item[b][s]]
      BY <1>5 DEF Retried, SlotsIn
    <2>2. [s \in Slots |-> item[b][s]] = item[b]
      BY <1>3
    <2>3. item' = [item EXCEPT ![b] = item[b]]
      BY <1>2, <2>1, <2>2
    <2>. QED
      BY <1>3, <2>3
  <1>. QED
    BY <1>4, <1>5

LEMMA MarkSettles ==
    ASSUME TypeOK, Shape, SnapshotFresh, "ack" \notin Faults,
           NEW a \in Answers, MarkCompleted(a) \/ MarkFailed(a)
    PROVE  \E b \in Batches, s \in 1..MaxBatch, outcome \in {"COMPLETED", "FAILED"} :
                Ledger!Settle(b, s, outcome)
  <1>1. PICK b \in Batches, s \in Slots : b = worker.batch /\ s = worker.slot
    BY MarkEffect
  <1>2. item[b][s] = "PENDING"
    BY <1>1, MarkEffect DEF SnapshotFresh, Unfinished, InTreatment
  <1>3. PICK outcome \in {"COMPLETED", "FAILED"} :
            item' = [item EXCEPT ![b][s] = outcome]
    BY <1>1, MarkEffect DEF MarkItem
  <1>. QED
    BY <1>2, <1>3 DEF Ledger!Settle, Slots

LEMMA LedgerStep ==
    ASSUME TypeOK, Shape, SnapshotFresh, "ack" \notin Faults, [Next]_vars
    PROVE  [Ledger!LedgerNext]_item
  <1>1. CASE item' = item
    BY <1>1
  <1>2. ASSUME NEW h \in Handlers, HandlerStep(h)
        PROVE  [Ledger!LedgerNext]_item
    <2>1. \/ item' = item
          \/ Reset(h)
          \/ \E b \in Batches : Insert(h, b)
      BY <1>2 DEF HandlerStep, Replay, KeyIsNew, RejectActive, NoneActive,
                  InsertRefused, PresignAndEnqueue, EnqueueRetry
    <2>. QED
      BY <2>1, ResetReopens, InsertOpens DEF Ledger!LedgerNext
  <1>3. ASSUME NEW a \in Answers, MarkCompleted(a) \/ MarkFailed(a)
        PROVE  [Ledger!LedgerNext]_item
    BY <1>3, MarkSettles DEF Ledger!LedgerNext
  <1>4. CASE WorkerStep
    BY <1>1, <1>3, <1>4
    DEF WorkerStep, TakeJob, ReadFinal, MarkFinal, Inspect, MarkProcessing, CreateItem
  <1>5. CASE \/ \E h \in Handlers : Request(h)
             \/ \E b \in Batches, s \in Slots : Upload(b, s)
             \/ Failure \/ UNCHANGED vars
    BY <1>1, <1>5
    DEF Request, PostBatch, Retry, Upload, Failure, HandlerFails, InspectFails,
        WorkerCallFails, JobFails, Crash, vars
  <1>. QED
    BY <1>2, <1>4, <1>5 DEF Next

\* The request handlers, the queue, the worker and every failure but a lost
\* reply implement the plain ledger of photos: each step of the API is one
\* step of the ledger or leaves it alone.
THEOREM LedgerImplemented ==
    ASSUME "ack" \notin Faults
    PROVE  Spec => LedgerSpec
  <1>1. Init => TypeOK /\ Shape /\ SnapshotFresh /\ Ledger!LedgerInit
    BY InitTyped, InitSnapshot DEF Init, Ledger!LedgerInit, Slots
  <1>2. TypeOK /\ Shape /\ SnapshotFresh /\ [Next]_vars
            => (TypeOK /\ Shape /\ SnapshotFresh)' /\ [Ledger!LedgerNext]_item
    BY NextTyped, SnapshotInductive, LedgerStep
  <1>. QED
    BY <1>1, <1>2, PTL DEF Spec, LedgerSpec, Ledger!LedgerSpec

----------------------------------------------------------------------------
(* Registered photos and their wardrobe Items                              *)

\* A photo about to be marked registered has its Item already.
ItemMade == worker.pc = "markCompleted" => created[worker.batch][worker.slot] > 0

\* Every step but the three that insert an Item or mark a photo leaves the
\* Items alone, registers nothing and does not lead to "markCompleted".
LEMMA NothingRegistered ==
    ASSUME TypeOK, Shape, [Next]_vars,
           ~\E a \in Answers : CreateItem(a) \/ MarkCompleted(a) \/ MarkFailed(a)
    PROVE  /\ created' = created
           /\ worker' = worker \/ worker'.pc # "markCompleted"
           /\ \A b \in Batches, s \in Slots :
                item'[b][s] = "COMPLETED" => item[b][s] = "COMPLETED"
  <1>. DEFINE Goal ==
        /\ created' = created
        /\ worker' = worker \/ worker'.pc # "markCompleted"
        /\ \A b \in Batches, s \in Slots :
              item'[b][s] = "COMPLETED" => item[b][s] = "COMPLETED"
  <1>0. worker \in WorkerState
    BY DEF TypeOK
  <1>1. ASSUME NEW h \in Handlers, Request(h)
        PROVE  Goal
    BY <1>1 DEF Request, PostBatch, Retry
  <1>2. ASSUME NEW h \in Handlers, HandlerStep(h)
        PROVE  Goal
    <2>1. ASSUME NEW b \in Batches, Insert(h, b)
          PROVE  Goal
      BY <2>1 DEF Insert, TypeOK
    <2>2. ASSUME Reset(h)
          PROVE  Goal
      <3>1. handler[h].batch \in Batches
        BY <2>2 DEF Reset, Shape
      <3>. QED
        BY <2>2, <3>1 DEF Reset, TypeOK
    <2>. QED
      BY <1>2, <2>1, <2>2
      DEF HandlerStep, Replay, KeyIsNew, RejectActive, NoneActive, InsertRefused,
          PresignAndEnqueue, EnqueueRetry
  <1>3. ASSUME \/ TakeJob \/ ReadFinal \/ MarkFinal \/ WorkerCallFails \/ JobFails
               \/ Crash \/ \E a \in Answers : MarkProcessing(a)
        PROVE  Goal
    <2>1. created' = created /\ item' = item
      BY <1>3
      DEF TakeJob, ReadFinal, MarkFinal, WorkerCallFails, JobFails, Crash, MarkProcessing
    <2>2. ASSUME worker' = IdleWorker
          PROVE  worker'.pc # "markCompleted"
      BY <2>2 DEF IdleWorker
    <2>3. ASSUME NEW pc \in {"next", "markFailed"}, worker' = [worker EXCEPT !.pc = pc]
          PROVE  worker'.pc # "markCompleted"
      BY <1>0, <2>3 DEF WorkerState
    <2>4. ASSUME TakeJob
          PROVE  worker'.pc # "markCompleted"
      BY <2>4 DEF TakeJob, IdleWorker
    <2>5. ASSUME ReadFinal
          PROVE  worker'.pc # "markCompleted"
      BY <1>0, <2>5 DEF ReadFinal, WorkerState
    <2>6. ASSUME NEW a \in Answers, MarkProcessing(a)
          PROVE  worker'.pc # "markCompleted"
      BY <2>2, <2>3, <2>6 DEF MarkProcessing, EndJob
    <2>7. ASSUME MarkFinal \/ WorkerCallFails \/ JobFails \/ Crash
          PROVE  worker'.pc # "markCompleted"
      BY <2>2, <2>3, <2>7 DEF MarkFinal, WorkerCallFails, JobFails, Crash, EndJob, Caught
    <2>. QED
      BY <1>3, <2>1, <2>4, <2>5, <2>6, <2>7
  <1>4. ASSUME NEW s \in Slots, Inspect(s) \/ InspectFails(s)
        PROVE  Goal
    BY <1>0, <1>4 DEF Inspect, InspectFails, WorkerState
  <1>5. ASSUME \/ \E b \in Batches, s \in Slots : Upload(b, s)
               \/ \E h \in Handlers : HandlerFails(h)
               \/ UNCHANGED vars
        PROVE  Goal
    BY <1>5 DEF Upload, HandlerFails, vars
  <1>. HIDE DEF Goal
  <1>6. Goal
    BY <1>1, <1>2, <1>3, <1>4, <1>5 DEF Next, WorkerStep, Failure
  <1>. QED
    BY <1>6 DEF Goal

LEMMA ItemInductive ==
    ASSUME TypeOK, Shape, RegisteredHasItem, ItemMade, [Next]_vars
    PROVE  RegisteredHasItem' /\ ItemMade'
  <1>1. CASE ~\E a \in Answers : CreateItem(a) \/ MarkCompleted(a) \/ MarkFailed(a)
    BY <1>1, NothingRegistered DEF RegisteredHasItem, ItemMade
  <1>2. ASSUME NEW a \in Answers, CreateItem(a)
        PROVE  RegisteredHasItem' /\ ItemMade'
    <2>. DEFINE b == worker.batch
                s == worker.slot
    <2>1. b \in Batches /\ s \in Slots
      BY <1>2 DEF CreateItem, Shape, InTreatment
    <2>2. worker'.batch = b /\ worker'.slot = s /\ item' = item
      BY <1>2 DEF CreateItem, Caught, TypeOK, WorkerState
    <2>3. created' = [created EXCEPT ![b] = [created[b] EXCEPT ![s] = created[b][s] + 1]]
      BY <1>2 DEF CreateItem
    <2>4. \A c \in Batches, t \in Slots : created[c][t] \in Nat
      BY DEF TypeOK
    <2>5. /\ created'[b][s] > 0
          /\ \A c \in Batches, t \in Slots : created'[c][t] >= created[c][t]
      <3>1. created[b][s] + 1 > 0 /\ created[b][s] + 1 >= created[b][s]
        BY <2>1, <2>4
      <3>2. \A c \in Batches, t \in Slots :
                created'[c][t] = IF c = b /\ t = s THEN created[b][s] + 1
                                                   ELSE created[c][t]
        BY <2>1, <2>3 DEF TypeOK
      <3>. HIDE DEF b, s
      <3>. QED
        BY <2>1, <2>4, <3>1, <3>2
    <2>6. \A c \in Batches, t \in Slots : created'[c][t] \in Nat
      BY <1>2, CreateItemTyped DEF TypeOK
    <2>7. ItemMade'
      BY <2>2, <2>5 DEF ItemMade
    <2>. HIDE DEF b, s
    <2>8. RegisteredHasItem'
      BY <2>2, <2>4, <2>5, <2>6 DEF RegisteredHasItem
    <2>. QED
      BY <2>7, <2>8
  <1>3. ASSUME NEW a \in Answers, MarkCompleted(a) \/ MarkFailed(a)
        PROVE  RegisteredHasItem' /\ ItemMade'
    <2>1. PICK b \in Batches, s \in Slots : b = worker.batch /\ s = worker.slot
      BY <1>3, MarkEffect
    <2>2. created' = created /\ worker'.pc # "markCompleted"
      <3>1. worker \in WorkerState
        BY DEF TypeOK
      <3>2. CASE worker' = IdleWorker
        BY <1>3, <3>2, MarkEffect DEF IdleWorker
      <3>3. ASSUME NEW pc \in {"next", "markFailed"}, worker' = [worker EXCEPT !.pc = pc]
            PROVE  worker'.pc # "markCompleted"
        BY <3>1, <3>3 DEF WorkerState
      <3>. QED
        BY <1>3, <3>2, <3>3, MarkEffect
    <2>3. PICK outcome \in {"COMPLETED", "FAILED"} :
              /\ item' = [item EXCEPT ![b][s] = outcome]
              /\ outcome = "COMPLETED" <=> worker.pc = "markCompleted"
      BY <1>3, <2>1, MarkEffect DEF MarkItem
    <2>4. \A c \in Batches, t \in Slots :
              item'[c][t] = IF c = b /\ t = s THEN outcome ELSE item[c][t]
      BY <2>3 DEF TypeOK
    <2>5. RegisteredHasItem'
      BY <2>1, <2>2, <2>3, <2>4 DEF RegisteredHasItem, ItemMade
    <2>. QED
      BY <2>2, <2>5 DEF ItemMade
  <1>. QED
    BY <1>1, <1>2, <1>3

\* A photo marked registered has a wardrobe Item, whatever fails, lost
\* replies and crashes included: the worker inserts before it marks.
THEOREM RegisteredHasItemCorrect == Spec => []RegisteredHasItem
  <1>1. Init => TypeOK /\ Shape /\ RegisteredHasItem /\ ItemMade
    BY InitTyped DEF Init, RegisteredHasItem, ItemMade, IdleWorker
  <1>2. TypeOK /\ Shape /\ RegisteredHasItem /\ ItemMade /\ [Next]_vars
            => (TypeOK /\ Shape /\ RegisteredHasItem /\ ItemMade)'
    BY NextTyped, ItemInductive
  <1>. QED
    BY <1>1, <1>2, PTL DEF Spec

============================================================================
