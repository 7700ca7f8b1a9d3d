------------------------ MODULE ItemBatchRetryProofs ------------------------
(***************************************************************************)
(* Proofs about ItemBatch's failed counter, which a retry lowers by a      *)
(* number it read before its transaction, and about the status a job ends  *)
(* with: what they are worth depends on how clients use the retry button.  *)
(***************************************************************************)
EXTENDS ItemBatchJobsProofs

----------------------------------------------------------------------------
(* The failed photos and their counter                                     *)

FailedPhotos(b) == Cardinality(SlotsIn(b, "FAILED"))

LEMMA FailedPhotosType == \A b \in Batches : FailedPhotos(b) \in Nat
  BY SlotsFinite DEF FailedPhotos, SlotsIn

LEMMA FailedSame ==
    ASSUME NEW b \in Batches,
           \A s \in Slots : item'[b][s] = "FAILED" <=> item[b][s] = "FAILED"
    PROVE  FailedPhotos(b)' = FailedPhotos(b)
  <1>1. SlotsIn(b, "FAILED")' = SlotsIn(b, "FAILED")
    BY DEF SlotsIn
  <1>. QED
    BY <1>1 DEF FailedPhotos

\* The four ways a step can treat the photos and the counters.
LEMMA PhotosTouched ==
    ASSUME TypeOK, Shape, [Next]_vars
    PROVE  \/ item' = item /\ \A b \in Batches : batch'[b].failed = batch[b].failed
           \/ \E h \in Handlers, b \in Batches : Insert(h, b)
           \/ \E h \in Handlers : Reset(h)
           \/ \E a \in Answers : MarkCompleted(a) \/ MarkFailed(a)
  <1>. DEFINE Same == item' = item /\ \A b \in Batches : batch'[b].failed = batch[b].failed
  <1>1. CASE item' = item /\ batch' = batch
    BY <1>1
  <1>2. CASE MarkFinal \/ \E a \in Answers : MarkProcessing(a)
    <2>. DEFINE st == IF worker.pc = "start" THEN "PROCESSING" ELSE worker.verdict
    <2>1. item' = item /\ worker.pc \in {"start", "finish"}
          /\ batch' = [batch EXCEPT ![worker.batch].status = st]
      BY <1>2 DEF MarkFinal, MarkProcessing
    <2>2. worker.batch \in Batches
      BY <2>1 DEF Shape
    <2>. HIDE DEF st
    <2>3. \A b \in Batches : batch'[b].failed = batch[b].failed
      BY <2>1, <2>2 DEF TypeOK, BatchRow
    <2>. QED
      BY <2>1, <2>3
  <1>. QED
    BY <1>1, <1>2
    DEF Next, Request, PostBatch, Retry, HandlerStep, Replay, KeyIsNew, RejectActive,
        NoneActive, InsertRefused, PresignAndEnqueue, EnqueueRetry, WorkerStep, TakeJob,
        ReadFinal, Inspect, CreateItem, Upload, Failure, HandlerFails, InspectFails,
        WorkerCallFails, JobFails, Crash, vars

\* A settled photo is counted with the failed ones exactly if it is one.
LEMMA SettledFailed ==
    ASSUME TypeOK, Shape, SnapshotFresh, "ack" \notin Faults,
           NEW a \in Answers, MarkCompleted(a) \/ MarkFailed(a)
    PROVE  \E b \in Batches, n \in {0, 1} :
             /\ b = worker.batch
             /\ FailedPhotos(b)' = FailedPhotos(b) + n
             /\ batch'[b].failed = batch[b].failed + n
             /\ \A c \in Batches : c # b =>
                    batch'[c] = batch[c] /\ FailedPhotos(c)' = FailedPhotos(c)
  <1>1. PICK b \in Batches, t \in Slots : b = worker.batch /\ t = worker.slot
    BY MarkEffect
  <1>2. item[b][t] = "PENDING"
    BY <1>1, MarkEffect DEF SnapshotFresh, Unfinished, InTreatment
  <1>3. PICK outcome \in {"COMPLETED", "FAILED"} : MarkItem(b, t, outcome)
    BY <1>1, MarkEffect
  <1>4. batch \in [Batches -> BatchRow] /\ item \in [Batches -> [Slots -> SlotState]]
    BY DEF TypeOK
  <1>5. /\ \A c \in Batches : c # b => batch'[c] = batch[c] /\ item'[c] = item[c]
        /\ batch'[b] = Count(batch[b], outcome)
        /\ \A s \in Slots : item'[b][s] = IF s = t THEN outcome ELSE item[b][s]
    BY <1>3, <1>4 DEF MarkItem
  <1>6. \A c \in Batches : c # b =>
            batch'[c] = batch[c] /\ FailedPhotos(c)' = FailedPhotos(c)
    BY <1>5, FailedSame
  <1>7. CASE outcome = "COMPLETED"
    <2>1. FailedPhotos(b)' = FailedPhotos(b)
      BY <1>2, <1>5, <1>7, FailedSame
    <2>2. batch'[b].failed = batch[b].failed
      BY <1>4, <1>5, <1>7 DEF Count, BatchRow
    <2>3. batch[b].failed \in Int /\ FailedPhotos(b) \in Nat
      BY <1>4, FailedPhotosType DEF BatchRow
    <2>4. batch'[b].failed = batch[b].failed + 0 /\ FailedPhotos(b)' = FailedPhotos(b) + 0
      BY <2>1, <2>2, <2>3
    <2>. QED
      BY <1>1, <1>6, <2>4
  <1>8. CASE outcome = "FAILED"
    <2>. DEFINE F == SlotsIn(b, "FAILED")
    <2>1. F' = F \cup {t} /\ t \notin F
      <3>1. t \notin F
        BY <1>2 DEF SlotsIn
      <3>2. \A s \in Slots : s \in F' <=> s \in F \/ s = t
        BY <1>5, <1>8 DEF SlotsIn
      <3>3. F \subseteq Slots /\ F' \subseteq Slots
        BY DEF SlotsIn
      <3>. QED
        BY <3>1, <3>2, <3>3
    <2>2. IsFiniteSet(F)
      BY SlotsFinite DEF SlotsIn
    <2>3. Cardinality(F \cup {t}) = Cardinality(F) + 1
      BY <2>1, <2>2, FS_AddElement
    <2>4. FailedPhotos(b)' = FailedPhotos(b) + 1
      BY <2>1, <2>3 DEF FailedPhotos
    <2>5. batch'[b].failed = batch[b].failed + 1
      BY <1>4, <1>5, <1>8 DEF Count, BatchRow
    <2>. QED
      BY <1>1, <1>6, <2>4, <2>5
  <1>. QED
    BY <1>7, <1>8

LEMMA InsertedNotFailed ==
    ASSUME TypeOK, Shape, NEW h \in Handlers, NEW b \in Batches, Insert(h, b)
    PROVE  /\ batch'[b].failed = 0 /\ FailedPhotos(b)' = 0
           /\ \A c \in Batches : c # b =>
                batch'[c] = batch[c] /\ FailedPhotos(c)' = FailedPhotos(c)
  <1>1. \A s \in Slots : item'[b][s] # "FAILED"
    BY InsertEffect
  <1>2. SlotsIn(b, "FAILED")' = {}
    BY <1>1 DEF SlotsIn
  <1>3. FailedPhotos(b)' = 0
    BY <1>2, FS_EmptySet DEF FailedPhotos
  <1>. QED
    BY <1>3, InsertEffect, FailedSame

LEMMA ResetFailedNone ==
    ASSUME TypeOK, Shape, NEW h \in Handlers, Reset(h)
    PROVE  \E b \in Batches :
             /\ handler[h].pc = "reset" /\ b = handler[h].batch
             /\ FailedPhotos(b)' = 0
             /\ batch'[b].failed = batch[b].failed - handler[h].seen
             /\ \A c \in Batches : c # b =>
                    batch'[c] = batch[c] /\ FailedPhotos(c)' = FailedPhotos(c)
  <1>1. PICK b \in Batches : b = handler[h].batch
    BY ResetEffect
  <1>2. \A s \in Slots : item'[b][s] # "FAILED"
    BY <1>1, ResetEffect
  <1>3. SlotsIn(b, "FAILED")' = {}
    BY <1>2 DEF SlotsIn
  <1>4. FailedPhotos(b)' = 0
    BY <1>3, FS_EmptySet DEF FailedPhotos
  <1>. QED
    BY <1>1, <1>4, ResetEffect, FailedSame

\* A retry between its count of the failed photos and its transaction got
\* there by Retry, and stays as it is.
LEMMA ResetPending ==
    ASSUME TypeOK, Shape, [Next]_vars, NEW h \in Handlers
    PROVE  /\ handler'[h].pc = "reset" =>
                \/ handler'[h] = handler[h]
                \/ \E u \in Users, b \in Batches : Retry(h, u, b)
           /\ handler'[h].pc = "enqueue" =>
                \/ handler'[h] = handler[h]
                \/ /\ Reset(h) /\ handler[h].pc = "reset"
                   /\ handler'[h].batch = handler[h].batch
  <1>. DEFINE Goal == /\ handler'[h].pc = "reset" =>
                            \/ handler'[h] = handler[h]
                            \/ \E u \in Users, b \in Batches : Retry(h, u, b)
                      /\ handler'[h].pc = "enqueue" =>
                            \/ handler'[h] = handler[h]
                            \/ /\ Reset(h) /\ handler[h].pc = "reset"
                               /\ handler'[h].batch = handler[h].batch
  <1>1. ASSUME NEW g \in Handlers, QuietStep(g)
        PROVE  Goal
    BY <1>1, QuietEffect DEF Early
  <1>2. ASSUME NEW g \in Handlers, NEW u \in Users, NEW b \in Batches, Retry(g, u, b)
        PROVE  Goal
    BY <1>2, RetryEffect
  <1>3. ASSUME NEW g \in Handlers, NEW b \in Batches, Insert(g, b)
        PROVE  Goal
    BY <1>3, InsertEffect
  <1>4. ASSUME NEW g \in Handlers, Reset(g)
        PROVE  Goal
    BY <1>4, ResetEffect
  <1>5. ASSUME NEW g \in Handlers, PresignAndEnqueue(g) \/ EnqueueRetry(g)
        PROVE  Goal
    BY <1>5, EnqueueEffect DEF IdleHandler
  <1>6. ASSUME NEW g \in Handlers, HandlerFails(g)
        PROVE  Goal
    BY <1>6 DEF HandlerFails, Respond, TypeOK, IdleHandler
  <1>7. ASSUME Crash
        PROVE  Goal
    BY <1>7 DEF Crash, IdleHandler
  <1>8. ASSUME handler' = handler
        PROVE  Goal
    BY <1>8
  <1>9. ASSUME JobStep \/ TakeJob
        PROVE  Goal
    <2>1. handler' = handler
      BY <1>9, JobEffect DEF TakeJob
    <2>. QED
      BY <1>8, <2>1
  <1>10. ASSUME UNCHANGED vars \/ \E b \in Batches, s \in Slots : Upload(b, s)
        PROVE  Goal
    BY <1>8, <1>10 DEF vars, Upload
  <1>. HIDE DEF Goal
  <1>a. ASSUME NEW g \in Handlers, Request(g) \/ HandlerStep(g) \/ HandlerFails(g)
        PROVE  Goal
    BY <1>1, <1>2, <1>3, <1>4, <1>5, <1>6, <1>a DEF Request, HandlerStep, QuietStep
  <1>b. ASSUME \/ WorkerStep \/ WorkerCallFails \/ JobFails
               \/ \E s \in Slots : InspectFails(s)
        PROVE  Goal
    <2>1. TakeJob \/ JobStep
      BY <1>b DEF WorkerStep, JobStep
    <2>. QED
      BY <1>9, <2>1
  <1>11. Goal
    BY <1>7, <1>10, <1>a, <1>b DEF Next, Failure
  <1>. QED
    BY <1>11 DEF Goal

\* How far the failed counter of a batch is above its failed photos.
Slack(b) == batch[b].failed - FailedPhotos(b)

\* Every step but a reset keeps the distance, or starts a new row at none.
LEMMA SlackKept ==
    ASSUME TypeOK, Shape, SnapshotFresh, "ack" \notin Faults, [Next]_vars,
           ~\E h \in Handlers : Reset(h), NEW b \in Batches
    PROVE  Slack(b)' \in {Slack(b), 0}
  <1>0. batch[b].failed \in Int /\ FailedPhotos(b) \in Nat
    BY FailedPhotosType DEF TypeOK, BatchRow
  <1>1. CASE item' = item /\ \A c \in Batches : batch'[c].failed = batch[c].failed
    <2>1. FailedPhotos(b)' = FailedPhotos(b)
      BY <1>1, FailedSame
    <2>. QED
      BY <1>1, <2>1 DEF Slack
  <1>2. ASSUME NEW h \in Handlers, NEW c \in Batches, Insert(h, c)
        PROVE  Slack(b)' \in {Slack(b), 0}
    BY <1>2, InsertedNotFailed DEF Slack
  <1>3. ASSUME NEW a \in Answers, MarkCompleted(a) \/ MarkFailed(a)
        PROVE  Slack(b)' \in {Slack(b), 0}
    <2>1. PICK c \in Batches, n \in {0, 1} :
              /\ FailedPhotos(c)' = FailedPhotos(c) + n
              /\ batch'[c].failed = batch[c].failed + n
              /\ \A d \in Batches : d # c =>
                    batch'[d] = batch[d] /\ FailedPhotos(d)' = FailedPhotos(d)
      BY <1>3, SettledFailed
    <2>2. CASE b = c
      BY <1>0, <2>1, <2>2 DEF Slack
    <2>3. CASE b # c
      BY <2>1, <2>3 DEF Slack
    <2>. QED
      BY <2>2, <2>3
  <1>. QED
    BY <1>1, <1>2, <1>3, PhotosTouched

----------------------------------------------------------------------------
(* One retry of a batch in flight at a time                                *)

RetryAlone ==
    \A g, h \in Handlers :
        /\ g # h
        /\ handler[g].pc \in {"reset", "enqueue"} /\ handler[h].pc \in {"reset", "enqueue"}
      => handler[g].batch # handler[h].batch

LEMMA AloneInductive ==
    ASSUME TypeOK, Shape, RetryAlone, Discipline # "free", [Next]_vars
    PROVE  RetryAlone'
  <1>. SUFFICES ASSUME NEW g \in Handlers, NEW h \in Handlers, g # h,
                       handler'[g].pc \in {"reset", "enqueue"},
                       handler'[h].pc \in {"reset", "enqueue"},
                       handler'[g].batch = handler'[h].batch
                PROVE  FALSE
    BY DEF RetryAlone
  <1>1. ASSUME NEW f \in Handlers, NEW k \in Handlers, f # k,
               NEW u \in Users, NEW b \in Batches, Retry(f, u, b),
               handler'[k].pc \in {"reset", "enqueue"}, handler'[f].batch = handler'[k].batch
        PROVE  FALSE
    <2>1. handler'[k] = handler[k] /\ handler'[f].batch = b /\ MayRetry(b)
      BY <1>1, RetryEffect
    <2>. QED
      BY <1>1, <2>1 DEF MayRetry
  <1>2. ASSUME NEW f \in Handlers, handler'[f].pc \in {"reset", "enqueue"},
               ~\E u \in Users, b \in Batches : Retry(f, u, b)
        PROVE  handler[f].pc \in {"reset", "enqueue"}
               /\ handler'[f].batch = handler[f].batch
    BY <1>2, ResetPending
  <1>3. \A u \in Users, b \in Batches : ~Retry(g, u, b) /\ ~Retry(h, u, b)
    BY <1>1
  <1>4. /\ handler[g].pc \in {"reset", "enqueue"} /\ handler[h].pc \in {"reset", "enqueue"}
        /\ handler[g].batch = handler[h].batch
    BY <1>2, <1>3
  <1>. QED
    BY <1>4 DEF RetryAlone

\* A retry has seen no more failed photos than there are when it resets them.
SeenUnder ==
    \A h \in Handlers : handler[h].pc = "reset" =>
        handler[h].seen <= FailedPhotos(handler[h].batch)

\* Between its count and its transaction, only the worker changes the number
\* of failed photos a retry has in hand, and only upwards.
LEMMA FailedGrows ==
    ASSUME TypeOK, Shape, SnapshotFresh, "ack" \notin Faults, [Next]_vars,
           NEW b \in Batches, Exists(b),
           ~\E h \in Handlers : Reset(h) /\ handler[h].batch = b
    PROVE  /\ FailedPhotos(b)' >= FailedPhotos(b)
           /\ worker.pc = "idle" \/ worker.batch # b => FailedPhotos(b)' = FailedPhotos(b)
  <1>0. FailedPhotos(b) \in Nat
    BY FailedPhotosType
  <1>1. CASE item' = item
    <2>1. FailedPhotos(b)' = FailedPhotos(b)
      BY <1>1, FailedSame
    <2>. QED
      BY <1>0, <2>1
  <1>2. ASSUME NEW h \in Handlers, NEW c \in Batches, Insert(h, c)
        PROVE  FailedPhotos(b)' = FailedPhotos(b)
    BY <1>2, InsertedNotFailed DEF Insert
  <1>3. ASSUME NEW h \in Handlers, Reset(h)
        PROVE  FailedPhotos(b)' = FailedPhotos(b)
    BY <1>3, ResetFailedNone
  <1>4. ASSUME NEW a \in Answers, MarkCompleted(a) \/ MarkFailed(a)
        PROVE  /\ FailedPhotos(b)' >= FailedPhotos(b)
               /\ worker.pc = "idle" \/ worker.batch # b =>
                    FailedPhotos(b)' = FailedPhotos(b)
    <2>1. PICK c \in Batches, n \in {0, 1} :
              /\ c = worker.batch
              /\ FailedPhotos(c)' = FailedPhotos(c) + n
              /\ \A d \in Batches : d # c => FailedPhotos(d)' = FailedPhotos(d)
      BY <1>4, SettledFailed
    <2>2. worker.pc # "idle"
      BY <1>4, MarkEffect
    <2>3. CASE b = c
      BY <1>0, <2>1, <2>2, <2>3
    <2>4. CASE b # c
      <3>1. FailedPhotos(b)' = FailedPhotos(b)
        BY <2>1, <2>4
      <3>. QED
        BY <1>0, <3>1
    <2>. QED
      BY <2>3, <2>4
  <1>. QED
    BY <1>0, <1>1, <1>2, <1>3, <1>4, PhotosTouched

LEMMA SeenUnderInductive ==
    ASSUME TypeOK, Shape, SnapshotFresh, RetryAlone, SeenUnder, "ack" \notin Faults,
           [Next]_vars
    PROVE  SeenUnder'
  <1>. SUFFICES ASSUME NEW h \in Handlers, handler'[h].pc = "reset"
                PROVE  \A b \in Batches : b = handler'[h].batch =>
                            handler'[h].seen <= FailedPhotos(b)'
    <2>1. \A g \in Handlers : handler'[g].pc = "reset" => handler'[g].batch \in Batches
      BY NextTyped DEF Shape
    <2>. QED
      BY <2>1 DEF SeenUnder
  <1>1. ASSUME NEW u \in Users, NEW b \in Batches, Retry(h, u, b)
        PROVE  handler'[h].batch = b /\ handler'[h].seen <= FailedPhotos(b)'
    <2>1. item' = item /\ handler'[h].seen = FailedPhotos(b) /\ handler'[h].batch = b
      BY <1>1, RetryEffect DEF FailedPhotos
    <2>2. FailedPhotos(b)' = FailedPhotos(b) /\ FailedPhotos(b) \in Nat
      BY <2>1, FailedSame, FailedPhotosType
    <2>. QED
      BY <2>1, <2>2
  <1>2. CASE handler'[h] = handler[h]
    <2>1. PICK b \in Batches : b = handler[h].batch /\ Exists(b)
      BY <1>2 DEF Shape
    <2>2. ~\E g \in Handlers : Reset(g) /\ handler[g].batch = b
      <3>1. ASSUME NEW g \in Handlers, Reset(g), handler[g].batch = b
            PROVE  FALSE
        BY <1>2, <2>1, <3>1, ResetEffect DEF RetryAlone
      <3>. QED
        BY <3>1
    <2>3. FailedPhotos(b)' >= FailedPhotos(b)
      BY <2>1, <2>2, FailedGrows
    <2>4. handler[h].seen <= FailedPhotos(b)
      BY <1>2, <2>1 DEF SeenUnder
    <2>5. /\ handler[h].seen \in Nat /\ FailedPhotos(b) \in Nat
          /\ FailedPhotos(b)' \in Nat
      BY FailedPhotosType, NextTyped, SlotsFinite
      DEF TypeOK, HandlerState, FailedPhotos, SlotsIn
    <2>. QED
      BY <1>2, <2>1, <2>3, <2>4, <2>5
  <1>. QED
    BY <1>1, <1>2, ResetPending

NeverUnder == \A b \in Batches : batch[b].failed >= FailedPhotos(b)

LEMMA NeverUnderInductive ==
    ASSUME TypeOK, Shape, SnapshotFresh, SeenUnder, NeverUnder, "ack" \notin Faults,
           [Next]_vars
    PROVE  NeverUnder'
  <1>. SUFFICES ASSUME NEW b \in Batches
                PROVE  batch'[b].failed >= FailedPhotos(b)'
    BY DEF NeverUnder
  <1>0. /\ batch[b].failed \in Int /\ FailedPhotos(b) \in Nat
        /\ batch'[b].failed \in Int /\ FailedPhotos(b)' \in Nat
        /\ batch[b].failed >= FailedPhotos(b)
    <2>1. TypeOK'
      BY NextTyped
    <2>2. FailedPhotos(b)' \in Nat
      BY SlotsFinite DEF FailedPhotos, SlotsIn
    <2>. QED
      BY <2>1, <2>2, FailedPhotosType DEF TypeOK, BatchRow, NeverUnder
  <1>1. CASE ~\E h \in Handlers : Reset(h)
    <2>1. batch'[b].failed - FailedPhotos(b)' \in {batch[b].failed - FailedPhotos(b), 0}
      BY <1>1, SlackKept DEF Slack
    <2>. QED
      BY <1>0, <2>1
  <1>2. ASSUME NEW h \in Handlers, Reset(h)
        PROVE  batch'[b].failed >= FailedPhotos(b)'
    <2>1. PICK c \in Batches :
              /\ handler[h].pc = "reset" /\ c = handler[h].batch
              /\ FailedPhotos(c)' = 0
              /\ batch'[c].failed = batch[c].failed - handler[h].seen
              /\ \A d \in Batches : d # c =>
                    batch'[d] = batch[d] /\ FailedPhotos(d)' = FailedPhotos(d)
      BY <1>2, ResetFailedNone
    <2>2. handler[h].seen \in Nat /\ handler[h].seen <= FailedPhotos(c)
      BY <2>1 DEF SeenUnder, TypeOK, HandlerState
    <2>. QED
      BY <1>0, <2>1, <2>2
  <1>. QED
    BY <1>1, <1>2

LEMMA InitFailedNone ==
    ASSUME Init
    PROVE  /\ \A b \in Batches : batch[b].failed = 0 /\ FailedPhotos(b) = 0
           /\ \A h \in Handlers : handler[h].pc = "idle"
  <1>1. \A b \in Batches : batch[b].failed = 0 /\ SlotsIn(b, "FAILED") = {}
    BY DEF Init, NoRow, SlotsIn
  <1>. QED
    BY <1>1, FS_EmptySet DEF Init, IdleHandler, FailedPhotos

\* With one retry of a batch in flight at a time the failed counter is never
\* below the failed photos, though resetItemsForRetry subtracts a number it
\* read before its transaction and the worker may fail photos in between.
THEOREM FailedNeverUnderCorrect == Spec => []FailedNeverUnder
  <1>. DEFINE Inv == /\ TypeOK /\ Shape /\ SnapshotFresh
                     /\ Discipline # "free" /\ "ack" \notin Faults =>
                            RetryAlone /\ SeenUnder /\ NeverUnder
  <1>1. Init => Inv
    <2>1. ASSUME Init
          PROVE  RetryAlone /\ SeenUnder /\ NeverUnder
      BY <2>1, InitFailedNone DEF RetryAlone, SeenUnder, NeverUnder
    <2>. QED
      BY <2>1, InitTyped, InitSnapshot
  <1>2. Inv /\ [Next]_vars => Inv'
    BY NextTyped, SnapshotInductive, AloneInductive, SeenUnderInductive,
       NeverUnderInductive
  <1>3. Inv => FailedNeverUnder
    BY DEF NeverUnder, FailedNeverUnder, FailedPhotos
  <1>. QED
    BY <1>1, <1>2, <1>3, PTL DEF Spec

----------------------------------------------------------------------------
(* Clients that retry only what they saw finished                          *)

SeenExact ==
    \A h \in Handlers : handler[h].pc = "reset" =>
        handler[h].seen = FailedPhotos(handler[h].batch)

LEMMA SeenExactInductive ==
    ASSUME TypeOK, Shape, SnapshotFresh, OneJob, SeenExact, "ack" \notin Faults,
           [Next]_vars
    PROVE  SeenExact'
  <1>. SUFFICES ASSUME NEW h \in Handlers, handler'[h].pc = "reset"
                PROVE  \A b \in Batches : b = handler'[h].batch =>
                            handler'[h].seen = FailedPhotos(b)'
    <2>1. \A g \in Handlers : handler'[g].pc = "reset" => handler'[g].batch \in Batches
      BY NextTyped DEF Shape
    <2>. QED
      BY <2>1 DEF SeenExact
  <1>1. ASSUME NEW u \in Users, NEW b \in Batches, Retry(h, u, b)
        PROVE  handler'[h].batch = b /\ handler'[h].seen = FailedPhotos(b)'
    <2>1. item' = item /\ handler'[h].seen = FailedPhotos(b) /\ handler'[h].batch = b
      BY <1>1, RetryEffect DEF FailedPhotos
    <2>. QED
      BY <2>1, FailedSame
  <1>2. CASE handler'[h] = handler[h]
    <2>1. PICK b \in Batches : b = handler[h].batch /\ Exists(b)
      BY <1>2 DEF Shape
    <2>2. ASSUME NEW g \in Handlers, Reset(g), handler[g].batch = b
          PROVE  FALSE
      <3>1. g = h
        BY <2>1, <2>2, ConstantsAssumption DEF OneJob, JobsApart
      <3>. QED
        BY <1>2, <2>2, <3>1, ResetEffect
    <2>3. worker.pc = "idle" \/ worker.batch # b
      BY <2>1 DEF OneJob, JobsApart
    <2>4. FailedPhotos(b)' = FailedPhotos(b)
      BY <2>1, <2>2, <2>3, FailedGrows
    <2>. QED
      BY <1>2, <2>1, <2>4 DEF SeenExact
  <1>. QED
    BY <1>1, <1>2, ResetPending

FailedExact == \A b \in Batches : batch[b].failed = FailedPhotos(b)

LEMMA FailedExactInductive ==
    ASSUME TypeOK, Shape, SnapshotFresh, SeenExact, FailedExact, "ack" \notin Faults,
           [Next]_vars
    PROVE  FailedExact'
  <1>. SUFFICES ASSUME NEW b \in Batches
                PROVE  batch'[b].failed = FailedPhotos(b)'
    BY DEF FailedExact
  <1>0. /\ batch[b].failed = FailedPhotos(b) /\ FailedPhotos(b) \in Nat
        /\ batch'[b].failed \in Int /\ FailedPhotos(b)' \in Nat
    BY NextTyped, FailedPhotosType, SlotsFinite
    DEF TypeOK, BatchRow, FailedExact, FailedPhotos, SlotsIn
  <1>1. CASE ~\E h \in Handlers : Reset(h)
    <2>1. batch'[b].failed - FailedPhotos(b)' \in {batch[b].failed - FailedPhotos(b), 0}
      BY <1>1, SlackKept DEF Slack
    <2>. QED
      BY <1>0, <2>1
  <1>2. ASSUME NEW h \in Handlers, Reset(h)
        PROVE  batch'[b].failed = FailedPhotos(b)'
    <2>1. PICK c \in Batches :
              /\ handler[h].pc = "reset" /\ c = handler[h].batch
              /\ FailedPhotos(c)' = 0
              /\ batch'[c].failed = batch[c].failed - handler[h].seen
              /\ \A d \in Batches : d # c =>
                    batch'[d] = batch[d] /\ FailedPhotos(d)' = FailedPhotos(d)
      BY <1>2, ResetFailedNone
    <2>2. handler[h].seen = FailedPhotos(c)
      BY <2>1 DEF SeenExact
    <2>. QED
      BY <1>0, <2>1, <2>2
  <1>. QED
    BY <1>1, <1>2

\* Between them they say what holds in every state of clients that retry only
\* what they saw finished, when no reply of the worker's writes is lost.
FinishedInv ==
    TypeOK /\ Shape /\ SnapshotFresh /\ OneJob /\ SeenExact /\ FailedExact

LEMMA FinishedInvInductive ==
    ASSUME FinishedInv, Discipline = "finished", "ack" \notin Faults, [Next]_vars
    PROVE  FinishedInv'
  BY NextTyped, SnapshotInductive, OneJobInductive, SeenExactInductive,
     FailedExactInductive
  DEF FinishedInv

LEMMA InitFinishedInv == Init => FinishedInv
  <1>1. ASSUME Init
        PROVE  SeenExact /\ FailedExact
    BY <1>1, InitFailedNone DEF SeenExact, FailedExact
  <1>. QED
    BY <1>1, InitTyped, InitSnapshot, InitOneJob DEF FinishedInv

\* If clients retry only what they saw finished, the failed counter that
\* decides a batch's final status is the number of its failed photos, through
\* crashes and failing calls: no job runs between a retry's count and its reset.
THEOREM FailedCountedCorrect == Spec => []FailedCounted
  <1>. DEFINE Inv == Discipline = "finished" /\ "ack" \notin Faults => FinishedInv
  <1>1. Init => Inv
    BY InitFinishedInv
  <1>2. Inv /\ [Next]_vars => Inv'
    BY FinishedInvInductive
  <1>3. Inv => FailedCounted
    BY DEF FinishedInv, FailedExact, FailedCounted, FailedPhotos
  <1>. QED
    BY <1>1, <1>2, <1>3, PTL DEF Spec

----------------------------------------------------------------------------
(* What a finished batch is                                                *)

\* Only an insert, a reset and the running job touch a row or its photos.
LEMMA RowsUntouched ==
    ASSUME TypeOK, [Next]_vars,
           ~\E h \in Handlers, b \in Batches : Insert(h, b),
           ~\E h \in Handlers : Reset(h), ~JobStep
    PROVE  batch' = batch /\ item' = item
  <1>1. ASSUME NEW h \in Handlers, Request(h) \/ HandlerStep(h) \/ HandlerFails(h)
        PROVE  batch' = batch /\ item' = item
    BY <1>1
    DEF Request, PostBatch, Retry, HandlerStep, Replay, KeyIsNew, RejectActive,
        NoneActive, InsertRefused, PresignAndEnqueue, EnqueueRetry, HandlerFails
  <1>2. CASE TakeJob \/ Crash \/ UNCHANGED vars
             \/ \E b \in Batches, s \in Slots : Upload(b, s)
    BY <1>2 DEF TakeJob, Crash, vars, Upload
  <1>3. ~WorkerCallFails /\ ~JobFails /\ ~\E s \in Slots : InspectFails(s)
    BY DEF JobStep
  <1>4. WorkerStep => TakeJob
    BY DEF WorkerStep, JobStep
  <1>. QED
    BY <1>1, <1>2, <1>3, <1>4 DEF Next, Failure

\* A batch has a photo: the first.
HasPhoto == \A b \in Batches : Exists(b) => item[b][1] # "NONE"

LEMMA HasPhotoInductive ==
    ASSUME TypeOK, Shape, SnapshotFresh, "ack" \notin Faults, HasPhoto, [Next]_vars
    PROVE  HasPhoto'
  <1>. SUFFICES ASSUME NEW b \in Batches, batch'[b].status # "ABSENT"
                PROVE  item'[b][1] # "NONE"
    BY DEF HasPhoto, Exists
  <1>0. 1 \in Slots /\ item \in [Batches -> [Slots -> SlotState]]
    BY ConstantsAssumption DEF Slots, TypeOK
  <1>1. CASE item'[b] = item[b] /\ Exists(b)
    BY <1>1 DEF HasPhoto
  <1>2. ASSUME NEW h \in Handlers, NEW c \in Batches, Insert(h, c)
        PROVE  item'[b][1] # "NONE"
    <2>1. CASE b = c
      BY <1>2, <2>1, InsertEffect
    <2>2. CASE b # c
      <3>1. batch'[b] = batch[b] /\ item'[b] = item[b]
        BY <1>2, <2>2, InsertEffect
      <3>. QED
        BY <1>1, <3>1 DEF Exists
    <2>. QED
      BY <2>1, <2>2
  <1>3. ASSUME NEW h \in Handlers, Reset(h)
        PROVE  item'[b][1] # "NONE"
    <2>1. CASE b = handler[h].batch
      <3>1. item[b][1] # "NONE"
        BY <1>3, <2>1 DEF HasPhoto, Reset, Shape
      <3>. QED
        BY <1>0, <1>3, <2>1, <3>1, ResetEffect
    <2>2. CASE b # handler[h].batch
      <3>1. batch'[b] = batch[b] /\ item'[b] = item[b]
        BY <1>3, <2>2, ResetEffect
      <3>. QED
        BY <1>1, <3>1 DEF Exists
    <2>. QED
      BY <2>1, <2>2
  <1>4. ASSUME NEW a \in Answers, MarkCompleted(a) \/ MarkFailed(a)
        PROVE  item'[b][1] # "NONE"
    <2>1. PICK outcome \in {"COMPLETED", "FAILED"} :
              item' = [item EXCEPT ![worker.batch][worker.slot] = outcome]
      BY <1>4, MarkEffect DEF MarkItem
    <2>2. item'[b][1] \in {item[b][1], outcome}
      BY <1>0, <2>1
    <2>3. Exists(b)
      <3>1. CASE b = worker.batch
        BY <1>4, <3>1, MarkEffect
      <3>2. CASE b # worker.batch
        <4>1. batch'[b] = batch[b]
          BY <1>4, <3>2, JobEffect DEF JobStep
        <4>. QED
          BY <4>1 DEF Exists
      <3>. QED
        BY <3>1, <3>2
    <2>. QED
      BY <2>2, <2>3 DEF HasPhoto
  <1>5. CASE item' = item /\ ~\E h \in Handlers, c \in Batches : Insert(h, c)
    <2>1. Exists(b)
      <3>1. CASE batch'[b] = batch[b]
        BY <3>1 DEF Exists
      <3>2. CASE \E h \in Handlers : Reset(h)
        <4>1. PICK h \in Handlers : Reset(h)
          BY <3>2
        <4>2. b = handler[h].batch \/ batch'[b] = batch[b]
          BY <4>1, ResetEffect
        <4>. QED
          BY <3>1, <4>1, <4>2 DEF Reset, Shape
      <3>3. CASE JobStep
        <4>1. b = worker.batch \/ batch'[b] = batch[b]
          BY <3>3, JobEffect
        <4>2. worker.pc # "idle"
          BY <3>3, JobEffect
        <4>. QED
          BY <3>1, <4>1, <4>2 DEF Shape
      <3>. QED
        BY <1>5, <3>1, <3>2, <3>3, RowsUntouched
    <2>. QED
      BY <1>1, <1>5, <2>1
  <1>. QED
    BY <1>2, <1>3, <1>4, <1>5, PhotosTouched

\* Every waiting photo of the batch of the running job is one the job has
\* still to treat.
JobCovers == worker.pc # "idle" => SlotsIn(worker.batch, "PENDING") \subseteq Unfinished

\* The verdict the job is about to write is still that of its batch's row.
VerdictFresh == worker.pc = "finish" => worker.verdict = Verdict(batch[worker.batch])

\* No request touches the batch of the running job.
LEMMA JobUndisturbed ==
    ASSUME TypeOK, Shape, OneJob, worker.pc # "idle", [Next]_vars,
           ~JobStep, ~Crash
    PROVE  /\ worker' = worker
           /\ item'[worker.batch] = item[worker.batch]
           /\ batch'[worker.batch] = batch[worker.batch]
  <1>0. worker.batch \in Batches /\ Exists(worker.batch)
        /\ \A h \in Handlers : handler[h].batch # worker.batch
    BY DEF Shape, OneJob, JobsApart
  <1>1. ASSUME NEW h \in Handlers, NEW b \in Batches, Insert(h, b)
        PROVE  /\ worker' = worker
               /\ item'[worker.batch] = item[worker.batch]
               /\ batch'[worker.batch] = batch[worker.batch]
    BY <1>0, <1>1, InsertEffect
  <1>2. ASSUME NEW h \in Handlers, Reset(h)
        PROVE  /\ worker' = worker
               /\ item'[worker.batch] = item[worker.batch]
               /\ batch'[worker.batch] = batch[worker.batch]
    BY <1>0, <1>2, ResetEffect
  <1>3. worker' = worker
    <2>1. ASSUME NEW h \in Handlers, Request(h) \/ HandlerStep(h) \/ HandlerFails(h)
          PROVE  worker' = worker
      BY <2>1, RequestsKeepPending
    <2>2. CASE UNCHANGED vars \/ \E b \in Batches, s \in Slots : Upload(b, s)
      BY <2>2 DEF vars, Upload
    <2>3. ~TakeJob
      BY DEF TakeJob
    <2>4. ~WorkerCallFails /\ ~JobFails /\ ~WorkerStep
          /\ ~\E s \in Slots : InspectFails(s)
      BY <2>3 DEF JobStep, WorkerStep
    <2>. QED
      BY <2>1, <2>2, <2>4 DEF Next, Failure
  <1>. QED
    BY <1>1, <1>2, <1>3, RowsUntouched

LEMMA JobCoversInductive ==
    ASSUME TypeOK, Shape, OneJob, JobCovers, "ack" \notin Faults, [Next]_vars
    PROVE  JobCovers'
  <1>. SUFFICES ASSUME worker'.pc # "idle", NEW s \in Slots,
                       item'[worker'.batch][s] = "PENDING"
                PROVE  s \in Unfinished'
    BY DEF JobCovers, SlotsIn
  <1>0. worker.pc # "idle" /\ item[worker.batch][s] = "PENDING" => s \in Unfinished
    BY DEF JobCovers, SlotsIn
  <1>1. CASE JobStep
    <2>1. worker'.batch = worker.batch /\ worker.pc # "idle" /\ worker.batch \in Batches
      BY <1>1, JobEffect DEF IdleWorker
    <2>2. CASE \/ \E t \in Slots : Inspect(t) \/ InspectFails(t)
               \/ \E a \in Answers : MarkProcessing(a) \/ CreateItem(a)
               \/ ReadFinal \/ MarkFinal
      BY <1>0, <2>1, <2>2, TreatmentKept
    <2>3. ASSUME NEW a \in Answers, MarkCompleted(a) \/ MarkFailed(a)
          PROVE  s \in Unfinished'
      <3>1. PICK outcome \in {"COMPLETED", "FAILED"} :
                item' = [item EXCEPT ![worker.batch][worker.slot] = outcome]
        BY <2>3, MarkEffect DEF MarkItem
      <3>2. worker.slot \in Slots /\ item \in [Batches -> [Slots -> SlotState]]
        BY <2>3, MarkEffect DEF TypeOK
      <3>3. s # worker.slot /\ item[worker.batch][s] = "PENDING"
        BY <2>1, <3>1, <3>2
      <3>. QED
        BY <1>0, <2>1, <2>3, <3>3, SettledRest
    <2>4. ASSUME WorkerCallFails
          PROVE  s \in Unfinished'
      <3>1. worker \in WorkerState
        BY DEF TypeOK
      <3>2. worker'.pc = "markFailed" /\ worker'.slot = worker.slot
            /\ worker'.todo = worker.todo /\ worker.pc \in InTreatment /\ item' = item
        BY <2>4, <3>1 DEF WorkerCallFails, Caught, WorkerState, InTreatment
      <3>. QED
        BY <1>0, <2>1, <3>2 DEF Unfinished, InTreatment
    <2>5. ~JobFails
      BY DEF JobFails, EndJob, IdleWorker
    <2>. QED
      BY <1>1, <2>2, <2>3, <2>4, <2>5 DEF JobStep
  <1>2. CASE TakeJob
    BY <1>2 DEF TakeJob, IdleWorker, Snapshot, SlotsIn, Unfinished
  <1>3. CASE worker.pc # "idle" /\ ~JobStep /\ ~Crash
    BY <1>0, <1>3, JobUndisturbed DEF Unfinished
  <1>4. CASE worker.pc = "idle" /\ ~TakeJob
    <2>1. worker' = worker
      <3>1. ASSUME NEW h \in Handlers, Request(h) \/ HandlerStep(h) \/ HandlerFails(h)
            PROVE  worker' = worker
        BY <3>1, RequestsKeepPending
      <3>2. CASE UNCHANGED vars \/ \E b \in Batches, t \in Slots : Upload(b, t)
        BY <3>2 DEF vars, Upload
      <3>3. ~JobStep /\ ~Crash
        BY <1>4, JobEffect DEF Crash, IdleWorker
      <3>4. ~WorkerCallFails /\ ~JobFails /\ ~WorkerStep
            /\ ~\E t \in Slots : InspectFails(t)
        BY <1>4, <3>3 DEF JobStep, WorkerStep
      <3>. QED
        BY <3>1, <3>2, <3>3, <3>4 DEF Next, Failure
    <2>. QED
      BY <1>4, <2>1
  <1>5. ~Crash
    BY DEF Crash, IdleWorker
  <1>. QED
    BY <1>1, <1>2, <1>3, <1>4, <1>5

LEMMA VerdictInductive ==
    ASSUME TypeOK, Shape, OneJob, VerdictFresh, [Next]_vars
    PROVE  VerdictFresh'
  <1>. SUFFICES ASSUME worker'.pc = "finish"
                PROVE  worker'.verdict = Verdict(batch'[worker'.batch])
    BY DEF VerdictFresh, Verdict
  <1>0. worker \in WorkerState
    BY DEF TypeOK
  <1>1. CASE ReadFinal
    BY <1>0, <1>1 DEF ReadFinal, WorkerState
  <1>2. CASE worker' = worker
    <2>1. worker.pc # "idle" /\ worker.pc = "finish"
      BY <1>2
    <2>2. CASE JobStep
      <3>1. batch' = batch
        BY <1>0, <1>2, <2>1, <2>2
        DEF JobStep, ReadFinal, MarkFinal, WorkerCallFails, JobFails, Inspect,
            InspectFails, MarkProcessing, CreateItem, MarkCompleted, MarkFailed,
            EndJob, IdleWorker
      <3>. QED
        BY <1>2, <2>1, <3>1 DEF VerdictFresh
    <2>3. CASE ~JobStep
      <3>1. ~Crash
        BY <1>2, <2>1 DEF Crash, IdleWorker
      <3>. QED
        BY <1>2, <2>1, <2>3, <3>1, JobUndisturbed DEF VerdictFresh
    <2>. QED
      BY <2>2, <2>3
  <1>3. ASSUME NEW pc, pc # "finish", worker' = [worker EXCEPT !.pc = pc]
        PROVE  FALSE
    BY <1>0, <1>3 DEF WorkerState
  <1>4. worker' # IdleWorker
    BY DEF IdleWorker
  <1>5. ASSUME NEW s \in Slots, Inspect(s) \/ InspectFails(s)
        PROVE  FALSE
    BY <1>0, <1>5 DEF Inspect, InspectFails, WorkerState
  <1>6. CASE WorkerStep \/ WorkerCallFails \/ JobFails \/ Crash
    BY <1>1, <1>3, <1>4, <1>5, <1>6
    DEF WorkerStep, TakeJob, MarkFinal, MarkProcessing, CreateItem, MarkCompleted,
        MarkFailed, WorkerCallFails, JobFails, Crash, Caught, EndJob, IdleWorker
  <1>7. ASSUME NEW h \in Handlers, Request(h) \/ HandlerStep(h) \/ HandlerFails(h)
        PROVE  worker' = worker
    BY <1>7, RequestsKeepPending
  <1>8. CASE UNCHANGED vars \/ \E b \in Batches, s \in Slots : Upload(b, s)
    BY <1>2, <1>8 DEF vars, Upload
  <1>. QED
    BY <1>2, <1>5, <1>6, <1>7, <1>8 DEF Next, Failure

Settled ==
    \A b \in Batches : batch[b].status \in FinishedStatus =>
        /\ SlotsIn(b, "PENDING") = {}
        /\ batch[b].status = "FAILED" <=> SlotsIn(b, "COMPLETED") = {}

\* What holds besides FinishedInv, and is needed to see that a job ends with
\* the right status.
SettledInv ==
    FinishedInv /\ CompletedCounted /\ HasPhoto /\ JobCovers /\ VerdictFresh /\ Settled

\* The verdict is FAILED exactly when the counters show failures and nothing
\* registered, and the counters are right.
LEMMA VerdictRight ==
    ASSUME SettledInv, "ack" \notin Faults, MarkFinal
    PROVE  /\ worker.batch \in Batches
           /\ SlotsIn(worker.batch, "PENDING") = {}
           /\ worker.verdict = "FAILED" <=> SlotsIn(worker.batch, "COMPLETED") = {}
  <1>0. TypeOK /\ Shape /\ SnapshotFresh /\ FailedExact /\ CompletedCounted /\ HasPhoto
        /\ JobCovers /\ VerdictFresh
    BY DEF SettledInv, FinishedInv
  <1>1. worker.pc = "finish" /\ worker.todo = {}
    BY <1>0 DEF MarkFinal, Shape
  <1>2. PICK b \in Batches : b = worker.batch /\ Exists(b)
    BY <1>0, <1>1 DEF Shape
  <1>3. SlotsIn(b, "PENDING") = {}
    BY <1>0, <1>1, <1>2 DEF JobCovers, Unfinished, InTreatment
  <1>4. /\ IsFiniteSet(SlotsIn(b, "COMPLETED")) /\ IsFiniteSet(SlotsIn(b, "FAILED"))
        /\ Cardinality(SlotsIn(b, "COMPLETED")) \in Nat
        /\ Cardinality(SlotsIn(b, "FAILED")) \in Nat
    BY SlotsFinite DEF SlotsIn
  <1>5. /\ batch[b].completed = Cardinality(SlotsIn(b, "COMPLETED"))
        /\ batch[b].failed = Cardinality(SlotsIn(b, "FAILED"))
    BY <1>0 DEF CompletedCounted, FailedExact, FailedPhotos
  <1>6. batch[b].completed = 0 <=> SlotsIn(b, "COMPLETED") = {}
    BY <1>4, <1>5, FS_EmptySet
  <1>7. SlotsIn(b, "COMPLETED") = {} => batch[b].failed > 0
    <2>1. 1 \in Slots /\ item[b][1] \in {"PENDING", "COMPLETED", "FAILED"}
      BY <1>0, <1>2, ConstantsAssumption DEF HasPhoto, TypeOK, SlotState, Slots
    <2>2. SlotsIn(b, "COMPLETED") = {} => 1 \in SlotsIn(b, "FAILED")
      BY <1>3, <2>1 DEF SlotsIn
    <2>3. 1 \in SlotsIn(b, "FAILED") => Cardinality(SlotsIn(b, "FAILED")) # 0
      BY <1>4, FS_EmptySet
    <2>. QED
      BY <1>4, <1>5, <2>2, <2>3
  <1>8. worker.verdict = "FAILED" <=> batch[b].failed > 0 /\ batch[b].completed = 0
    BY <1>0, <1>1, <1>2 DEF VerdictFresh, Verdict
  <1>. QED
    BY <1>2, <1>3, <1>6, <1>7, <1>8

\* A batch that is finished after a step was so before, with the same photos
\* and the same status, or the job that ends has just finished it.
LEMMA FinishedStays ==
    ASSUME TypeOK, Shape, OneJob, [Next]_vars, NEW b \in Batches,
           batch'[b].status \in FinishedStatus
    PROVE  \/ batch'[b].status = batch[b].status /\ item'[b] = item[b]
           \/ /\ MarkFinal /\ b = worker.batch /\ item' = item
              /\ batch'[b].status = worker.verdict
  <1>0. "PENDING" \notin FinishedStatus /\ "PROCESSING" \notin FinishedStatus
    BY DEF FinishedStatus
  <1>1. ASSUME NEW h \in Handlers, NEW c \in Batches, Insert(h, c)
        PROVE  batch'[b].status = batch[b].status /\ item'[b] = item[b]
    BY <1>0, <1>1, InsertEffect
  <1>2. ASSUME NEW h \in Handlers, Reset(h)
        PROVE  batch'[b].status = batch[b].status /\ item'[b] = item[b]
    BY <1>0, <1>2, ResetEffect
  <1>3. CASE JobStep
    <2>1. CASE b # worker.batch
      BY <1>3, <2>1, JobEffect
    <2>2. CASE b = worker.batch
      <3>1. batch[b].status \notin FinishedStatus
        BY <1>3, <2>2, JobEffect DEF OneJob, JobsActive, ActiveStatus, FinishedStatus
      <3>2. batch \in [Batches -> BatchRow]
        BY DEF TypeOK
      <3>3. CASE MarkFinal
        BY <2>2, <3>2, <3>3 DEF MarkFinal, BatchRow
      <3>4. ASSUME NEW a \in Answers, MarkProcessing(a)
            PROVE  FALSE
        BY <1>0, <2>2, <3>2, <3>4 DEF MarkProcessing, BatchRow
      <3>5. ASSUME NEW a \in Answers, MarkCompleted(a) \/ MarkFailed(a)
            PROVE  FALSE
        <4>1. PICK outcome : MarkItem(worker.batch, worker.slot, outcome)
          BY <3>5, MarkEffect
        <4>2. Count(batch[b], outcome).status = batch[b].status
          BY <3>2 DEF Count, BatchRow
        <4>3. batch'[b].status = batch[b].status
          BY <2>2, <3>2, <4>1, <4>2 DEF MarkItem
        <4>. QED
          BY <3>1, <4>3
      <3>6. ASSUME batch' = batch
            PROVE  FALSE
        BY <3>1, <3>6
      <3>. QED
        BY <1>3, <3>3, <3>4, <3>5, <3>6
        DEF JobStep, ReadFinal, WorkerCallFails, JobFails, Inspect, InspectFails,
            CreateItem
    <2>. QED
      BY <2>1, <2>2
  <1>. QED
    BY <1>1, <1>2, <1>3, RowsUntouched

LEMMA SettledInductive ==
    ASSUME SettledInv, "ack" \notin Faults, [Next]_vars
    PROVE  Settled'
  <1>. SUFFICES ASSUME NEW b \in Batches, batch'[b].status \in FinishedStatus
                PROVE  /\ SlotsIn(b, "PENDING")' = {}
                       /\ batch'[b].status = "FAILED" <=> SlotsIn(b, "COMPLETED")' = {}
    BY DEF Settled
  <1>0. TypeOK /\ Shape /\ OneJob /\ Settled
    BY DEF SettledInv, FinishedInv
  <1>1. \A st \in SlotState : item'[b] = item[b] => SlotsIn(b, st)' = SlotsIn(b, st)
    BY DEF SlotsIn
  <1>2. "PENDING" \in SlotState /\ "COMPLETED" \in SlotState
    BY DEF SlotState
  <1>3. CASE batch'[b].status = batch[b].status /\ item'[b] = item[b]
    BY <1>0, <1>1, <1>2, <1>3 DEF Settled
  <1>4. CASE /\ MarkFinal /\ b = worker.batch /\ item' = item
             /\ batch'[b].status = worker.verdict
    BY <1>1, <1>2, <1>4, VerdictRight
  <1>. QED
    BY <1>0, <1>3, <1>4, FinishedStays

\* If clients retry only what they saw finished, a finished batch has no
\* waiting photo and is FAILED exactly when no photo was registered, though
\* process computes the status from the two counters alone and crashes and
\* failing calls may end a job anywhere.
THEOREM FinishedIsSettledCorrect == Spec => []FinishedIsSettled
  <1>. DEFINE Inv == Discipline = "finished" /\ "ack" \notin Faults => SettledInv
  <1>1. Init => Inv
    <2>1. ASSUME Init
          PROVE  HasPhoto /\ JobCovers /\ VerdictFresh /\ Settled
      <3>1. \A b \in Batches : batch[b].status = "ABSENT"
        BY <2>1 DEF Init, NoRow
      <3>2. worker.pc = "idle"
        BY <2>1 DEF Init, IdleWorker
      <3>. QED
        BY <3>1, <3>2
        DEF HasPhoto, JobCovers, VerdictFresh, Settled, Exists, FinishedStatus
    <2>. QED
      BY <2>1, InitFinishedInv, InitCounted DEF SettledInv
  <1>2. Inv /\ [Next]_vars => Inv'
    <2>. SUFFICES ASSUME SettledInv, Discipline = "finished", "ack" \notin Faults,
                         [Next]_vars
                  PROVE  SettledInv'
      OBVIOUS
    <2>1. FinishedInv /\ CountInv /\ TypeOK /\ Shape /\ SnapshotFresh /\ OneJob
      BY DEF SettledInv, FinishedInv, CountInv
    <2>2. FinishedInv' /\ CompletedCounted'
      BY <2>1, FinishedInvInductive, CountInductive
    <2>3. HasPhoto' /\ JobCovers' /\ VerdictFresh'
      BY <2>1, HasPhotoInductive, JobCoversInductive, VerdictInductive DEF SettledInv
    <2>. QED
      BY <2>2, <2>3, SettledInductive DEF SettledInv
  <1>3. Inv => FinishedIsSettled
    BY DEF SettledInv, Settled, FinishedIsSettled
  <1>. QED
    BY <1>1, <1>2, <1>3, PTL DEF Spec

============================================================================
