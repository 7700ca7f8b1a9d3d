---------------------------- MODULE BatchLedger ----------------------------
(***************************************************************************)
(* What the bulk registration API of my-closet promises about the photos   *)
(* of its batches, with no queue, no worker, no request handler and no     *)
(* counter: each photo of a batch is waiting, registered or failed; a      *)
(* waiting photo settles once; registered is for ever; a retry puts every  *)
(* failed photo of one batch back to waiting, all of them at once.         *)
(* ItemBatch implements this module (ItemBatch!LedgerSpec).                *)
(***************************************************************************)
EXTENDS Naturals

CONSTANTS
    Batches,    \* identities of ItemBatch rows
    MaxBatch    \* most photos of one batch

VARIABLE item   \* item[b][s]: state of photo s of batch b

SlotState == {"NONE", "PENDING", "COMPLETED", "FAILED"}

LedgerInit == item = [b \in Batches |-> [s \in 1..MaxBatch |-> "NONE"]]

\* A batch of n photos appears, all of them waiting.
Open(b, n) ==
    /\ \A s \in 1..MaxBatch : item[b][s] = "NONE"
    /\ item' = [item EXCEPT ![b] =
            [s \in 1..MaxBatch |-> IF s \in 1..n THEN "PENDING" ELSE "NONE"]]

\* One waiting photo is registered or fails.
Settle(b, s, outcome) ==
    /\ item[b][s] = "PENDING"
    /\ item' = [item EXCEPT ![b][s] = outcome]

\* The failed photos of one batch wait again; there is at least one.
Reopen(b) ==
    /\ \E s \in 1..MaxBatch : item[b][s] = "FAILED"
    /\ item' = [item EXCEPT ![b] =
            [s \in 1..MaxBatch |->
                IF item[b][s] = "FAILED" THEN "PENDING" ELSE item[b][s]]]

LedgerNext ==
    \E b \in Batches :
        \/ \E n \in 1..MaxBatch : Open(b, n)
        \/ \E s \in 1..MaxBatch, outcome \in {"COMPLETED", "FAILED"} :
                Settle(b, s, outcome)
        \/ Reopen(b)

LedgerSpec == LedgerInit /\ [][LedgerNext]_item

============================================================================
