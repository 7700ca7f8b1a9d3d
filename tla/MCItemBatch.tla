---------------------------- MODULE MCItemBatch ----------------------------
(* Small instances of ItemBatch for TLC. *)
EXTENDS ItemBatch, TLC

CONSTANTS u1, k1, b1, b2, h1, h2

NoKeys == {}

\* Row ids and requests are interchangeable; sound for the safety runs only.
Symmetric == Permutations(Batches) \cup Permutations(Handlers)
============================================================================
