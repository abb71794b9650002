------------------------------ MODULE MCKVQueue ------------------------------
(* The model-checking run of KVQueue; kv_queue.cfg gives the values.       *)
EXTENDS KVQueue, TLC

Sym == Permutations(Message) \union Permutations(Host) \union Permutations(Slot)
=============================================================================
