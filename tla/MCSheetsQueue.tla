---------------------------- MODULE MCSheetsQueue ----------------------------
(* The model-checking run of SheetsQueue; sheets_queue.cfg gives the       *)
(* values.                                                                 *)
EXTENDS SheetsQueue, TLC

Sym == Permutations(Message) \union Permutations(Slot) \union Permutations(Host)
=============================================================================
