------------------------- MODULE MCRedirectQueue -------------------------
(* The model-checking runs of RedirectQueue; the cfg files give the values. *)
EXTENDS RedirectQueue, TLC

CONSTANT Ordinary  \* the messages a permutation may exchange

\* Message ids and slots are interchangeable.
Sym == Permutations(Ordinary) \union Permutations(Slot)
===========================================================================
