----------------------------- MODULE MCStreams -----------------------------
(* Streams over all three worlds, with one live reader and two writers.    *)
EXTENDS Streams
MCStart == {-1, 0, 1}
=============================================================================
