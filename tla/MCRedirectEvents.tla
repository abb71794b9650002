------------------------ MODULE MCRedirectEvents ------------------------
(* The model-checking runs of RedirectEvents. *)
EXTENDS RedirectEvents, TLC

CONSTANTS r1, r2, s1, h1, h2, w1, t1

\* r1 has a step, a wait and a hook; r2's hook is after the same token.
InRunOne == s1 :> r1
WaitInRunOne == w1 :> r1
RivalHooks == h1 :> r1 @@ h2 :> r2
SameToken == h1 :> t1 @@ h2 :> t1
ShortLogs == r1 :> 5 @@ r2 :> 2
==========================================================================
