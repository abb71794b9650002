------------------------ MODULE MCRedirectCreate ------------------------
(* The model-checking runs of RedirectCreate. *)
EXTENDS RedirectCreate

CONSTANTS c1, c2, c3, a, b, r1, s1, h1, h2, w1, t1

\* Two calls in one process and one in another.
Hosts == c1 :> a @@ c2 :> a @@ c3 :> b

\* One run with everything.
StepOfRun == s1 :> r1
HooksOfRun == h1 :> r1 @@ h2 :> r1
WaitOfRun == w1 :> r1
Tokens == h1 :> t1 @@ h2 :> t1

\* Any three calls, to begin with nothing or a run at work; or what settles a
\* step, with a call to spare for the retry after a fault.
AtWork == <<EventCall("run_started", r1, TRUE), EventCall("step_created", s1, FALSE),
            EventCall("hook_created", h1, FALSE), EventCall("wait_created", w1, FALSE)>>
AllTypes == RunTypes \union StepTypes \union HookTypes \union WaitTypes
AnyCalls(history) == [history |-> history, types |-> AllTypes, calls |-> 3, faults |-> FALSE]
Faulty == [history |-> AtWork, types |-> {"step_completed", "step_failed"}, calls |-> 4,
           faults |-> TRUE]
AllScenes == {AnyCalls(<<>>), AnyCalls(AtWork), Faulty}
=========================================================================
