---------------------------- MODULE MCPolledStore ----------------------------
(* The model-checking run of PolledStore; polled_store.cfg gives the       *)
(* values.                                                                 *)
EXTENDS PolledStore, TLC

CONSTANTS r1, r2, s1, h1, h2, h3, w1, w2, t1, t2

\* Two runs, each with a hook, a wait, and a hook for a token both want.
StepOfRun == s1 :> r1
RunOfHook == h1 :> r1 @@ h2 :> r2 @@ h3 :> r2
TokenOfHook == h1 :> t1 @@ h2 :> t1 @@ h3 :> t2
RunOfWait == w1 :> r1 @@ w2 :> r2

\* Nothing; or both runs at work.
AtWork ==
  [NoData EXCEPT !.run = [r \in Run |-> "running"], !.byStatus["running"] = Run,
     !.step[s1] = "running",
     !.hooks = <<Entry(h1, "live"), Entry(h3, "live")>>,
     !.tokens = <<Entry(h1, "claim"), Entry(h3, "claim")>>,
     !.byRun = {h1, h3},
     !.waits = <<Entry(w1, "waiting"), Entry(w2, "waiting")>>,
     !.log[r1] = <<[type |-> "run_created", on |-> r1], [type |-> "run_started", on |-> r1],
                   [type |-> "step_created", on |-> s1], [type |-> "hook_created", on |-> h1],
                   [type |-> "wait_created", on |-> w1], [type |-> "step_started", on |-> s1]>>,
     !.log[r2] = <<[type |-> "run_created", on |-> r2], [type |-> "run_started", on |-> r2],
                   [type |-> "hook_created", on |-> h3], [type |-> "wait_created", on |-> w2]>>]
Begins == {NoData, AtWork}
=============================================================================
