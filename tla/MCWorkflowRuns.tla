-------------------------- MODULE MCWorkflowRuns --------------------------
(* The model-checking runs of WorkflowRuns. *)
EXTENDS WorkflowRuns, TLC

CONSTANTS r1, s1, s2, s3, h1, w1, t1, p1, p2

RunOfSteps == s1 :> r1 @@ s2 :> r1 @@ s3 :> r1
RunOfHook == h1 :> r1
RunOfWait == w1 :> r1
TokenOfHook == h1 :> t1
LongLogs == r1 :> 40

All(ops) == [ops |-> ops, race |-> FALSE]
Race(ops) == [ops |-> ops, race |-> TRUE]

\* Of examples/standalone: controlFlow, parallel steps and then a sleep;
\* approval, a webhook, here with a step after it
\* that may be retried.
ControlFlow == r1 :> <<All({s1, s2}), All({w1})>>
Approval == r1 :> <<All({h1}), All({s3})>>
\* A step against a deadline, then a webhook.
Deadline == r1 :> <<Race({s1, w1}), All({h1})>>

AllPrograms == {ControlFlow, Approval, Deadline}
OnlyControlFlow == {ControlFlow}

OneRetry == s1 :> 0 @@ s2 :> 0 @@ s3 :> 1
NoRetries == s1 :> 0 @@ s2 :> 0 @@ s3 :> 0

Sym == Permutations(Worker)
==========================================================================
