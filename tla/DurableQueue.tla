---------------------------- MODULE DurableQueue ----------------------------
(***************************************************************************)
(* What the work queue promises while no process crashes and no fetch      *)
(* fails: a job that was put is, until it is completed or has failed       *)
(* MaxAttempts times, always either ready or held by exactly one worker.   *)
(***************************************************************************)
EXTENDS Naturals

CONSTANTS Message, MaxAttempts

VARIABLES state, tries

absVars == <<state, tries>>

AbsInit ==
    /\ state = [m \in Message |-> "new"]
    /\ tries = [m \in Message |-> 0]

Move(m, from, to) ==
    /\ state[m] = from
    /\ state' = [state EXCEPT ![m] = to]

Put(m) == Move(m, "new", "ready") /\ UNCHANGED tries

Take(m) == Move(m, "ready", "held") /\ UNCHANGED tries

\* A delivery that failed or asked for a later one ends; the job is ready again.
Return(m) == Move(m, "held", "ready") /\ UNCHANGED tries

Fail(m) ==
    /\ state[m] = "held"
    /\ tries[m] + 1 < MaxAttempts
    /\ tries' = [tries EXCEPT ![m] = @ + 1]
    /\ UNCHANGED state

Drop(m) ==
    /\ Move(m, "held", "dropped")
    /\ tries[m] + 1 = MaxAttempts
    /\ tries' = [tries EXCEPT ![m] = MaxAttempts]

Complete(m) == Move(m, "held", "done") /\ UNCHANGED tries

AbsNext ==
    \E m \in Message :
        Put(m) \/ Take(m) \/ Return(m) \/ Fail(m) \/ Drop(m) \/ Complete(m)

AbsSpec == AbsInit /\ [][AbsNext]_absVars
=============================================================================
