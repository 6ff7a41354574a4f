---------------------------- MODULE TaskPromise ----------------------------
(***************************************************************************)
(* What the background task queue promises the rest of Control Panel, with *)
(* no queue, no rows and no workers in sight: a task that was asked for is *)
(* either done at least once, or given up - and it is given up only after  *)
(* an administrator cancelled it or the broker outlived its retention.     *)
(* TaskQueue implements this specification.                                *)
(***************************************************************************)
CONSTANT Tasks

VARIABLES
  fate,       \* fate[t]: what has become of the task so far
  waived      \* tasks the system has been allowed to give up

Fates == {"unasked", "pending", "done", "givenUp"}

promiseVars == <<fate, waived>>

PromiseTypeOK ==
  /\ fate \in [Tasks -> Fates]
  /\ waived \subseteq Tasks

PromiseInit ==
  /\ fate = [t \in Tasks |-> "unasked"]
  /\ waived = {}

\* A request asks for the task.
Ask(t) ==
  /\ fate[t] = "unasked"
  /\ fate' = [fate EXCEPT ![t] = "pending"]
  /\ UNCHANGED waived

\* The task takes effect; at-least-once, so also after it was given up,
\* by a worker that had picked it up earlier.
Do(t) ==
  /\ fate[t] \in {"pending", "givenUp"}
  /\ fate' = [fate EXCEPT ![t] = "done"]
  /\ UNCHANGED waived

\* An administrator cancels the task, or its last message is about to expire.
Waive(t) ==
  /\ waived' = waived \cup {t}
  /\ UNCHANGED fate

\* Only a waived task may be forgotten.
GiveUp(t) ==
  /\ fate[t] = "pending"
  /\ t \in waived'
  /\ fate' = [fate EXCEPT ![t] = "givenUp"]
  /\ waived' \in {waived, waived \cup {t}}

\* An administrator asks again for a task that was given up.
AskAgain(t) ==
  /\ fate[t] = "givenUp"
  /\ fate' = [fate EXCEPT ![t] = "pending"]
  /\ UNCHANGED waived

PromiseNext ==
  \E t \in Tasks : Ask(t) \/ Do(t) \/ Waive(t) \/ GiveUp(t) \/ AskAgain(t)

Promise == PromiseInit /\ [][PromiseNext]_promiseVars
=============================================================================
