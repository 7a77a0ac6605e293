---------------------------- MODULE TaskLifecycle ----------------------------
(***************************************************************************)
(* What the engine promises about a task, without operations, documents,   *)
(* approvals that expire or crashes: a plan is made and a human agrees to  *)
(* it, attempts are made until one is good, a human agrees to the external *)
(* action, the action happens once, and the task ends.  A task may block   *)
(* where work is done and fail where work is done; it may be cancelled     *)
(* until the action has succeeded.                                         *)
(***************************************************************************)
EXTENDS Naturals

CONSTANT MaxAttempts

VARIABLES
    phase,      \* what the task is waiting for
    attempts,   \* attempts begun
    effect      \* the external action's outcome

vars == <<phase, attempts, effect>>

Ended == {"failed", "completed", "cancelled"}
AtWork == {"planning", "attempting", "acting"}

Init == phase = "planning" /\ attempts = 0 /\ effect = "none"

Move(from, to) == phase = from /\ phase' = to /\ UNCHANGED effect

Ask == Move("planning", "plan pause") /\ UNCHANGED attempts
DecidePlan == Move("plan pause", "planning") \/ Move("plan pause", "attempting")
BeginAttempt ==
    /\ phase = "attempting"
    /\ attempts < MaxAttempts
    /\ attempts' = attempts + 1
    /\ UNCHANGED <<phase, effect>>
AskAgain == Move("attempting", "action pause")
DecideAction == Move("action pause", "acting") \/ Move("action pause", "attempting")

Act ==
    /\ phase = "acting"
    /\ effect = "none"
    /\ effect' \in {"succeeded", "failed"}
    /\ UNCHANGED <<phase, attempts>>
Create == effect = "succeeded" /\ Move("acting", "created")
Finish == Move("created", "completed")

Block == \E p \in AtWork : Move(p, "blocked")
Recover == Move("blocked", "attempting")
Fail == \E p \in AtWork : Move(p, "failed")
Cancel ==
    /\ phase \notin Ended \cup {"created"}
    /\ effect # "succeeded"
    /\ phase' = "cancelled"
    /\ UNCHANGED effect

Next ==
    \/ Ask \/ BeginAttempt \/ Act
    \/ UNCHANGED attempts /\ (DecidePlan \/ AskAgain \/ DecideAction \/ Create \/ Finish
                              \/ Block \/ Recover \/ Fail \/ Cancel)

Spec == Init /\ [][Next]_vars

=============================================================================
