------------------------------ MODULE Pipeline ------------------------------
(***************************************************************************)
(* What the driver of coelacanth promises, without queue, mutex or         *)
(* threads: a plan of tasks is carried out in an order that respects the   *)
(* inputs of each task, a task is settled once, with a value or with an    *)
(* exception, and the program finishes when every task of the plan has a   *)
(* value, or aborts because one of them has thrown.                        *)
(***************************************************************************)
CONSTANTS Tasks,      \* every task the driver can create
          Needs(_)    \* the tasks whose results a task takes as arguments

VARIABLES plan,       \* the tasks this run of the program asks for
          status,     \* of each task: "none", "pending", "value" or "exception"
          outcome     \* of the program: "running", "done" or "aborted"

vars == <<plan, status, outcome>>

Init ==
  /\ plan \in SUBSET Tasks
  /\ status = [t \in Tasks |-> "none"]
  /\ outcome = "running"

Submit(t) ==
  /\ outcome = "running"
  /\ t \in plan
  /\ status[t] = "none"
  /\ \A n \in Needs(t) : status[n] = "value"
  /\ status' = [status EXCEPT ![t] = "pending"]
  /\ UNCHANGED <<plan, outcome>>

Settle(t, result) ==
  /\ outcome = "running"
  /\ status[t] = "pending"
  /\ status' = [status EXCEPT ![t] = result]
  /\ UNCHANGED <<plan, outcome>>

Finish ==
  /\ outcome = "running"
  /\ \A t \in plan : status[t] = "value"
  /\ outcome' = "done"
  /\ UNCHANGED <<plan, status>>

Abort ==
  /\ outcome = "running"
  /\ \E t \in plan : status[t] = "exception"
  /\ outcome' = "aborted"
  /\ UNCHANGED <<plan, status>>

Next ==
  \/ \E t \in Tasks : Submit(t)
  \/ \E t \in Tasks, result \in {"value", "exception"} : Settle(t, result)
  \/ Finish
  \/ Abort

Spec == Init /\ [][Next]_vars

\* Submitted work is executed, and the program ends one way or the other.
FairSpec ==
  /\ Spec
  /\ \A t \in Tasks : WF_vars(\E result \in {"value", "exception"} : Settle(t, result))
  /\ WF_vars(\E t \in Tasks : Submit(t))
  /\ WF_vars(Finish)
  /\ WF_vars(Abort)
=============================================================================
