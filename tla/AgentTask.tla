------------------------------ MODULE AgentTask ------------------------------
(* What the queue of agent tasks promises: a task ends once, by its first     *)
(* result or by a cancellation, whichever is first, and produces evidence at  *)
(* most once, from the result it completed with.                              *)
EXTENDS Naturals

CONSTANT Tasks

VARIABLES status,     \* of each task
          recorded,   \* completed_at: a result was recorded for the task
          produced    \* how many evidences the task has produced

taskVars == <<status, recorded, produced>>

Ended == {"completed", "failed", "cancelled"}

Init ==
  /\ status = [t \in Tasks |-> "none"]
  /\ recorded = [t \in Tasks |-> FALSE]
  /\ produced = [t \in Tasks |-> 0]

Move(t, from, to) == status[t] \in from /\ status' = [status EXCEPT ![t] = to]

Create(t) == Move(t, {"none"}, "queued") /\ UNCHANGED <<recorded, produced>>
Claim(t) == Move(t, {"queued"}, "running") /\ UNCHANGED <<recorded, produced>>
Cancel(t) == Move(t, {"queued", "running"}, "cancelled") /\ UNCHANGED <<recorded, produced>>

\* The first result of a task.  One that comes after the cancellation is only recorded.
Record(t) ==
  /\ ~recorded[t]
  /\ recorded' = [recorded EXCEPT ![t] = TRUE]
  /\ \/ \E s \in Ended :
          /\ Move(t, {"running"}, s)
          /\ \/ UNCHANGED produced
             \/ s = "completed" /\ produced' = [produced EXCEPT ![t] = @ + 1]
     \/ status[t] = "cancelled" /\ UNCHANGED <<status, produced>>

Next == \E t \in Tasks : Create(t) \/ Claim(t) \/ Cancel(t) \/ Record(t)

Spec == Init /\ [][Next]_taskVars
=============================================================================
