----------------------------- MODULE MCAgentTasks -----------------------------
(* Instances of AgentTasks for TLC.                                          *)
EXTENDS AgentTasks

CONSTANTS r1, r2, q1, q2

Faults == {"Lost", "Exit"}

\* A runner beside everything its user may do; one whose calls get lost, that dies
\* and is started again, alone and next to another; pauses with lost polls; users
\* who submit and delete evidence, and delete what agents have added.
AgentMixes ==
  {{"Create", "Cancel", "Resume", "PolicyFails", "TaskFails"},
   {"Create", "Cancel"} \cup Faults,
   {"Create", "Cancel", "SecondRunner"} \cup Faults,
   {"Create", "Resume", "Lost"},
   {"Submit", "Delete"},
   {"Create", "Delete", "Lost"}}
=============================================================================
