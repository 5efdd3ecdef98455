------------------------------ MODULE AgentTasks ------------------------------
(* The agent tasks of one user: the backend's queue and the runner that works *)
(* on it in the user's browser.  The two only talk over HTTP, always from the *)
(* runner: a claim, polls, uploads and, in the end, a result, each of which   *)
(* may be lost on its way or on the way back.                                 *)
EXTENDS EvidenceStore

CONSTANTS Runners,     \* runner processes the user may have, one of them started at first
          Tasks,       \* ids of the tasks, given as their rows are inserted
          MaxPauses,   \* bound on the {PAUSE} steps of a task
          MaxClicks,   \* bound on the clicks on Resume, per task
          Mixes        \* sets of what may happen, out of AllOps, together

\* Run and login tasks; PolicyFails: the URL policy cannot be fetched; Lost: a
\* call or its answer; Exit: the runner's process ends; SecondRunner: two run at
\* a time; Evidence: users submit and delete evidence.
AllOps == {"Create", "Cancel", "Resume", "PolicyFails", "TaskFails", "Lost", "Exit", "SecondRunner", "Submit", "Delete"}

ASSUME AgentAssumption ==
  Tasks \subseteq Nat \ {0} /\ IsFiniteSet(Tasks) /\ MaxPauses \in Nat /\ Mixes \subseteq SUBSET AllOps

VARIABLES task,     \* the rows of agent_tasks
          posts,    \* results on their way to the backend
          runner,   \* the state of each runner process
          ops       \* what may happen in this behaviour

vars == <<evidence, blobs, uploads, ereq, task, posts, runner, ops>>

Finished == {"completed", "failed", "cancelled"}

\* clicks and resumed are history: the clicks on Resume, the pauses one has ended.
TaskRows == [status : {"none", "queued", "running"} \cup Finished, recorded : BOOLEAN,
             resume_requested : BOOLEAN, clicks : Nat, resumed : Nat]

None == 0

\* await: for the answer to the result `sent`, to go on as `next`; left: the pauses to come.
RunnerStates == [pc : {"off", "poll", "claimed", "run", "paused", "await"}, task : Tasks \cup {None},
                 files : SUBSET Files, left : 0..MaxPauses,
                 sent : Finished \cup {"none"}, next : {"poll", "off"}]

Posts == [runner : Runners, task : Tasks, status : Finished, files : SUBSET Files]

TypeOK ==
  /\ EvidenceTypeOK
  /\ task \in [Tasks -> TaskRows]
  /\ runner \in [Runners -> RunnerStates]
  /\ posts \in SUBSET Posts
  /\ ops \in Mixes

At(pc) == [pc |-> pc, task |-> None, files |-> {}, left |-> 0, sent |-> "none", next |-> "poll"]

Init ==
  /\ EvidenceInit
  /\ task = [t \in Tasks |-> [status |-> "none", recorded |-> FALSE, resume_requested |-> FALSE,
                              clicks |-> 0, resumed |-> 0]]
  /\ posts = {}
  /\ \E r \in Runners : runner = [s \in Runners |-> At(IF s = r THEN "poll" ELSE "off")]
  /\ ops \in Mixes

-----------------------------------------------------------------------------
(* The user.                                                                 *)

UserActs == UNCHANGED <<evidenceVars, posts, runner, ops>>

\* The insertions may commit in any order.
create_task(t) ==
  /\ "Create" \in ops
  /\ task[t].status = "none"
  /\ task' = [task EXCEPT ![t].status = "queued"]
  /\ UserActs

cancel_task(t) ==
  /\ "Cancel" \in ops
  /\ task[t].status \in {"queued", "running"}
  /\ task' = [task EXCEPT ![t].status = "cancelled"]
  /\ UserActs

\* Nothing asks that the task be paused.
resume_task(t) ==
  /\ "Resume" \in ops /\ task[t].clicks < MaxClicks
  /\ task[t].status \in {"queued", "running"}
  /\ task' = [task EXCEPT ![t].resume_requested = TRUE, ![t].clicks = @ + 1]
  /\ UserActs

Evidence ==
  /\ \E q \in EvidenceRequests : ("Submit" \in ops /\ Submission(q)) \/ ("Delete" \in ops /\ Deletion(q))
  /\ UNCHANGED <<task, posts, runner, ops>>

-----------------------------------------------------------------------------
(* The runner's calls.                                                       *)

Becomes(r, state) == runner' = [runner EXCEPT ![r] = state]

\* post_result, about to wait for its answer.
Send(r, s, files, next) ==
  /\ posts' = posts \cup {[runner |-> r, task |-> runner[r].task, status |-> s, files |-> files]}
  /\ Becomes(r, [runner[r] EXCEPT !.pc = "await", !.sent = s, !.next = next])
  /\ UNCHANGED <<evidenceVars, task, ops>>

\* FOR UPDATE SKIP LOCKED: the lowest queued id whose row is not locked.  A resume, a
\* cancellation, another claim and an insertion lock rows, so that it may be any.
Queued == {t \in Tasks : task[t].status = "queued"}

\* Only the answer tells the runner what it has claimed.
runner_next_task(r) ==
  /\ runner[r].pc = "poll"
  /\ \E t \in Queued, n \in 0..MaxPauses :
       /\ task' = [task EXCEPT ![t].status = "running"]
       /\ Becomes(r, [At("claimed") EXCEPT !.task = t, !.left = n])
  /\ UNCHANGED <<evidenceVars, posts, ops>>

\* A claim nobody hears of: its answer is lost, or it is carried out after the
\* runner has given up on it, is at work on another task, or has died.
UnheardClaim ==
  /\ ops \cap {"Lost", "Exit"} # {}
  /\ \E t \in Queued : task' = [task EXCEPT ![t].status = "running"]
  /\ UNCHANGED <<evidenceVars, posts, runner, ops>>

\* _load_url_policy, for every task afresh.
LoadPolicy(r) ==
  /\ runner[r].pc = "claimed"
  /\ Becomes(r, [runner[r] EXCEPT !.pc = "run"])
  /\ UNCHANGED <<evidenceVars, task, posts, ops>>

\* Without a policy the task fails; a runner that is too old exits as well.
PolicyUnavailable(r) ==
  /\ runner[r].pc = "claimed"
  /\ \/ "PolicyFails" \in ops /\ Send(r, "failed", {}, "poll")
     \/ "Exit" \in ops /\ Send(r, "failed", {}, "off")

\* Mutant: the oldest of the running tasks.
_running_task_for_Oldest ==
  LET Running == {t \in Tasks : task[t].status = "running"} IN IF Running = {} THEN None ELSE Min(Running)

\* _running_task_for: the task, and so the control, a screenshot is filed under.
_running_task_for ==
  LET Running == {t \in Tasks : task[t].status = "running"} IN IF Running = {} THEN None ELSE Max(Running)

\* A subtask is done: its capture is uploaded.  One whose upload fails is left out.
upload_screenshot(r) ==
  /\ runner[r].pc = "run" /\ runner[r].files = {}
  /\ save_file
  /\ Becomes(r, [runner[r] EXCEPT !.files = {uploads + 1}])
  /\ UNCHANGED <<evidence, ereq, task, posts, ops>>

\* execute_task returns.
Finish(r) ==
  /\ runner[r].pc = "run" /\ runner[r].left = 0
  /\ Send(r, "completed", runner[r].files, "poll")

\* run_forever catches what _run_task raises: anything, or Azure credentials that
\* have expired, which end the process.
TaskFails(r) ==
  /\ runner[r].pc = "run"
  /\ \/ "TaskFails" \in ops /\ Send(r, "failed", {}, "poll")
     \/ "Exit" \in ops /\ Send(r, "failed", {}, "off")

\* Under _run_task_supervised.
Supervised(r) ==
  \/ runner[r].pc \in {"run", "paused"}
  \/ runner[r].pc = "await" /\ runner[r].sent = "completed"

\* _watch: the heartbeat reports a cancellation.
Watch(r) ==
  /\ Supervised(r) /\ task[runner[r].task].status = "cancelled"
  /\ Send(r, "cancelled", {}, "poll")

\* Ctrl+C, where the browser's agent does not catch it, is taken for a cancellation, and the runner goes on.
Interrupt(r) == "Exit" \in ops /\ Supervised(r) /\ Send(r, "cancelled", {}, "poll")

\* The process dies, with all it holds.
Crash(r) ==
  /\ "Exit" \in ops /\ runner[r].pc # "off"
  /\ Becomes(r, At("off"))
  /\ UNCHANGED <<evidenceVars, task, posts, ops>>

Start(r) ==
  /\ runner[r].pc = "off"
  /\ "SecondRunner" \in ops \/ \A s \in Runners : runner[s].pc = "off"
  /\ Becomes(r, At("poll"))
  /\ UNCHANGED <<evidenceVars, task, posts, ops>>

-----------------------------------------------------------------------------
(* Pauses.                                                                   *)

\* Mutant: a pause after a step without the marker.
Pause_Unmarked(r) ==
  /\ runner[r].pc = "run"
  /\ Becomes(r, [runner[r] EXCEPT !.pc = "paused", !.left = @ - 1])
  /\ UNCHANGED <<evidenceVars, task, posts, ops>>

Pause(r) ==
  /\ runner[r].pc = "run" /\ runner[r].left > 0
  /\ Becomes(r, [runner[r] EXCEPT !.pc = "paused", !.left = @ - 1])
  /\ UNCHANGED <<evidenceVars, task, posts, ops>>

\* Mutant: the request to resume is not cleared.
runner_pause_poll_Uncleared(r) ==
  LET t == runner[r].task IN
  /\ runner[r].pc = "paused" /\ task[t].status # "cancelled" /\ task[t].resume_requested
  /\ Becomes(r, [runner[r] EXCEPT !.pc = "run"])
  /\ task' = [task EXCEPT ![t].resumed = @ + 1]
  /\ UNCHANGED <<evidenceVars, posts, ops>>

\* The poll clears the request to resume, whether or not its answer arrives.  (One
\* that finds nothing changes nothing; a cancelled task is Watch's.)
runner_pause_poll(r) ==
  LET t == runner[r].task IN
  /\ runner[r].pc = "paused" /\ task[t].status # "cancelled" /\ task[t].resume_requested
  /\ \/ /\ Becomes(r, [runner[r] EXCEPT !.pc = "run"])
        /\ task' = [task EXCEPT ![t].resume_requested = FALSE, ![t].resumed = @ + 1]
     \/ /\ "Lost" \in ops
        /\ task' = [task EXCEPT ![t].resume_requested = FALSE]
        /\ UNCHANGED runner
  /\ UNCHANGED <<evidenceVars, posts, ops>>

\* Mutant: the wait ends only with an answer.
PauseTimeout_NoCap(r) ==
  /\ runner[r].pc = "paused" /\ task[runner[r].task].resume_requested
  /\ Becomes(r, [runner[r] EXCEPT !.pc = "run"])
  /\ UNCHANGED <<evidenceVars, task, posts, ops>>

\* The safety cap of 15 minutes.
PauseTimeout(r) ==
  /\ runner[r].pc = "paused"
  /\ Becomes(r, [runner[r] EXCEPT !.pc = "run"])
  /\ UNCHANGED <<evidenceVars, task, posts, ops>>

-----------------------------------------------------------------------------
(* Results.                                                                  *)

\* Mutant: a second result is applied like the first.
ApplyResult_Replayed(m) ==
  LET cancelled == task[m.task].status = "cancelled" IN
  /\ task' = [task EXCEPT ![m.task].status = IF cancelled THEN @ ELSE m.status, ![m.task].recorded = TRUE]
  /\ IF m.files # {} /\ ~cancelled THEN AddEvidence(m.task, m.files) ELSE UNCHANGED evidence

\* Under a row lock.  A second result changes nothing, a cancellation outlives the
\* first, and only a result that is not cancelled leaves evidence.
ApplyResult(m) ==
  LET cancelled == task[m.task].status = "cancelled"
      first     == ~task[m.task].recorded IN
  /\ task' = [task EXCEPT ![m.task].status = IF first /\ ~cancelled THEN m.status ELSE @,
                          ![m.task].recorded = TRUE]
  /\ IF first /\ m.files # {} /\ ~cancelled THEN AddEvidence(m.task, m.files) ELSE UNCHANGED evidence

Awaits(r, m) ==
  m.runner = r /\ runner[r].pc = "await" /\ runner[r].task = m.task /\ runner[r].sent = m.status

\* A result arrives, perhaps long after its runner gave up on it; its answer may be lost.
runner_result(m) ==
  /\ m \in posts
  /\ posts' = posts \ {m}
  /\ ApplyResult(m)
  /\ \/ Awaits(m.runner, m) /\ Becomes(m.runner, At(runner[m.runner].next))
     \/ ("Lost" \in ops \/ ~Awaits(m.runner, m)) /\ UNCHANGED runner
  /\ UNCHANGED <<blobs, uploads, ereq, ops>>

\* No answer: the result proper is followed by one of failure, any other is let go.
GivesUp(r) ==
  /\ "Lost" \in ops /\ runner[r].pc = "await"
  /\ \/ runner[r].sent = "completed" /\ Send(r, "failed", {}, "poll")
     \/ /\ runner[r].sent # "completed"
        /\ Becomes(r, At(runner[r].next))
        /\ UNCHANGED <<evidenceVars, task, posts, ops>>

-----------------------------------------------------------------------------
\* What a runner does by itself as long as it runs and its calls are answered.
Works(r) ==
  \/ runner_next_task(r) \/ LoadPolicy(r) \/ Finish(r) \/ Pause(r) \/ PauseTimeout(r)
  \/ \E m \in posts : m.runner = r /\ runner_result(m)

Next ==
  \/ \E t \in Tasks : create_task(t) \/ cancel_task(t) \/ resume_task(t)
  \/ \E r \in Runners :
       \/ Works(r) \/ PolicyUnavailable(r) \/ upload_screenshot(r) \/ TaskFails(r) \/ Watch(r)
       \/ Interrupt(r) \/ Crash(r) \/ Start(r) \/ runner_pause_poll(r) \/ GivesUp(r)
  \/ UnheardClaim
  \/ Evidence

\* A runner's loop never waits without an end: the browser's work is bounded by
\* max_steps, a pause by its cap, a call by its timeout.  Users owe nothing, and
\* nobody restarts a runner.
Spec == Init /\ [][Next]_vars /\ \A r \in Runners : WF_vars(Works(r))

-----------------------------------------------------------------------------
(* Properties.                                                               *)

\* The queue keeps its promise with a runner that works on beside cancellations,
\* posts a second result when the answer to its first is lost, dies, or has its
\* results arrive late and out of order.
Queue == INSTANCE AgentTask WITH
           status   <- [t \in Tasks |-> task[t].status],
           recorded <- [t \in Tasks |-> task[t].recorded],
           produced <- [t \in Tasks |-> Cardinality({e \in DOMAIN evidence : evidence[e].task = t})]

TaskEndsOnce == Queue!Spec

\* A click on Resume ends one pause at most: with polls whose answers are lost,
\* clicks while nothing is paused, and more than one pause in a task.
OnePausePerResume == \A t \in Tasks : task[t].resumed <= task[t].clicks

\* A screenshot is uploaded without naming its task.  It is filed under the task it
\* was taken for, or under one with a higher id that runs as well, and never under
\* an older one that was left running; under another task only after a claim nobody
\* heard of, the end of a process, beside a second runner, or when the user has
\* cancelled the task meanwhile.
ScreenshotsFiledUnderTheirTask ==
  [][\A r \in Runners :
       LET t     == runner[r].task
           filed == _running_task_for
       IN runner'[r].files # runner[r].files /\ runner'[r].files # {} =>
            \/ filed = t
            \/ filed > t /\ ops \cap {"Lost", "Exit", "SecondRunner"} # {}
            \/ task[t].status = "cancelled"]_vars

\* With a runner that keeps running and no call lost, every task ends, although the
\* policy may fail, nobody may resume a pause, and heartbeats may not get through.
EveryTaskEnds ==
  \A t \in Tasks :
    (ops \cap {"Lost", "Exit"} = {} /\ task[t].status = "queued") ~> task[t].status \in Finished
=============================================================================
