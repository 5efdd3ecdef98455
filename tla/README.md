# A verification development for grc-tools

This directory holds TLA+ models of the repository's programs, the TLC runs that
check them on small instances, and theorems about them that TLAPS proves for
every instance.  Six parts are modelled:

- the **risk workflow**: approval, remediation, escalation and closure of one
  risk, as served by the GRC backend on top of the compliance entity;
- the **audit workflow**: a control with its population and evidence rounds, the
  admin's overrides, and the audit's own status;
- the **agent tasks** of the evidence app: the queue, the runner in the user's
  browser, and the evidence with its files and blobs;
- the **jobs**: the scheduler, both reminder sweeps and the directory sync, on
  several replicas;
- the **registers**: what a risk carries on each register template, the lookup
  values it refers to, and the counters its code is numbered by;
- the **risk register migration**: an import that is killed and started again.

- [1. The system](#1-the-system)
- [2. The modules and the code](#2-the-modules-and-the-code)
- [3. The runs](#3-the-runs)
- [4. Where the code differs from what it says](#4-where-the-code-differs-from-what-it-says)
- [5. The proofs](#5-the-proofs)
- [6. What is not modelled, and why](#6-what-is-not-modelled-and-why)
- [7. Plan](#7-plan)

Paths below are relative to the source tree; `B/` stands for
`apps/grc-platform/backend/internal/`, `E/` for
`entity/compliance-entity/internal/`.

## 1. The system

The GRC backend and the compliance entity share the work, and only the entity
touches the database; the evidence app is a system of its own:

    web app --HTTP--> GRC backend (Go) --HTTP--> compliance entity (Go) --SQL--> MySQL
                           |                        ^
                           |                        +---HTTP-- migration task (Go)
                           +-- scheduled jobs (escalation, reminders, directory sync)

    runner (Python, user's browser) --HTTP--> evidence app backend (Python) --> SQL, blobs

The **backend** owns the workflow rules.  A handler checks who the caller is,
reads the risk through the entity, decides, and writes through the entity, one
HTTP call per read and per write.  The **entity** owns persistence: it makes one
write atomic and decides whether a write is legal, never which write is wanted.
No lock is held between two calls, so everything the backend decides is decided
on state that other requests may have changed when the decision lands.  What
keeps the two together is the *compare-and-set*: a PATCH may carry
`expectedStatus`, and the entity's UPDATE is guarded by it.

### Components

| Component | State | Operations | Talks to | Hard behaviour | Correct when |
|---|---|---|---|---|---|
| Risk workflow (`B/risk/service`, `handler`, `repository/entity`) | none of its own | approve (owner, management, compliance), reject, resubmit, complete, close, cancel, edit, assess | entity, by HTTP | every decision is stale when it lands; some requests make several writes | no interleaving skips, repeats or mixes up a stage; side records (stamp, rejection stage) agree with the status |
| Risk tables (`E/service/risk_service.go`, `E/repository/risk_repo.go`) | the `risk` row | create, PATCH with compare-and-set, transition table | MySQL | a table kept apart from the program that makes the moves | admits every move of the backend, refuses late ones whole |
| Registers and lookup values (`E/repository/risk_template.go`, `risk_team_repo.go`, `risk_lookup_repo.go`) | `risk_team`, four lookup tables, code counters | create and edit risks, switch templates, recode, (de)activate, delete, roll an import back | risk row, MySQL locks | checks several statements before the write, counters that outlive their risks | a risk fits its register; its values are stored, and were ACTIVE when added; no code comes up twice |
| Action plans, steps, evidence | plans, steps, evidence rows | add plan, update step, upload and delete evidence, complete plan | risk row (locked for steps) | check and write in different statements | closure rests on a finished plan, a finished plan on evidence |
| Escalations and the daily job (`B/risk/job/escalation_job.go`, `E/repository/risk_escalation_repo.go`) | `risk_escalation` rows | escalate (click, job), comment, resolve | risk row | job against click against comment against submission | an ESCALATED risk can always be answered; at most one open escalation |
| Assessments | `risk_assessment` rows, risk's approver and date | reassess | risk row | writes with no status guard | a HIGH risk has an approver |
| Risk reminder job (`B/risk/job/reminder_job.go`) | claim rows | claim, notify, release | mail | replicas, crash between claim and send | at most once per tier and date, lost only on a crash |
| Audit controls (`B/audit/handler`, `B/audit/service`, `E/service/audit_control_service.go`) | control, population and evidence rounds, audit status | submit, review, validate, withdraw, override backwards, change requirement, delete | entity, MySQL | two calls per decision, compensation on failure, cascades, derived status | evidence rests on an approved population; rounds agree with the control; an audit is COMPLETED exactly when its controls are |
| Audit reminder job | claims, digests | sweep | mail | as above, plus fallback to administrators | nobody due is left without a mail |
| Directory status sync (`B/directorysync`) | user status | resolve, digest, disable | directory, mail | crash between digest and write, wrong upstream answers | nobody disabled before the notice about their work is delivered; bounded departures; an administrator remains |
| Scheduler (`B/scheduler`) | timer | fire sweeps | jobs | overlapping sweeps | each job is single-flight |
| Grants, privileges, users (`B/admin/handler`, `E/service/grant_service.go`) | user status, grants, caches | set a status, grant, revoke, resolve | entity, the sync | the sync decides from holders read earlier; stale caches | somebody who may manage users remains |
| Agent task queue (`apps/evidence-app/backend/app/api/routes/agent.py`, `evidence.py`) | `agent_task` rows, evidence, file rows, blobs | queue, poll, pause, resume, cancel, result | runner, by HTTP | lost and repeated posts, dead runners | one result counts; one resume releases one pause; no row names a deleted blob |
| Runner (`apps/evidence-app/runner`) | current task | poll, run, pause, post | task queue | retries, cancellation | every claimed task ends |
| Migration (`operations/risk-register-migration`) | none; progress is reconstructed | search, create, assess, walk, suppress, grant, complete the plan, verify | entity | killed anywhere, answers lost, users and the nightly job at work meanwhile | no row is written twice; exit code 0 means migrated; a further run changes nothing |
| HTTP shell, clients, web apps, backfills | none that matters here | | | | |

`PROJECT.json` lists each of them with its sources and its status.

### The life of a risk

    PENDING_RISK_OWNER_APPROVAL -owner-> [PENDING_MANAGEMENT_APPROVAL, HIGH only]
      -> PENDING_COMPLIANCE_REVIEW -compliance-> APPROVED
    APPROVED -submit-> PENDING_OWNER_COMPLETION_APPROVAL
      -owner-> [PENDING_MANAGEMENT_CLOSURE_APPROVAL, HIGH only]
      -> PENDING_COMPLIANCE_CLOSURE -compliance-> CLOSED
    APPROVED -restricted edit-> PENDING_AMENDMENT -owner-> (as above)
    APPROVED -overdue-> ESCALATED -comment-> APPROVED
    any approval stage -reject-> PENDING_REVISION -resubmit-> the stage it fell back to
    PENDING_RISK_OWNER_APPROVAL, PENDING_REVISION -cancel-> CANCELLED

## 2. The modules and the code

| Module | Models | Read it for |
|---|---|---|
| `RiskStatus` | statuses, rejection stages, the entity's transition table | the vocabulary; `SignOff` and `RequiredSignOffs` say what a status stands on |
| `RiskLifecycle` | the workflow's promise, without requests or staleness | the abstract specification |
| `RiskStore` | the entity: one operator per transaction or statement | the risk row, plans, steps, evidence, escalations |
| `RiskWorkflow` | the backend: requests as chains of calls | the interleavings, the specification and all properties |
| `RiskWorkflow_proofs` | theorems | section 5 |
| `Registers` | the entity's transactions on risks, statement by statement | row locks, templates, values, counters |
| `Registers_proofs` | theorems | section 5 |
| `AuditStatus` | statuses, ranks, both transition tables, the override's targets | the vocabulary of the audit workflow |
| `AuditStore` | the entity: control, rounds, derived audit status | what one transaction changes |
| `AuditControls` | the backend's handlers as chains of calls | interleavings and half-done decisions |
| `AuditControls_proofs` | theorems | section 5 |
| `EvidenceStore` | evidence rows, file rows, blobs | uploads and deletions around a transaction |
| `AgentTask` | a task ends once | the abstract specification of the queue |
| `AgentTasks` | the queue's endpoints and the runner's loop | lost calls, pauses, crashes |
| `AgentTasks_proofs` | theorems | section 5 |
| `Scheduler` | replicas, days, sweeps, manual triggers, crash | the frame of all jobs |
| `ReminderClaims` | claim, release, mail | the protocol both reminders share |
| `RiskReminders`, `AuditReminders` | the two sweeps | tiers, recipients, digests, copies |
| `Accounts` | user status, the grants of MANAGE_USERS, the admin console | who may still manage users |
| `DirectorySync` | the sync that disables users | snapshot, limit, digests, writes |
| `Jobs` | all sweeps and the console together | composition, and the properties |
| `Jobs_proofs` | theorems | section 5 |
| `Migration` | the import's runs and what happens beside them | resume, paging, verification |
| `Migration_proofs` | theorems | section 5 |
| `MC...` | instances for TLC | mixes of operations and faults of each run |

`RiskWorkflow` EXTENDS `RiskStore`, which EXTENDS `RiskStatus`, and INSTANCEs
`RiskLifecycle` WITH `status <- risk.status`.  `AuditControls` EXTENDS
`AuditStore` and `AuditStatus` in the same way.  `AgentTasks` EXTENDS
`EvidenceStore` and INSTANCEs `AgentTask`.  `Jobs` EXTENDS the sweeps, which
EXTEND `ReminderClaims` or `Accounts`, and these `Scheduler`.  `Migration` EXTENDS `RiskStatus`: it
drives the same table of transitions from outside.  `Registers` stands alone: the
columns it is about are those that `RiskStore` leaves out.

**Mixes.**  From `AuditControls` on, a behaviour begins by choosing one of
`Mixes`, a set of the operations and faults that happen in it.  It keeps an
instance within reach where everything at once would not be, and a property can
say which faults it does not survive (`Without({"Crash"})`).  Each MC module
says what its mixes are for.

### The risk workflow

**State.**  `risk` is the row, reduced to the columns the workflow reads:
`status`, `stage` (`rejection_stage`), `ofa` (`owner_first_approved_at`), `gross`
and `residual` level, `approver` (`management_approver_id`), `due`
(`implementation_date` against today).  LOW and MEDIUM are one level because the
code only asks for HIGH; IN_PROGRESS is PENDING because it only asks for
COMPLETED.  `planStatus`, `stepStatus`, `evidence` (plans with a completion
evidence row) and `escs` are the other tables; an ANSWERED escalation is an OPEN
row whose decision is set.  `signedOff` is a history variable: the approvals ever
recorded, as the handlers write them to the risk's history.  No action reads it.

**Requests.**  `req[r]` is what a request holds between two calls: the call it
makes next (`pc`), the PATCH it has decided on, the plan or the escalations it
works on.  The first action of an operation (`OwnerApprove`, `Complete`,
`Update`, ...) is its read and its decision; each later action is one call or one
statement (`SetOwnerFirstApprovedAt`, `PatchRisk`, `ListPlans`, `CountOpen`,
`FlipEscalated`, ...).  Operations of a single transaction (`AssessRisk`,
`ActionPlanCall`) take no request.  A call that the entity refuses ends the
request; `Abandon` ends it anywhere, which is what a disconnected client, a
failed call and a crashed backend look like from the database.  A response
that gets lost after the write has landed is `Abandon` too: the backend does
not retry.

**Atomicity.**  An entity transaction is one action where MySQL makes it one:
UpdateRisk locks the risk row before it reads, UpdateRiskActionStep locks it as
well, a re-escalation locks the risk's escalation rows before it counts.  Where
it does not, the statements are actions of their own: the plain count and the
flip of a job's escalation, the lookup and the flip of a comment, the step list
and the guarded UPDATE of a plan's completion.

**Escalation in two shapes.**  A click sends `reescalate`, the job does not.
With it, the resolving UPDATE comes first and locks; without it, nothing is
locked until the flip.  `ReescalateRisk` is therefore one action and the job's
path is two (`CountOpen`, `FlipEscalated`).

**Inputs.**  `Ops` chooses the operations that clients call and `Edits` the edits
they send.  An edit is reduced to the fields the workflow depends on.  `Same`
is the stored date sent back: the code converts the stored date to RFC 3339 when
it reads it and compares it with the request's YYYY-MM-DD as a string, so an edit
that names any date has changed it, which is how `restrictedChanged` models it.

**Environment.**  `DayPasses` turns a date that lies ahead into a past one.
Callers are taken to pass the privilege and identity gates: who may act is a
question of its own, and every property here holds whoever acts.

### The registers

`template`, `code`, `status` and `last` are the columns of the registers
(`risk_team`), the four lookup tables and the two tables of counters; `risk` the
part of a risk that depends on them: its register, its `values` in the lookup
tables, whether it has compliance references (`refs`), and its code as register's
code, customer's code and number.  `issued` (history) are the codes given so far.

CreateRisk and UpdateRisk are transactions of several statements, so they are
chains of steps here, one for each statement that reads or locks what the
administrators change: `BeginCreate` and `BeginEdit` read the register, a
`requireActive` follows for each kind of values, `EnsureSequence` is the INSERT
IGNORE, and `FinishCreate` and `FinishEdit` are the rest up to the commit.
`shared` and `exclusive` are the row locks the transaction has collected; a step
is enabled once it gets its locks.  `Rollback` ends a transaction anywhere: a
statement fails, waits too long, or is the victim of a deadlock, which two first
creations on one counter can run into, both holding it FOR SHARE.  The
administrators' edits (`UpdateTemplate`, `CreateRiskTeam`, `RecodeRegister`,
`SwitchStatus`, `RecodeCustomer`, `DeleteRiskLookup`, `CreateRiskLookup`) lock one
row, look, write and commit, and wait for its locks (`Unlocked`), so each is one
step; so is the script `rollback.sql` (`RollbackImport`).  Plain SELECTs of these
transactions see what is current: all of them come after the first lock, and
their snapshot is taken no earlier.

### The audit workflow

`ctl` is the control's row (`status`, `type`: OE or DESIGN), `rounds` its
population and evidence rounds in the order of their creation, `audit` the
status of its audit, `others` whether the audit has other open controls, `byHand`
(history) whether an admin has overridden the control's status.  `req` holds the
requests, as in the risk workflow; a request's reads are taken together when it
begins.  Each handler is its chain of writes: `CreateRound` then `UpdateStatus` for a
submission, `MarkRound` then `UpdateStatus` for a decision, `DiscardRound` when
the transition was refused, `RemoveRound` and the reconciliation after a file is
deleted.  `CallFails` ends or diverts a chain at any call, which also stands for
an answer that was lost after the write.  The entity's transactions are single
operators: `OverrideControlStatus` with its cascade, `ChangeRequirementType`,
`UpdateControl` with its compare-and-set, each followed by
`recomputeAuditStatus`.  An override is a chain of its own: `BeginOverride` reads type
and status, decides from them whether it is legal, and reads the audit, of which it
keeps nothing (so that a later read matters only for a removed audit, which may be
restored meanwhile: `CheckAudit`),
`WriteOverride` is the UPDATE, which expects the status that was read and nothing of
the type, with the reads of the cascade, which lock nothing, and `CommitOverride` the
rest of the transaction.  `crossed` (history) holds once an override was written that
the control's type no longer allowed: the type was changed after the read, and the
status is back.  `Locked` keeps an INSERT of a round out while a
transaction holds the control's row, as the foreign key does.

### The agent tasks

`task` are the rows of `agent_task`, `runner` the processes, `posts` the results
that are on their way.  `runner_next_task`, `runner_pause_poll`, `runner_result`,
`upload_screenshot`, `cancel_task`, `resume_task` and `create_task` are the
endpoints; `Start`, `LoadPolicy`, `Supervised`, `Pause`, `PauseTimeout`,
`Interrupt`, `Finish`, `GivesUp` and `Crash` the runner's loop.  A screenshot
names no task: the server files it under the running one with the highest id
(`_running_task_for`).  A claim may be of any queued task (`Queued`): it takes the
lowest id among the rows that are not locked at that moment, by a resume, a
cancellation or another claim, and insertions may commit in any order.
`UnheardClaim` is a claim whose answer is lost, or that is carried out when its
runner has given up on it and is at work on something else, or is gone.  Evidence is uploaded blob by blob before the
transaction and deleted after it (`UploadNext`, `CommitEvidence`,
`CommitDeletion`, `RequestStops`), so rows and blobs may disagree for a while, and
`FilesStored` says in which direction only.

### The jobs

Each replica runs every sweep daily and waits for all of them; an operator may
start a sweep by hand; a replica may crash and come back.  Days on which nothing
falls due are left out (`Days`).  A reminder is a row that one sweep can insert
(`Won`), a mail, and a deletion of the row if the mail failed (`Release`).  The
audit sweep claims per recipient and per admin, copies the admins on overdue
digests, and falls back to a digest of their own (`Fallback`).  The directory
sync resolves who departed from the replica's own snapshot (`Refresh`), spares
administrators, refuses more than `maxDeparturesPerRun`, gathers assignments hub
by hub, sends a digest per hub and disables one user at a time.

`granted` are the users with an active grant of a role that carries MANAGE_USERS,
and `CandidateIDs` those of them whom the entity names: the ACTIVE ones.  Beside
the runs, they set each other's status (never their own, and never to DISABLED),
grant the role and revoke it (`Console`).  A request is one step, and a caller
whom the directory reports as disabled has no session left.

### The migration

`risks` are the risks of the sheet's registers, in the order of creation, with
what the import and its verification look at; `granted` the active grants; `run`
the run in progress.  A run searches page by page, each a COUNT (`CountRisks`) and a
SELECT (`SearchPage`) with whatever others do in between, reads each row's
risk (`Resume`), writes row by row, one call at a time (`CreateRisk`,
`CreateAssessment`, `PatchRisk`, `ListEscalations`, `CreateEscalation`,
`CreateGrant`, `PatchActionPlan`), searches again and verifies (`VerifyRow`).  It
keeps nothing: `Crash` forgets `run`, and the next `Start` begins with the search.
`run.found` is the set of what the search has seen, each risk with the page it was
on: the code appends to a list, but only looks for the entries of a key and
whether there are several.
A call that went through and whose answer was lost is the call followed by
`Crash`.  Beside the runs, `EscalateOverdue` is the nightly job; `Decide` and
`Submit` are the users' moves, any that the transition table admits; `Retitle`,
`RevokeGrant` and `RaiseRisk` change what the import matches, restores and pages
over.  `settled` (history) holds once a run has ended with exit code 0 and nobody
has worked on the sheet's risks since it began; somebody else's risk may be raised.

Pages are separate queries ordered by a creation time of a second's resolution.
`PageOf` gives every page such a query may return: with no ties (`tied` FALSE)
it is the one page; the mix `Ties` lets risks share a second.  The search ends when
its offset reaches what this page's COUNT said.  A risk raised between the two pushes
the oldest one off a full page while the offset reaches the earlier count: that risk
is missed, without ties.  The mix `Overlap` lets it happen in the search on resume
(in that of the verification it may always happen), and the properties it breaks say
so: `OneRiskPerRow`, `RerunChangesNothing`, `EveryRowLands`.

## 3. The runs

| Run | Instance | Distinct states | Question |
|---|---|---|---|
| `risk_approvals` | 2 requests, 1 plan, 2 steps, 1 escalation; all operations but escalation; edits that raise the score or change the steps | 840,000 | does any overlap skip a stage, or let a claim on the plan go unsupported? |
| `risk_escalation` | 3 requests, 1 plan, 1 step, 2 escalations; edits that move the date, and that send the stored one back | 1,460,000 | can an escalated risk get stuck? |
| `registers` | 2 transactions, 2 registers, 2 risks, 6 values and 3 codes; 4 requests and edits, 3 mixes | 230,000 | do risks keep to their register and its values, and codes apart? |
| `audit_controls` | 2 requests, 3 population and 2 evidence rounds, 7 mixes | 1,640,000 | do decisions, failures and overrides keep control, rounds and audit together? |
| `agent_tasks` | 2 runners, 2 tasks, 2 requests about evidence, 3 blobs, 2 pauses and clicks, 6 mixes | 430,000 | does a task end exactly once, and do its files survive? |
| `jobs` | 2 replicas, 3 days, 1 risk, 1 control, 2 admins, 3 users, 22 mixes; 2 requests of the console beside one replica, 1 beside two | 730,000 | is everybody told once, and nobody disabled unannounced? |
| `migration` | 2 sheets of 3 rows, pages of 2, 6 risks, 3 acts beside the runs, 4 mixes | 800,000 | can the import be killed and started again anywhere? |

Deadlock is not checked: every one of these systems may stop (a CLOSED risk, a
COMPLETE control, an empty queue, the last modelled day), and users owe nothing.

`risk_approvals`:

- `RejectionStageRecorded`, `SignOffsBehindStatus`, `StampBehindOwnerApproval`
  relate the status to the three side records that later decisions rest on: the
  rejection stage that Resubmit routes by, the approvals given, the stamp that
  locks cancellation, evidence and score.
- `TableAdmitsWorkflow`: every move a request may still send is in the entity's
  table.  The table and the backend are maintained in different programs.
- `FinishedPlanBehindClosure` (closure needs a finished plan even though plans
  are listed before the move), `EvidenceAtCompletion` (the evidence looked up
  earlier is still there), `ApprovedPlanIsFixed` (the steps of an APPROVED risk
  change only with its return to the owner, whatever status the editor saw).
- `ImplementsLifecycle`: the run also shows refinement of `RiskLifecycle`.  The
  abstract specification has one risk, one status and decisions that apply only
  to the status they are about; the concrete one applies decisions taken from an
  earlier status.  The compare-and-set is what makes this true, and the mutant
  that drops it is found.

`risk_escalation`: `EscalatedCanBeAnswered`.  An escalated risk leaves that
status only by a comment on an open escalation; the daily job skips it and a
click refuses it.

`registers`:

- `RisksFitRegister`: the template is read before the risk is there, and a switch
  is refused only if a risk is there; the lock that both take closes the gap.
- `AddedValuesActive`: a value is looked at statements before it is referred to.
- `NextCodeFree`: a counter never stands before a code that was given, whatever is
  rolled back, deleted, recoded or added: the customer's code is frozen by its
  counter, not by its risks.
- `TypeOK` says, beside the types, that the values of risks are stored.

`audit_controls`:

- `PopulationApprovedBehindEvidence`: a decision is two calls, the round's and
  the control's, and either may fail or be overtaken.
- `OneReplacementRound`: a rejected round is replaced once.
- `TypeFitsStage`: type changes and overrides, with anything in flight that read the
  former type, leave no DESIGN control with a population and no OE control without;
  and no DESIGN control at a stage before its evidence, unless an override was
  judged by its former type (section 4).
- `AuditFollowsControls`: every write of a control's status derives the audit's.
  It is an action property: an admin's restore writes a status of the client's.
- `OverrideCascades`: an override takes the rounds along, provided they are as
  its cascade read them and the control's type still allows the override.

`agent_tasks`:

- `TaskEndsOnce`: the queue implements `AgentTask`, with results that are posted
  again when their answer was lost, that arrive late, or after a cancellation.
- `OnePausePerResume`, `ScreenshotsFiledUnderTheirTask`: a click and a
  screenshot carry no identity, and must still mean what they meant.  A screenshot is
  filed under its task or a later one that runs as well, never under an older one
  that was left running; under its own, if no claim went unheard, no process ended,
  there is one runner and nobody cancelled the task.
- `FilesStored`: no file row names a blob that is gone, wherever a request stops.
- `EveryTaskEnds` (liveness).

`jobs`:

- `RemindedOnce` and `ClaimsBackedByMail` are the two sides of a claim: at most
  one mail, and no claim spent without one.
- `AdminsHearOfOverdue`: copies are planned before the digests that carry them
  are known to go out; by the end of the day every admin has heard.  (An admin on
  whom the control waits is an assignee, and nobody stands in for their mail.)
- `DeparturesAnnounced`: what a run must not do although its snapshot is its own
  and its calls fail one by one.
- `AnAdminRemains`: neither the runs of two replicas nor the admins, who deactivate
  each other meanwhile, take away the last of them.
- `DepartedAreDisabled` (liveness).

`migration`:

- `WrittenOnce`: neither the assessment of a risk nor its suppressing escalation is
  created twice, wherever the runs were killed and whatever pages they saw.
- `OneRiskPerRow`: nor is the risk of a row, unless a risk is raised between a count
  and its page.  It goes by the key: a risk that users have given another title is
  not the row's any more, and the next run creates another.
- `CleanRunMeansMigrated`: exit code 0 means that the whole sheet is in the
  entity, also after users have worked on its risks, and also if a search has missed
  one: the verification searches anew.
- `RerunChangesNothing`: after that, a run writes nothing, unless a risk is raised
  between a count and its page (and without `Ties`; see section 4 for both).
- `TerminalIsFinal`: a risk closed or cancelled while a run goes on stays so.
- `EveryRowLands` (liveness).

**Fairness.**  The risk and audit workflows have none: nothing obliges a client
to act and requests may be abandoned, so the code justifies none.  The others:

- `agent_tasks`: weak fairness of each runner's own steps.  A task in the browser
  is bounded by `max_steps`, a pause by 900 seconds, every call by its timeout.
  Users and the restart of a dead runner are not fair, and `EveryTaskEnds` asks
  for no call lost and no runner gone: nothing expires a claimed task.
- `jobs`: weak fairness of the timer, of the sync's steps, of the snapshot's
  refresh, of the passing of days and of the end of a mail outage.  The crash of
  a replica is not fair, and `DepartedAreDisabled` excludes it, together with
  writes and lookups that fail without end.
- `migration`: weak fairness of a run's steps, the start of the next one among
  them.  Each call has a timeout of 90 seconds, and the task's own messages tell
  the operator to run it again to resume.  `EveryRowLands` is about the rows that
  neither users nor the job can reach before the import is done with them, without
  risks raised between a count and its page.

**Bounds, and why they are enough.**

- Two requests suffice for the checks on a single compare-and-set: a violation
  needs one request that has read and others that finish in between, and those
  run one after another on the second slot.  The escalation property involves a
  submission that is still resolving, a job that has counted and a comment, hence
  three.  Two steps tell "all steps" from "some step", two escalations an old row
  from a new one.  What is proved (section 5) holds for every bound, several
  plans included.
- A transaction that has read and another that commits need two places.  Two
  platforms let an edit add a value.  Four requests and edits are a creation,
  its rollback, and a code that is given up and taken, the shortest way back to a
  code issued before.
- Two resubmissions of a population at once take three rounds; evidence needs a
  round and its successor.
- Two runners are what the docstring calls not expected and the code allows; two
  tasks tell the running one from a left-over; two pauses and two clicks let a
  click come early or twice.
- Two replicas race; a crashed sweep is one that stops.  On day 2 the later due
  date is 15 days away, on day 10 the earlier one is 5, on day 15 it is today: one
  day per tier, and an edit moves the risk between the two.  The control is due on
  day 5 and overdue on two of the days.  A limit of two with three users who may
  be reported crosses it; two holders are the fewest of whom one must be spared.
  Faults are combined sweep by sweep, as the mixes list them: all together are out
  of reach.
- The first sheet has an overdue risk with an assessment and two grants, a closed
  one that is overdue on its way, and one that is not due; the second has two rows
  that cannot be told apart.  (They need a sheet of their own, since no run over
  them ends with exit code 0.)  Six risks fill three pages of two.  Three acts let
  a run be killed twice and a user come between, or the reverse.

In symmetric instances requests and escalations are only compared for equality;
runs with liveness use no symmetry.

**A limit of `risk_escalation`.**  Resubmit is left out of its operations.  With
it and three requests in flight there is a long interleaving that ends in an
ESCALATED risk without an unanswered open row: a submission of an earlier round
is still resolving escalations one by one while a resubmission decided before
that round's rejection was processed takes the risk through the chain again and
it is escalated anew.  It needs a request that is outstanding over a whole
approval round.  The hazard list records it; the run states the property for the
operations under which the code provides it, and `EscalatedHolds` (section 5)
that such a resubmission is the only thing that breaks it.

**Every property has a mutant** (`PROJECT.json`): a definition that models code,
changed as a plausible bug would change it (no compare-and-set, a stamp that is
best effort, a control moved before its round, a blob deleted before its row, a
release on a context that has expired, a pause without a cap, a search of one
page), and TLC finds the property violated.  The mutants stand beside the
definitions they replace.

## 4. Where the code differs from what it says

Five runs expect a violation.  Each checks one sentence of the source against
what the code does; `PROJECT.json` quotes both.

| Run | The source says | The run shows |
|---|---|---|
| `risk_cancel` | Cancel is allowed only while no Risk Owner has ever approved the risk | approved by the Risk Owner, rejected by management, resubmitted: back in the status where cancelling is always allowed, and cancelled |
| `risk_double_escalation` | the CAS makes a concurrent escalation fail | it does not once the first escalation has been commented on between the job's count and its flip |
| `risk_completed_evidence` | a COMPLETED plan's completion evidence is locked | a deletion that was checked before the completion lands after it |
| `audit_stranded_round` | a round is retired rather than staying SUBMITTED next to the one that replaces it | evidence submitted again in review, or after a withdrawal, leaves the earlier round SUBMITTED for good |
| `migration_pages` | every row of a second run comes back Skipped, and no count changes | a risk that shares its second of creation with others is on no page, and its row is imported again |

`risk_cancel` and `audit_stranded_round` need no concurrency, `migration_pages` neither a fault nor a user.  The other two are
races between two requests.

Six more divergences are modelled without a run of their own:

- an edit that sends the stored implementation date back counts as a change of it
  (`B/risk/repository/entity/risk_update.go:102` compares RFC 3339 with YYYY-MM-DD
  as strings) and takes an APPROVED risk to PENDING_AMENDMENT;
- before the owner's first approval an edit can raise the gross score of a risk
  without a management approver to HIGH (`risk_update.go:238`; neither the backend
  nor UpdateRisk asks for one), and the risk is then routed around the management
  stages.  `NeedsManagementSignOff` says that a HIGH risk with no approver on record
  "cannot happen (creation and reassessment both require one)"
  (`B/risk/model/risk.go:509-510`);
- a register's code is not frozen once it is part of issued codes, as a customer's
  is (`E/repository/risk_lookup_repo.go:201-212` against
  `E/repository/risk_team_repo.go:171-174`).  A register that takes the code another
  had before starts at number 1, its first risk fails on the unique key, the counter
  is rolled back with it, and so does every later one.  `NextCodeFree` excepts
  behaviours that recode registers;
- an override is said to pass the "current status to the repo so the UPDATE enforces
  it atomically, preventing TOCTOU races between the read above and the write below"
  (`E/service/audit_control_service.go:567-568`).  The UPDATE enforces the status, but
  the override was judged by the type as well: if another override and a change of
  the type bring the status back in between, one that was legal for OE lands a DESIGN
  control on a stage before its evidence, where it has no population that could be
  submitted, and takes nothing along.  `TypeFitsStage` and `OverrideCascades` except
  just such an override;
- a screenshot is filed under the running task with the highest id, "picking the most
  recently claimed task" (`agent.py:123-125`).  Claims skip locked rows and may be
  carried out late (`agent.py:275-281`), so the highest id need not be the latest
  claim: with task 2 left running by a lost claim or a dead runner, the screenshots
  of task 1, claimed after it, are filed under task 2.
  `ScreenshotsFiledUnderTheirTask` says what remains;
- the import's second run may also write because a risk was raised between the COUNT
  and the SELECT of a page (`E/repository/risk_repo.go:273-281`), without ties
  (section 2, the migration).

## 5. The proofs

### The risk workflow's theorems

`RiskWorkflow_proofs` proves, for any numbers of requests, plans, steps and
escalations and any `Ops` and `Edits`:

| Theorem | Statement |
|---|---|
| `TypeCorrect` | `Spec => []TypeOK` |
| `Invariance` | `Spec => []IInv` |
| `SignOffsHold`, `RejectionStageHolds`, `StampHolds`, `FinishedPlanHolds`, `TableAdmitsHolds` | the safety invariants of `risk_approvals` |
| `EvidenceHolds`, `ApprovedPlanHolds` | the action properties of `risk_approvals` |
| `EscalatedHolds` | `Spec /\ [][~LateResubmission]_vars => []EscalatedCanBeAnswered` |
| `Refinement` | `Spec => ImplementsLifecycle` |

**Assumptions.**  `FirstPlanAssumption` (a risk is created with a plan),
`OpsAssumption` and `EditsAssumption` (the parameters are what they should be).
TLC evaluates all three in every run.  No finiteness is assumed.

**The inductive invariant.**  None of the properties is inductive alone: a late
PATCH lands in a state that its request never saw, so the invariant must say what
requests in flight may still write.  `IInv` has three parts:

- `TypeOK`;
- `Consistent`: the five facts about the store, and one more that Resubmit needs:
  a completion rejection stage is on record only with a finished plan and with the
  sign-offs of the stage it sends the risk back to;
- `Justified`, for each request: the PATCH it is about to send is `Earned`.  It
  leaves status and stage alone, or it makes a forward move of the chain (and an
  owner's approval only after the stamp), a submission with a finished plan, a
  rejection with the stage of the status it expects, or a resubmission to a stage
  whose sign-offs have been given.

`Earned` speaks only of what never goes back: the stamp, the sign-offs and the
finished plans grow.  That is why it survives the steps of others
(`JustifiedStable`), and why a PATCH that is earned and whose `expect` matches the
current status preserves `Consistent` (`PatchConsistent`).  This is the
argument why compare-and-set on the status *alone* is enough for these
properties, and it shows what it is not enough for: facts that may go back
(scores, dates, the rejection stage itself) are not protected by it.  The
hazards without a property are of that kind.

`ApprovedPlanHolds` needs a second invariant, `EditsGuarded`: an edit that carries
steps expects a status, and amends if that status is APPROVED.  `Refinement`
follows from `IInv`: each kind of earned PATCH is an action of `RiskLifecycle`
(`PatchLifecycle`), and every other step leaves status and sign-offs alone or is
an escalation or its answer.

`EscalatedHolds` needs a third one, `EscInv`: who lists or resolves escalations
does so of a risk that is `Submitted`, that is, on the closure path or sent back
from it.  An ESCALATED risk is not submitted, so nobody resolves its escalations.
A submitted risk stays submitted by every PATCH that is earned (`PatchSubmitted`)
but one: a resubmission to the start of the chain of a risk that was rejected in
its completion.  Resubmit never decides on that when it reads such a risk; the
PATCH must have been decided in an earlier revision round, whose `expect` is the
same PENDING_REVISION.  `LateResubmission` is that step, and the theorem is about
all behaviours without it, with any `Ops` and any number of requests.

### The registers' theorems

`Registers_proofs` proves, for any numbers of registers, values, customers, risks,
codes and transactions, any `Fresh` and any `Mixes`:

| Theorem | Statement |
|---|---|
| `TypeCorrect` | `Spec => []TypeOK`; with it, that what a risk refers to is stored |
| `Invariance` | `Spec => []IInv` |
| `RisksFitHolds`, `NextCodeFreeHolds` | the other invariants of `registers` |
| `AddedActiveHolds` | the action property of `registers` |

**Assumptions.**  `RegistersAssumption`: values have a kind, registers and values
are different things, `None` is none of them.  TLC evaluates it in `registers`.

**The inductive invariant.**  A creation reads the template, looks the values up
table by table and writes at last, and nothing in its last statement checks
anything again: that the risk fits rests on the locks alone.  `IInv` says how:

- `Exclusion`: a row locked FOR UPDATE is locked by no other transaction;
- `Held`, for each transaction: the template and code it read are still those of
  the register, which it has locked FOR SHARE, and the values it has looked up
  are locked FOR SHARE and still ACTIVE; an edit has its risk locked FOR UPDATE,
  and its change is still one that the template admits;
- `Distinct`: codes tell registers, and stored customers, apart;
- `Counted`: every issued code was counted by a counter that is still there and
  has not gone back, and the customer of a counter is still stored;
- `TypeOK` and `RisksFitRegister`.

`Untouched` is the lemma all steps come down to: a transaction keeps what it has
read if the step of another leaves the rows alone that it has locked.  The lock of
each administrator's edit (`Unlocked`) gives that for its rows, `Exclusion` for
those of another transaction.  `Counted` is why `inUse` must ask the counters and
not only the risks: the code of a customer whose risks are all gone is still part
of issued codes.  `CountedFree` derives `NextCodeFree` from it and `Distinct`.

### The agent tasks' theorems

`AgentTasks_proofs` proves, for any numbers of tasks, runners, requests, files
and pauses and any `Mixes`:

| Theorem | Statement |
|---|---|
| `TypeCorrect` | `Spec => []TypeOK` |
| `Invariance` | `Spec => []IInv` |
| `StoredFiles`, `PausesNeedClicks` | the invariants of `agent_tasks` |
| `FiledRight` | its action property `ScreenshotsFiledUnderTheirTask` |
| `QueueImplemented` | `Spec => TaskEndsOnce`: the refinement of `AgentTask` |

**Assumptions.**  `AgentAssumption`: tasks are finitely many numbers from 1 on, and
pauses are bounded by a number.  `EvidenceAssumption`:
numbers bound the files and an upload, which has at least one.

**The inductive invariant.**  A result, a click and a screenshot name less than
they are about, so `IInv` says who may still act on what:

- `RunnerInv`: a claimed task has one runner, and no result while that works on it;
- `ResultInv`: results are of claimed tasks, and a task has ended by a result only
  if one was recorded.  With `RunnerInv` it gives the refinement: a post that
  arrives again, or after a cancellation, finds the task ended, and changes
  nothing that `AgentTask` sees;
- `PauseInv`: releases and pending requests together are at most the clicks;
- `AloneInv`: without lost calls, exits and a second runner, the one runner's task is
  the only one that runs, in whichever order tasks are claimed, so that
  `_running_task_for` finds it, or nothing after a cancellation;
- `LastFile`: a deletion that found its file to be the last of the evidence finds no
  other one there when it commits;
- `FilesInv`: a file has one owner, be it an evidence row, an upload that is not
  committed yet, or a result that is still awaited (`Apart`); what any of them owns
  is stored (`Stored`); every name was given to one blob (`Known`); and what a
  deletion is about to purge is none of theirs (`PurgedOnly`).

`StoredFiles` is about rows, and needs `Apart`: without it the blob that one
deletion purges might be listed by another row.

### The audit workflow's theorems

`AuditControls_proofs` proves, for any number of requests, any bounds on the
rounds and any `Mixes`:

| Theorem | Statement |
|---|---|
| `TypeCorrect` | `Spec => []TypeOK` |
| `Invariance` | `Spec => []IInv` |
| `StageFitsType`, `EvidenceRestsOnPopulation`, `ReplacedOnce` | the invariants of `audit_controls` |
| `AuditFollows`, `CascadesTaken` | its action properties |

**Assumptions.**  `MaxRoundsAssumption` (each kind has room for a round) and
`MixesAssumption`.

**The inductive invariant.**  `RequestOK` says what a request may rely on at its
next call, whatever others have done since its last one: whoever is about to
complete the population has approved, or approves first, a round of it, and
that round stays approved because APPROVED is final in the table of rounds; a
resubmission replaces a round that is not open; and the
transaction of an override still finds the control as its UPDATE did, because it
holds its row, which at most one does.  What an override was judged by before that
may have changed, and nothing is claimed of it.  `RoundsInv` adds that no evidence round waits for a first
submission, and the three invariants themselves.  This is why the order of the
two calls of a decision matters: the round first, then the control.

`EarlierRoundsDecided` is the property that `audit_stranded_round` violates.

### The jobs' theorems

`Jobs_proofs` proves, for any numbers of replicas, days, risks, controls, people,
users and hubs and any `Mixes`:

| Theorem | Statement |
|---|---|
| `TypeCorrect` | `Spec => []TypeOK` |
| `Invariance` | `Spec => []IInv` |
| `NobodyRemindedTwice`, `NoClaimWasted`, `SomebodyManages` | the invariants of `jobs` |
| `NobodyLeavesUnannounced`, `AdminsHear` | its action properties |

**Assumptions.**  `SchedulerAssumption`: there is a replica, and days are finitely
many numbers.  `DueDatesAssumption`: there is a date.  `AuditRemindersAssumption`:
the control is due on a day, and `Nobody` is nobody.  `AccountsAssumption`: the
holders of MANAGE_USERS and the external users are users, and an external user
is no holder.  `SyncAssumption`: hubs come in an order.

**The inductive invariant** has one part per question:

- `ClaimInv`: a claim is in the hands of one sweep, and in one place there
  (`PartsInv`); unless an answer was lost, what was sent is claimed and in nobody's
  hands; without the faults that waste claims, one that nobody holds was sent
  (`HeldInv`);
- `AdminInv`: snapshots are nested, as the directory's reports only grow, and so
  all runs together spare somebody: there is one choice, for each replica, of a
  set of reported users that contains those its run may disable, such that a
  candidate stays outside of the set of any run that is about a candidate
  (`Basis`).  That
  each run alone spares an admin would not do: two runs might spare different ones
  and disable each other's;
- `WorkInv`: a digest says all that the run's users were named on when the hub was
  asked, and no user is tried before every hub was;
- `HearInv`: an admin who has not heard of an overdue control is still to hear of
  it, by a copy that a held claim carries, or by a claim that the sweep of some
  replica still has to make;
- `IdleInv`: a replica is up unless one crashes, and an idle sweep holds nothing.

### The migration's theorems

`Migration_proofs` proves, for any sheets, any length of pages, any bounds and
any `Mixes`:

| Theorem | Statement |
|---|---|
| `TypeCorrect` | `Spec => []TypeOK` |
| `Invariance` | `Spec => []IInv` |
| `NothingTwice` | `Spec => []WrittenOnce` |
| `FinalStays` | `Spec => TerminalIsFinal` |
| `ExitCodeIsTrue` | `Spec => []CleanRunMeansMigrated` |
| `NoSecondRisk`, `SecondRunWritesNothing` | under `NoTies`: `OneRiskPerRow`, `RerunChangesNothing` |

**Assumptions.**  `MigrationAssumption`: sheets are sequences of rows, not empty,
whose natural key is not `NoKey`, and a page has at least one place.  The last two
theorems assume `NoTies`: no mix has risks that share their second of creation, and
their properties except behaviours in which a risk is raised between a count and its
page.  They need both, as `migration_pages` and section 4 show, and state what the
paging is good for where pages are what it takes them for; risks may be raised at
any other moment.

**The inductive invariant.**  The task keeps nothing, so everything rests on what a
search has seen, and on what of that is still true when a row's turn comes:

- `FoundInv`: what was seen is there, and its title is the one seen or that of no
  row; `SeenInv`, with exact pages (`PagesExact`: no ties, no overlap): a search has
  seen the newest risks, as many as its offset says.  A risk raised between two pages
  pushes others to the next one, where they are seen again: it may be seen twice and
  is not missed (`Paging`);
- `RowInv`: of a row that is still ahead, the run knows a risk, or has found none,
  which with exact pages means that there is none; no two rows ahead share a risk;
  `HereInv`: the row being written shares it with none ahead, and what is about to be
  written is missing;
- `RisksInv`: nothing of the marker's is there twice and, with exact pages, no two
  risks share a key of the sheet;
- `SettledInv`: after a clean run, and as far as the verification has come, rows are
  migrated (`SheetIn`), until somebody acts: with inexact pages a run after a clean
  one may write, but only adds to what is there;
- `PlaceInv`: where the run is, and what it has not looked at yet.

`NothingTwice` and `ExitCodeIsTrue` do without exact pages.  Even if a search misses a
risk and another is created, each gets its assessment and its escalation once, since
two rows ahead never share one.  And a run that ends with exit code 0 has looked at
each row's risk in its verification: what a search misses, it reports as missing.

### What is not proved

**Only model-checked.**  The liveness properties `EveryTaskEnds`,
`DepartedAreDisabled` and `EveryRowLands`: liveness under fairness is out of the
prover's reach.  All other properties of the passing runs are theorems,
`EscalatedCanBeAnswered` under `~LateResubmission` and two of the migration's
under `NoTies`.  The violated properties of section 4 are false, so there
is nothing to prove.

**Out of the prover's reach.**  ENABLED, induction over data and anything
recursive, of which these modules have none.

**Where proving changed the models.**  `AdminsHearOfOverdue` was false of an admin
who is the assignee, and TLC's instance had none.  Assumptions had to be named that
TLC's constants met silently (a replica, a due date, a page with a place).  What
the migration's search has found became a set, since no statement about it depends
on its order.

## 6. What is not modelled, and why

In the risk workflow:

- privilege and identity gates, history rows, notifications and e-mail: no
  property is about them, and none of them feeds back into the status;
- `UpdateAssignees`, which writes five people fields of risks that the migration
  created and never moves the workflow;
- risks as the migration creates them; `Init` is `POST /risks`;
- templates, lookup values and codes, which are in `Registers`; dashboards;
- risk-level evidence (locked by the stamp), blobs and file types;
- the entity's endpoints that have no caller in the backend (step creation and
  deletion, plan PATCH) and the transitions only its table knows;
- DRAFT: reserved by the schema, written by nobody;
- two risks: no operation of the workflow touches more than one.

In the registers:

- names, and the status of teams, which the entity's creation does not look at; assignment teams;
- environments, which are asked for and rewritten as products are, but of a fixed list;
- year and quarter in codes, which are fixed, so that more codes clash than do; a
  register's code with a dash in it, which nothing refuses;
- creations refused for other fields: a creation that is rolled back;
- the optional reset of counters in `rollback.sql`, which is for codes nobody has seen.

In the audit workflow:

- files and blobs (but for the reconciliation after a file is deleted), `AddFiles`,
  notes, attestations, sample files, AI validation: none moves a control or a round;
- a request's several reads are taken as one; the entity's read of the status, for
  an ordinary PATCH of it, and the compare-and-set are one step: that decision rests
  on the status alone, so a status that has changed is a call that fails, and one
  that has come back is the same decision.  (An override's rests on the type too,
  and its read and write are steps of their own);
- the latest evidence round is by id, where the code orders by creation time;
- an override's count of what it would discard, and the `status_overridden` mark;
- notifications and access rules, as above.

In the agent tasks: the usage log, progress payloads, the event stream, the
heartbeat's online display, the catalogue, submissions and reviews; a commit
whose outcome is unknown.  The browser's work is a nondeterministic end.

In the jobs: one page of risks; recipients' names, texts and lead mails; panics;
the snapshot's maximal age; a manual sweep across midnight.  Two requests of the
console that overlap (two admins who revoke each other's grants at once leave
none), and the minutes for which a disabled account's token is still accepted.
The directory's reports only grow: if it corrects itself, replicas whose
snapshots cross could each disable the admin the other spared.  The escalation sweep is in
`RiskWorkflow`, beside the risks it escalates.

In the migration: parsing, transforming and resolving people (a `POST /users`
upsert), the dry run (it reads only) and the customer summary; refusals of a
row's data by the entity, which reject the row before or at its creation; the
check for grants that no row expects; two runs at once, and a
call of a killed run that is still executed while the next one searches; a
migration date that defaults to the day of the run.  The reads of one row are
one step.  A manual escalation has the effect of the job's.

Other components:

- privileges other than MANAGE_USERS, scopes, new users and the user cache:
  decisions per caller, with little state beside a cache with a fixed expiry;
- AI validation of evidence: a log row around an external model;
- HTTP shell, clients, backfills, web applications: wiring, I/O, one-shot repairs
  and presentation.

These, the entity's dashboards and the web applications are most of the
repository's lines, and have no behaviour between actors that a model would tell
more about than a test.

## 7. Plan

1. **Lemmas shared by the proof modules**: that a bounded set of naturals has a
   least and a greatest element is proved in three of them.
2. **Abstract specifications** for two more parts, with the refinement as a theorem:
   of the reminders (a key is free, claimed, announced or given back), which `Jobs`
   should implement, and of the import (a row is absent, under way, migrated), which
   `Migration` should implement under `NoTies`.
3. **The score guard** of the risk workflow: a property on the management stages
   against scores that change between read and write.
4. **Users and grants**: the user cache against revocation, if a property of
   interest remains.

Modules to be proved about use no RECURSIVE operator.
