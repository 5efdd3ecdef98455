------------------------------ MODULE Scheduler ------------------------------
(* The scheduler of each of the backend's replicas.  Once a day it starts     *)
(* every sweep and waits for all of them; an operator may start one by hand.  *)
EXTENDS Integers, FiniteSets

CONSTANTS Replicas,     \* processes that run the same sweeps on the same database
          Days,         \* the days on which something may happen
          MaxActs,      \* bound on the sweeps started and the edits made by hand
          Mixes         \* sets of what may happen, out of AllOps, together

Sweeps == {"risk", "audit", "sync"}

\* The sweeps that run, whether all replicas do, the audit job's settings (CC, Daily), what people do
\* meanwhile, and what fails: a call, or only its answer (Lost).
AllOps == Sweeps \cup
  {"Replicas", "CC", "Daily", "Trigger", "Crash", "Edit", "Assign", "Console", "ListFails", "LookupFails", "ClaimFails", "ClaimLost",
   "ReleaseFails", "MailFails", "MailLost", "DigestFails", "Inactive", "Outage", "WriteFails"}

ASSUME SchedulerAssumption ==
  /\ Replicas # {}
  /\ Days \subseteq Nat /\ Days # {} /\ IsFiniteSet(Days)
  /\ MaxActs \in Nat /\ Mixes \subseteq SUBSET AllOps

VARIABLES day,       \* today
          replica,   \* the state of each process
          acts,      \* the sweeps started and the edits made by hand so far
          ops        \* what may happen in this behaviour

schedulerVars == <<day, replica, acts, ops>>

\* fired: today's hour has passed for it; busy: the sweeps whose `running` is set;
\* override: the sync in progress was started with its limit overridden.
ReplicaStates == [up : BOOLEAN, fired : BOOLEAN, busy : SUBSET Sweeps, override : BOOLEAN]

SchedulerTypeOK ==
  /\ day \in Days
  /\ replica \in [Replicas -> ReplicaStates]
  /\ acts \in Nat
  /\ ops \in Mixes

SchedulerInit ==
  /\ day = CHOOSE d \in Days : \A e \in Days : d <= e
  /\ acts = 0
  /\ ops \in Mixes
  /\ \E running \in IF "Replicas" \in ops THEN {Replicas} ELSE {{CHOOSE r \in Replicas : TRUE}} :
       replica = [r \in Replicas |-> [up |-> r \in running, fired |-> FALSE, busy |-> {}, override |-> FALSE]]

Scheduled == Sweeps \cap ops

\* What only a sweep that does not run would read is not varied.
Varied(sweep, S) == IF sweep \in ops THEN S ELSE {CHOOSE x \in S : TRUE}

\* fire: a sweep that is still running by hand refuses to be started again.
Fire(r) ==
  /\ replica[r].up /\ ~replica[r].fired
  /\ replica' = [replica EXCEPT ![r].fired = TRUE, ![r].busy = @ \cup Scheduled]
  /\ UNCHANGED <<day, acts, ops>>

\* The manual trigger of one sweep.
Trigger(r, s) ==
  /\ "Trigger" \in ops /\ acts < MaxActs
  /\ replica[r].up /\ s \in Scheduled \ replica[r].busy
  /\ \E override \in BOOLEAN :
       /\ override => s = "sync"
       /\ replica' = [replica EXCEPT ![r].busy = @ \cup {s}, ![r].override = IF s = "sync" THEN override ELSE @]
  /\ acts' = acts + 1
  /\ UNCHANGED <<day, ops>>

\* What the sweeps read is edited.
Edit(sweep) ==
  /\ {sweep, "Edit"} \subseteq ops /\ acts < MaxActs
  /\ acts' = acts + 1
  /\ UNCHANGED <<day, replica, ops>>

\* A sweep returns.
Done(r, s) ==
  /\ replica' = [replica EXCEPT ![r].busy = @ \ {s}, ![r].override = @ /\ s # "sync"]
  /\ UNCHANGED <<day, acts, ops>>

Down(r) ==
  /\ "Crash" \in ops /\ replica[r].up
  /\ replica' = [replica EXCEPT ![r].up = FALSE, ![r].busy = {}, ![r].override = FALSE]
  /\ UNCHANGED <<day, acts, ops>>

\* No sweep runs at startup: one missed today is missed.
Up(r) ==
  /\ "Crash" \in ops /\ ~replica[r].up
  /\ \E late \in BOOLEAN :
       replica' = [replica EXCEPT ![r].up = TRUE, ![r].fired = @ \/ late]
  /\ UNCHANGED <<day, acts, ops>>

\* The sync does not look at the date, which the model may leave where it is; the
\* reminders' days come to an end.
Dateless == ops \cap {"risk", "audit"} = {}

\* Sweeps end on the day they start: their runTimeout is 30 minutes.
DayPasses ==
  /\ \A r \in Replicas : replica[r].busy = {} /\ (replica[r].up => replica[r].fired)
  /\ IF Dateless THEN UNCHANGED day
     ELSE /\ \E d \in Days : d > day
          /\ day' = CHOOSE d \in Days : d > day /\ \A e \in Days : e > day => d <= e
  /\ replica' = [r \in Replicas |-> [replica[r] EXCEPT !.fired = FALSE]]
  /\ UNCHANGED <<acts, ops>>
=============================================================================
