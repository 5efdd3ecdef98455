--------------------------------- MODULE Jobs ---------------------------------
(* The scheduler and its sweeps together: the reminders of risks and of audit *)
(* controls and the directory sync, on several replicas over one database,    *)
(* and the admin console beside them.                                         *)
(* (The escalation sweep is in RiskWorkflow, beside the risks it escalates.)  *)
EXTENDS RiskReminders, AuditReminders, DirectorySync

vars == <<schedulerVars, claimVars, riskVars, auditVars, accountVars, syncVars>>

TypeOK ==
  /\ SchedulerTypeOK
  /\ RisksTypeOK /\ AuditsTypeOK /\ AccountsTypeOK /\ SyncTypeOK
  /\ claims \subseteq RiskKeys \cup Notifications
  /\ twice \subseteq sent /\ sent \subseteq RiskKeys \cup Notifications

Init == SchedulerInit /\ ClaimsInit /\ RisksInit /\ AuditsInit /\ AccountsInit /\ SyncInit

\* The process ends, with all its sweeps hold; they stop where they are.
Crash(r) ==
  /\ Down(r)
  /\ RiskGoes(r, RiskSweepIdle) /\ AuditGoes(r, AuditSweepIdle) /\ SyncGoes(r, SyncIdle)
  /\ snapshot' = [snapshot EXCEPT ![r] = {}]
  /\ UNCHANGED <<claimVars, risk, control, copied, accountVars, work, outage, told>>

SchedulerSteps(r) == Fire(r) \/ Up(r) \/ \E s \in Sweeps : Trigger(r, s)

Next ==
  \/ \E r \in Replicas :
       \/ SchedulerSteps(r) /\ UNCHANGED <<claimVars, riskVars, auditVars, accountVars, syncVars>>
       \/ RiskSweep(r) /\ UNCHANGED <<auditVars, accountVars, syncVars>>
       \/ AuditSweep(r) /\ UNCHANGED <<riskVars, accountVars, syncVars>>
       \/ (SyncRun(r) \/ Refresh(r)) /\ UNCHANGED <<claimVars, riskVars, auditVars>>
       \/ Crash(r)
  \/ DayPasses /\ UNCHANGED <<claimVars, riskVars, auditVars, accountVars, syncVars>>
  \/ (\E k \in Risks : AssessRisk(k)) /\ UNCHANGED <<auditVars, accountVars, syncVars>>
  \/ (\E c \in Controls : EditControl(c)) /\ UNCHANGED <<riskVars, accountVars, syncVars>>
  \/ ((\E u \in Users : Report(u)) \/ Console) /\ UNCHANGED <<claimVars, riskVars, auditVars, syncVars>>
  \/ ((\E h \in DOMAIN Hubs : Reassign(h)) \/ Recover) /\ UNCHANGED <<claimVars, riskVars, auditVars>>

\* Sweeps are bounded by their timeouts, the scheduler and the refresh of the
\* directory's snapshot by their timers; the outage ends.  Nobody else owes a step.
Fairness ==
  /\ \A r \in Replicas : WF_vars(Fire(r) /\ UNCHANGED <<claimVars, riskVars, auditVars, accountVars, syncVars>>)
  /\ \A r \in Replicas : WF_vars(SyncRun(r) /\ UNCHANGED <<claimVars, riskVars, auditVars>>)
  /\ \A r \in Replicas : WF_vars(Refresh(r) /\ UNCHANGED <<claimVars, riskVars, auditVars>>)
  /\ WF_vars(DayPasses /\ UNCHANGED <<claimVars, riskVars, auditVars, accountVars, syncVars>>)
  /\ WF_vars(Recover /\ UNCHANGED <<claimVars, riskVars, auditVars>>)

Spec == Init /\ [][Next]_vars /\ Fairness

-----------------------------------------------------------------------------
(* Properties.                                                               *)

Without(faults) == ops \cap faults = {}

\* Nobody is reminded twice of the same risk, tier and date, or of the same control
\* on one day, by replicas that all run the same sweep, sweeps started by hand,
\* mails that failed and are sent again, and crashes: unless a mail went out whose
\* answer was lost.
RemindedOnce == Without({"MailLost"}) => twice = {}

Pending(r) ==
  (IF riskSweep[r].item = NoKey THEN {} ELSE {riskSweep[r].item})
    \cup auditSweep[r].byRecipient \cup auditSweep[r].byAdmin \cup auditSweep[r].batch

\* A claim is not used up without its mail: it is sent, or in the hands of a sweep
\* that has yet to send it or to give it back.  (But for a crash, a claim or a
\* release whose call is lost, and recipients who are inactive.)
ClaimsBackedByMail ==
  Without({"Crash", "ClaimLost", "ReleaseFails", "Inactive"}) =>
    \A k \in claims : k \in sent \/ \E r \in Replicas : k \in Pending(r)

\* At the end of a day each admin has heard of every control that is overdue, by a
\* digest or by the copy of somebody else's: also when the assignee's mail failed,
\* or was skipped, in whichever replica tried it.  (An admin whom the control waits
\* on is an assignee like any other: nobody stands in for their own mail.)
AdminsHearOfOverdue ==
  [][day' # day /\ Without({"Crash", "Edit", "ListFails", "LookupFails", "ClaimFails", "ClaimLost", "DigestFails"}) =>
       \A c \in Controls : \A a \in Admins \ {control[c].assignee} :
         "audit" \in ops /\ Overdue(c) =>
           <<a, c, day>> \in copied
             \/ [to |-> a, control |-> c, type |-> "REMINDER_OVERDUE", snapshot |-> day] \in sent]_vars

\* A user is disabled only after somebody was told of their work at every hub, by
\* whichever replica: unless work is given to them after the run had asked for it.
DeparturesAnnounced ==
  [][\A u \in Users :
       status[u] # "DISABLED" /\ status'[u] = "DISABLED" /\ Without({"Assign"}) =>
         \A h \in DOMAIN Hubs : u \in work[h] => <<h, u>> \in told]_vars

\* The directory may report everybody, replicas may work from snapshots of different
\* days, and those who manage users deactivate each other and revoke each other's
\* grants while runs are under way: an active user who holds MANAGE_USERS remains.
\* (Unless the holders could not be read.)
AnAdminRemains == Without({"LookupFails"}) => CandidateIDs # {}

\* Whom the directory reports is disabled once mail works again, if no more are
\* reported than a run may disable: although each run starts from the beginning,
\* its digests may have failed at either hub, others join the reported, and an
\* admin may make them active again.  (Who manages users may be spared.)
DepartedAreDisabled ==
  \A u \in Users \ Holders :
    (u \in reported /\ Dateless /\ Without({"Crash", "LookupFails", "WriteFails", "ListFails"}))
      ~> (status[u] = "DISABLED" \/ Cardinality(reported) > maxDeparturesPerRun \/ u \in granted)
=============================================================================
