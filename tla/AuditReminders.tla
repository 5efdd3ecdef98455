---------------------------- MODULE AuditReminders ----------------------------
(* The daily reminders of the audit controls, one digest per recipient, and   *)
(* what the compliance admins hear of those that are overdue: by a copy of    *)
(* the digest or, where that reaches nobody, by a digest of their own.        *)
EXTENDS ReminderClaims

CONSTANTS Controls,   \* controls of ongoing audits, none of them COMPLETE
          ControlDue, \* their due date
          People,     \* whom the controls may wait on
          Admins      \* the compliance admins

Nobody == "nobody"

ASSUME AuditRemindersAssumption == ControlDue \in Nat /\ Nobody \notin People \cup Admins

VARIABLES control,     \* whom a control waits on, and whether its status reminds every day
          copied,      \* history: the admins copied on a digest, by control and day
          auditSweep   \* the sweep of each replica

auditVars == <<control, copied, auditSweep>>

Types == {"REMINDER_DUE_10", "REMINDER_DUE_5", "REMINDER_DUE_TODAY", "REMINDER_OVERDUE"}

Notifications == [to : People \cup Admins, control : Controls, type : Types, snapshot : Days \cup {ControlDue}]

\* admins, cc, assigned: what the sweep has read; todo: what it is yet to claim,
\* for the recipient's digest or (TRUE) for an admin's digest of what is overdue;
\* byRecipient, byAdmin: what it has claimed; batch: what it gives back.
AuditSweepStates ==
  [pc : {"start", "work"}, admins : SUBSET Admins, cc : SUBSET Admins, assigned : SUBSET Controls,
   todo : SUBSET (Notifications \X BOOLEAN), byRecipient : SUBSET Notifications,
   byAdmin : SUBSET Notifications, batch : SUBSET Notifications]

AuditSweepIdle == [pc |-> "start", admins |-> {}, cc |-> {}, assigned |-> {}, todo |-> {},
                   byRecipient |-> {}, byAdmin |-> {}, batch |-> {}]

AuditsTypeOK ==
  /\ control \in [Controls -> [assignee : People \cup {Nobody}, daily : BOOLEAN]]
  /\ copied \subseteq Admins \X Controls \X Days
  /\ auditSweep \in [Replicas -> AuditSweepStates]

AuditsInit ==
  /\ control \in Varied("audit", [Controls -> [assignee : People \cup {Nobody}, daily : {FALSE, "Daily" \in ops}]])
  /\ copied = {}
  /\ auditSweep = [r \in Replicas |-> AuditSweepIdle]

\* The control moves on, or to another assignee.
EditControl(c) ==
  /\ Edit("audit")
  /\ \E p \in People \cup {Nobody}, d \in {FALSE, "Daily" \in ops} : control' = [control EXCEPT ![c] = [assignee |-> p, daily |-> d]]
  /\ UNCHANGED <<copied, auditSweep, claimVars>>

-----------------------------------------------------------------------------
Daily(c) == "Daily" \in ops /\ control[c].daily

\* reminderTier of what falls today; a status that reminds every day does so as
\* due today.
TypeToday(c) ==
  LET left == ControlDue - day IN
  CASE left < 0 -> {"REMINDER_OVERDUE"}
    [] left = 0 -> {"REMINDER_DUE_TODAY"}
    [] left = 5 -> {"REMINDER_DUE_5"}
    [] left = 10 -> {"REMINDER_DUE_10"}
    [] OTHER -> IF Daily(c) THEN {"REMINDER_DUE_TODAY"} ELSE {}

\* What is overdue, or reminds every day, does so under a key of its own each day.
SnapshotToday(c) ==
  IF ControlDue < day \/ (Daily(c) /\ ControlDue - day \notin {0, 5, 10}) THEN day ELSE ControlDue

Notes(tos, c) == {[to |-> p, control |-> c, type |-> t, snapshot |-> SnapshotToday(c)] : p \in tos, t \in TypeToday(c)}

Overdue(c) == TypeToday(c) = {"REMINDER_OVERDUE"}

AuditStep(r, pc) == "audit" \in replica[r].busy /\ auditSweep[r].pc = pc

AuditGoes(r, state) == auditSweep' = [auditSweep EXCEPT ![r] = state]

\* Mutant: the assignee, where nobody is, and not those who stand in.
ToRecipients_AssigneeOnly(tos, c) == Notes({control[c].assignee}, c) \X {FALSE}

\* queue and queueAdmins for control c; the latter spares the assignee.
ToRecipients(tos, c) == Notes(tos, c) \X {FALSE}

ToAdmins(tos, c) == Notes(tos \ {control[c].assignee}, c) \X {TRUE}

\* The reads of the sweep.  Without admins there is no copy and no escalation; a
\* copy takes the place of the admins' own digest.  What nobody holds is theirs.
ReadControls(r) ==
  /\ AuditStep(r, "start")
  /\ \/ \E admins \in {Admins} \cup (IF "LookupFails" \in ops THEN {{}} ELSE {}) :
        \E cc \in IF "CC" \notin ops THEN {{}} ELSE IF "LookupFails" \in ops THEN SUBSET admins ELSE {admins} :
          LET assigned == {c \in Controls : control[c].assignee # Nobody}
              Todo(c) == IF c \in assigned
                           THEN ToRecipients({control[c].assignee}, c)
                                  \cup (IF Overdue(c) /\ cc = {} THEN ToAdmins(admins, c) ELSE {})
                           ELSE IF Overdue(c) THEN ToAdmins(admins, c) ELSE ToRecipients(admins, c)
          IN /\ AuditGoes(r, [auditSweep[r] EXCEPT !.pc = "work", !.admins = admins, !.cc = cc,
                                !.assigned = assigned, !.todo = UNION {Todo(c) : c \in Controls}])
             /\ UNCHANGED schedulerVars
     \/ "ListFails" \in ops /\ Done(r, "audit") /\ UNCHANGED auditSweep
  /\ UNCHANGED <<control, copied, claimVars>>

ClaimNotification(r) ==
  /\ AuditStep(r, "work")
  /\ \E n \in auditSweep[r].todo :
       LET rest == [auditSweep[r] EXCEPT !.todo = @ \ {n}]
           key == n[1]
       IN \/ /\ Won(key)
             /\ AuditGoes(r, IF n[2] THEN [rest EXCEPT !.byAdmin = @ \cup {key}]
                                     ELSE [rest EXCEPT !.byRecipient = @ \cup {key}])
          \/ (Taken(key) \/ ClaimFails(key)) /\ AuditGoes(r, rest)
  /\ Unsent /\ UNCHANGED <<control, copied, schedulerVars>>

Claimed(r) == AuditStep(r, "work") /\ auditSweep[r].todo = {} /\ auditSweep[r].batch = {}

\* Mutant: only where the mail failed, and not where it was skipped.
Fallback_FailedOnly(r, ks, failed) ==
  IF failed /\ auditSweep[r].cc # {}
    THEN {<<[k EXCEPT !.to = a], TRUE>> : a \in auditSweep[r].admins, k \in {k \in ks : k.type = "REMINDER_OVERDUE"}}
    ELSE {}

\* What the admins would have heard of by the copy of a digest that reached nobody.
Fallback(r, ks, failed) ==
  LET counted == {k \in ks : k.type = "REMINDER_OVERDUE" /\ k.control \in auditSweep[r].assigned} IN
  IF auditSweep[r].cc = {} THEN {}
  ELSE UNION {{<<[k EXCEPT !.to = a], TRUE>> : a \in auditSweep[r].admins \ {k.to}} : k \in counted}

\* One recipient's digest: sent, with the admins copied unless all of it waits on
\* them; skipped without an error where the recipient is inactive; or failed.
NotifyRecipient(r, to) ==
  LET s     == auditSweep[r]
      ks    == {k \in s.byRecipient : k.to = to}
      rest  == [s EXCEPT !.byRecipient = @ \ ks]
      cc    == IF \E k \in ks : k.control \in s.assigned THEN s.cc ELSE {}
      copies == {<<a, k.control, day>> : a \in cc, k \in ks}
  IN
  /\ Claimed(r) /\ ks # {}
  /\ \/ Mail(ks) /\ copied' = copied \cup copies /\ AuditGoes(r, rest)
     \/ /\ "Inactive" \in ops /\ to \notin Admins
        /\ AuditGoes(r, [rest EXCEPT !.todo = Fallback(r, ks, FALSE)])
        /\ Unsent /\ UNCHANGED copied
     \/ /\ \/ "MailFails" \in ops /\ Unsent /\ UNCHANGED copied
           \/ "MailLost" \in ops /\ Mail(ks) /\ copied' = copied \cup copies
        /\ AuditGoes(r, [rest EXCEPT !.todo = Fallback(r, ks, TRUE), !.batch = ks])
  /\ UNCHANGED <<control, claims, schedulerVars>>

\* One claim of a digest that failed is given back.
ReleaseNotification(r) ==
  /\ AuditStep(r, "work") /\ auditSweep[r].todo = {}
  /\ \E k \in auditSweep[r].batch :
       Release(k) /\ AuditGoes(r, [auditSweep[r] EXCEPT !.batch = @ \ {k}])
  /\ Unsent /\ UNCHANGED <<control, copied, schedulerVars>>

\* An admin's digest of what is overdue, after every recipient's.
NotifyAdmin(r, a) ==
  LET ks   == {k \in auditSweep[r].byAdmin : k.to = a}
      rest == [auditSweep[r] EXCEPT !.byAdmin = @ \ ks]
  IN
  /\ Claimed(r) /\ auditSweep[r].byRecipient = {} /\ ks # {}
  /\ \/ Mail(ks) /\ AuditGoes(r, rest)
     \/ /\ \/ "DigestFails" \in ops /\ Unsent
           \/ "MailLost" \in ops /\ Mail(ks)
        /\ AuditGoes(r, [rest EXCEPT !.batch = ks])
  /\ UNCHANGED <<control, copied, claims, schedulerVars>>

AuditSweepEnds(r) ==
  /\ Claimed(r) /\ auditSweep[r].byRecipient = {} /\ auditSweep[r].byAdmin = {}
  /\ AuditGoes(r, AuditSweepIdle)
  /\ Done(r, "audit")
  /\ UNCHANGED <<control, copied, claimVars>>

AuditSweep(r) ==
  \/ ReadControls(r) \/ ClaimNotification(r) \/ ReleaseNotification(r) \/ AuditSweepEnds(r)
  \/ \E to \in People \cup Admins : NotifyRecipient(r, to)
  \/ \E a \in Admins : NotifyAdmin(r, a)
=============================================================================
