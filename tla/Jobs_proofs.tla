------------------------------ MODULE Jobs_proofs ------------------------------
(* Theorems about Jobs, for any numbers of replicas, days, risks, controls,    *)
(* people, users and hubs, and any mixes of sweeps and failures.               *)
EXTENDS Jobs, FiniteSetTheorems, WellFoundedInduction, SequenceTheorems, TLAPS

-----------------------------------------------------------------------------
(* Facts about the operators.                                                 *)

\* A set of naturals has a least element.
LEMMA LeastOf ==
  ASSUME NEW D \in SUBSET Nat, D # {}
  PROVE  \E m \in D : \A n \in D : m <= n
<1>1. PICK N \in D : TRUE
  OBVIOUS
<1> DEFINE S == D \cap (0..N)
           Below(k) == S \cap (0..k)
           Initials == {Below(k) : k \in S}
<1>2. IsFiniteSet(S)
  <2>1. IsFiniteSet(0..N) /\ S \subseteq 0..N
    BY FS_Interval
  <2> QED BY <2>1, FS_Subset
<1>3. Initials \subseteq FiniteSubsetsOf(S) /\ Initials # {}
  <2>1. \A k \in S : Below(k) \in SUBSET S
    OBVIOUS
  <2>2. \A k \in S : IsFiniteSet(Below(k))
    BY <1>2, <2>1, FS_Subset
  <2>3. N \in S
    BY <1>1
  <2> QED BY <2>1, <2>2, <2>3 DEF FiniteSubsetsOf
<1>4. PICK X \in Initials : \A Y \in Initials : <<Y, X>> \notin StrictSubsetOrdering(S)
  <2> HIDE DEF Initials, S
  <2> QED BY <1>2, <1>3, FS_StrictSubsetOrderingWellFounded, WFMin
<1>5. PICK m \in S : X = Below(m)
  BY <1>4
<1>6. ASSUME NEW n \in D, ~(m <= n) PROVE FALSE
  <2>1. n \in S
    BY <1>6
  <2>2. Below(n) \subseteq Below(m) /\ m \in Below(m) /\ m \notin Below(n)
    BY <1>6, <2>1
  <2>3. <<Below(n), Below(m)>> \in StrictSubsetOrdering(S)
    BY <2>2 DEF StrictSubsetOrdering
  <2> QED BY <2>1, <2>3, <1>4, <1>5
<1> QED BY <1>6

\* What does not vary is one of the values it could have.
LEMMA VariedIn ==
  ASSUME NEW sweep, NEW S, S # {}
  PROVE  Varied(sweep, S) \subseteq S
BY DEF Varied

\* The hubs are numbered.
LEMMA HubNumbers == Len(Hubs) \in Nat /\ DOMAIN Hubs = 1..Len(Hubs)
BY SyncAssumption, LenProperties

\* The key that stands for none is no key.
LEMMA NoKeyIsNone == NoKey \notin RiskKeys
<1>1. SUFFICES ASSUME NoKey \in RiskKeys PROVE FALSE
  OBVIOUS
<1>2. DOMAIN NoKey = {"risk", "tier", "due"}
  BY <1>1 DEF RiskKeys
<1>3. DOMAIN NoKey = {"risk"}
  BY DEF NoKey
<1> QED BY <1>2, <1>3

\* A reminder of a risk is none of a control.
LEMMA KeysApart == RiskKeys \cap Notifications = {}
<1>1. SUFFICES ASSUME NEW k \in RiskKeys \cap Notifications PROVE FALSE
  OBVIOUS
<1>2. DOMAIN k = {"risk", "tier", "due"}
  BY <1>1 DEF RiskKeys
<1>3. DOMAIN k = {"to", "control", "type", "snapshot"}
  BY <1>1 DEF Notifications
<1> QED BY <1>2, <1>3

-----------------------------------------------------------------------------
(* Types.                                                                     *)

ClaimsTypeOK == /\ claims \subseteq RiskKeys \cup Notifications
                /\ twice \subseteq sent /\ sent \subseteq RiskKeys \cup Notifications

\* A sweep holds a key between its claim and the mail, and until it is released.
ItemInv == \A r \in Replicas : riskSweep[r].item # NoKey <=> riskSweep[r].pc \in {"send", "release"}

\* The first of the days.
LEMMA FirstDay == (CHOOSE d \in Days : \A e \in Days : d <= e) \in Days
<1>1. \E d \in Days : \A e \in Days : d <= e
  BY SchedulerAssumption, LeastOf
<1> QED BY <1>1

\* The day that follows.
LEMMA NextDay ==
  ASSUME NEW d \in Days, \E e \in Days : e > d
  PROVE  LET next == CHOOSE n \in Days : n > d /\ \A e \in Days : e > d => n <= e IN next \in Days /\ next > d
<1> DEFINE Later == {e \in Days : e > d}
<1>1. Later \in SUBSET Nat /\ Later # {}
  BY SchedulerAssumption
<1>2. \E n \in Later : \A e \in Later : n <= e
  <2> HIDE DEF Later
  <2> QED BY <1>1, LeastOf
<1>3. \E n \in Days : n > d /\ \A e \in Days : e > d => n <= e
  BY <1>2
<1> QED BY <1>3

LEMMA SchedulerTypes ==
  /\ SchedulerInit => SchedulerTypeOK
  /\ \A r \in Replicas : SchedulerTypeOK /\ (Fire(r) \/ Down(r) \/ Up(r)) => SchedulerTypeOK'
  /\ \A r \in Replicas, s \in Sweeps : SchedulerTypeOK /\ (Trigger(r, s) \/ Done(r, s)) => SchedulerTypeOK'
  /\ \A s \in Sweeps : SchedulerTypeOK /\ Edit(s) => SchedulerTypeOK'
  /\ SchedulerTypeOK /\ DayPasses => SchedulerTypeOK'
  /\ SchedulerTypeOK /\ UNCHANGED schedulerVars => SchedulerTypeOK'
<1>1. SchedulerInit => SchedulerTypeOK
  BY FirstDay DEF SchedulerInit, SchedulerTypeOK, ReplicaStates
<1>2. \A r \in Replicas : SchedulerTypeOK /\ (Fire(r) \/ Down(r) \/ Up(r)) => SchedulerTypeOK'
  <2>1. ASSUME NEW r \in Replicas, SchedulerTypeOK, Fire(r) PROVE SchedulerTypeOK'
    BY <2>1 DEF SchedulerTypeOK, ReplicaStates, Fire, Scheduled
  <2>2. ASSUME NEW r \in Replicas, SchedulerTypeOK, Down(r) PROVE SchedulerTypeOK'
    BY ZenonT(30), <2>2 DEF SchedulerTypeOK, ReplicaStates, Down
  <2>3. ASSUME NEW r \in Replicas, SchedulerTypeOK, Up(r) PROVE SchedulerTypeOK'
    <3>1. PICK fired \in BOOLEAN : replica' = [replica EXCEPT ![r].up = TRUE, ![r].fired = fired]
      <4>1. PICK late \in BOOLEAN : replica' = [replica EXCEPT ![r].up = TRUE, ![r].fired = @ \/ late]
        BY <2>3 DEF Up
      <4>2. (replica[r].fired \/ late) \in BOOLEAN
        OBVIOUS
      <4> QED BY <4>1, <4>2
    <3> QED BY ZenonT(40), <2>3, <3>1 DEF SchedulerTypeOK, ReplicaStates, Up
  <2> QED BY <2>1, <2>2, <2>3
<1>3. \A r \in Replicas, s \in Sweeps : SchedulerTypeOK /\ (Trigger(r, s) \/ Done(r, s)) => SchedulerTypeOK'
  BY DEF SchedulerTypeOK, ReplicaStates, Trigger, Done
<1>4. \A s \in Sweeps : SchedulerTypeOK /\ Edit(s) => SchedulerTypeOK'
  BY DEF SchedulerTypeOK, Edit
<1>5. SchedulerTypeOK /\ DayPasses => SchedulerTypeOK'
  <2> SUFFICES ASSUME SchedulerTypeOK, DayPasses PROVE SchedulerTypeOK'
    OBVIOUS
  <2>1. day' \in Days
    BY NextDay DEF DayPasses, SchedulerTypeOK
  <2>2. replica' \in [Replicas -> ReplicaStates]
    BY DEF DayPasses, SchedulerTypeOK, ReplicaStates
  <2> QED BY <2>1, <2>2 DEF DayPasses, SchedulerTypeOK
<1>6. SchedulerTypeOK /\ UNCHANGED schedulerVars => SchedulerTypeOK'
  BY DEF SchedulerTypeOK, schedulerVars
<1> QED BY <1>1, <1>2, <1>3, <1>4, <1>5, <1>6

LEMMA RisksTypes ==
  ASSUME RisksTypeOK, ItemInv, NEW r \in Replicas
  PROVE  /\ RiskGoes(r, RiskSweepIdle) /\ UNCHANGED risk => RisksTypeOK' /\ ItemInv'
         /\ RiskSweep(r) => RisksTypeOK' /\ ItemInv'
<1>1. ASSUME UNCHANGED risk, NEW state \in RiskSweepStates, RiskGoes(r, state),
             state.item # NoKey <=> state.pc \in {"send", "release"}
      PROVE  RisksTypeOK' /\ ItemInv'
  <2>1. riskSweep' \in [Replicas -> RiskSweepStates] /\ riskSweep' = [riskSweep EXCEPT ![r] = state]
    BY <1>1 DEF RisksTypeOK, RiskGoes
  <2>2. RisksTypeOK'
    BY <1>1, <2>1 DEF RisksTypeOK
  <2>3. ItemInv'
    BY <1>1, <2>1 DEF ItemInv, RisksTypeOK
  <2> QED BY <2>2, <2>3
<1>2. ASSUME UNCHANGED riskVars PROVE RisksTypeOK' /\ ItemInv'
  BY <1>2 DEF RisksTypeOK, ItemInv, riskVars
<1>3. RiskSweepIdle \in RiskSweepStates /\ RiskSweepIdle.item = NoKey /\ RiskSweepIdle.pc = "start"
  BY DEF RiskSweepIdle, RiskSweepStates
<1>4. PICK q : q = riskSweep[r]
  OBVIOUS
<1>5. q \in RiskSweepStates /\ (q.item # NoKey <=> q.pc \in {"send", "release"})
  BY <1>4 DEF RisksTypeOK, ItemInv
<1>6. CASE ListRisks(r)
  <2>1. PICK due : due = DueToday
    OBVIOUS
  <2>2. due \subseteq RiskKeys
    BY <2>1 DEF DueToday
  <2>3. CASE RiskGoes(r, [q EXCEPT !.pc = "claim", !.left = due]) /\ q.pc = "start"
    <3>1. PICK next : next = [q EXCEPT !.pc = "claim", !.left = due]
      OBVIOUS
    <3>2. next \in RiskSweepStates /\ next.item = q.item /\ next.pc = "claim"
      BY <1>5, <2>2, <3>1 DEF RiskSweepStates
    <3>3. next.item # NoKey <=> next.pc \in {"send", "release"}
      BY <1>5, <2>3, <3>2
    <3>4. RiskGoes(r, next)
      BY <2>3, <3>1 DEF RiskGoes
    <3> QED BY <1>1, <1>6, <3>2, <3>3, <3>4 DEF ListRisks
  <2> QED BY <1>2, <1>4, <1>6, <2>1, <2>3 DEF ListRisks, RiskStep, RiskGoes, riskVars
<1>7. CASE ClaimRisk(r)
  <2>1. PICK k \in q.left : \/ RiskGoes(r, [q EXCEPT !.pc = "send", !.left = q.left \ {k}, !.item = k])
                            \/ RiskGoes(r, [q EXCEPT !.left = q.left \ {k}])
    BY <1>4, <1>7 DEF ClaimRisk, RiskGoes
  <2>2. k \in RiskKeys /\ k # NoKey /\ q.pc = "claim" /\ UNCHANGED risk
    BY <1>4, <1>5, <1>7, NoKeyIsNone DEF RiskSweepStates, ClaimRisk, RiskStep
  <2>3. CASE RiskGoes(r, [q EXCEPT !.pc = "send", !.left = q.left \ {k}, !.item = k])
    <3>1. PICK next : next = [q EXCEPT !.pc = "send", !.left = q.left \ {k}, !.item = k]
      OBVIOUS
    <3>2. next \in RiskSweepStates /\ next.item = k /\ next.pc = "send"
      BY <1>5, <2>2, <3>1 DEF RiskSweepStates
    <3>3. RiskGoes(r, next)
      BY <2>3, <3>1 DEF RiskGoes
    <3> QED BY <1>1, <2>2, <3>2, <3>3
  <2>4. CASE RiskGoes(r, [q EXCEPT !.left = q.left \ {k}])
    <3>1. PICK next : next = [q EXCEPT !.left = q.left \ {k}]
      OBVIOUS
    <3>2. next \in RiskSweepStates /\ next.item = q.item /\ next.pc = q.pc
      BY <1>5, <3>1 DEF RiskSweepStates
    <3>3. RiskGoes(r, next)
      BY <2>4, <3>1 DEF RiskGoes
    <3> QED BY <1>1, <1>5, <2>2, <3>2, <3>3
  <2> QED BY <2>1, <2>3, <2>4
<1>8. CASE NotifyRisk(r)
  <2>1. q.pc = "send" /\ UNCHANGED risk
    BY <1>4, <1>8 DEF NotifyRisk, RiskStep
  <2>2. CASE RiskGoes(r, [q EXCEPT !.pc = "claim", !.item = NoKey])
    <3>1. PICK next : next = [q EXCEPT !.pc = "claim", !.item = NoKey]
      OBVIOUS
    <3>2. next \in RiskSweepStates /\ next.item = NoKey /\ next.pc = "claim"
      BY <1>5, <3>1 DEF RiskSweepStates
    <3>3. RiskGoes(r, next)
      BY <2>2, <3>1 DEF RiskGoes
    <3> QED BY <1>1, <2>1, <3>2, <3>3
  <2>3. CASE RiskGoes(r, [q EXCEPT !.pc = "release"])
    <3>1. PICK next : next = [q EXCEPT !.pc = "release"]
      OBVIOUS
    <3>2. next \in RiskSweepStates /\ next.item = q.item /\ next.pc = "release"
      BY <1>5, <3>1 DEF RiskSweepStates
    <3>3. RiskGoes(r, next)
      BY <2>3, <3>1 DEF RiskGoes
    <3> QED BY <1>1, <1>5, <2>1, <3>2, <3>3
  <2> QED BY <1>4, <1>8, <2>2, <2>3 DEF NotifyRisk, RiskGoes
<1>9. CASE ReleaseRisk(r)
  <2>1. PICK next : next = [q EXCEPT !.pc = "claim", !.item = NoKey]
    OBVIOUS
  <2>2. next \in RiskSweepStates /\ next.item = NoKey /\ next.pc = "claim"
    BY <1>5, <2>1 DEF RiskSweepStates
  <2>3. RiskGoes(r, next) /\ UNCHANGED risk
    BY <1>4, <1>9, <2>1 DEF ReleaseRisk, RiskGoes
  <2> QED BY <1>1, <2>2, <2>3
<1>10. CASE RiskSweepEnds(r)
  BY <1>1, <1>3, <1>10 DEF RiskSweepEnds
<1> QED BY <1>1, <1>3, <1>6, <1>7, <1>8, <1>9, <1>10 DEF RiskSweep

\* The reminders of a control are notifications; they are overdue where it is.
LEMMA NotesTyped ==
  ASSUME NEW c \in Controls, NEW tos \in SUBSET (People \cup Admins), day \in Days
  PROVE  /\ TypeToday(c) \subseteq Types /\ SnapshotToday(c) \in Days \cup {ControlDue}
         /\ Notes(tos, c) \subseteq Notifications
         /\ \A k \in Notes(tos, c) : k.to \in tos /\ k.control = c
<1>1. TypeToday(c) \subseteq Types
  BY DEF TypeToday, Types
<1>2. SnapshotToday(c) \in Days \cup {ControlDue}
  BY SMTT(30) DEF SnapshotToday
<1> QED BY <1>1, <1>2 DEF Notes, Notifications

\* What is to be claimed for a control, as ReadControls finds it.
Assigned == {c \in Controls : control[c].assignee # Nobody}

TodoOf(c, admins, cc) ==
  IF c \in Assigned
    THEN ToRecipients({control[c].assignee}, c) \cup (IF Overdue(c) /\ cc = {} THEN ToAdmins(admins, c) ELSE {})
    ELSE IF Overdue(c) THEN ToAdmins(admins, c) ELSE ToRecipients(admins, c)

TodoToday(admins, cc) == UNION {TodoOf(c, admins, cc) : c \in Controls}

LEMMA ReadControlsRead ==
  ASSUME NEW r \in Replicas, ReadControls(r)
  PROVE  /\ AuditStep(r, "start") /\ UNCHANGED <<control, copied, claimVars>>
         /\ \/ \E admins \in {Admins, {}} : \E cc \in SUBSET admins :
                 /\ "LookupFails" \notin ops => admins = Admins /\ cc = IF "CC" \in ops THEN Admins ELSE {}
                 /\ "CC" \notin ops => cc = {}
                 /\ AuditGoes(r, [auditSweep[r] EXCEPT !.pc = "work", !.admins = admins, !.cc = cc,
                                    !.assigned = Assigned, !.todo = TodoToday(admins, cc)])
                 /\ UNCHANGED schedulerVars
            \/ "ListFails" \in ops /\ Done(r, "audit") /\ UNCHANGED auditSweep
<1>1. AuditStep(r, "start") /\ UNCHANGED <<control, copied, claimVars>>
  BY DEF ReadControls
<1>2. CASE "ListFails" \in ops /\ Done(r, "audit") /\ UNCHANGED auditSweep
  BY <1>1, <1>2
<1>3. ASSUME NEW admins \in {Admins} \cup (IF "LookupFails" \in ops THEN {{}} ELSE {}),
             NEW cc \in IF "CC" \notin ops THEN {{}} ELSE IF "LookupFails" \in ops THEN SUBSET admins ELSE {admins},
             AuditGoes(r, [auditSweep[r] EXCEPT !.pc = "work", !.admins = admins, !.cc = cc,
                             !.assigned = Assigned, !.todo = TodoToday(admins, cc)]),
             UNCHANGED schedulerVars
      PROVE  \E a \in {Admins, {}} : \E b \in SUBSET a :
                 /\ "LookupFails" \notin ops => a = Admins /\ b = IF "CC" \in ops THEN Admins ELSE {}
                 /\ "CC" \notin ops => b = {}
                 /\ AuditGoes(r, [auditSweep[r] EXCEPT !.pc = "work", !.admins = a, !.cc = b,
                                    !.assigned = Assigned, !.todo = TodoToday(a, b)])
                 /\ UNCHANGED schedulerVars
  <2>1. admins \in {Admins, {}} /\ cc \in SUBSET admins
    OBVIOUS
  <2>2. /\ "LookupFails" \notin ops => admins = Admins /\ cc = IF "CC" \in ops THEN Admins ELSE {}
        /\ "CC" \notin ops => cc = {}
    OBVIOUS
  <2> QED BY <1>3, <2>1, <2>2
<1>4. \/ "ListFails" \in ops /\ Done(r, "audit") /\ UNCHANGED auditSweep
      \/ \E admins \in {Admins} \cup (IF "LookupFails" \in ops THEN {{}} ELSE {}) :
         \E cc \in IF "CC" \notin ops THEN {{}} ELSE IF "LookupFails" \in ops THEN SUBSET admins ELSE {admins} :
           /\ AuditGoes(r, [auditSweep[r] EXCEPT !.pc = "work", !.admins = admins, !.cc = cc,
                              !.assigned = Assigned, !.todo = TodoToday(admins, cc)])
           /\ UNCHANGED schedulerVars
  BY DEF ReadControls, Assigned, TodoToday, TodoOf
<1> QED BY <1>1, <1>2, <1>3, <1>4

LEMMA TodoTyped ==
  ASSUME AuditsTypeOK, day \in Days, NEW admins \in SUBSET Admins, NEW cc
  PROVE  TodoToday(admins, cc) \subseteq Notifications \X BOOLEAN
<1>1. ASSUME NEW c \in Controls PROVE TodoOf(c, admins, cc) \subseteq Notifications \X BOOLEAN
  <2>1. c \in Assigned => {control[c].assignee} \subseteq People \cup Admins
    BY DEF AuditsTypeOK, Assigned
  <2>2. admins \subseteq People \cup Admins /\ admins \ {control[c].assignee} \subseteq People \cup Admins
    OBVIOUS
  <2>3. \A tos \in SUBSET (People \cup Admins) : Notes(tos, c) \subseteq Notifications
    BY NotesTyped
  <2> QED BY <2>1, <2>2, <2>3 DEF TodoOf, ToRecipients, ToAdmins
<1> QED BY <1>1 DEF TodoToday

\* The stand-ins for a digest that reached nobody.
Counted(r, ks) == {k \in ks : k.type = "REMINDER_OVERDUE" /\ k.control \in auditSweep[r].assigned}

LEMMA FallbackIs ==
  ASSUME NEW r \in Replicas, NEW ks, NEW failed
  PROVE  /\ auditSweep[r].cc = {} => Fallback(r, ks, failed) = {}
         /\ \A x \in Fallback(r, ks, failed) :
              \E k \in Counted(r, ks) : \E a \in auditSweep[r].admins \ {k.to} : x = <<[k EXCEPT !.to = a], TRUE>>
         /\ auditSweep[r].cc # {} =>
              \A k \in Counted(r, ks) : \A a \in auditSweep[r].admins \ {k.to} :
                <<[k EXCEPT !.to = a], TRUE>> \in Fallback(r, ks, failed)
<1> DEFINE For(k) == {<<[k EXCEPT !.to = a], TRUE>> : a \in auditSweep[r].admins \ {k.to}}
<1>1. Fallback(r, ks, failed) = IF auditSweep[r].cc = {} THEN {} ELSE UNION {For(k) : k \in Counted(r, ks)}
  BY DEF Fallback, Counted
<1>2. ASSUME NEW x \in UNION {For(k) : k \in Counted(r, ks)}
      PROVE  \E k \in Counted(r, ks) : \E a \in auditSweep[r].admins \ {k.to} : x = <<[k EXCEPT !.to = a], TRUE>>
  OBVIOUS
<1>3. ASSUME NEW k \in Counted(r, ks), NEW a \in auditSweep[r].admins \ {k.to}
      PROVE  <<[k EXCEPT !.to = a], TRUE>> \in UNION {For(l) : l \in Counted(r, ks)}
  <2>1. <<[k EXCEPT !.to = a], TRUE>> \in For(k)
    OBVIOUS
  <2> QED BY <2>1
<1> HIDE DEF For
<1> QED BY <1>1, <1>2, <1>3

LEMMA FallbackTyped ==
  ASSUME AuditsTypeOK, NEW r \in Replicas, NEW ks \in SUBSET Notifications, NEW failed
  PROVE  Fallback(r, ks, failed) \subseteq Notifications \X BOOLEAN
<1>1. \A k \in Notifications, a \in Admins : [k EXCEPT !.to = a] \in Notifications
  BY DEF Notifications
<1>2. auditSweep[r].admins \subseteq Admins
  BY DEF AuditsTypeOK, AuditSweepStates
<1>3. ASSUME NEW x \in Fallback(r, ks, failed) PROVE x \in Notifications \X BOOLEAN
  <2>1. PICK k \in Counted(r, ks) : \E a \in auditSweep[r].admins \ {k.to} : x = <<[k EXCEPT !.to = a], TRUE>>
    BY FallbackIs
  <2>2. PICK a \in Admins : x = <<[k EXCEPT !.to = a], TRUE>>
    BY <1>2, <2>1
  <2>3. [k EXCEPT !.to = a] \in Notifications
    BY <1>1 DEF Counted
  <2> QED BY <2>2, <2>3
<1> QED BY <1>3

-----------------------------------------------------------------------------
(* What each step of the audit sweep does to its state.                       *)

\* The sweep of r moves on to the state next, and keeps what it has read.
Moves(r, next) == next \in AuditSweepStates /\ AuditGoes(r, next)

Works(r, next) ==
  /\ Moves(r, next)
  /\ auditSweep[r].pc = "work" /\ next.pc = "work"
  /\ next.admins = auditSweep[r].admins /\ next.cc = auditSweep[r].cc /\ next.assigned = auditSweep[r].assigned

\* The keys of a recipient's digest, and who is copied on it.
DigestOf(r, to) == {k \in auditSweep[r].byRecipient : k.to = to}

CopiesOf(r, to) ==
  {<<a, k.control, day>> : a \in IF \E k \in DigestOf(r, to) : k.control \in auditSweep[r].assigned
                                   THEN auditSweep[r].cc ELSE {},
                           k \in DigestOf(r, to)}

\* The keys of an admin's digest.
EscalationOf(r, a) == {k \in auditSweep[r].byAdmin : k.to = a}

LEMMA ReadControlsDoes ==
  ASSUME AuditsTypeOK, day \in Days, NEW r \in Replicas, ReadControls(r)
  PROVE  /\ "audit" \in replica[r].busy /\ auditSweep[r].pc = "start" /\ UNCHANGED <<control, copied, claimVars>>
         /\ \/ \E next : \E admins \in {Admins, {}} : \E cc \in SUBSET admins :
                 /\ Moves(r, next) /\ UNCHANGED schedulerVars
                 /\ "LookupFails" \notin ops => admins = Admins /\ cc = IF "CC" \in ops THEN Admins ELSE {}
                 /\ "CC" \notin ops => cc = {}
                 /\ next.pc = "work" /\ next.admins = admins /\ next.cc = cc /\ next.assigned = Assigned
                 /\ next.todo = TodoToday(admins, cc)
                 /\ next.byRecipient = auditSweep[r].byRecipient /\ next.byAdmin = auditSweep[r].byAdmin
                 /\ next.batch = auditSweep[r].batch
            \/ "ListFails" \in ops /\ Done(r, "audit") /\ UNCHANGED auditSweep
<1>1. PICK q : q = auditSweep[r]
  OBVIOUS
<1>2. q \in AuditSweepStates
  BY <1>1 DEF AuditsTypeOK
<1>3. AuditStep(r, "start") /\ UNCHANGED <<control, copied, claimVars>>
  BY ReadControlsRead
<1>4. CASE "ListFails" \in ops /\ Done(r, "audit") /\ UNCHANGED auditSweep
  BY <1>3, <1>4 DEF AuditStep
<1>5. ASSUME NEW admins \in {Admins, {}}, NEW cc \in SUBSET admins,
             "LookupFails" \notin ops => admins = Admins /\ cc = IF "CC" \in ops THEN Admins ELSE {},
             "CC" \notin ops => cc = {},
             AuditGoes(r, [auditSweep[r] EXCEPT !.pc = "work", !.admins = admins, !.cc = cc,
                             !.assigned = Assigned, !.todo = TodoToday(admins, cc)]),
             UNCHANGED schedulerVars
      PROVE  \E next : 
                 /\ Moves(r, next) /\ UNCHANGED schedulerVars
                 /\ next.pc = "work" /\ next.admins = admins /\ next.cc = cc /\ next.assigned = Assigned
                 /\ next.todo = TodoToday(admins, cc)
                 /\ next.byRecipient = auditSweep[r].byRecipient /\ next.byAdmin = auditSweep[r].byAdmin
                 /\ next.batch = auditSweep[r].batch
  <2>1. PICK todo : todo = TodoToday(admins, cc)
    OBVIOUS
  <2>2. todo \subseteq Notifications \X BOOLEAN
    BY <2>1, TodoTyped
  <2>3. PICK assigned : assigned = Assigned
    OBVIOUS
  <2>4. assigned \subseteq Controls
    BY <2>3 DEF Assigned
  <2>5. PICK next : next = [q EXCEPT !.pc = "work", !.admins = admins, !.cc = cc, !.assigned = assigned, !.todo = todo]
    OBVIOUS
  <2>6. /\ next \in AuditSweepStates
        /\ next.pc = "work" /\ next.admins = admins /\ next.cc = cc /\ next.assigned = assigned /\ next.todo = todo
        /\ next.byRecipient = q.byRecipient /\ next.byAdmin = q.byAdmin /\ next.batch = q.batch
    BY <1>2, <2>2, <2>4, <2>5 DEF AuditSweepStates
  <2>7. AuditGoes(r, next)
    BY <1>1, <1>5, <2>1, <2>3, <2>5
  <2> QED BY <1>1, <1>5, <2>1, <2>3, <2>6, <2>7 DEF Moves
<1>6. ASSUME ~("ListFails" \in ops /\ Done(r, "audit") /\ UNCHANGED auditSweep)
      PROVE  \E next : \E admins \in {Admins, {}} : \E cc \in SUBSET admins :
                 /\ Moves(r, next) /\ UNCHANGED schedulerVars
                 /\ "LookupFails" \notin ops => admins = Admins /\ cc = IF "CC" \in ops THEN Admins ELSE {}
                 /\ "CC" \notin ops => cc = {}
                 /\ next.pc = "work" /\ next.admins = admins /\ next.cc = cc /\ next.assigned = Assigned
                 /\ next.todo = TodoToday(admins, cc)
                 /\ next.byRecipient = auditSweep[r].byRecipient /\ next.byAdmin = auditSweep[r].byAdmin
                 /\ next.batch = auditSweep[r].batch
  <2>1. PICK admins \in {Admins, {}} : \E cc \in SUBSET admins :
          /\ "LookupFails" \notin ops => admins = Admins /\ cc = IF "CC" \in ops THEN Admins ELSE {}
          /\ "CC" \notin ops => cc = {}
          /\ AuditGoes(r, [auditSweep[r] EXCEPT !.pc = "work", !.admins = admins, !.cc = cc,
                             !.assigned = Assigned, !.todo = TodoToday(admins, cc)])
          /\ UNCHANGED schedulerVars
    BY <1>6, ReadControlsRead
  <2>2. PICK cc \in SUBSET admins :
          /\ "LookupFails" \notin ops => admins = Admins /\ cc = IF "CC" \in ops THEN Admins ELSE {}
          /\ "CC" \notin ops => cc = {}
          /\ AuditGoes(r, [auditSweep[r] EXCEPT !.pc = "work", !.admins = admins, !.cc = cc,
                             !.assigned = Assigned, !.todo = TodoToday(admins, cc)])
          /\ UNCHANGED schedulerVars
    BY <2>1
  <2>3. PICK next :
                 /\ Moves(r, next) /\ UNCHANGED schedulerVars
                 /\ next.pc = "work" /\ next.admins = admins /\ next.cc = cc /\ next.assigned = Assigned
                 /\ next.todo = TodoToday(admins, cc)
                 /\ next.byRecipient = auditSweep[r].byRecipient /\ next.byAdmin = auditSweep[r].byAdmin
                 /\ next.batch = auditSweep[r].batch
    BY ZenonT(40), <1>5, <2>2
  <2> QED BY <2>2, <2>3
<1> QED BY <1>3, <1>4, <1>6 DEF AuditStep

LEMMA ClaimNotificationDoes ==
  ASSUME AuditsTypeOK, NEW r \in Replicas, ClaimNotification(r)
  PROVE  /\ UNCHANGED <<control, copied, sent, twice, schedulerVars>> /\ "audit" \in replica[r].busy
         /\ \E n \in auditSweep[r].todo, next \in AuditSweepStates :
              /\ Works(r, next) /\ n[1] \in Notifications
              /\ next.todo = auditSweep[r].todo \ {n} /\ next.batch = auditSweep[r].batch
              /\ \/ /\ Won(n[1]) /\ n[2] = TRUE
                    /\ next.byAdmin = auditSweep[r].byAdmin \cup {n[1]}
                    /\ next.byRecipient = auditSweep[r].byRecipient
                 \/ /\ Won(n[1]) /\ n[2] = FALSE
                    /\ next.byAdmin = auditSweep[r].byAdmin
                    /\ next.byRecipient = auditSweep[r].byRecipient \cup {n[1]}
                 \/ /\ Taken(n[1]) \/ ClaimFails(n[1])
                    /\ next.byAdmin = auditSweep[r].byAdmin
                    /\ next.byRecipient = auditSweep[r].byRecipient
<1>1. PICK q : q = auditSweep[r]
  OBVIOUS
<1>2. q \in AuditSweepStates /\ q.pc = "work" /\ "audit" \in replica[r].busy
  BY <1>1 DEF AuditsTypeOK, ClaimNotification, AuditStep
<1>3. PICK n \in q.todo :
        \/ /\ Won(n[1])
           /\ AuditGoes(r, IF n[2] THEN [[q EXCEPT !.todo = @ \ {n}] EXCEPT !.byAdmin = @ \cup {n[1]}]
                                   ELSE [[q EXCEPT !.todo = @ \ {n}] EXCEPT !.byRecipient = @ \cup {n[1]}])
        \/ (Taken(n[1]) \/ ClaimFails(n[1])) /\ AuditGoes(r, [q EXCEPT !.todo = @ \ {n}])
  BY <1>1 DEF ClaimNotification
<1>4. n[1] \in Notifications /\ n[2] \in BOOLEAN
  BY <1>2 DEF AuditSweepStates
<1>5. PICK rest : rest = [q EXCEPT !.todo = @ \ {n}]
  OBVIOUS
<1>6. /\ rest \in AuditSweepStates /\ rest.pc = "work" /\ rest.admins = q.admins /\ rest.cc = q.cc
      /\ rest.assigned = q.assigned /\ rest.todo = q.todo \ {n} /\ rest.batch = q.batch
      /\ rest.byAdmin = q.byAdmin /\ rest.byRecipient = q.byRecipient
  BY <1>2, <1>5 DEF AuditSweepStates
<1>7. UNCHANGED <<control, copied, sent, twice, schedulerVars>>
  BY DEF ClaimNotification, Unsent
<1>8. CASE Won(n[1]) /\ n[2] = TRUE /\ AuditGoes(r, [rest EXCEPT !.byAdmin = @ \cup {n[1]}])
  <2>1. PICK next : next = [rest EXCEPT !.byAdmin = @ \cup {n[1]}]
    OBVIOUS
  <2>2. /\ next \in AuditSweepStates /\ next.pc = "work" /\ next.admins = q.admins /\ next.cc = q.cc
        /\ next.assigned = q.assigned /\ next.todo = q.todo \ {n} /\ next.batch = q.batch
        /\ next.byAdmin = q.byAdmin \cup {n[1]} /\ next.byRecipient = q.byRecipient
    BY <1>4, <1>6, <2>1 DEF AuditSweepStates
  <2>3. Works(r, next)
    BY <1>1, <1>2, <1>8, <2>1, <2>2 DEF Works, Moves
  <2>4. next \in AuditSweepStates
    BY <2>2
  <2> QED BY <1>1, <1>2, <1>4, <1>7, <1>8, <2>2, <2>3, <2>4
<1>9. CASE Won(n[1]) /\ n[2] = FALSE /\ AuditGoes(r, [rest EXCEPT !.byRecipient = @ \cup {n[1]}])
  <2>1. PICK next : next = [rest EXCEPT !.byRecipient = @ \cup {n[1]}]
    OBVIOUS
  <2>2. /\ next \in AuditSweepStates /\ next.pc = "work" /\ next.admins = q.admins /\ next.cc = q.cc
        /\ next.assigned = q.assigned /\ next.todo = q.todo \ {n} /\ next.batch = q.batch
        /\ next.byAdmin = q.byAdmin /\ next.byRecipient = q.byRecipient \cup {n[1]}
    BY <1>4, <1>6, <2>1 DEF AuditSweepStates
  <2> QED BY ZenonT(30), <1>1, <1>2, <1>4, <1>7, <1>9, <2>1, <2>2 DEF Works, Moves
<1>10. CASE (Taken(n[1]) \/ ClaimFails(n[1])) /\ AuditGoes(r, rest)
  BY <1>1, <1>2, <1>4, <1>6, <1>7, <1>10 DEF Works, Moves
<1>11. CASE Won(n[1]) /\ AuditGoes(r, IF n[2] THEN [rest EXCEPT !.byAdmin = @ \cup {n[1]}]
                                              ELSE [rest EXCEPT !.byRecipient = @ \cup {n[1]}])
  BY <1>4, <1>8, <1>9, <1>11
<1> QED BY <1>3, <1>5, <1>10, <1>11

LEMMA NotifyRecipientDoes ==
  ASSUME AuditsTypeOK, day \in Days, NEW r \in Replicas, NEW to, NotifyRecipient(r, to)
  PROVE  /\ UNCHANGED <<control, claims, schedulerVars>> /\ "audit" \in replica[r].busy
         /\ auditSweep[r].todo = {} /\ auditSweep[r].batch = {} /\ DigestOf(r, to) # {}
         /\ \E next :
              /\ Works(r, next)
              /\ next.byRecipient = auditSweep[r].byRecipient \ DigestOf(r, to) /\ next.byAdmin = auditSweep[r].byAdmin
              /\ \/ /\ Mail(DigestOf(r, to)) /\ copied' = copied \cup CopiesOf(r, to)
                    /\ next.todo = {} /\ next.batch = {}
                 \/ /\ "Inactive" \in ops /\ Unsent /\ UNCHANGED copied
                    /\ next.todo = Fallback(r, DigestOf(r, to), FALSE) /\ next.batch = {}
                 \/ /\ \/ "MailFails" \in ops /\ Unsent /\ UNCHANGED copied
                       \/ "MailLost" \in ops /\ Mail(DigestOf(r, to)) /\ copied' = copied \cup CopiesOf(r, to)
                    /\ next.todo = Fallback(r, DigestOf(r, to), TRUE) /\ next.batch = DigestOf(r, to)
<1>1. PICK q : q = auditSweep[r]
  OBVIOUS
<1>2. PICK ks : ks = DigestOf(r, to)
  OBVIOUS
<1>3. /\ q \in AuditSweepStates /\ q.pc = "work" /\ q.todo = {} /\ q.batch = {}
      /\ ks \subseteq Notifications /\ ks # {} /\ "audit" \in replica[r].busy
  BY <1>1, <1>2 DEF AuditsTypeOK, AuditSweepStates, NotifyRecipient, Claimed, AuditStep, DigestOf
<1>4. PICK copies : copies = CopiesOf(r, to)
  OBVIOUS
<1>5. PICK rest : rest = [q EXCEPT !.byRecipient = @ \ ks]
  OBVIOUS
<1>6. \/ Mail(ks) /\ copied' = copied \cup copies /\ AuditGoes(r, rest)
      \/ /\ "Inactive" \in ops
         /\ AuditGoes(r, [rest EXCEPT !.todo = Fallback(r, ks, FALSE)])
         /\ Unsent /\ UNCHANGED copied
      \/ /\ \/ "MailFails" \in ops /\ Unsent /\ UNCHANGED copied
            \/ "MailLost" \in ops /\ Mail(ks) /\ copied' = copied \cup copies
         /\ AuditGoes(r, [rest EXCEPT !.todo = Fallback(r, ks, TRUE), !.batch = ks])
  BY <1>1, <1>2, <1>4, <1>5 DEF NotifyRecipient, DigestOf, CopiesOf
<1>7. UNCHANGED <<control, claims, schedulerVars>>
  BY DEF NotifyRecipient
<1>8. /\ rest \in AuditSweepStates /\ rest.pc = "work" /\ rest.admins = q.admins /\ rest.cc = q.cc
      /\ rest.assigned = q.assigned /\ rest.todo = {} /\ rest.batch = {}
      /\ rest.byAdmin = q.byAdmin /\ rest.byRecipient = q.byRecipient \ ks
  BY <1>3, <1>5 DEF AuditSweepStates
<1>9. \A failed \in BOOLEAN : Fallback(r, ks, failed) \subseteq Notifications \X BOOLEAN
  BY <1>3, FallbackTyped
<1>10. CASE Mail(ks) /\ copied' = copied \cup copies /\ AuditGoes(r, rest)
  BY <1>1, <1>2, <1>3, <1>4, <1>7, <1>8, <1>10 DEF Works, Moves
<1>11. CASE /\ "Inactive" \in ops
            /\ AuditGoes(r, [rest EXCEPT !.todo = Fallback(r, ks, FALSE)])
            /\ Unsent /\ UNCHANGED copied
  <2>1. PICK todo : todo = Fallback(r, ks, FALSE)
    OBVIOUS
  <2>2. PICK next : next = [rest EXCEPT !.todo = todo]
    OBVIOUS
  <2>3. /\ next \in AuditSweepStates /\ next.pc = "work" /\ next.admins = q.admins /\ next.cc = q.cc
        /\ next.assigned = q.assigned /\ next.todo = todo /\ next.batch = {}
        /\ next.byAdmin = q.byAdmin /\ next.byRecipient = q.byRecipient \ ks
    BY <1>8, <1>9, <2>1, <2>2 DEF AuditSweepStates
  <2> QED BY <1>1, <1>2, <1>3, <1>7, <1>11, <2>1, <2>2, <2>3 DEF Works, Moves
<1>12. CASE /\ \/ "MailFails" \in ops /\ Unsent /\ UNCHANGED copied
               \/ "MailLost" \in ops /\ Mail(ks) /\ copied' = copied \cup copies
            /\ AuditGoes(r, [rest EXCEPT !.todo = Fallback(r, ks, TRUE), !.batch = ks])
  <2>1. PICK todo : todo = Fallback(r, ks, TRUE)
    OBVIOUS
  <2>2. PICK next : next = [rest EXCEPT !.todo = todo, !.batch = ks]
    OBVIOUS
  <2>3. /\ next \in AuditSweepStates /\ next.pc = "work" /\ next.admins = q.admins /\ next.cc = q.cc
        /\ next.assigned = q.assigned /\ next.todo = todo /\ next.batch = ks
        /\ next.byAdmin = q.byAdmin /\ next.byRecipient = q.byRecipient \ ks
    BY <1>3, <1>8, <1>9, <2>1, <2>2 DEF AuditSweepStates
  <2>4. AuditGoes(r, next)
    BY <1>12, <2>1, <2>2
  <2>5. Works(r, next)
    BY <1>1, <1>3, <2>3, <2>4 DEF Works, Moves
  <2>6. \/ "MailFails" \in ops /\ Unsent /\ UNCHANGED copied
        \/ "MailLost" \in ops /\ Mail(ks) /\ copied' = copied \cup copies
    BY <1>12
  <2> QED BY <1>1, <1>2, <1>3, <1>4, <1>7, <2>1, <2>3, <2>5, <2>6
<1> QED BY <1>6, <1>10, <1>11, <1>12

LEMMA ReleaseNotificationDoes ==
  ASSUME AuditsTypeOK, NEW r \in Replicas, ReleaseNotification(r)
  PROVE  /\ UNCHANGED <<control, copied, sent, twice, schedulerVars>> /\ "audit" \in replica[r].busy
         /\ auditSweep[r].todo = {}
         /\ \E k \in auditSweep[r].batch, next \in AuditSweepStates :
              /\ Works(r, next) /\ Release(k)
              /\ next.todo = {} /\ next.batch = auditSweep[r].batch \ {k}
              /\ next.byAdmin = auditSweep[r].byAdmin /\ next.byRecipient = auditSweep[r].byRecipient
<1>1. PICK q : q = auditSweep[r]
  OBVIOUS
<1>2. q \in AuditSweepStates /\ q.pc = "work" /\ "audit" \in replica[r].busy /\ q.todo = {}
  BY <1>1 DEF AuditsTypeOK, ReleaseNotification, AuditStep
<1>3. PICK k \in q.batch : Release(k) /\ AuditGoes(r, [q EXCEPT !.batch = @ \ {k}])
  BY <1>1 DEF ReleaseNotification
<1>4. PICK next : next = [q EXCEPT !.batch = @ \ {k}]
  OBVIOUS
<1>5. /\ next \in AuditSweepStates /\ next.pc = "work" /\ next.admins = q.admins /\ next.cc = q.cc
      /\ next.assigned = q.assigned /\ next.todo = {} /\ next.batch = q.batch \ {k}
      /\ next.byAdmin = q.byAdmin /\ next.byRecipient = q.byRecipient
  BY <1>2, <1>4 DEF AuditSweepStates
<1>6. UNCHANGED <<control, copied, sent, twice, schedulerVars>>
  BY DEF ReleaseNotification, Unsent
<1> QED BY ZenonT(30), <1>1, <1>2, <1>3, <1>4, <1>5, <1>6 DEF Works, Moves

LEMMA NotifyAdminDoes ==
  ASSUME AuditsTypeOK, NEW r \in Replicas, NEW a, NotifyAdmin(r, a)
  PROVE  /\ UNCHANGED <<control, copied, claims, schedulerVars>> /\ "audit" \in replica[r].busy
         /\ auditSweep[r].todo = {} /\ auditSweep[r].batch = {} /\ auditSweep[r].byRecipient = {}
         /\ EscalationOf(r, a) # {}
         /\ \E next :
              /\ Works(r, next) /\ next.todo = {} /\ next.byRecipient = {}
              /\ next.byAdmin = auditSweep[r].byAdmin \ EscalationOf(r, a)
              /\ \/ Mail(EscalationOf(r, a)) /\ next.batch = {}
                 \/ /\ \/ "DigestFails" \in ops /\ Unsent
                       \/ "MailLost" \in ops /\ Mail(EscalationOf(r, a))
                    /\ next.batch = EscalationOf(r, a)
<1>1. PICK q : q = auditSweep[r]
  OBVIOUS
<1>2. PICK ks : ks = EscalationOf(r, a)
  OBVIOUS
<1>3. /\ q \in AuditSweepStates /\ q.pc = "work" /\ q.todo = {} /\ q.batch = {} /\ q.byRecipient = {}
      /\ ks \subseteq Notifications /\ ks # {} /\ "audit" \in replica[r].busy
  BY <1>1, <1>2 DEF AuditsTypeOK, AuditSweepStates, NotifyAdmin, Claimed, AuditStep, EscalationOf
<1>4. PICK rest : rest = [q EXCEPT !.byAdmin = @ \ ks]
  OBVIOUS
<1>5. \/ Mail(ks) /\ AuditGoes(r, rest)
      \/ /\ \/ "DigestFails" \in ops /\ Unsent
            \/ "MailLost" \in ops /\ Mail(ks)
         /\ AuditGoes(r, [rest EXCEPT !.batch = ks])
  BY <1>1, <1>2, <1>4 DEF NotifyAdmin, EscalationOf
<1>6. UNCHANGED <<control, copied, claims, schedulerVars>>
  BY DEF NotifyAdmin
<1>7. /\ rest \in AuditSweepStates /\ rest.pc = "work" /\ rest.admins = q.admins /\ rest.cc = q.cc
      /\ rest.assigned = q.assigned /\ rest.todo = {} /\ rest.batch = {}
      /\ rest.byAdmin = q.byAdmin \ ks /\ rest.byRecipient = {}
  BY <1>3, <1>4 DEF AuditSweepStates
<1>8. CASE Mail(ks) /\ AuditGoes(r, rest)
  BY <1>1, <1>2, <1>3, <1>6, <1>7, <1>8 DEF Works, Moves
<1>9. CASE /\ \/ "DigestFails" \in ops /\ Unsent
              \/ "MailLost" \in ops /\ Mail(ks)
           /\ AuditGoes(r, [rest EXCEPT !.batch = ks])
  <2>1. PICK next : next = [rest EXCEPT !.batch = ks]
    OBVIOUS
  <2>2. /\ next \in AuditSweepStates /\ next.pc = "work" /\ next.admins = q.admins /\ next.cc = q.cc
        /\ next.assigned = q.assigned /\ next.todo = {} /\ next.batch = ks
        /\ next.byAdmin = q.byAdmin \ ks /\ next.byRecipient = {}
    BY <1>3, <1>7, <2>1 DEF AuditSweepStates
  <2> QED BY <1>1, <1>2, <1>3, <1>6, <1>9, <2>1, <2>2 DEF Works, Moves
<1> QED BY <1>5, <1>8, <1>9

LEMMA AuditSweepEndsDoes ==
  ASSUME AuditsTypeOK, NEW r \in Replicas, AuditSweepEnds(r)
  PROVE  /\ UNCHANGED <<control, copied, claimVars>> /\ Done(r, "audit") /\ Moves(r, AuditSweepIdle)
         /\ auditSweep[r].pc = "work"
         /\ auditSweep[r].todo = {} /\ auditSweep[r].batch = {}
         /\ auditSweep[r].byRecipient = {} /\ auditSweep[r].byAdmin = {}
BY DEF AuditSweepEnds, Claimed, AuditStep, Moves, AuditSweepIdle, AuditSweepStates

\* Every step of the sweep goes to some state, and copies admins on digests only.
LEMMA AuditsTypes ==
  ASSUME AuditsTypeOK, day \in Days, NEW r \in Replicas
  PROVE  /\ AuditSweep(r) => AuditsTypeOK'
         /\ AuditGoes(r, AuditSweepIdle) /\ UNCHANGED <<control, copied>> => AuditsTypeOK'
<1>1. ASSUME NEW next, Moves(r, next), UNCHANGED control, copied' \subseteq Admins \X Controls \X Days PROVE AuditsTypeOK'
  BY <1>1 DEF AuditsTypeOK, Moves, AuditGoes
<1>2. copied \subseteq Admins \X Controls \X Days
  BY DEF AuditsTypeOK
<1>3. CASE ReadControls(r)
  <2>1. UNCHANGED <<control, copied>>
    BY <1>3, ReadControlsDoes
  <2>2. (\E next : Moves(r, next)) \/ UNCHANGED auditSweep
    BY <1>3, ReadControlsDoes
  <2>3. CASE UNCHANGED auditSweep
    BY <2>1, <2>3 DEF AuditsTypeOK
  <2> QED BY <1>1, <1>2, <2>1, <2>2, <2>3
<1>4. CASE ClaimNotification(r)
  <2>1. UNCHANGED <<control, copied>> /\ \E next : Moves(r, next)
    BY <1>4, ClaimNotificationDoes DEF Works
  <2> QED BY <1>1, <1>2, <2>1
<1>5. CASE ReleaseNotification(r)
  <2>1. UNCHANGED <<control, copied>> /\ \E next : Moves(r, next)
    BY <1>5, ReleaseNotificationDoes DEF Works
  <2> QED BY <1>1, <1>2, <2>1
<1>6. CASE AuditSweepEnds(r)
  BY <1>1, <1>2, <1>6, AuditSweepEndsDoes
<1>7. ASSUME NEW to, NotifyRecipient(r, to) PROVE AuditsTypeOK'
  <2>1. UNCHANGED control /\ \E next : Moves(r, next)
    BY <1>7, NotifyRecipientDoes DEF Works
  <2>2. CopiesOf(r, to) \subseteq Admins \X Controls \X Days
    <3>1. auditSweep[r].cc \subseteq Admins /\ auditSweep[r].byRecipient \subseteq Notifications
      BY DEF AuditsTypeOK, AuditSweepStates
    <3>2. \A k \in DigestOf(r, to) : k.control \in Controls
      BY <3>1 DEF DigestOf, Notifications
    <3> QED BY <3>1, <3>2 DEF CopiesOf
  <2>3. copied' = copied \/ copied' = copied \cup CopiesOf(r, to)
    BY <1>7, NotifyRecipientDoes
  <2> QED BY <1>1, <1>2, <2>1, <2>2, <2>3
<1>8. ASSUME NEW a, NotifyAdmin(r, a) PROVE AuditsTypeOK'
  <2>1. UNCHANGED <<control, copied>> /\ \E next : Moves(r, next)
    BY <1>8, NotifyAdminDoes DEF Works
  <2> QED BY <1>1, <1>2, <2>1
<1>9. AuditSweepIdle \in AuditSweepStates
  BY DEF AuditSweepIdle, AuditSweepStates
<1> QED BY <1>1, <1>2, <1>3, <1>4, <1>5, <1>6, <1>7, <1>8, <1>9 DEF AuditSweep, Moves

LEMMA AccountsTypes ==
  ASSUME AccountsTypeOK
  PROVE  /\ \A u \in Users : Report(u) => AccountsTypeOK'
         /\ Console => AccountsTypeOK'
         /\ UNCHANGED accountVars => AccountsTypeOK'
<1>1. ASSUME NEW u \in Users, Report(u) PROVE AccountsTypeOK'
  BY <1>1 DEF Report, AccountsTypeOK
<1>2. ASSUME NEW caller \in Holders, NEW u \in Users, handleUpdateUserStatus(caller, u) PROVE AccountsTypeOK'
  BY <1>2 DEF handleUpdateUserStatus, Authorised, AccountsTypeOK
<1>3. ASSUME NEW caller \in Holders, NEW u \in Users, handleCreateGrant(caller, u) PROVE AccountsTypeOK'
  BY <1>3 DEF handleCreateGrant, Authorised, AccountsTypeOK
<1>4. ASSUME NEW caller \in Holders, NEW u \in Users, handleRevokeGrant(caller, u) PROVE AccountsTypeOK'
  BY <1>4 DEF handleRevokeGrant, Authorised, AccountsTypeOK
<1>5. ASSUME UNCHANGED accountVars PROVE AccountsTypeOK'
  BY <1>5 DEF AccountsTypeOK, accountVars
<1> QED BY <1>1, <1>2, <1>3, <1>4, <1>5 DEF Console

LEMMA SyncIdleTyped == SyncIdle \in SyncStates
BY HubNumbers DEF SyncIdle, SyncStates

-----------------------------------------------------------------------------
(* What each step of the sync does to its state.                              *)

\* The run of r moves on to the state next.
Runs(r, next) == next \in SyncStates /\ SyncGoes(r, next)

\* Whom the replica's snapshot and the lookups say has left.
Resolved(r, failed, guarded) == IF guarded THEN spareAdmins(Departed(r, failed)) ELSE Departed(r, failed)

LEMMA ResolveDoes ==
  ASSUME NEW r \in Replicas, Resolve(r)
  PROVE  /\ "sync" \in replica[r].busy /\ sync[r].pc = "start"
         /\ UNCHANGED <<accountVars, snapshot, work, outage, told>>
         /\ \/ UNCHANGED sync /\ Done(r, "sync")
            \/ \E failed, guarded, next :
                 /\ "LookupFails" \notin ops => guarded = TRUE
                 /\ Runs(r, next) /\ UNCHANGED schedulerVars
                 /\ next.pc = "run" /\ next.departed = Resolved(r, failed, guarded)
                 /\ next.gathered = 0 /\ next.tried = 0 /\ next.delivered = {}
<1>1. PICK failed \in IF "LookupFails" \in ops THEN SUBSET External ELSE {{}},
           guarded \in IF "LookupFails" \in ops THEN BOOLEAN ELSE {TRUE} :
        \/ Done(r, "sync") /\ UNCHANGED sync
        \/ /\ SyncGoes(r, [SyncIdle EXCEPT !.pc = "run", !.departed = Resolved(r, failed, guarded)])
           /\ UNCHANGED schedulerVars
  BY DEF Resolve, Resolved
<1>2. PICK departed : departed = Resolved(r, failed, guarded)
  OBVIOUS
<1>3. departed \subseteq Users
  BY <1>2 DEF Resolved, spareAdmins, Departed, Enabled
<1>4. PICK idle : idle = SyncIdle
  OBVIOUS
<1>5. /\ idle \in SyncStates /\ idle.gathered = 0 /\ idle.tried = 0 /\ idle.delivered = {}
  BY <1>4, SyncIdleTyped DEF SyncIdle
<1>6. PICK next : next = [idle EXCEPT !.pc = "run", !.departed = departed]
  OBVIOUS
<1>7. /\ next \in SyncStates /\ next.pc = "run" /\ next.departed = departed
      /\ next.gathered = 0 /\ next.tried = 0 /\ next.delivered = {}
  BY <1>3, <1>5, <1>6 DEF SyncStates
<1>8. /\ "sync" \in replica[r].busy /\ sync[r].pc = "start"
      /\ UNCHANGED <<accountVars, snapshot, work, outage, told>>
  BY DEF Resolve, SyncStep
<1>9. "LookupFails" \notin ops => guarded = TRUE
  OBVIOUS
<1>10. CASE SyncGoes(r, [SyncIdle EXCEPT !.pc = "run", !.departed = Resolved(r, failed, guarded)]) /\ UNCHANGED schedulerVars
  <2>1. Runs(r, next)
    BY <1>2, <1>4, <1>6, <1>7, <1>10 DEF Runs
  <2> QED BY <1>2, <1>7, <1>8, <1>9, <1>10, <2>1
<1> QED BY <1>1, <1>8, <1>10

LEMMA GatherDoes ==
  ASSUME SyncTypeOK, NEW r \in Replicas, Gather(r)
  PROVE  /\ "sync" \in replica[r].busy /\ sync[r].pc = "run" /\ sync[r].gathered + 1 \in DOMAIN Hubs
         /\ UNCHANGED <<accountVars, snapshot, work, outage, told>>
         /\ \/ \E next :
                 /\ Runs(r, next) /\ UNCHANGED schedulerVars
                 /\ next.pc = "run" /\ next.departed = sync[r].departed /\ next.gathered = sync[r].gathered + 1
                 /\ next.found = [sync[r].found EXCEPT ![sync[r].gathered + 1] =
                                    work[sync[r].gathered + 1] \cap sync[r].departed]
                 /\ next.tried = sync[r].tried /\ next.delivered = sync[r].delivered
            \/ "ListFails" \in ops /\ Runs(r, SyncIdle) /\ Done(r, "sync")
<1>1. PICK q : q = sync[r]
  OBVIOUS
<1>2. PICK h : h = q.gathered + 1
  OBVIOUS
<1>3. q \in SyncStates /\ q.pc = "run" /\ "sync" \in replica[r].busy /\ h \in DOMAIN Hubs /\ q.gathered \in Nat
  BY <1>1, <1>2, HubNumbers DEF SyncTypeOK, SyncStates, Gather, SyncStep
<1>4. UNCHANGED <<accountVars, snapshot, work, outage, told>>
  BY DEF Gather
<1>5. PICK here : here = work[h] \cap q.departed
  OBVIOUS
<1>6. here \subseteq Users /\ h \in 0..Len(Hubs)
  BY <1>3, <1>5, HubNumbers DEF SyncStates
<1>7. \/ SyncGoes(r, [q EXCEPT !.gathered = h, !.found[h] = here]) /\ UNCHANGED schedulerVars
      \/ "ListFails" \in ops /\ SyncGoes(r, SyncIdle) /\ Done(r, "sync")
  BY <1>1, <1>2, <1>5 DEF Gather
<1>8. PICK next : next = [q EXCEPT !.gathered = h, !.found[h] = here]
  OBVIOUS
<1>9. /\ next \in SyncStates /\ next.pc = "run" /\ next.departed = q.departed /\ next.gathered = h
      /\ next.found = [q.found EXCEPT ![h] = here] /\ next.tried = q.tried /\ next.delivered = q.delivered
  BY <1>3, <1>6, <1>8 DEF SyncStates
<1>10. CASE SyncGoes(r, next) /\ UNCHANGED schedulerVars
  <2>1. Runs(r, next)
    BY <1>9, <1>10 DEF Runs
  <2> QED BY <1>1, <1>2, <1>3, <1>4, <1>5, <1>9, <1>10, <2>1
<1>11. CASE "ListFails" \in ops /\ SyncGoes(r, SyncIdle) /\ Done(r, "sync")
  BY <1>1, <1>2, <1>3, <1>4, <1>11, SyncIdleTyped DEF Runs
<1> QED BY <1>7, <1>8, <1>10, <1>11

LEMMA SendDigestDoes ==
  ASSUME SyncTypeOK, NEW r \in Replicas, SendDigest(r)
  PROVE  /\ sync[r].pc = "run" /\ sync[r].gathered = Len(Hubs)
         /\ UNCHANGED <<accountVars, snapshot, work, outage, schedulerVars>>
         /\ \E h \in DOMAIN Hubs, next \in SyncStates :
              /\ Runs(r, next) /\ h = sync[r].tried + 1
              /\ next.pc = "run" /\ next.departed = sync[r].departed /\ next.gathered = sync[r].gathered
              /\ next.found = sync[r].found /\ next.tried = h
              /\ \/ next.delivered = sync[r].delivered \cup {h} /\ told' = told \cup ({h} \X sync[r].found[h])
                 \/ next.delivered = sync[r].delivered /\ UNCHANGED told
<1>1. PICK q : q = sync[r]
  OBVIOUS
<1>2. PICK h : h = q.tried + 1
  OBVIOUS
<1>3. q \in SyncStates /\ q.pc = "run" /\ q.gathered = Len(Hubs) /\ h \in DOMAIN Hubs /\ h \in 0..Len(Hubs)
  BY <1>1, <1>2, HubNumbers DEF SyncTypeOK, SyncStates, SendDigest, SyncStep
<1>4. UNCHANGED <<accountVars, snapshot, work, outage, schedulerVars>>
  BY DEF SendDigest
<1>5. \/ SyncGoes(r, [q EXCEPT !.tried = h, !.delivered = q.delivered \cup {h}]) /\ told' = told \cup ({h} \X q.found[h])
      \/ SyncGoes(r, [q EXCEPT !.tried = h]) /\ UNCHANGED told
  BY <1>1, <1>2 DEF SendDigest
<1>6. CASE SyncGoes(r, [q EXCEPT !.tried = h, !.delivered = q.delivered \cup {h}]) /\ told' = told \cup ({h} \X q.found[h])
  <2>1. PICK next : next = [q EXCEPT !.tried = h, !.delivered = q.delivered \cup {h}]
    OBVIOUS
  <2>2. /\ next \in SyncStates /\ next.pc = "run" /\ next.departed = q.departed /\ next.gathered = q.gathered
        /\ next.found = q.found /\ next.tried = h /\ next.delivered = q.delivered \cup {h}
    BY <1>3, <2>1 DEF SyncStates
  <2>3. Runs(r, next)
    BY <1>6, <2>1, <2>2 DEF Runs
  <2>4. told' = told \cup ({h} \X q.found[h])
    BY <1>6
  <2> QED BY <1>1, <1>2, <1>3, <1>4, <2>2, <2>3, <2>4
<1>7. CASE SyncGoes(r, [q EXCEPT !.tried = h]) /\ UNCHANGED told
  <2>1. PICK next : next = [q EXCEPT !.tried = h]
    OBVIOUS
  <2>2. /\ next \in SyncStates /\ next.pc = "run" /\ next.departed = q.departed /\ next.gathered = q.gathered
        /\ next.found = q.found /\ next.tried = h /\ next.delivered = q.delivered
    BY <1>3, <2>1 DEF SyncStates
  <2> QED BY <1>1, <1>2, <1>3, <1>4, <1>7, <2>1, <2>2 DEF Runs
<1> QED BY <1>5, <1>6, <1>7

LEMMA DisableDoes ==
  ASSUME SyncTypeOK, NEW r \in Replicas, NEW u \in Users, Disable(r, u)
  PROVE  /\ sync[r].pc = "run" /\ sync[r].tried = Len(Hubs) /\ u \in sync[r].departed
         /\ UNCHANGED <<reported, granted, snapshot, work, outage, told, schedulerVars>>
         /\ \E next :
              /\ Runs(r, next)
              /\ next.pc = "run" /\ next.departed = sync[r].departed \ {u} /\ next.gathered = sync[r].gathered
              /\ next.found = sync[r].found /\ next.tried = sync[r].tried /\ next.delivered = sync[r].delivered
         /\ \/ ~notifyPending(r, u) /\ status' = [status EXCEPT ![u] = "DISABLED"]
            \/ UNCHANGED status
<1>1. PICK q : q = sync[r]
  OBVIOUS
<1>2. PICK next : next = [q EXCEPT !.departed = @ \ {u}]
  OBVIOUS
<1>3. q \in SyncStates
  BY <1>1 DEF SyncTypeOK
<1>4. /\ next \in SyncStates /\ next.pc = q.pc /\ next.departed = q.departed \ {u} /\ next.gathered = q.gathered
      /\ next.found = q.found /\ next.tried = q.tried /\ next.delivered = q.delivered
  BY <1>2, <1>3 DEF SyncStates
<1>5. SyncGoes(r, next) /\ q.pc = "run"
  BY <1>1, <1>2 DEF Disable, SyncStep
<1> QED BY <1>1, <1>4, <1>5 DEF Disable, Runs

LEMMA SyncEndsDoes ==
  ASSUME NEW r \in Replicas, SyncEnds(r)
  PROVE  Runs(r, SyncIdle) /\ Done(r, "sync") /\ UNCHANGED <<accountVars, snapshot, work, outage, told>>
BY SyncIdleTyped DEF SyncEnds, Runs

\* Every step of the sync goes to some state, and tells of what it found.
LEMMA SyncTypes ==
  ASSUME SyncTypeOK, AccountsTypeOK
  PROVE  /\ \A r \in Replicas : (SyncRun(r) \/ Refresh(r)) => SyncTypeOK' /\ AccountsTypeOK'
         /\ \A r \in Replicas : SyncGoes(r, SyncIdle) /\ snapshot' = [snapshot EXCEPT ![r] = {}]
                                  /\ UNCHANGED <<work, outage, told>> => SyncTypeOK'
         /\ \A h \in DOMAIN Hubs : Reassign(h) => SyncTypeOK' /\ AccountsTypeOK'
         /\ Recover => SyncTypeOK' /\ AccountsTypeOK'
         /\ UNCHANGED syncVars => SyncTypeOK'
<1>1. ASSUME NEW r \in Replicas, NEW next, Runs(r, next), UNCHANGED <<snapshot, work, outage>>,
             told' \subseteq (DOMAIN Hubs) \X Users
      PROVE  SyncTypeOK'
  BY <1>1 DEF SyncTypeOK, Runs, SyncGoes
<1>2. told \subseteq (DOMAIN Hubs) \X Users
  BY DEF SyncTypeOK
<1>3. ASSUME NEW r \in Replicas, Resolve(r) PROVE SyncTypeOK' /\ AccountsTypeOK'
  <2>1. UNCHANGED <<accountVars, snapshot, work, outage, told>> /\ (UNCHANGED sync \/ \E next : Runs(r, next))
    BY <1>3, ResolveDoes
  <2>2. CASE UNCHANGED sync
    BY <2>1, <2>2, AccountsTypes DEF SyncTypeOK
  <2>3. CASE \E next : Runs(r, next)
    <3>1. SyncTypeOK'
      BY <1>1, <1>2, <2>1, <2>3
    <3> QED BY <2>1, <3>1, AccountsTypes
  <2> QED BY <2>1, <2>2, <2>3
<1>4. ASSUME NEW r \in Replicas, Gather(r) PROVE SyncTypeOK' /\ AccountsTypeOK'
  <2>1. UNCHANGED <<accountVars, snapshot, work, outage, told>> /\ \E next : Runs(r, next)
    BY <1>4, GatherDoes
  <2> QED BY <1>1, <1>2, <2>1, AccountsTypes
<1>5. ASSUME NEW r \in Replicas, SendDigest(r) PROVE SyncTypeOK' /\ AccountsTypeOK'
  <2>1. UNCHANGED <<accountVars, snapshot, work, outage>>
    BY <1>5, SendDigestDoes
  <2>2. PICK h \in DOMAIN Hubs, next \in SyncStates :
          Runs(r, next) /\ (told' = told \cup ({h} \X sync[r].found[h]) \/ UNCHANGED told)
    BY <1>5, SendDigestDoes
  <2>3. sync[r].found[h] \subseteq Users
    BY DEF SyncTypeOK, SyncStates
  <2>4. told' \subseteq (DOMAIN Hubs) \X Users
    BY <1>2, <2>2, <2>3
  <2> QED BY <1>1, <2>1, <2>2, <2>4, AccountsTypes
<1>6. ASSUME NEW r \in Replicas, SyncEnds(r) PROVE SyncTypeOK' /\ AccountsTypeOK'
  BY <1>1, <1>2, <1>6, SyncEndsDoes, AccountsTypes
<1>7. ASSUME NEW r \in Replicas, NEW u \in Users, Disable(r, u) PROVE SyncTypeOK' /\ AccountsTypeOK'
  <2>1. UNCHANGED <<reported, granted, snapshot, work, outage, told>> /\ \E next : Runs(r, next)
    BY <1>7, DisableDoes
  <2>2. status' = [status EXCEPT ![u] = "DISABLED"] \/ UNCHANGED status
    BY <1>7, DisableDoes
  <2>3. AccountsTypeOK'
    BY <2>1, <2>2 DEF AccountsTypeOK
  <2> QED BY <1>1, <1>2, <2>1, <2>3
<1>8. ASSUME NEW r \in Replicas, Refresh(r) PROVE SyncTypeOK' /\ AccountsTypeOK'
  <2>1. SyncTypeOK'
    BY <1>8 DEF Refresh, SyncTypeOK, AccountsTypeOK
  <2> QED BY <1>8, <2>1, AccountsTypes DEF Refresh
<1>9. ASSUME NEW r \in Replicas, SyncGoes(r, SyncIdle), snapshot' = [snapshot EXCEPT ![r] = {}],
             UNCHANGED <<work, outage, told>>
      PROVE  SyncTypeOK'
  BY <1>9, SyncIdleTyped DEF SyncTypeOK, SyncGoes
<1>10. ASSUME NEW h \in DOMAIN Hubs, Reassign(h) PROVE SyncTypeOK' /\ AccountsTypeOK'
  <2>1. work' \in [DOMAIN Hubs -> SUBSET Users]
    BY <1>10 DEF Reassign, SyncTypeOK
  <2>2. SyncTypeOK'
    BY <1>10, <2>1 DEF Reassign, SyncTypeOK
  <2> QED BY <1>10, <2>2, AccountsTypes DEF Reassign
<1>11. ASSUME Recover PROVE SyncTypeOK' /\ AccountsTypeOK'
  <2>1. SyncTypeOK'
    BY <1>11 DEF Recover, SyncTypeOK
  <2> QED BY <1>11, <2>1, AccountsTypes DEF Recover
<1>12. ASSUME UNCHANGED syncVars PROVE SyncTypeOK'
  BY <1>12 DEF SyncTypeOK, syncVars
<1> QED BY <1>3, <1>4, <1>5, <1>6, <1>7, <1>8, <1>9, <1>10, <1>11, <1>12 DEF SyncRun

-----------------------------------------------------------------------------
(* The claims.  What a sweep holds is claimed, by it alone; a step wins a      *)
(* claim, sends what is held, gives a claim back, or loses what it held.       *)

OnRisk(state) == IF state.item = NoKey THEN {} ELSE {state.item}

OnAudit(state) == state.byRecipient \cup state.byAdmin \cup state.batch

Held == [r \in Replicas |-> OnRisk(riskSweep[r]) \cup OnAudit(auditSweep[r])]

\* A sweep holds a claim once.
PartsInv ==
  \A r \in Replicas :
    /\ auditSweep[r].byRecipient \cap auditSweep[r].byAdmin = {}
    /\ auditSweep[r].byRecipient \cap auditSweep[r].batch = {}
    /\ auditSweep[r].byAdmin \cap auditSweep[r].batch = {}

HeldInv ==
  /\ \A r, s \in Replicas : r # s => Held[r] \cap Held[s] = {}
  /\ \A r \in Replicas : Held[r] \subseteq claims
  /\ "MailLost" \notin ops => /\ twice = {} /\ sent \subseteq claims
                              /\ \A r \in Replicas : Held[r] \cap sent = {}
  /\ ops \cap {"Crash", "ClaimLost", "ReleaseFails", "Inactive"} = {} =>
       \A k \in claims : k \in sent \/ \E r \in Replicas : k \in Held[r]

\* The kinds of steps there are, with regard to the claims: r holds `now` after it.
Wins(r, now) == \E k : Won(k) /\ Unsent /\ now = Held[r] \cup {k}

Sends(r, now) ==
  \E ks \in SUBSET Held[r] :
    /\ Mail(ks) /\ UNCHANGED claims
    /\ now = Held[r] \ ks \/ ("MailLost" \in ops /\ now = Held[r])

GivesBack(r, now) == \E k \in Held[r] : Release(k) /\ Unsent /\ now = Held[r] \ {k}

LeavesAlone(r, now) ==
  /\ now = Held[r] /\ Unsent
  /\ UNCHANGED claims \/ ("ClaimLost" \in ops /\ claims \subseteq claims')

Drops(r, now) == now \subseteq Held[r] /\ UNCHANGED claimVars /\ ops \cap {"Crash", "Inactive"} # {}

Claiming(r, now) == Wins(r, now) \/ Sends(r, now) \/ GivesBack(r, now) \/ LeavesAlone(r, now) \/ Drops(r, now)

LEMMA ClaimingKeeps ==
  ASSUME HeldInv, UNCHANGED ops, NEW r \in Replicas, NEW now, Held' = [Held EXCEPT ![r] = now], Claiming(r, now)
  PROVE  HeldInv'
<1> DEFINE M == "MailLost" \notin ops
           B == ops \cap {"Crash", "ClaimLost", "ReleaseFails", "Inactive"} = {}
<1>1. PICK held : held = Held
  OBVIOUS
<1>2. held \in [Replicas -> {held[s] : s \in Replicas}]
  BY <1>1 DEF Held
<1>3. /\ Held'[r] = now /\ \A s \in Replicas : s # r => Held'[s] = held[s]
  BY <1>1, <1>2
<1>4. PICK after : after = Held'
  OBVIOUS
<1>5. after[r] = now /\ \A s \in Replicas : s # r => after[s] = held[s]
  BY <1>3, <1>4
<1>6. /\ \A s, t \in Replicas : s # t => held[s] \cap held[t] = {}
      /\ \A s \in Replicas : held[s] \subseteq claims
      /\ M => /\ twice = {} /\ sent \subseteq claims
              /\ \A s \in Replicas : held[s] \cap sent = {}
      /\ B => \A k \in claims : k \in sent \/ \E s \in Replicas : k \in held[s]
  BY <1>1 DEF HeldInv
<1>7. SUFFICES /\ \A s, t \in Replicas : s # t => after[s] \cap after[t] = {}
               /\ \A s \in Replicas : after[s] \subseteq claims'
               /\ M => /\ twice' = {} /\ sent' \subseteq claims'
                       /\ \A s \in Replicas : after[s] \cap sent' = {}
               /\ B => \A k \in claims' : k \in sent' \/ \E s \in Replicas : k \in after[s]
  BY <1>4 DEF HeldInv
<1>8. CASE Wins(r, now)
  <2>1. PICK k : Won(k) /\ Unsent /\ now = held[r] \cup {k}
    BY <1>1, <1>8 DEF Wins
  <2> QED BY <1>5, <1>6, <2>1 DEF Won, Unsent
<1>9. CASE Sends(r, now)
  <2>1. PICK ks \in SUBSET held[r] : /\ Mail(ks) /\ UNCHANGED claims
                                     /\ now = held[r] \ ks \/ ("MailLost" \in ops /\ now = held[r])
    BY <1>1, <1>9 DEF Sends
  <2>2. \A s \in Replicas : s # r => ks \cap held[s] = {}
    BY <1>6, <2>1
  <2> QED BY <1>5, <1>6, <2>1, <2>2 DEF Mail
<1>10. CASE GivesBack(r, now)
  <2>1. PICK k \in held[r] : Release(k) /\ Unsent /\ now = held[r] \ {k}
    BY <1>1, <1>10 DEF GivesBack
  <2>2. \A s \in Replicas : s # r => k \notin held[s]
    BY <1>6, <2>1
  <2> QED BY <1>5, <1>6, <2>1, <2>2 DEF Release, Unsent
<1>11. CASE LeavesAlone(r, now)
  <2>1. \A s \in Replicas : after[s] = held[s]
    BY <1>1, <1>5, <1>11 DEF LeavesAlone
  <2> QED BY <1>6, <1>11, <2>1 DEF LeavesAlone, Unsent
<1>12. CASE Drops(r, now)
  <2>1. \A s \in Replicas : after[s] \subseteq held[s]
    BY <1>1, <1>5, <1>12 DEF Drops
  <2>2. ~B
    BY <1>12 DEF Drops
  <2> QED BY <1>6, <1>12, <2>1, <2>2 DEF Drops, claimVars
<1> QED BY <1>8, <1>9, <1>10, <1>11, <1>12 DEF Claiming

\* What the sweeps hold, after a step of one of them.
LEMMA HeldMoves ==
  ASSUME RisksTypeOK, AuditsTypeOK, NEW r \in Replicas, NEW S, NEW A, RiskGoes(r, S), AuditGoes(r, A)
  PROVE  Held' = [Held EXCEPT ![r] = OnRisk(S) \cup OnAudit(A)]
<1>1. \A s \in Replicas : riskSweep'[s] = (IF s = r THEN S ELSE riskSweep[s]) /\ auditSweep'[s] = (IF s = r THEN A ELSE auditSweep[s])
  BY DEF RisksTypeOK, AuditsTypeOK, RiskGoes, AuditGoes
<1>2. \A s \in Replicas : OnRisk(riskSweep'[s]) \cup OnAudit(auditSweep'[s]) =
                            IF s = r THEN OnRisk(S) \cup OnAudit(A) ELSE OnRisk(riskSweep[s]) \cup OnAudit(auditSweep[s])
  BY <1>1
<1>3. Held' = [s \in Replicas |-> OnRisk(riskSweep'[s]) \cup OnAudit(auditSweep'[s])]
  BY DEF Held, OnRisk, OnAudit
<1> QED BY <1>2, <1>3 DEF Held

LEMMA HeldMovesOnRisk ==
  ASSUME RisksTypeOK, AuditsTypeOK, NEW r \in Replicas, NEW S, RiskGoes(r, S), UNCHANGED auditSweep
  PROVE  Held' = [Held EXCEPT ![r] = OnRisk(S) \cup OnAudit(auditSweep[r])]
<1>1. AuditGoes(r, auditSweep[r])
  BY DEF AuditsTypeOK, AuditGoes
<1>2. PICK A : A = auditSweep[r]
  OBVIOUS
<1> QED BY <1>1, <1>2, HeldMoves DEF AuditGoes

LEMMA HeldMovesOnAudit ==
  ASSUME RisksTypeOK, AuditsTypeOK, NEW r \in Replicas, NEW A, AuditGoes(r, A), UNCHANGED riskSweep
  PROVE  Held' = [Held EXCEPT ![r] = OnRisk(riskSweep[r]) \cup OnAudit(A)]
<1>1. RiskGoes(r, riskSweep[r])
  BY DEF RisksTypeOK, RiskGoes
<1>2. PICK S : S = riskSweep[r]
  OBVIOUS
<1> QED BY <1>1, <1>2, HeldMoves DEF RiskGoes

\* The risk sweep's steps.
LEMMA RiskSweepClaims ==
  ASSUME RisksTypeOK, ItemInv, AuditsTypeOK, PartsInv, HeldInv, NEW r \in Replicas, RiskSweep(r), UNCHANGED auditVars
  PROVE  HeldInv' /\ PartsInv'
<1>1. PartsInv'
  BY DEF PartsInv, auditVars
<1>2. PICK q : q = riskSweep[r]
  OBVIOUS
<1>3. PICK A : A = OnAudit(auditSweep[r])
  OBVIOUS
<1>4. q \in RiskSweepStates /\ A \subseteq Notifications /\ Held[r] = OnRisk(q) \cup A /\ UNCHANGED auditSweep
      /\ (q.item # NoKey <=> q.pc \in {"send", "release"})
  BY <1>2, <1>3 DEF RisksTypeOK, ItemInv, AuditsTypeOK, AuditSweepStates, OnAudit, Held, auditVars
<1>5. \A next : RiskGoes(r, next) => Held' = [Held EXCEPT ![r] = OnRisk(next) \cup A]
  BY <1>3, <1>4, HeldMovesOnRisk
<1>6. ASSUME NEW next, RiskGoes(r, next), UNCHANGED ops, Claiming(r, OnRisk(next) \cup A) PROVE HeldInv' /\ PartsInv'
  BY <1>1, <1>5, <1>6, ClaimingKeeps
<1>7. ASSUME UNCHANGED <<riskSweep, claims, sent, twice, ops>> PROVE HeldInv' /\ PartsInv'
  <2>1. Held' = Held
    BY <1>4, <1>7 DEF Held, OnRisk, OnAudit
  <2> QED BY <1>1, <1>7, <2>1 DEF HeldInv
<1>8. q.item = NoKey \/ (q.item \in RiskKeys /\ q.item \notin A)
  BY <1>4, KeysApart DEF RiskSweepStates
<1>9. CASE ListRisks(r)
  <2>1. UNCHANGED <<claims, sent, twice, ops>>
    BY <1>9 DEF ListRisks, claimVars, schedulerVars, Done
  <2>2. PICK due : due = DueToday
    OBVIOUS
  <2>3. CASE RiskGoes(r, [q EXCEPT !.pc = "claim", !.left = due])
    <3>1. PICK next : next = [q EXCEPT !.pc = "claim", !.left = due]
      OBVIOUS
    <3>2. next.item = q.item
      BY <1>4, <3>1 DEF RiskSweepStates
    <3>3. LeavesAlone(r, OnRisk(next) \cup A)
      BY <1>4, <2>1, <3>2 DEF LeavesAlone, Unsent, OnRisk
    <3> QED BY <1>6, <2>1, <2>3, <3>1, <3>3 DEF Claiming, RiskGoes
  <2>4. CASE UNCHANGED riskSweep
    BY <1>7, <2>1, <2>4
  <2> QED BY <1>2, <1>9, <2>2, <2>3, <2>4 DEF ListRisks
<1>10. CASE ClaimRisk(r)
  <2>1. UNCHANGED <<sent, twice, ops>>
    BY <1>10 DEF ClaimRisk, Unsent, schedulerVars
  <2>2. q.item = NoKey
    BY <1>2, <1>4, <1>10 DEF ClaimRisk, RiskStep
  <2>3. PICK k \in q.left : \/ Won(k) /\ RiskGoes(r, [q EXCEPT !.pc = "send", !.left = @ \ {k}, !.item = k])
                            \/ (Taken(k) \/ ClaimFails(k)) /\ RiskGoes(r, [q EXCEPT !.left = @ \ {k}])
    BY <1>2, <1>10 DEF ClaimRisk
  <2>4. k \in RiskKeys /\ k # NoKey
    BY <1>4, NoKeyIsNone DEF RiskSweepStates
  <2>5. CASE Won(k) /\ RiskGoes(r, [q EXCEPT !.pc = "send", !.left = @ \ {k}, !.item = k])
    <3>1. PICK next : next = [q EXCEPT !.pc = "send", !.left = @ \ {k}, !.item = k]
      OBVIOUS
    <3>2. next.item = k
      BY <1>4, <3>1 DEF RiskSweepStates
    <3>3. Wins(r, OnRisk(next) \cup A)
      BY <1>4, <2>1, <2>2, <2>4, <2>5, <3>2 DEF Wins, Unsent, OnRisk
    <3> QED BY <1>6, <2>1, <2>5, <3>1, <3>3 DEF Claiming, RiskGoes
  <2>6. CASE (Taken(k) \/ ClaimFails(k)) /\ RiskGoes(r, [q EXCEPT !.left = @ \ {k}])
    <3>1. PICK next : next = [q EXCEPT !.left = @ \ {k}]
      OBVIOUS
    <3>2. next.item = NoKey
      BY <1>4, <2>2, <3>1 DEF RiskSweepStates
    <3>3. LeavesAlone(r, OnRisk(next) \cup A)
      BY <1>4, <2>1, <2>2, <2>6, <3>2 DEF LeavesAlone, Unsent, OnRisk, Taken, ClaimFails
    <3> QED BY <1>6, <2>1, <2>6, <3>1, <3>3 DEF Claiming, RiskGoes
  <2> QED BY <2>3, <2>5, <2>6
<1>11. CASE NotifyRisk(r)
  <2>1. UNCHANGED <<claims, ops>> /\ q.item # NoKey
    BY <1>2, <1>4, <1>11 DEF NotifyRisk, RiskStep, schedulerVars
  <2>2. \/ Mail({q.item}) /\ RiskGoes(r, [q EXCEPT !.pc = "claim", !.item = NoKey])
        \/ Unsent /\ RiskGoes(r, [q EXCEPT !.pc = "release"])
        \/ "MailLost" \in ops /\ Mail({q.item}) /\ RiskGoes(r, [q EXCEPT !.pc = "release"])
    BY <1>2, <1>11 DEF NotifyRisk
  <2>3. CASE Mail({q.item}) /\ RiskGoes(r, [q EXCEPT !.pc = "claim", !.item = NoKey])
    <3>1. PICK next : next = [q EXCEPT !.pc = "claim", !.item = NoKey]
      OBVIOUS
    <3>2. next.item = NoKey
      BY <1>4, <3>1 DEF RiskSweepStates
    <3>3. OnRisk(next) \cup A = Held[r] \ {q.item} /\ {q.item} \subseteq Held[r]
      BY <1>4, <1>8, <2>1, <3>2 DEF OnRisk
    <3>4. Sends(r, OnRisk(next) \cup A)
      BY <2>1, <2>3, <3>3 DEF Sends
    <3> QED BY <1>6, <2>1, <2>3, <3>1, <3>4 DEF Claiming, RiskGoes
  <2>4. CASE RiskGoes(r, [q EXCEPT !.pc = "release"]) /\ (Unsent \/ ("MailLost" \in ops /\ Mail({q.item})))
    <3>1. PICK next : next = [q EXCEPT !.pc = "release"]
      OBVIOUS
    <3>2. next.item = q.item
      BY <1>4, <3>1 DEF RiskSweepStates
    <3>3. OnRisk(next) \cup A = Held[r] /\ {q.item} \subseteq Held[r]
      BY <1>4, <2>1, <3>2 DEF OnRisk
    <3>4. Sends(r, OnRisk(next) \cup A) \/ LeavesAlone(r, OnRisk(next) \cup A)
      BY <2>1, <2>4, <3>3 DEF Sends, LeavesAlone
    <3> QED BY <1>6, <2>1, <2>4, <3>1, <3>4 DEF Claiming, RiskGoes
  <2> QED BY <2>2, <2>3, <2>4
<1>12. CASE ReleaseRisk(r)
  <2>1. UNCHANGED ops /\ Unsent /\ q.item # NoKey /\ Release(q.item)
    BY <1>2, <1>4, <1>12 DEF ReleaseRisk, RiskStep, schedulerVars
  <2>2. PICK next : next = [q EXCEPT !.pc = "claim", !.item = NoKey]
    OBVIOUS
  <2>3. next.item = NoKey
    BY <1>4, <2>2 DEF RiskSweepStates
  <2>4. OnRisk(next) \cup A = Held[r] \ {q.item} /\ {q.item} \subseteq Held[r]
    BY <1>4, <1>8, <2>1, <2>3 DEF OnRisk
  <2>5. GivesBack(r, OnRisk(next) \cup A)
    BY <2>1, <2>4 DEF GivesBack
  <2> QED BY <1>2, <1>6, <1>12, <2>1, <2>2, <2>5 DEF Claiming, ReleaseRisk, RiskGoes
<1>13. CASE RiskSweepEnds(r)
  <2>1. UNCHANGED <<claims, sent, twice, ops>> /\ q.item = NoKey /\ RiskGoes(r, RiskSweepIdle)
    BY <1>2, <1>4, <1>13 DEF RiskSweepEnds, RiskStep, claimVars, Done
  <2>2. LeavesAlone(r, OnRisk(RiskSweepIdle) \cup A)
    BY <1>4, <2>1 DEF LeavesAlone, Unsent, OnRisk, RiskSweepIdle
  <2> QED BY <1>6, <2>1, <2>2 DEF Claiming, RiskGoes
<1> QED BY <1>1, <1>9, <1>10, <1>11, <1>12, <1>13 DEF RiskSweep

\* The audit sweep's steps.
LEMMA AuditSweepClaims ==
  ASSUME RisksTypeOK, AuditsTypeOK, day \in Days, PartsInv, HeldInv, NEW r \in Replicas, AuditSweep(r), UNCHANGED riskVars
  PROVE  HeldInv' /\ PartsInv'
<1>1. PICK q : q = auditSweep[r]
  OBVIOUS
<1>2. PICK R : R = OnRisk(riskSweep[r])
  OBVIOUS
<1>3. q \in AuditSweepStates /\ R \subseteq RiskKeys /\ Held[r] = R \cup OnAudit(q)
  BY <1>1, <1>2 DEF RisksTypeOK, RiskSweepStates, AuditsTypeOK, OnRisk, Held
<1>4. \A k \in Notifications : k \notin R
  BY <1>3, KeysApart
<1>5. /\ q.byRecipient \cap q.byAdmin = {}
      /\ q.byRecipient \cap q.batch = {}
      /\ q.byAdmin \cap q.batch = {}
      /\ q.byRecipient \subseteq Notifications /\ q.byAdmin \subseteq Notifications /\ q.batch \subseteq Notifications
  BY <1>1, <1>3 DEF PartsInv, AuditSweepStates
<1>6. OnAudit(q) \subseteq Held[r] /\ Held[r] \subseteq claims
  BY <1>3 DEF HeldInv
<1>7. ASSUME NEW next, Moves(r, next), UNCHANGED ops, Claiming(r, R \cup OnAudit(next)),
             next.byRecipient \cap next.byAdmin = {},
             next.byRecipient \cap next.batch = {},
             next.byAdmin \cap next.batch = {}
      PROVE  HeldInv' /\ PartsInv'
  <2>1. Held' = [Held EXCEPT ![r] = R \cup OnAudit(next)]
    BY <1>2, <1>7, HeldMovesOnAudit DEF Moves, riskVars
  <2>2. HeldInv'
    BY <1>7, <2>1, ClaimingKeeps
  <2>3. PartsInv'
    BY <1>7 DEF PartsInv, Moves, AuditGoes, AuditsTypeOK
  <2> QED BY <2>2, <2>3
<1>8. ASSUME UNCHANGED <<auditSweep, claims, sent, twice, ops>> PROVE HeldInv' /\ PartsInv'
  <2>1. Held' = Held
    BY <1>8 DEF Held, OnRisk, OnAudit, riskVars
  <2> QED BY <1>8, <2>1 DEF HeldInv, PartsInv
<1>9. CASE ReadControls(r)
  <2>1. UNCHANGED <<claims, sent, twice>>
    BY <1>9, ReadControlsDoes DEF claimVars
  <2>2. CASE \E next : /\ Moves(r, next) /\ UNCHANGED schedulerVars
                       /\ next.byRecipient = q.byRecipient /\ next.byAdmin = q.byAdmin /\ next.batch = q.batch
    <3>1. PICK next : /\ Moves(r, next) /\ UNCHANGED schedulerVars
                      /\ next.byRecipient = q.byRecipient /\ next.byAdmin = q.byAdmin /\ next.batch = q.batch
      BY <2>2
    <3>2. LeavesAlone(r, R \cup OnAudit(next))
      BY <1>3, <2>1, <3>1 DEF LeavesAlone, Unsent, OnAudit
    <3> QED BY <1>5, <1>7, <3>1, <3>2 DEF Claiming, schedulerVars
  <2>3. CASE UNCHANGED auditSweep /\ Done(r, "audit")
    BY <1>8, <2>1, <2>3 DEF Done
  <2> QED BY <1>1, <1>9, <2>2, <2>3, ReadControlsDoes
<1>10. CASE ClaimNotification(r)
  <2>1. UNCHANGED <<sent, twice, ops>>
    BY <1>10, ClaimNotificationDoes DEF schedulerVars
  <2>2. PICK n \in q.todo, next \in AuditSweepStates :
              /\ Works(r, next) /\ n[1] \in Notifications
              /\ next.batch = q.batch
              /\ \/ /\ Won(n[1])
                    /\ next.byAdmin = q.byAdmin \cup {n[1]} /\ next.byRecipient = q.byRecipient
                 \/ /\ Won(n[1])
                    /\ next.byAdmin = q.byAdmin /\ next.byRecipient = q.byRecipient \cup {n[1]}
                 \/ /\ Taken(n[1]) \/ ClaimFails(n[1])
                    /\ next.byAdmin = q.byAdmin /\ next.byRecipient = q.byRecipient
    BY <1>1, <1>10, ClaimNotificationDoes
  <2>3. CASE Won(n[1]) /\ ~(next.byAdmin = q.byAdmin /\ next.byRecipient = q.byRecipient)
    <3>1. n[1] \notin OnAudit(q)
      BY <1>6, <2>3 DEF Won
    <3>2. /\ next.byRecipient \cap next.byAdmin = {}
          /\ next.byRecipient \cap next.batch = {}
          /\ next.byAdmin \cap next.batch = {}
          /\ OnAudit(next) = OnAudit(q) \cup {n[1]}
      BY <1>5, <2>2, <2>3, <3>1 DEF OnAudit
    <3>3. Wins(r, R \cup OnAudit(next))
      BY <1>3, <2>1, <2>3, <3>2 DEF Wins, Unsent
    <3> QED BY <1>7, <2>1, <2>2, <3>2, <3>3 DEF Claiming, Works
  <2>4. CASE next.byAdmin = q.byAdmin /\ next.byRecipient = q.byRecipient
    <3>1. OnAudit(next) = OnAudit(q)
      BY <2>2, <2>4 DEF OnAudit
    <3>2. LeavesAlone(r, R \cup OnAudit(next)) \/ Wins(r, R \cup OnAudit(next))
      <4>1. CASE Won(n[1]) /\ n[1] \in OnAudit(q)
        BY <1>6, <4>1 DEF Won
      <4>2. CASE Taken(n[1]) \/ ClaimFails(n[1])
        BY <1>3, <2>1, <3>1, <4>2 DEF LeavesAlone, Unsent, Taken, ClaimFails
      <4> QED BY <2>2, <2>4, <4>1, <4>2 DEF OnAudit
    <3> QED BY <1>5, <1>7, <2>1, <2>2, <2>4, <3>2 DEF Claiming, Works
  <2> QED BY <2>2, <2>3, <2>4
<1>11. CASE ReleaseNotification(r)
  <2>1. UNCHANGED <<sent, twice, ops>>
    BY <1>11, ReleaseNotificationDoes DEF schedulerVars
  <2>2. PICK k \in q.batch, next \in AuditSweepStates :
              /\ Works(r, next) /\ Release(k) /\ next.batch = q.batch \ {k}
              /\ next.byAdmin = q.byAdmin /\ next.byRecipient = q.byRecipient
    BY <1>1, <1>11, ReleaseNotificationDoes
  <2>3. k \notin R /\ k \in Held[r] /\ OnAudit(next) = OnAudit(q) \ {k}
    BY <1>3, <1>4, <1>5, <2>2 DEF OnAudit
  <2>4. GivesBack(r, R \cup OnAudit(next))
    BY <1>3, <2>1, <2>2, <2>3 DEF GivesBack, Unsent
  <2> QED BY <1>5, <1>7, <2>1, <2>2, <2>4 DEF Claiming, Works
<1>12. CASE AuditSweepEnds(r)
  <2>1. /\ UNCHANGED <<claims, sent, twice, ops>> /\ Moves(r, AuditSweepIdle)
        /\ q.batch = {} /\ q.byRecipient = {} /\ q.byAdmin = {}
    BY <1>1, <1>12, AuditSweepEndsDoes DEF claimVars, Done
  <2>2. LeavesAlone(r, R \cup OnAudit(AuditSweepIdle))
    BY <1>3, <2>1 DEF LeavesAlone, Unsent, OnAudit, AuditSweepIdle
  <2> QED BY <1>7, <2>1, <2>2 DEF Claiming, AuditSweepIdle
<1>13. ASSUME NEW to, NotifyRecipient(r, to) PROVE HeldInv' /\ PartsInv'
  <2>1. PICK ks : ks = DigestOf(r, to)
    OBVIOUS
  <2>2. /\ UNCHANGED <<claims, ops>> /\ q.batch = {} /\ ks \subseteq q.byRecipient
    BY <1>1, <1>13, <2>1, NotifyRecipientDoes DEF schedulerVars, DigestOf
  <2>3. PICK next :
              /\ Works(r, next)
              /\ next.byRecipient = q.byRecipient \ ks /\ next.byAdmin = q.byAdmin
              /\ \/ Mail(ks) /\ next.batch = {}
                 \/ "Inactive" \in ops /\ Unsent /\ next.batch = {}
                 \/ (Unsent \/ ("MailLost" \in ops /\ Mail(ks))) /\ next.batch = ks
    BY <1>1, <1>13, <2>1, NotifyRecipientDoes
  <2>4. /\ next.byRecipient \cap next.byAdmin = {}
        /\ next.byRecipient \cap next.batch = {}
        /\ next.byAdmin \cap next.batch = {}
    BY <1>5, <2>2, <2>3
  <2>5. next.batch = {} => R \cup OnAudit(next) = Held[r] \ ks
    BY <1>3, <1>4, <1>5, <2>2, <2>3 DEF OnAudit
  <2>6. next.batch = ks => R \cup OnAudit(next) = Held[r]
    BY <1>3, <2>2, <2>3 DEF OnAudit
  <2>7. ks \subseteq Held[r]
    BY <1>3, <2>2 DEF OnAudit
  <2>8. Claiming(r, R \cup OnAudit(next))
    <3>1. CASE Mail(ks) /\ next.batch = {}
      BY <2>2, <2>5, <2>7, <3>1 DEF Claiming, Sends
    <3>2. CASE "Inactive" \in ops /\ Unsent /\ next.batch = {}
      BY <2>2, <2>5, <3>2 DEF Claiming, Drops, Unsent, claimVars
    <3>3. CASE (Unsent \/ ("MailLost" \in ops /\ Mail(ks))) /\ next.batch = ks
      BY <2>2, <2>6, <2>7, <3>3 DEF Claiming, Sends, LeavesAlone
    <3> QED BY <2>3, <3>1, <3>2, <3>3
  <2> QED BY <1>7, <2>2, <2>3, <2>4, <2>8 DEF Works
<1>14. ASSUME NEW a, NotifyAdmin(r, a) PROVE HeldInv' /\ PartsInv'
  <2>1. PICK ks : ks = EscalationOf(r, a)
    OBVIOUS
  <2>2. /\ UNCHANGED <<claims, ops>> /\ q.batch = {} /\ ks \subseteq q.byAdmin /\ q.byRecipient = {}
    BY <1>1, <1>14, <2>1, NotifyAdminDoes DEF schedulerVars, EscalationOf
  <2>3. PICK next :
              /\ Works(r, next) /\ next.byRecipient = {} /\ next.byAdmin = q.byAdmin \ ks
              /\ \/ Mail(ks) /\ next.batch = {}
                 \/ (Unsent \/ ("MailLost" \in ops /\ Mail(ks))) /\ next.batch = ks
    BY <1>1, <1>14, <2>1, NotifyAdminDoes
  <2>4. /\ next.byRecipient \cap next.byAdmin = {}
        /\ next.byRecipient \cap next.batch = {}
        /\ next.byAdmin \cap next.batch = {}
    BY <2>3
  <2>5. next.batch = {} => R \cup OnAudit(next) = Held[r] \ ks
    BY <1>3, <1>4, <1>5, <2>2, <2>3 DEF OnAudit
  <2>6. next.batch = ks => R \cup OnAudit(next) = Held[r]
    BY <1>3, <2>2, <2>3 DEF OnAudit
  <2>7. ks \subseteq Held[r]
    BY <1>3, <2>2 DEF OnAudit
  <2>8. Claiming(r, R \cup OnAudit(next))
    BY <2>2, <2>3, <2>5, <2>6, <2>7 DEF Claiming, Sends, LeavesAlone
  <2> QED BY <1>7, <2>2, <2>3, <2>4, <2>8 DEF Works
<1> QED BY <1>9, <1>10, <1>11, <1>12, <1>13, <1>14 DEF AuditSweep

-----------------------------------------------------------------------------
(* Who manages users.  A run may disable an active holder only because another *)
(* active holder was not in the snapshot it resolved from; the snapshots that  *)
(* runs resolved from form a chain.                                            *)

Basis(S) ==
  /\ \A r, s \in Replicas : S[r] \subseteq S[s] \/ S[s] \subseteq S[r]
  /\ \A r, s \in Replicas : S[r] \subseteq snapshot[s] \/ snapshot[s] \subseteq S[r]
  /\ \A r \in Replicas : sync[r].departed \ External \subseteq S[r]
  /\ \A r \in Replicas : sync[r].departed \cap CandidateIDs # {} => CandidateIDs \ S[r] # {}

AdminInv ==
  /\ \A r \in Replicas : snapshot[r] \subseteq reported
  /\ \A r, s \in Replicas : snapshot[r] \subseteq snapshot[s] \/ snapshot[s] \subseteq snapshot[r]
  /\ "LookupFails" \notin ops =>
       /\ CandidateIDs # {}
       /\ \E S \in [Replicas -> SUBSET reported] : Basis(S)

\* A step of the run of r that leaves the accounts alone, and whom the run is about among those it was.
LEMMA AdminStays ==
  ASSUME AdminInv, UNCHANGED <<ops, snapshot, granted, status>>, reported \subseteq reported',
         \A r \in Replicas : sync'[r].departed \subseteq sync[r].departed
  PROVE  AdminInv'
<1>1. CandidateIDs' = CandidateIDs
  BY DEF CandidateIDs
<1>2. /\ \A r \in Replicas : snapshot'[r] \subseteq reported'
      /\ \A r, s \in Replicas : snapshot'[r] \subseteq snapshot'[s] \/ snapshot'[s] \subseteq snapshot'[r]
  BY DEF AdminInv
<1>3. ASSUME "LookupFails" \notin ops
      PROVE  CandidateIDs' # {} /\ \E S \in [Replicas -> SUBSET reported'] : Basis(S)'
  <2>1. PICK S \in [Replicas -> SUBSET reported] : Basis(S)
    BY <1>3 DEF AdminInv
  <2>2. S \in [Replicas -> SUBSET reported']
    BY <2>1
  <2>3. Basis(S)'
    BY <1>1, <2>1 DEF Basis
  <2> QED BY <1>1, <1>3, <2>2, <2>3 DEF AdminInv
<1> QED BY <1>2, <1>3 DEF AdminInv

\* The console: whoever asks can sign in, so is in nobody's snapshot, and keeps both.
LEMMA AdminConsole ==
  ASSUME AdminInv, AccountsTypeOK, Console, UNCHANGED syncVars
  PROVE  AdminInv'
<1>1. PICK caller \in Holders, u \in Users :
        handleUpdateUserStatus(caller, u) \/ handleCreateGrant(caller, u) \/ handleRevokeGrant(caller, u)
  BY DEF Console
<1>2. /\ caller \in CandidateIDs \ reported
      /\ UNCHANGED <<ops, reported, snapshot, sync>>
  BY <1>1 DEF handleUpdateUserStatus, handleCreateGrant, handleRevokeGrant, Authorised, syncVars
<1>3. caller \in granted /\ status[caller] = "ACTIVE" /\ caller \in Users
  BY <1>2 DEF CandidateIDs, AccountsTypeOK
<1>4. caller \in granted' /\ status'[caller] = "ACTIVE"
  BY <1>1, <1>3 DEF handleUpdateUserStatus, handleCreateGrant, handleRevokeGrant, AccountsTypeOK
<1>5. caller \in CandidateIDs'
  BY <1>4 DEF CandidateIDs
<1>6. /\ \A r \in Replicas : snapshot'[r] \subseteq reported'
      /\ \A r, s \in Replicas : snapshot'[r] \subseteq snapshot'[s] \/ snapshot'[s] \subseteq snapshot'[r]
  BY <1>2 DEF AdminInv
<1>7. ASSUME "LookupFails" \notin ops PROVE \E S \in [Replicas -> SUBSET reported'] : Basis(S)'
  <2>1. PICK S \in [Replicas -> SUBSET reported] : Basis(S)
    BY <1>7 DEF AdminInv
  <2>2. \A r \in Replicas : caller \notin S[r]
    BY <1>2, <2>1
  <2>3. \A r \in Replicas : CandidateIDs' \ S[r] # {}
    BY <1>5, <2>2
  <2>4. Basis(S)'
    BY <1>2, <2>1, <2>3 DEF Basis
  <2> QED BY <1>2, <2>1, <2>4
<1> QED BY <1>2, <1>5, <1>6, <1>7 DEF AdminInv

\* A snapshot that is read anew, or lost, is above or below the others.
LEMMA AdminSnapshot ==
  ASSUME AdminInv, SyncTypeOK, NEW r \in Replicas, NEW read \in {reported, {}},
         snapshot' = [snapshot EXCEPT ![r] = read],
         UNCHANGED <<ops, accountVars>>, \A s \in Replicas : sync'[s].departed \subseteq sync[s].departed
  PROVE  AdminInv'
<1>1. CandidateIDs' = CandidateIDs /\ UNCHANGED reported
  BY DEF CandidateIDs, accountVars
<1>2. \A s \in Replicas : snapshot'[s] = IF s = r THEN read ELSE snapshot[s]
  BY DEF SyncTypeOK
<1>3. /\ \A s \in Replicas : snapshot'[s] \subseteq reported'
      /\ \A s, t \in Replicas : snapshot'[s] \subseteq snapshot'[t] \/ snapshot'[t] \subseteq snapshot'[s]
  BY <1>1, <1>2 DEF AdminInv
<1>4. ASSUME "LookupFails" \notin ops PROVE CandidateIDs' # {} /\ \E S \in [Replicas -> SUBSET reported'] : Basis(S)'
  <2>1. PICK S \in [Replicas -> SUBSET reported] : Basis(S)
    BY <1>4 DEF AdminInv
  <2>2. \A s, t \in Replicas : S[s] \subseteq snapshot'[t] \/ snapshot'[t] \subseteq S[s]
    BY <1>2, <2>1 DEF Basis
  <2>3. Basis(S)'
    BY <1>1, <2>1, <2>2 DEF Basis
  <2> QED BY <1>1, <1>4, <2>1, <2>3 DEF AdminInv
<1> QED BY <1>3, <1>4 DEF AdminInv

\* A run begins: the snapshot it resolves from is its basis.
LEMMA AdminResolve ==
  ASSUME AdminInv, AccountsTypeOK, SyncTypeOK, NEW r \in Replicas, Resolve(r)
  PROVE  AdminInv'
<1>1. UNCHANGED <<ops, snapshot, reported, granted, status>>
  <2>1. CASE Done(r, "sync")
    BY <2>1, ResolveDoes DEF Done, accountVars
  <2>2. CASE UNCHANGED schedulerVars
    BY <2>2, ResolveDoes DEF schedulerVars, accountVars
  <2> QED BY <2>1, <2>2, ResolveDoes
<1>2. CASE UNCHANGED sync
  BY <1>1, <1>2, AdminStays
<1>3. ASSUME NEW failed, NEW guarded, NEW next, "LookupFails" \notin ops => guarded = TRUE,
             Runs(r, next), next.departed = Resolved(r, failed, guarded)
      PROVE  AdminInv'
  <2>1. CandidateIDs' = CandidateIDs
    BY <1>1 DEF CandidateIDs
  <2>2. \A s \in Replicas : sync'[s] = IF s = r THEN next ELSE sync[s]
    BY <1>3 DEF Runs, SyncGoes, SyncTypeOK
  <2>3. ASSUME "LookupFails" \notin ops PROVE CandidateIDs' # {} /\ \E S \in [Replicas -> SUBSET reported'] : Basis(S)'
    <3>1. PICK T \in [Replicas -> SUBSET reported] : Basis(T)
      BY <2>3 DEF AdminInv
    <3>2. PICK S : S = [T EXCEPT ![r] = snapshot[r]]
      OBVIOUS
    <3>3. S \in [Replicas -> SUBSET reported] /\ \A s \in Replicas : S[s] = IF s = r THEN snapshot[r] ELSE T[s]
      BY <3>1, <3>2 DEF AdminInv
    <3>4. /\ \A s, t \in Replicas : S[s] \subseteq S[t] \/ S[t] \subseteq S[s]
          /\ \A s, t \in Replicas : S[s] \subseteq snapshot[t] \/ snapshot[t] \subseteq S[s]
      BY <3>1, <3>3 DEF Basis, AdminInv
    <3>5. next.departed = spareAdmins(Departed(r, failed))
      BY <1>3, <2>3 DEF Resolved
    <3>6. next.departed \ External \subseteq snapshot[r]
      BY <3>5 DEF spareAdmins, Departed
    <3>7. next.departed \cap CandidateIDs # {} => CandidateIDs \ snapshot[r] # {}
      <4>1. CandidateIDs # {}
        BY <2>3 DEF AdminInv
      <4>2. \A h \in CandidateIDs : h \in Enabled /\ h \notin External
        BY DEF CandidateIDs, AccountsTypeOK, Enabled
      <4>3. \A h \in CandidateIDs : h \in snapshot[r] => h \in Departed(r, failed)
        BY <4>2 DEF Departed
      <4>4. CASE CandidateIDs \subseteq Departed(r, failed)
        BY <3>5, <4>1, <4>4 DEF spareAdmins
      <4>5. CASE ~(CandidateIDs \subseteq Departed(r, failed))
        BY <4>3, <4>5
      <4> QED BY <4>4, <4>5
    <3>8. Basis(S)'
      <4>1. \A s \in Replicas : sync'[s].departed \ External \subseteq S[s]
        BY <2>2, <3>1, <3>3, <3>6 DEF Basis
      <4>2. \A s \in Replicas : sync'[s].departed \cap CandidateIDs # {} => CandidateIDs \ S[s] # {}
        BY <2>2, <3>1, <3>3, <3>7 DEF Basis
      <4> QED BY <1>1, <2>1, <3>4, <4>1, <4>2 DEF Basis
    <3> QED BY <1>1, <2>1, <2>3, <3>3, <3>8 DEF AdminInv
  <2> QED BY <1>1, <2>3 DEF AdminInv
<1> QED BY <1>2, <1>3, ResolveDoes

\* One of those a run is about is disabled: somebody was not in its basis, and is in
\* none that is below it; and whoever is disabled is in all those that are above it.
LEMMA AdminDisable ==
  ASSUME AdminInv, AccountsTypeOK, SyncTypeOK, NEW r \in Replicas, NEW u \in Users, Disable(r, u)
  PROVE  AdminInv'
<1>1. /\ u \in sync[r].departed
      /\ UNCHANGED <<ops, reported, granted, snapshot>>
  BY DisableDoes DEF schedulerVars
<1>2. \A s \in Replicas : sync'[s].departed \subseteq sync[s].departed
  <2>1. PICK next : Runs(r, next) /\ next.departed = sync[r].departed \ {u}
    BY DisableDoes
  <2> QED BY <2>1 DEF Runs, SyncGoes, SyncTypeOK
<1>3. CASE UNCHANGED status
  BY <1>1, <1>2, <1>3, AdminStays
<1>4. CASE status' = [status EXCEPT ![u] = "DISABLED"]
  <2>1. CandidateIDs' = CandidateIDs \ {u}
    BY <1>1, <1>4 DEF CandidateIDs, AccountsTypeOK
  <2>2. ASSUME "LookupFails" \notin ops PROVE CandidateIDs' # {} /\ \E S \in [Replicas -> SUBSET reported'] : Basis(S)'
    <3>1. PICK S \in [Replicas -> SUBSET reported] : Basis(S)
      BY <2>2 DEF AdminInv
    <3>2. ASSUME u \in CandidateIDs
          PROVE  /\ CandidateIDs' # {}
                 /\ \A s \in Replicas : sync[s].departed \cap CandidateIDs' # {} => CandidateIDs' \ S[s] # {}
      <4>1. u \in S[r]
        BY <1>1, <3>1, <3>2 DEF Basis, CandidateIDs, AccountsTypeOK
      <4>2. PICK w \in CandidateIDs : w \notin S[r]
        BY <1>1, <3>1, <3>2 DEF Basis
      <4>3. w \in CandidateIDs'
        BY <2>1, <4>1, <4>2
      <4>4. ASSUME NEW s \in Replicas, sync[s].departed \cap CandidateIDs' # {} PROVE CandidateIDs' \ S[s] # {}
        <5>1. CASE S[s] \subseteq S[r]
          BY <4>2, <4>3, <5>1
        <5>2. CASE S[r] \subseteq S[s]
          <6>1. PICK v \in CandidateIDs : v \notin S[s]
            BY <2>1, <3>1, <4>4 DEF Basis
          <6>2. v # u
            BY <4>1, <5>2, <6>1
          <6> QED BY <2>1, <6>1, <6>2
        <5> QED BY <3>1, <5>1, <5>2 DEF Basis
      <4> QED BY <4>3, <4>4
    <3>3. /\ CandidateIDs' # {}
          /\ \A s \in Replicas : sync'[s].departed \cap CandidateIDs' # {} => CandidateIDs' \ S[s] # {}
      <4>1. CASE u \in CandidateIDs
        BY <1>2, <3>2, <4>1
      <4>2. CASE u \notin CandidateIDs
        BY <1>2, <2>1, <2>2, <3>1, <4>2 DEF AdminInv, Basis
      <4> QED BY <4>1, <4>2
    <3>4. Basis(S)'
      BY <1>1, <1>2, <3>1, <3>3 DEF Basis
    <3> QED BY <1>1, <3>1, <3>3, <3>4
  <2> QED BY <1>1, <2>2 DEF AdminInv
<1> QED BY <1>3, <1>4, DisableDoes

-----------------------------------------------------------------------------
(* What is announced.  A digest says all that the run's own users were named   *)
(* on when the hub was asked.                                                  *)

WorkInv ==
  \A r \in Replicas :
    /\ sync[r].tried # 0 \/ sync[r].delivered # {} => sync[r].gathered = Len(Hubs)
    /\ \A h \in sync[r].delivered : {h} \X sync[r].found[h] \subseteq told
    /\ "Assign" \notin ops => \A h \in 1..sync[r].gathered : work[h] \cap sync[r].departed \subseteq sync[r].found[h]

\* The same, of one run's state.
Announces(state, now, said) ==
  /\ state.tried # 0 \/ state.delivered # {} => state.gathered = Len(Hubs)
  /\ \A h \in state.delivered : {h} \X state.found[h] \subseteq said
  /\ "Assign" \notin ops => \A h \in 1..state.gathered : now[h] \cap state.departed \subseteq state.found[h]

\* A run moves on, and the others stay where they are.
LEMMA WorkMoves ==
  ASSUME WorkInv, SyncTypeOK, NEW r \in Replicas, NEW next, Runs(r, next), UNCHANGED <<ops, work>>, told \subseteq told',
         Announces(next, work, told')
  PROVE  WorkInv'
<1>1. \A s \in Replicas : sync'[s] = IF s = r THEN next ELSE sync[s]
  BY DEF Runs, SyncGoes, SyncTypeOK
<1>2. \A s \in Replicas : s # r => Announces(sync'[s], work, told')
  BY <1>1 DEF WorkInv, Announces
<1>3. \A s \in Replicas : Announces(sync'[s], work', told')
  BY <1>1, <1>2
<1> QED BY <1>3 DEF WorkInv, Announces

\* No run moves on; work is given only with Assign.
LEMMA WorkStays ==
  ASSUME WorkInv, UNCHANGED <<ops, sync, told>>,
         "Assign" \notin ops => \A h \in DOMAIN Hubs : work'[h] \subseteq work[h],
         SyncTypeOK
  PROVE  WorkInv'
<1>1. \A r \in Replicas : 1..sync[r].gathered \subseteq DOMAIN Hubs
  BY HubNumbers DEF SyncTypeOK, SyncStates
<1>2. ASSUME "Assign" \notin ops, NEW r \in Replicas, NEW h \in 1..sync[r].gathered
      PROVE  work'[h] \cap sync[r].departed \subseteq sync[r].found[h]
  BY <1>1, <1>2 DEF WorkInv
<1> QED BY <1>2 DEF WorkInv

LEMMA IdleAnnounces == \A now, said : Announces(SyncIdle, now, said)
BY DEF Announces, SyncIdle

LEMMA WorkSync ==
  ASSUME WorkInv, SyncTypeOK, NEW r \in Replicas, SyncRun(r)
  PROVE  WorkInv'
<1>1. PICK q : q = sync[r]
  OBVIOUS
<1>2. q \in SyncStates /\ Announces(q, work, told)
  BY <1>1 DEF WorkInv, Announces, SyncTypeOK
<1>3. CASE Resolve(r)
  <2>1. UNCHANGED <<ops, work, told>>
    <3>1. CASE Done(r, "sync")
      BY <1>3, <3>1, ResolveDoes DEF Done
    <3>2. CASE UNCHANGED schedulerVars
      BY <1>3, <3>2, ResolveDoes DEF schedulerVars
    <3> QED BY <1>3, <3>1, <3>2, ResolveDoes
  <2>2. CASE UNCHANGED sync
    BY <2>1, <2>2, WorkStays
  <2>3. ASSUME NEW next, Runs(r, next), next.gathered = 0, next.tried = 0, next.delivered = {} PROVE WorkInv'
    <3>1. Announces(next, work, told')
      BY <2>3 DEF Announces
    <3> QED BY <2>1, <2>3, <3>1, WorkMoves
  <2> QED BY <1>3, <2>2, <2>3, ResolveDoes
<1>4. CASE Gather(r)
  <2>1. PICK h : h = q.gathered + 1
    OBVIOUS
  <2>2. /\ UNCHANGED <<work, told>> /\ h \in DOMAIN Hubs
        /\ \/ \E next :
                 /\ Runs(r, next) /\ UNCHANGED schedulerVars
                 /\ next.departed = q.departed /\ next.gathered = h
                 /\ next.found = [q.found EXCEPT ![h] = work[h] \cap q.departed]
                 /\ next.tried = q.tried /\ next.delivered = q.delivered
           \/ Runs(r, SyncIdle) /\ Done(r, "sync")
    BY <1>1, <1>4, <2>1, GatherDoes
  <2>3. UNCHANGED ops
    BY <2>2 DEF schedulerVars, Done
  <2>4. CASE Runs(r, SyncIdle)
    BY <2>2, <2>3, <2>4, IdleAnnounces, WorkMoves
  <2>5. ASSUME NEW next, Runs(r, next), next.departed = q.departed, next.gathered = h,
               next.found = [q.found EXCEPT ![h] = work[h] \cap q.departed],
               next.tried = q.tried, next.delivered = q.delivered
        PROVE  WorkInv'
    <3>1. q.gathered \in Nat /\ q.gathered < Len(Hubs) /\ Len(Hubs) \in Nat /\ q.found \in [DOMAIN Hubs -> SUBSET Users]
      BY <1>2, <2>1, <2>2, HubNumbers DEF SyncStates
    <3>2. q.tried = 0 /\ q.delivered = {}
      BY <1>2, <3>1 DEF Announces
    <3>3. ASSUME "Assign" \notin ops, NEW g \in 1..h PROVE work[g] \cap next.departed \subseteq next.found[g]
      <4>1. CASE g = h
        BY <2>2, <2>5, <3>1, <4>1
      <4>2. CASE g # h
        <5>1. g \in 1..q.gathered /\ g \in DOMAIN Hubs
          BY <2>1, <3>1, <4>2, HubNumbers
        <5>2. next.found[g] = q.found[g]
          BY <2>5, <3>1, <4>2, <5>1
        <5> QED BY <1>2, <2>5, <3>3, <5>1, <5>2 DEF Announces
      <4> QED BY <4>1, <4>2
    <3>4. Announces(next, work, told')
      BY <2>5, <3>2, <3>3 DEF Announces
    <3> QED BY <2>2, <2>3, <2>5, <3>4, WorkMoves
  <2> QED BY <2>2, <2>4, <2>5
<1>5. CASE SendDigest(r)
  <2>1. UNCHANGED <<work, ops>> /\ q.gathered = Len(Hubs)
    BY <1>1, <1>5, SendDigestDoes DEF schedulerVars
  <2>2. PICK h \in DOMAIN Hubs, next \in SyncStates :
              /\ Runs(r, next)
              /\ next.departed = q.departed /\ next.gathered = q.gathered /\ next.found = q.found
              /\ \/ next.delivered = q.delivered \cup {h} /\ told' = told \cup ({h} \X q.found[h])
                 \/ next.delivered = q.delivered /\ UNCHANGED told
    BY <1>1, <1>5, SendDigestDoes
  <2>3. \A g \in next.delivered : {g} \X next.found[g] \subseteq told'
    BY <1>2, <2>2 DEF Announces
  <2>4. Announces(next, work, told')
    BY <1>2, <2>1, <2>2, <2>3 DEF Announces
  <2> QED BY <2>1, <2>2, <2>4, WorkMoves
<1>6. CASE SyncEnds(r)
  BY <1>6, SyncEndsDoes, IdleAnnounces, WorkMoves DEF Done
<1>7. ASSUME NEW u \in Users, Disable(r, u) PROVE WorkInv'
  <2>1. UNCHANGED <<work, told, ops>>
    BY <1>7, DisableDoes DEF schedulerVars
  <2>2. PICK next :
              /\ Runs(r, next)
              /\ next.departed = q.departed \ {u} /\ next.gathered = q.gathered
              /\ next.found = q.found /\ next.tried = q.tried /\ next.delivered = q.delivered
    BY <1>1, <1>7, DisableDoes
  <2>3. Announces(next, work, told')
    BY <1>2, <2>1, <2>2 DEF Announces
  <2> QED BY <2>1, <2>2, <2>3, WorkMoves
<1> QED BY <1>3, <1>4, <1>5, <1>6, <1>7 DEF SyncRun

LEMMA WorkReassign ==
  ASSUME WorkInv, SyncTypeOK, NEW h \in DOMAIN Hubs, Reassign(h)
  PROVE  WorkInv'
<1>1. UNCHANGED <<ops, sync, told>>
  BY DEF Reassign, Edit
<1>2. "Assign" \notin ops => \A g \in DOMAIN Hubs : work'[g] \subseteq work[g]
  BY DEF Reassign, SyncTypeOK
<1> QED BY <1>1, <1>2, WorkStays

\* Whom a run disables it has announced, at every hub that names them.
LEMMA DisableAnnounced ==
  ASSUME WorkInv, SyncTypeOK, "Assign" \notin ops, NEW r \in Replicas, NEW u \in Users, Disable(r, u), ~notifyPending(r, u),
         NEW h \in DOMAIN Hubs, u \in work[h]
  PROVE  <<h, u>> \in told
<1>1. u \in sync[r].departed /\ sync[r].tried = Len(Hubs)
  BY DisableDoes
<1>2. Len(Hubs) # 0 /\ h \in 1..Len(Hubs)
  BY HubNumbers
<1>3. sync[r].gathered = Len(Hubs)
  BY <1>1, <1>2 DEF WorkInv
<1>4. u \in sync[r].found[h]
  BY <1>1, <1>2, <1>3 DEF WorkInv
<1>5. h \in sync[r].delivered
  BY <1>4 DEF notifyPending
<1> QED BY <1>4, <1>5 DEF WorkInv

-----------------------------------------------------------------------------
(* When sweeps run.  Unless a replica crashes one is up; a sweep of the audit  *)
(* controls holds nothing before it has read them, and after it has ended.     *)

IdleInv ==
  /\ "Crash" \notin ops => \E r \in Replicas : replica[r].up
  /\ \A r \in Replicas : "audit" \notin replica[r].busy \/ auditSweep[r].pc = "start" => auditSweep[r] = AuditSweepIdle

\* The steps of the scheduler, and what any other step does to it.
LEMMA SchedulerIdle ==
  ASSUME SchedulerTypeOK, IdleInv, UNCHANGED auditSweep
  PROVE  /\ \A r \in Replicas : SchedulerSteps(r) => IdleInv'
         /\ DayPasses => IdleInv'
         /\ \A r \in Replicas, s \in Sweeps \ {"audit"} : Done(r, s) => IdleInv'
         /\ \A r \in Replicas : Done(r, "audit") /\ auditSweep[r].pc = "start" => IdleInv'
         /\ UNCHANGED <<replica, ops>> => IdleInv'
<1>1. ASSUME UNCHANGED ops, \A r \in Replicas : replica[r].up => replica'[r].up,
             \A r \in Replicas : "audit" \in replica[r].busy => "audit" \in replica'[r].busy \/ auditSweep[r].pc = "start"
      PROVE  IdleInv'
  BY <1>1 DEF IdleInv
<1>2. ASSUME NEW r \in Replicas, Fire(r) PROVE IdleInv'
  BY <1>1, <1>2 DEF Fire, SchedulerTypeOK, ReplicaStates
<1>3. ASSUME NEW r \in Replicas, Up(r) PROVE IdleInv'
  <2>1. PICK late \in BOOLEAN : replica' = [replica EXCEPT ![r].up = TRUE, ![r].fired = replica[r].fired \/ late]
    BY <1>3 DEF Up
  <2>2. PICK fired : fired = (replica[r].fired \/ late)
    OBVIOUS
  <2>3. replica' = [replica EXCEPT ![r].up = TRUE, ![r].fired = fired]
    BY <2>1, <2>2
  <2>4. \A s \in Replicas : (replica[s].up => replica'[s].up) /\ replica'[s].busy = replica[s].busy
    BY <2>3 DEF SchedulerTypeOK, ReplicaStates
  <2> QED BY <1>1, <1>3, <2>4 DEF Up
<1>4. ASSUME NEW r \in Replicas, NEW s, Trigger(r, s) PROVE IdleInv'
  <2>1. PICK override : replica' = [replica EXCEPT ![r].busy = @ \cup {s}, ![r].override = IF s = "sync" THEN override ELSE @]
    BY <1>4 DEF Trigger
  <2>2. \A t \in Replicas : (replica[t].up => replica'[t].up) /\ replica[t].busy \subseteq replica'[t].busy
    BY <2>1 DEF SchedulerTypeOK, ReplicaStates
  <2> QED BY <1>1, <1>4, <2>2 DEF Trigger
<1>5. ASSUME DayPasses PROVE IdleInv'
  <2>1. \A r \in Replicas : replica'[r].up = replica[r].up /\ replica'[r].busy = replica[r].busy
    BY <1>5 DEF DayPasses, SchedulerTypeOK, ReplicaStates
  <2> QED BY <1>1, <1>5, <2>1 DEF DayPasses
<1>6. ASSUME NEW r \in Replicas, NEW s, s # "audit" \/ auditSweep[r].pc = "start", Done(r, s) PROVE IdleInv'
  <2>1. \A t \in Replicas : /\ replica'[t].up = replica[t].up
                            /\ replica'[t].busy = IF t = r THEN replica[t].busy \ {s} ELSE replica[t].busy
    BY <1>6 DEF Done, SchedulerTypeOK, ReplicaStates
  <2>2. \A t \in Replicas : "audit" \in replica[t].busy => "audit" \in replica'[t].busy \/ auditSweep[t].pc = "start"
    BY <1>6, <2>1
  <2>3. UNCHANGED ops
    BY <1>6 DEF Done
  <2> QED BY <1>1, <2>1, <2>2, <2>3
<1>7. ASSUME UNCHANGED <<replica, ops>> PROVE IdleInv'
  BY <1>1, <1>7
<1> QED BY <1>2, <1>3, <1>4, <1>5, <1>6, <1>7 DEF SchedulerSteps

\* The audit sweep moves on, with the scheduler as it was; or ends.
LEMMA AuditIdle ==
  ASSUME SchedulerTypeOK, AuditsTypeOK, IdleInv, NEW r \in Replicas, AuditSweep(r)
  PROVE  IdleInv'
<1>1. ASSUME NEW next, Moves(r, next), UNCHANGED schedulerVars, "audit" \in replica[r].busy, next.pc = "work"
      PROVE  IdleInv'
  BY <1>1 DEF IdleInv, Moves, AuditGoes, AuditsTypeOK, schedulerVars
<1>2. CASE ReadControls(r)
  <2>1. CASE UNCHANGED auditSweep /\ Done(r, "audit")
    BY <1>2, <2>1, SchedulerIdle, ReadControlsDoes DEF SchedulerTypeOK
  <2>2. CASE \E next : Moves(r, next) /\ UNCHANGED schedulerVars /\ next.pc = "work"
    BY <1>1, <1>2, <2>2, ReadControlsDoes DEF SchedulerTypeOK
  <2> QED BY <1>2, <2>1, <2>2, ReadControlsDoes DEF SchedulerTypeOK
<1>3. CASE ClaimNotification(r)
  BY <1>1, <1>3, ClaimNotificationDoes DEF Works, schedulerVars
<1>4. CASE ReleaseNotification(r)
  BY <1>1, <1>4, ReleaseNotificationDoes DEF Works, schedulerVars
<1>5. ASSUME NEW to, NotifyRecipient(r, to) PROVE IdleInv'
  BY <1>1, <1>5, NotifyRecipientDoes DEF Works, SchedulerTypeOK
<1>6. ASSUME NEW a, NotifyAdmin(r, a) PROVE IdleInv'
  BY <1>1, <1>6, NotifyAdminDoes DEF Works
<1>7. CASE AuditSweepEnds(r)
  <2>1. Done(r, "audit") /\ AuditGoes(r, AuditSweepIdle)
    BY <1>7, AuditSweepEndsDoes DEF Moves
  <2>2. \A t \in Replicas : /\ replica'[t].up = replica[t].up
                            /\ replica'[t].busy = IF t = r THEN replica[t].busy \ {"audit"} ELSE replica[t].busy
    BY <2>1 DEF Done, SchedulerTypeOK, ReplicaStates
  <2>3. \A t \in Replicas : auditSweep'[t] = IF t = r THEN AuditSweepIdle ELSE auditSweep[t]
    BY <2>1 DEF AuditGoes, AuditsTypeOK
  <2> QED BY <2>1, <2>2, <2>3 DEF IdleInv, Done
<1> QED BY <1>2, <1>3, <1>4, <1>5, <1>6, <1>7 DEF AuditSweep

\* A crash takes the sweep with it.
LEMMA CrashIdle ==
  ASSUME SchedulerTypeOK, AuditsTypeOK, IdleInv, NEW r \in Replicas, Down(r), AuditGoes(r, AuditSweepIdle)
  PROVE  IdleInv'
<1>1. \A t \in Replicas : replica'[t].busy = IF t = r THEN {} ELSE replica[t].busy
  BY DEF Down, SchedulerTypeOK, ReplicaStates
<1>2. \A t \in Replicas : auditSweep'[t] = IF t = r THEN AuditSweepIdle ELSE auditSweep[t]
  BY DEF AuditGoes, AuditsTypeOK
<1>3. "Crash" \in ops /\ UNCHANGED ops
  BY DEF Down
<1> QED BY <1>1, <1>2, <1>3 DEF IdleInv

-----------------------------------------------------------------------------
(* What the admins hear of a control that is overdue: their own key, or the    *)
(* copy of the digest of the assignee.                                         *)

Note(p, c) == [to |-> p, control |-> c, type |-> "REMINDER_OVERDUE", snapshot |-> day]

\* A key of what is overdue is today's, and is the assignee's unless it is an admin's.
RightlyQueued(x) ==
  x[1].type = "REMINDER_OVERDUE" =>
    x[1].snapshot = day /\ (x[2] = FALSE <=> x[1].to = control[x[1].control].assignee)

LEMMA OverdueToday ==
  ASSUME day \in Days, NEW c \in Controls
  PROVE  /\ Overdue(c) <=> ControlDue < day
         /\ \A tos : \A k \in Notes(tos, c) :
              /\ k.to \in tos /\ k.control = c
              /\ k.type = "REMINDER_OVERDUE" => Overdue(c) /\ k.snapshot = day
         /\ Overdue(c) => \A tos : \A p \in tos : Note(p, c) \in Notes(tos, c)
<1>1. day \in Int /\ ControlDue \in Int
  BY SchedulerAssumption, AuditRemindersAssumption
<1>2. ControlDue < day => TypeToday(c) = {"REMINDER_OVERDUE"} /\ SnapshotToday(c) = day
  BY <1>1 DEF TypeToday, SnapshotToday
<1>3. ~(ControlDue < day) => "REMINDER_OVERDUE" \notin TypeToday(c)
  BY <1>1 DEF TypeToday
<1>4. Overdue(c) <=> ControlDue < day
  BY <1>2, <1>3 DEF Overdue
<1>5. ASSUME NEW tos, NEW k \in Notes(tos, c)
      PROVE  k.to \in tos /\ k.control = c /\ (k.type = "REMINDER_OVERDUE" => Overdue(c) /\ k.snapshot = day)
  <2>1. PICK p \in tos, t \in TypeToday(c) : k = [to |-> p, control |-> c, type |-> t, snapshot |-> SnapshotToday(c)]
    BY <1>5 DEF Notes
  <2>2. k.to = p /\ k.control = c /\ k.type = t /\ k.snapshot = SnapshotToday(c)
    BY <2>1
  <2>3. t = "REMINDER_OVERDUE" => ControlDue < day
    BY <1>3, <2>1
  <2> QED BY <1>2, <1>4, <2>2, <2>3
<1>6. ASSUME Overdue(c), NEW tos, NEW p \in tos PROVE Note(p, c) \in Notes(tos, c)
  BY <1>2, <1>4, <1>6 DEF Note, Notes
<1> QED BY <1>4, <1>5, <1>6

LEMMA QueuedRightly ==
  ASSUME day \in Days, AuditsTypeOK, NEW admins, NEW cc
  PROVE  \A x \in TodoToday(admins, cc) : RightlyQueued(x)
<1>1. SUFFICES ASSUME NEW c \in Controls, NEW x \in TodoOf(c, admins, cc), x[1].type = "REMINDER_OVERDUE"
               PROVE  x[1].snapshot = day /\ (x[2] = FALSE <=> x[1].to = control[x[1].control].assignee)
  BY DEF TodoToday, RightlyQueued
<1>2. CASE x \in ToRecipients({control[c].assignee}, c)
  <2>1. x[2] = FALSE /\ x[1] \in Notes({control[c].assignee}, c)
    BY <1>2 DEF ToRecipients
  <2> QED BY <1>1, <2>1, OverdueToday
<1>3. CASE x \in ToAdmins(admins, c)
  <2>1. x[2] = TRUE /\ x[1] \in Notes(admins \ {control[c].assignee}, c)
    BY <1>3 DEF ToAdmins
  <2>2. /\ x[1].to \in admins \ {control[c].assignee} /\ x[1].control = c
        /\ x[1].type = "REMINDER_OVERDUE" => x[1].snapshot = day
    BY <2>1, OverdueToday
  <2> QED BY <1>1, <2>1, <2>2
<1>4. CASE x \in ToRecipients(admins, c) /\ ~Overdue(c)
  <2>1. x[1] \in Notes(admins, c)
    BY <1>4 DEF ToRecipients
  <2> QED BY <1>1, <1>4, <2>1, OverdueToday
<1> QED BY <1>2, <1>3, <1>4 DEF TodoOf

LEMMA OverdueQueued ==
  ASSUME day \in Days, NEW admins, NEW cc, NEW c \in Controls, Overdue(c), NEW a \in admins \ {control[c].assignee}
  PROVE  /\ cc = {} \/ c \notin Assigned => <<Note(a, c), TRUE>> \in TodoToday(admins, cc)
         /\ c \in Assigned => <<Note(control[c].assignee, c), FALSE>> \in TodoToday(admins, cc)
<1>1. TodoOf(c, admins, cc) \subseteq TodoToday(admins, cc)
  BY DEF TodoToday
<1>2. PICK tos : tos = admins \ {control[c].assignee}
  OBVIOUS
<1>3. Note(a, c) \in Notes(tos, c)
  BY <1>2, OverdueToday
<1>4. <<Note(a, c), TRUE>> \in ToAdmins(admins, c)
  BY <1>2, <1>3 DEF ToAdmins
<1>5. PICK p : p = control[c].assignee
  OBVIOUS
<1>6. Note(p, c) \in Notes({p}, c)
  BY OverdueToday
<1>7. <<Note(p, c), FALSE>> \in ToRecipients({p}, c)
  BY <1>6 DEF ToRecipients
<1>8. cc = {} \/ c \notin Assigned => <<Note(a, c), TRUE>> \in TodoOf(c, admins, cc)
  BY <1>4 DEF TodoOf
<1>9. c \in Assigned => <<Note(p, c), FALSE>> \in TodoOf(c, admins, cc)
  BY <1>5, <1>7 DEF TodoOf
<1> QED BY <1>1, <1>5, <1>8, <1>9

-----------------------------------------------------------------------------
\* The premise of AdminsHearOfOverdue.
Sound == "audit" \in ops /\ Without({"Crash", "Edit", "ListFails", "LookupFails", "ClaimFails", "ClaimLost", "DigestFails"})

\* What a sweep has read, and what it has queued and claimed.
RightlyRead(state) ==
  /\ state.pc = "work" => /\ state.admins = Admins /\ state.cc = IF "CC" \in ops THEN Admins ELSE {}
                          /\ state.assigned = Assigned
  /\ \A x \in state.todo : RightlyQueued(x)
  /\ \A k \in state.byRecipient : RightlyQueued(<<k, FALSE>>)

\* A sweep will write to the admin of key n, or copy them on the digest with key m;
\* or is yet to claim the latter.
Carries(state, n, m) ==
  <<n, TRUE>> \in state.todo \/ n \in state.byAdmin \/ ("CC" \in ops /\ m \in state.byRecipient)

Awaits(state, m) == "CC" \in ops /\ <<m, FALSE>> \in state.todo

Started(r) == auditSweep[r].pc = "work" \/ (replica[r].fired /\ "audit" \notin replica[r].busy)

\* The admin of key n, who would be copied as t, has heard or will.
Reached(t, n, m) == t \in copied \/ n \in sent \/ \E r \in Replicas : Carries(auditSweep[r], n, m)

HearsOf(t, n, m) ==
  /\ n \in claims => n \in sent \/ \E r \in Replicas : n \in auditSweep[r].byAdmin
  /\ "CC" \in ops /\ m \in claims => Reached(t, n, m)
  /\ \A r \in Replicas : Started(r) => Reached(t, n, m) \/ \E s \in Replicas : Awaits(auditSweep[s], m)

\* Admin a has to hear of c: as t by a copy, by their own key n, or on the digest of key m.
Concern(a, c, t, n, m) ==
  /\ a # control[c].assignee /\ Overdue(c)
  /\ t = <<a, c, day>> /\ n = Note(a, c) /\ m = Note(control[c].assignee, c)

HearInv ==
  Sound =>
    /\ \A r \in Replicas : RightlyRead(auditSweep[r])
    /\ \A k \in claims \cap Notifications : k.type = "REMINDER_OVERDUE" => k.snapshot <= day
    /\ \A a \in Admins, c \in Controls : \A t, n, m : Concern(a, c, t, n, m) => HearsOf(t, n, m)

\* A sweep goes on, and the admin who has yet to hear does not lose what carries it.
LEMMA HearMoves ==
  ASSUME AuditsTypeOK, NEW t, NEW n, NEW m, HearsOf(t, n, m), NEW r \in Replicas, NEW next, Moves(r, next), UNCHANGED ops,
         copied \subseteq copied', sent \subseteq sent',
         n \in auditSweep[r].byAdmin => n \in next.byAdmin \/ n \in sent',
         Carries(auditSweep[r], n, m) => Carries(next, n, m) \/ t \in copied' \/ n \in sent' \/ n \in claims,
         Awaits(auditSweep[r], m) => Awaits(next, m) \/ Carries(next, n, m) \/ t \in copied' \/ n \in sent' \/ m \in claims,
         n \in claims' => n \in claims \/ n \in next.byAdmin,
         "CC" \in ops /\ m \in claims' => m \in claims \/ Carries(next, n, m),
         \A s \in Replicas : s # r /\ Started(s)' => Started(s),
         Started(r)' => Started(r) \/ Carries(next, n, m) \/ Awaits(next, m)
  PROVE  HearsOf(t, n, m)'
<1>1. \A s \in Replicas : auditSweep'[s] = IF s = r THEN next ELSE auditSweep[s]
  BY DEF Moves, AuditGoes, AuditsTypeOK
<1> DEFINE Heard == t \in copied' \/ n \in sent'
           After == Heard \/ \E s \in Replicas : Carries(auditSweep'[s], n, m)
<1>2. (\E s \in Replicas : n \in auditSweep[s].byAdmin) => n \in sent' \/ \E s \in Replicas : n \in auditSweep'[s].byAdmin
  BY <1>1
<1>3. n \in claims => n \in sent' \/ \E s \in Replicas : n \in auditSweep'[s].byAdmin
  BY <1>2 DEF HearsOf
<1>4. n \in claims => After
  BY <1>3 DEF Carries
<1>5. Reached(t, n, m) => After
  <2>1. CASE t \in copied \/ n \in sent
    BY <2>1
  <2>2. ASSUME NEW s \in Replicas, Carries(auditSweep[s], n, m) PROVE After
    <3>1. CASE s = r
      <4>1. Carries(next, n, m) => Carries(auditSweep'[r], n, m)
        BY <1>1
      <4> QED BY <1>4, <2>2, <3>1, <4>1
    <3>2. CASE s # r
      <4>1. Carries(auditSweep'[s], n, m)
        BY <1>1, <2>2, <3>2
      <4> QED BY <4>1
    <3> QED BY <3>1, <3>2
  <2> QED BY <2>1, <2>2 DEF Reached
<1>6. Carries(next, n, m) => After
  <2>1. Carries(next, n, m) => Carries(auditSweep'[r], n, m)
    BY <1>1
  <2> QED BY <2>1
<1>7. "CC" \in ops /\ m \in claims => After
  BY <1>5 DEF HearsOf
<1>8. (\E s \in Replicas : Awaits(auditSweep[s], m)) => After \/ \E s \in Replicas : Awaits(auditSweep'[s], m)
  <2>1. SUFFICES ASSUME NEW s \in Replicas, Awaits(auditSweep[s], m)
                 PROVE  After \/ \E u \in Replicas : Awaits(auditSweep'[u], m)
    OBVIOUS
  <2>2. CASE s = r
    <3>1. Awaits(next, m) => Awaits(auditSweep'[r], m)
      BY <1>1
    <3>2. "CC" \in ops
      BY <2>1 DEF Awaits
    <3> QED BY <1>6, <1>7, <2>1, <2>2, <3>1, <3>2
  <2>3. CASE s # r
    <3>1. Awaits(auditSweep'[s], m)
      BY <1>1, <2>1, <2>3
    <3> QED BY <3>1
  <2> QED BY <2>2, <2>3
<1>9. ASSUME NEW s \in Replicas, Started(s)' PROVE After \/ \E u \in Replicas : Awaits(auditSweep'[u], m)
  <2>1. CASE Started(s)
    BY <1>5, <1>8, <2>1 DEF HearsOf
  <2>2. CASE ~Started(s)
    <3>1. s = r
      BY <1>9, <2>2
    <3>2. Carries(next, n, m) \/ Awaits(next, m)
      BY <1>9, <2>2, <3>1
    <3>3. Awaits(next, m) => Awaits(auditSweep'[r], m)
      BY <1>1
    <3> QED BY <1>6, <3>2, <3>3
  <2> QED BY <2>1, <2>2
<1>10. n \in claims' => n \in sent' \/ \E s \in Replicas : n \in auditSweep'[s].byAdmin
  BY <1>1, <1>3
<1>11. "CC" \in ops /\ m \in claims' => After
  BY <1>6, <1>7
<1>12. After => Reached(t, n, m)'
  BY DEF Reached, Carries
<1>13. (\E u \in Replicas : Awaits(auditSweep'[u], m)) => (\E u \in Replicas : Awaits(auditSweep[u], m))'
  BY DEF Awaits
<1> HIDE DEF After
<1> QED BY <1>9, <1>10, <1>11, <1>12, <1>13 DEF HearsOf

\* A step that no audit sweep takes.
LEMMA HearStays ==
  ASSUME NEW t, NEW n, NEW m, HearsOf(t, n, m), UNCHANGED <<ops, auditSweep, copied>>, sent \subseteq sent',
         n \in claims' => n \in claims, m \in claims' => m \in claims,
         \A s \in Replicas : Started(s)' => Started(s)
  PROVE  HearsOf(t, n, m)'
<1>1. Reached(t, n, m) => Reached(t, n, m)'
  BY DEF Reached, Carries
<1>2. (\E s \in Replicas : Awaits(auditSweep[s], m)) => (\E s \in Replicas : Awaits(auditSweep[s], m))'
  BY DEF Awaits
<1> QED BY <1>1, <1>2 DEF HearsOf

LEMMA Concerns ==
  ASSUME UNCHANGED <<day, control, ops>>
  PROVE  /\ \A a, c, t, n, m : Concern(a, c, t, n, m)' <=> Concern(a, c, t, n, m)
         /\ \A x : RightlyQueued(x)' <=> RightlyQueued(x)
         /\ Assigned' = Assigned /\ (Sound' <=> Sound)
<1>1. \A a, c, t, n, m : Concern(a, c, t, n, m)' <=> Concern(a, c, t, n, m)
  BY DEF Concern, Note, Overdue, TypeToday, Daily
<1>2. \A x : RightlyQueued(x)' <=> RightlyQueued(x)
  BY DEF RightlyQueued
<1>3. Assigned' = Assigned /\ (Sound' <=> Sound)
  BY DEF Assigned, Sound, Without
<1> QED BY <1>1, <1>2, <1>3

\* What a step of the sweep of r must keep of what carries the admin's news.
Keeps(r, next, t, n, m) ==
  /\ n \in auditSweep[r].byAdmin => n \in next.byAdmin \/ n \in sent'
  /\ Carries(auditSweep[r], n, m) => Carries(next, n, m) \/ t \in copied' \/ n \in sent' \/ n \in claims
  /\ Awaits(auditSweep[r], m) => Awaits(next, m) \/ Carries(next, n, m) \/ t \in copied' \/ n \in sent' \/ m \in claims
  /\ n \in claims' => n \in claims \/ n \in next.byAdmin
  /\ "CC" \in ops /\ m \in claims' => m \in claims \/ Carries(next, n, m)

LEMMA HearStep ==
  ASSUME AuditsTypeOK, HearInv, NEW r \in Replicas, NEW next, Moves(r, next), UNCHANGED <<day, control, ops>>,
         copied \subseteq copied', sent \subseteq sent',
         \A s \in Replicas : s # r /\ Started(s)' => Started(s),
         Sound => /\ RightlyRead(next)
                  /\ \A k \in claims' \cap Notifications : k.type = "REMINDER_OVERDUE" => k.snapshot <= day
                  /\ \A a \in Admins, c \in Controls : \A t, n, m : Concern(a, c, t, n, m) =>
                       /\ Keeps(r, next, t, n, m)
                       /\ Started(r)' => Started(r) \/ Carries(next, n, m) \/ Awaits(next, m)
  PROVE  HearInv'
<1>1. SUFFICES ASSUME Sound
               PROVE  /\ \A s \in Replicas : RightlyRead(auditSweep[s])'
                      /\ \A k \in claims' \cap Notifications' : k.type = "REMINDER_OVERDUE" => k.snapshot <= day'
                      /\ \A a \in Admins, c \in Controls : \A t, n, m : Concern(a, c, t, n, m)' => HearsOf(t, n, m)'
  BY Concerns DEF HearInv
<1>2. \A s \in Replicas : auditSweep'[s] = IF s = r THEN next ELSE auditSweep[s]
  BY DEF Moves, AuditGoes, AuditsTypeOK
<1>3. \A s \in Replicas : RightlyRead(auditSweep'[s])
  BY <1>1, <1>2 DEF HearInv
<1>4. \A s \in Replicas : RightlyRead(auditSweep[s])'
  BY <1>3, Concerns DEF RightlyRead
<1>5. \A k \in claims' \cap Notifications' : k.type = "REMINDER_OVERDUE" => k.snapshot <= day'
  BY <1>1 DEF Notifications
<1>6. ASSUME NEW a \in Admins, NEW c \in Controls, NEW t, NEW n, NEW m, Concern(a, c, t, n, m)' PROVE HearsOf(t, n, m)'
  <2>1. Concern(a, c, t, n, m)
    BY <1>6, Concerns
  <2>2. HearsOf(t, n, m)
    BY <1>1, <2>1 DEF HearInv
  <2>3. /\ Keeps(r, next, t, n, m)
        /\ Started(r)' => Started(r) \/ Carries(next, n, m) \/ Awaits(next, m)
    BY <1>1, <2>1
  <2> QED BY <2>2, <2>3, HearMoves DEF Keeps
<1> QED BY <1>4, <1>5, <1>6

LEMMA HearWorks ==
  ASSUME AuditsTypeOK, HearInv, NEW r \in Replicas, NEW next, Works(r, next), UNCHANGED <<control, schedulerVars>>,
         copied \subseteq copied', sent \subseteq sent',
         Sound => /\ \A x \in next.todo : RightlyQueued(x)
                  /\ \A k \in next.byRecipient : RightlyQueued(<<k, FALSE>>)
                  /\ \A k \in claims' \cap Notifications : k.type = "REMINDER_OVERDUE" => k.snapshot <= day
                  /\ \A a \in Admins, c \in Controls : \A t, n, m : Concern(a, c, t, n, m) => Keeps(r, next, t, n, m)
  PROVE  HearInv'
<1>1. Moves(r, next) /\ UNCHANGED <<day, control, ops, replica>> /\ Started(r)
  BY DEF Works, schedulerVars, Started
<1>2. \A s \in Replicas : s # r /\ Started(s)' => Started(s)
  BY <1>1 DEF Started, Moves, AuditGoes, AuditsTypeOK
<1>3. Sound => RightlyRead(next)
  BY DEF HearInv, RightlyRead, Works
<1> QED BY <1>1, <1>2, <1>3, HearStep

\* The keys of a concern.
LEMMA ConcernKeys ==
  ASSUME NEW a \in Admins, NEW c \in Controls, NEW t, NEW n, NEW m, Concern(a, c, t, n, m)
  PROVE  /\ n.type = "REMINDER_OVERDUE" /\ n.to = a /\ n.control = c /\ n.to # control[n.control].assignee
         /\ m.type = "REMINDER_OVERDUE" /\ m.control = c /\ m.to = control[m.control].assignee
         /\ n # m /\ n = [m EXCEPT !.to = a] /\ a # m.to
         /\ t = <<a, c, day>>
BY DEF Concern, Note

LEMMA HearClaims ==
  ASSUME AuditsTypeOK, SchedulerTypeOK, HearInv, NEW r \in Replicas, ClaimNotification(r)
  PROVE  HearInv'
<1>1. PICK q : q = auditSweep[r]
  OBVIOUS
<1>2. UNCHANGED <<control, copied, sent, schedulerVars>>
  BY ClaimNotificationDoes DEF schedulerVars
<1>3. PICK x \in q.todo, next \in AuditSweepStates :
              /\ Works(r, next) /\ x[1] \in Notifications
              /\ next.todo = q.todo \ {x}
              /\ \/ /\ Won(x[1]) /\ x[2] = TRUE
                    /\ next.byAdmin = q.byAdmin \cup {x[1]} /\ next.byRecipient = q.byRecipient
                 \/ /\ Won(x[1]) /\ x[2] = FALSE
                    /\ next.byAdmin = q.byAdmin /\ next.byRecipient = q.byRecipient \cup {x[1]}
                 \/ /\ Taken(x[1]) \/ ClaimFails(x[1])
                    /\ next.byAdmin = q.byAdmin /\ next.byRecipient = q.byRecipient
  BY <1>1, ClaimNotificationDoes
<1>4. SUFFICES ASSUME Sound
               PROVE  /\ \A y \in next.todo : RightlyQueued(y)
                      /\ \A k \in next.byRecipient : RightlyQueued(<<k, FALSE>>)
                      /\ \A k \in claims' \cap Notifications : k.type = "REMINDER_OVERDUE" => k.snapshot <= day
                      /\ \A a \in Admins, c \in Controls : \A t, n, m : Concern(a, c, t, n, m) => Keeps(r, next, t, n, m)
  BY <1>2, <1>3, HearWorks
<1>5. \A y \in q.todo : RightlyQueued(y)
  BY <1>1, <1>4 DEF HearInv, RightlyRead
<1>6. \A k \in q.byRecipient : RightlyQueued(<<k, FALSE>>)
  BY <1>1, <1>4 DEF HearInv, RightlyRead
<1>7. \A k \in claims \cap Notifications : k.type = "REMINDER_OVERDUE" => k.snapshot <= day
  BY <1>4 DEF HearInv
<1>8. ~ClaimFails(x[1])
  BY <1>4 DEF ClaimFails, Sound, Without
<1>9. day \in Nat
  BY SchedulerAssumption DEF SchedulerTypeOK
<1>10. x[1].type = "REMINDER_OVERDUE" =>
         x[1].snapshot = day /\ (x[2] = FALSE <=> x[1].to = control[x[1].control].assignee)
  BY <1>5 DEF RightlyQueued
<1>11. \A k \in next.byRecipient : RightlyQueued(<<k, FALSE>>)
  BY <1>3, <1>6, <1>10 DEF RightlyQueued
<1>12. claims' = claims \/ claims' = claims \cup {x[1]}
  BY <1>3, <1>8 DEF Won, Taken
<1>13. \A k \in claims' \cap Notifications : k.type = "REMINDER_OVERDUE" => k.snapshot <= day
  BY <1>7, <1>9, <1>10, <1>12
<1>14. ASSUME NEW a \in Admins, NEW c \in Controls, NEW t, NEW n, NEW m, Concern(a, c, t, n, m)
       PROVE  Keeps(r, next, t, n, m)
  <2>1. /\ n.type = "REMINDER_OVERDUE" /\ n.to # control[n.control].assignee
        /\ m.type = "REMINDER_OVERDUE" /\ m.to = control[m.control].assignee
    BY <1>14, ConcernKeys
  <2> DEFINE N == <<n, TRUE>>
             M == <<m, FALSE>>
  <2>0. N[1] = n /\ N[2] = TRUE /\ M[1] = m /\ M[2] = FALSE
    OBVIOUS
  <2>5. (N = x => n = x[1] /\ x[2] = TRUE) /\ (M = x => m = x[1] /\ x[2] = FALSE)
    <3> HIDE DEF N, M
    <3> QED BY <2>0
  <2>2. CASE /\ Won(x[1]) /\ x[2] = TRUE
             /\ next.byAdmin = q.byAdmin \cup {x[1]} /\ next.byRecipient = q.byRecipient
    <3>1. x[1] # m
      BY <1>10, <2>1, <2>2
    <3>2. <<m, FALSE>> # x /\ (<<n, TRUE>> = x => n = x[1])
      BY <2>2, <2>5
    <3> QED BY <1>1, <1>3, <2>2, <3>1, <3>2 DEF Keeps, Carries, Awaits, Won
  <2>3. CASE /\ Won(x[1]) /\ x[2] = FALSE
             /\ next.byAdmin = q.byAdmin /\ next.byRecipient = q.byRecipient \cup {x[1]}
    <3>1. x[1] # n
      BY <1>10, <2>1, <2>3
    <3>2. <<n, TRUE>> # x /\ (<<m, FALSE>> = x => m = x[1])
      BY <2>3, <2>5
    <3> QED BY <1>1, <1>3, <2>3, <3>1, <3>2 DEF Keeps, Carries, Awaits, Won
  <2>4. CASE Taken(x[1]) /\ next.byAdmin = q.byAdmin /\ next.byRecipient = q.byRecipient
    <3>1. (<<n, TRUE>> = x => n = x[1]) /\ (<<m, FALSE>> = x => m = x[1])
      BY <2>5
    <3> QED BY <1>1, <1>3, <2>4, <3>1 DEF Keeps, Carries, Awaits, Taken
  <2> QED BY <1>3, <1>8, <2>2, <2>3, <2>4
<1> QED BY <1>3, <1>5, <1>11, <1>13, <1>14

LEMMA HearReads ==
  ASSUME AuditsTypeOK, SchedulerTypeOK, IdleInv, HearInv, NEW r \in Replicas, ReadControls(r)
  PROVE  HearInv'
<1>1. day \in Days
  BY DEF SchedulerTypeOK
<1>2. /\ "audit" \in replica[r].busy /\ auditSweep[r].pc = "start" /\ UNCHANGED <<control, copied, claims, sent>>
      /\ auditSweep[r] = AuditSweepIdle
  BY <1>1, ReadControlsDoes DEF claimVars, IdleInv
<1>3. CASE "ListFails" \in ops /\ Done(r, "audit") /\ UNCHANGED auditSweep
  <2>1. UNCHANGED ops
    BY <1>3 DEF Done
  <2> QED BY <1>3, <2>1 DEF HearInv, Sound, Without
<1>4. ASSUME NEW next, NEW admins \in {Admins, {}}, NEW cc \in SUBSET admins,
                 Moves(r, next), UNCHANGED schedulerVars,
                 "LookupFails" \notin ops => admins = Admins /\ cc = IF "CC" \in ops THEN Admins ELSE {},
                 next.pc = "work", next.admins = admins, next.cc = cc, next.assigned = Assigned,
                 next.todo = TodoToday(admins, cc),
                 next.byRecipient = auditSweep[r].byRecipient, next.byAdmin = auditSweep[r].byAdmin
      PROVE  HearInv'
  <2>1. next.byRecipient = {} /\ next.byAdmin = {} /\ auditSweep[r].todo = {} /\ auditSweep[r].byAdmin = {}
        /\ auditSweep[r].byRecipient = {}
    BY <1>2, <1>4 DEF AuditSweepIdle
  <2>2. UNCHANGED <<day, control, ops, copied, sent, replica>>
    BY <1>2, <1>4 DEF schedulerVars
  <2>3. \A s \in Replicas : s # r /\ Started(s)' => Started(s)
    BY <1>4, <2>2 DEF Started, Moves, AuditGoes, AuditsTypeOK
  <2>4. ASSUME Sound
        PROVE  /\ RightlyRead(next)
               /\ \A k \in claims' \cap Notifications : k.type = "REMINDER_OVERDUE" => k.snapshot <= day
               /\ \A a \in Admins, c \in Controls : \A t, n, m : Concern(a, c, t, n, m) =>
                       /\ Keeps(r, next, t, n, m)
                       /\ Started(r)' => Started(r) \/ Carries(next, n, m) \/ Awaits(next, m)
    <3>1. admins = Admins /\ cc = IF "CC" \in ops THEN Admins ELSE {}
      BY <1>4, <2>4 DEF Sound, Without
    <3>2. \A x \in next.todo : RightlyQueued(x)
      BY <1>1, <1>4, QueuedRightly
    <3>3. RightlyRead(next)
      BY <1>4, <2>1, <3>1, <3>2 DEF RightlyRead
    <3>4. \A k \in claims' \cap Notifications : k.type = "REMINDER_OVERDUE" => k.snapshot <= day
      BY <1>2, <2>4 DEF HearInv
    <3>5. ASSUME NEW a \in Admins, NEW c \in Controls, NEW t, NEW n, NEW m, Concern(a, c, t, n, m)
          PROVE  Keeps(r, next, t, n, m) /\ (Carries(next, n, m) \/ Awaits(next, m))
      <4>1. Keeps(r, next, t, n, m)
        BY <1>2, <2>1 DEF Keeps, Carries, Awaits
      <4>2. /\ Overdue(c) /\ a \in admins \ {control[c].assignee}
            /\ n = Note(a, c) /\ m = Note(control[c].assignee, c)
        BY <3>1, <3>5 DEF Concern
      <4>3. /\ cc = {} \/ c \notin Assigned => <<n, TRUE>> \in next.todo
            /\ c \in Assigned => <<m, FALSE>> \in next.todo
        <5>1. /\ cc = {} \/ c \notin Assigned => <<Note(a, c), TRUE>> \in TodoToday(admins, cc)
              /\ c \in Assigned => <<Note(control[c].assignee, c), FALSE>> \in TodoToday(admins, cc)
          BY <1>1, <4>2, OverdueQueued
        <5> QED BY <1>4, <4>2, <5>1
      <4>4. cc # {} => "CC" \in ops
        BY <3>1
      <4> QED BY <4>1, <4>3, <4>4 DEF Carries, Awaits
    <3> QED BY <3>3, <3>4, <3>5
  <2> QED BY <1>4, <2>2, <2>3, <2>4, HearStep
<1> QED BY <1>1, <1>3, <1>4, ReadControlsDoes

LEMMA HearNotifies ==
  ASSUME AuditsTypeOK, SchedulerTypeOK, ClaimsTypeOK, HearInv, NEW r \in Replicas, NEW to, NotifyRecipient(r, to)
  PROVE  HearInv'
<1>1. PICK q : q = auditSweep[r]
  OBVIOUS
<1>2. PICK ks : ks = DigestOf(r, to)
  OBVIOUS
<1>3. day \in Days
  BY DEF SchedulerTypeOK
<1>4. /\ UNCHANGED <<control, claims, schedulerVars>> /\ q.todo = {}
  BY <1>1, <1>3, NotifyRecipientDoes
<1>5. PICK next :
              /\ Works(r, next)
              /\ next.byRecipient = q.byRecipient \ ks /\ next.byAdmin = q.byAdmin
              /\ \/ Mail(ks) /\ copied' = copied \cup CopiesOf(r, to) /\ next.todo = {}
                 \/ /\ \E failed \in BOOLEAN : next.todo = Fallback(r, ks, failed)
                    /\ \/ Unsent /\ UNCHANGED copied
                       \/ Mail(ks) /\ copied' = copied \cup CopiesOf(r, to)
  BY <1>1, <1>2, <1>3, NotifyRecipientDoes
<1>6. copied \subseteq copied' /\ sent \subseteq sent'
  BY <1>5 DEF Mail, Unsent
<1>7. ks \subseteq q.byRecipient /\ q \in AuditSweepStates /\ q.pc = "work" /\ ks \subseteq Notifications
  BY <1>1, <1>2, <1>5 DEF DigestOf, AuditsTypeOK, AuditSweepStates, Works
<1>8. SUFFICES ASSUME Sound
               PROVE  /\ \A y \in next.todo : RightlyQueued(y)
                      /\ \A k \in next.byRecipient : RightlyQueued(<<k, FALSE>>)
                      /\ \A k \in claims' \cap Notifications : k.type = "REMINDER_OVERDUE" => k.snapshot <= day
                      /\ \A a \in Admins, c \in Controls : \A t, n, m : Concern(a, c, t, n, m) => Keeps(r, next, t, n, m)
  BY <1>4, <1>5, <1>6, HearWorks
<1>9. \A k \in q.byRecipient : RightlyQueued(<<k, FALSE>>)
  BY <1>1, <1>8 DEF HearInv, RightlyRead
<1>10. q.admins = Admins /\ q.cc = (IF "CC" \in ops THEN Admins ELSE {}) /\ q.assigned = Assigned
  BY <1>1, <1>7, <1>8 DEF HearInv, RightlyRead
<1>11. \A k \in claims' \cap Notifications : k.type = "REMINDER_OVERDUE" => k.snapshot <= day
  BY <1>4, <1>8 DEF HearInv
<1>12. ASSUME NEW failed, NEW y \in Fallback(r, ks, failed) PROVE RightlyQueued(y)
  <2>0. PICK k \in Counted(r, ks) : \E a \in auditSweep[r].admins \ {k.to} : y = <<[k EXCEPT !.to = a], TRUE>>
    BY <1>12, FallbackIs
  <2>1. PICK a \in q.admins \ {k.to} : y = <<[k EXCEPT !.to = a], TRUE>>
    BY <1>1, <2>0
  <2>2. k \in q.byRecipient /\ k \in Notifications /\ k.type = "REMINDER_OVERDUE"
    BY <1>7, <2>1 DEF Counted
  <2>3. k.snapshot = day /\ k.to = control[k.control].assignee
    BY <1>9, <2>2 DEF RightlyQueued
  <2>4. PICK l : l = [k EXCEPT !.to = a]
    OBVIOUS
  <2>5. l.to = a /\ l.control = k.control /\ l.type = k.type /\ l.snapshot = k.snapshot
    BY <2>2, <2>4 DEF Notifications
  <2>6. y[1] = l /\ y[2] = TRUE
    BY <2>1, <2>4
  <2> QED BY <2>1, <2>3, <2>5, <2>6 DEF RightlyQueued
<1>13. ASSUME NEW a \in Admins, NEW c \in Controls, NEW t, NEW n, NEW m, Concern(a, c, t, n, m)
       PROVE  Keeps(r, next, t, n, m)
  <2>1. /\ m.type = "REMINDER_OVERDUE" /\ m.control = c /\ m.to = control[m.control].assignee
        /\ n = [m EXCEPT !.to = a] /\ a # m.to /\ t = <<a, c, day>>
    BY <1>13, ConcernKeys
  <2>2. ASSUME "CC" \in ops, m \in ks PROVE <<n, TRUE>> \in next.todo \/ t \in copied'
    <3>1. m \in Notifications /\ m.to # Nobody
      BY <1>7, <2>2, AuditRemindersAssumption DEF Notifications
    <3>2. c \in q.assigned
      BY <1>10, <2>1, <3>1 DEF Assigned
    <3>3. q.cc = Admins /\ q.admins = Admins
      BY <1>10, <2>2
    <3>4. t \in CopiesOf(r, to)
      <4>1. a \in IF \E k \in ks : k.control \in q.assigned THEN q.cc ELSE {}
        BY <2>1, <2>2, <3>2, <3>3
      <4>2. t = <<a, m.control, day>>
        BY <2>1
      <4> QED BY <1>1, <1>2, <2>2, <4>1, <4>2 DEF CopiesOf
    <3>5. m \in Counted(r, ks)
      BY <1>1, <2>1, <2>2, <3>2 DEF Counted
    <3>6. \A failed : <<n, TRUE>> \in Fallback(r, ks, failed)
      BY <1>1, <2>1, <3>3, <3>5, FallbackIs
    <3> QED BY <1>5, <3>4, <3>6
  <2>3. Carries(q, n, m) => Carries(next, n, m) \/ t \in copied'
    BY <1>4, <1>5, <2>2 DEF Carries
  <2>4. ~Awaits(q, m)
    BY <1>4 DEF Awaits
  <2> QED BY <1>1, <1>4, <1>5, <2>3, <2>4 DEF Keeps
<1>14. \A y \in next.todo : RightlyQueued(y)
  BY <1>5, <1>12
<1>15. \A k \in next.byRecipient : RightlyQueued(<<k, FALSE>>)
  BY <1>5, <1>9
<1> QED BY <1>11, <1>13, <1>14, <1>15

LEMMA HearEscalates ==
  ASSUME AuditsTypeOK, SchedulerTypeOK, HearInv, NEW r \in Replicas, NEW b, NotifyAdmin(r, b)
  PROVE  HearInv'
<1>1. PICK q : q = auditSweep[r]
  OBVIOUS
<1>2. PICK ks : ks = EscalationOf(r, b)
  OBVIOUS
<1>3. /\ UNCHANGED <<control, copied, claims, schedulerVars>> /\ q.todo = {} /\ q.byRecipient = {}
  BY <1>1, NotifyAdminDoes
<1>4. PICK next :
              /\ Works(r, next) /\ next.todo = {} /\ next.byRecipient = {} /\ next.byAdmin = q.byAdmin \ ks
              /\ \/ Mail(ks)
                 \/ "DigestFails" \in ops /\ Unsent
  BY <1>1, <1>2, NotifyAdminDoes
<1>5. sent \subseteq sent'
  BY <1>4 DEF Mail, Unsent
<1>6. SUFFICES ASSUME Sound
               PROVE  /\ \A k \in claims' \cap Notifications : k.type = "REMINDER_OVERDUE" => k.snapshot <= day
                      /\ \A a \in Admins, c \in Controls : \A t, n, m : Concern(a, c, t, n, m) => Keeps(r, next, t, n, m)
  BY <1>3, <1>4, <1>5, HearWorks
<1>7. Mail(ks)
  BY <1>4, <1>6 DEF Sound, Without
<1>8. \A k \in claims' \cap Notifications : k.type = "REMINDER_OVERDUE" => k.snapshot <= day
  BY <1>3, <1>6 DEF HearInv
<1>9. ASSUME NEW t, NEW n, NEW m PROVE Keeps(r, next, t, n, m)
  <2>1. n \in q.byAdmin => n \in next.byAdmin \/ n \in sent'
    BY <1>4, <1>7 DEF Mail
  <2> QED BY <1>1, <1>3, <2>1 DEF Keeps, Carries, Awaits
<1> QED BY <1>8, <1>9

LEMMA HearReleases ==
  ASSUME AuditsTypeOK, HearInv, NEW r \in Replicas, ReleaseNotification(r)
  PROVE  HearInv'
<1>1. PICK q : q = auditSweep[r]
  OBVIOUS
<1>2. /\ UNCHANGED <<control, copied, sent, schedulerVars>> /\ q.todo = {}
  BY <1>1, ReleaseNotificationDoes
<1>3. PICK k \in q.batch, next \in AuditSweepStates :
              /\ Works(r, next) /\ Release(k) /\ next.todo = {}
              /\ next.byAdmin = q.byAdmin /\ next.byRecipient = q.byRecipient
  BY <1>1, ReleaseNotificationDoes
<1>4. claims' \subseteq claims
  BY <1>3 DEF Release
<1>5. ASSUME Sound
      PROVE  /\ \A l \in next.byRecipient : RightlyQueued(<<l, FALSE>>)
             /\ \A l \in claims' \cap Notifications : l.type = "REMINDER_OVERDUE" => l.snapshot <= day
  BY <1>1, <1>3, <1>4, <1>5 DEF HearInv, RightlyRead
<1>6. ASSUME NEW t, NEW n, NEW m PROVE Keeps(r, next, t, n, m)
  BY <1>1, <1>2, <1>3, <1>4 DEF Keeps, Carries, Awaits
<1> QED BY <1>2, <1>3, <1>5, <1>6, HearWorks

LEMMA HearEnds ==
  ASSUME AuditsTypeOK, SchedulerTypeOK, HearInv, NEW r \in Replicas, AuditSweepEnds(r)
  PROVE  HearInv'
<1>1. /\ UNCHANGED <<control, copied, claims, sent>> /\ Done(r, "audit") /\ Moves(r, AuditSweepIdle)
      /\ auditSweep[r].pc = "work" /\ auditSweep[r].todo = {}
      /\ auditSweep[r].byRecipient = {} /\ auditSweep[r].byAdmin = {}
  BY AuditSweepEndsDoes DEF claimVars
<1>2. PICK next : next = AuditSweepIdle
  OBVIOUS
<1>3. next.pc = "start" /\ next.todo = {} /\ next.byRecipient = {} /\ next.byAdmin = {}
  BY <1>2 DEF AuditSweepIdle
<1>4. \A s \in Replicas : s # r => replica'[s] = replica[s]
  BY <1>1 DEF Done, SchedulerTypeOK
<1>5. Started(r) /\ UNCHANGED <<day, ops>>
  BY <1>1 DEF Started, Done
<1>6. \A s \in Replicas : s # r /\ Started(s)' => Started(s)
  BY <1>1, <1>4 DEF Started, Moves, AuditGoes, AuditsTypeOK
<1>7. RightlyRead(next)
  BY <1>3 DEF RightlyRead
<1>8. \A t, n, m : Keeps(r, next, t, n, m)
  BY <1>1, <1>3 DEF Keeps, Carries, Awaits
<1>9. Sound => \A k \in claims' \cap Notifications : k.type = "REMINDER_OVERDUE" => k.snapshot <= day
  BY <1>1 DEF HearInv
<1> QED BY <1>1, <1>2, <1>5, <1>6, <1>7, <1>8, <1>9, HearStep

LEMMA HearSweep ==
  ASSUME AuditsTypeOK, SchedulerTypeOK, ClaimsTypeOK, IdleInv, HearInv, NEW r \in Replicas, AuditSweep(r)
  PROVE  HearInv'
BY HearReads, HearClaims, HearReleases, HearEnds, HearNotifies, HearEscalates DEF AuditSweep

-----------------------------------------------------------------------------
(* The steps that touch neither the audit sweeps nor the day.                  *)

LEMMA NotesAreNoRisks == \A p, c : Note(p, c) \notin RiskKeys
<1>1. SUFFICES ASSUME NEW p, NEW c, Note(p, c) \in RiskKeys PROVE FALSE
  OBVIOUS
<1>2. DOMAIN Note(p, c) = {"risk", "tier", "due"}
  BY <1>1 DEF RiskKeys
<1>3. DOMAIN Note(p, c) = {"to", "control", "type", "snapshot"}
  BY DEF Note
<1> QED BY <1>2, <1>3

LEMMA HearOther ==
  ASSUME HearInv, UNCHANGED <<day, control, ops, copied, auditSweep>>, sent \subseteq sent',
         claims' \subseteq claims \cup RiskKeys,
         Sound => \A s \in Replicas : Started(s)' => Started(s)
  PROVE  HearInv'
<1>1. SUFFICES ASSUME Sound
               PROVE  /\ \A s \in Replicas : RightlyRead(auditSweep[s])'
                      /\ \A k \in claims' \cap Notifications' : k.type = "REMINDER_OVERDUE" => k.snapshot <= day'
                      /\ \A a \in Admins, c \in Controls : \A t, n, m : Concern(a, c, t, n, m)' => HearsOf(t, n, m)'
  BY Concerns DEF HearInv
<1>2. \A s \in Replicas : RightlyRead(auditSweep[s])'
  BY <1>1, Concerns DEF HearInv, RightlyRead
<1>3. \A k \in claims' \cap Notifications' : k.type = "REMINDER_OVERDUE" => k.snapshot <= day'
  <2>1. claims' \cap Notifications \subseteq claims \cap Notifications
    BY KeysApart
  <2> QED BY <1>1, <2>1 DEF HearInv, Notifications
<1>4. ASSUME NEW a \in Admins, NEW c \in Controls, NEW t, NEW n, NEW m, Concern(a, c, t, n, m)' PROVE HearsOf(t, n, m)'
  <2>1. Concern(a, c, t, n, m)
    BY <1>4, Concerns
  <2>2. HearsOf(t, n, m)
    BY <1>1, <2>1 DEF HearInv
  <2>3. n \notin RiskKeys /\ m \notin RiskKeys
    BY <2>1, NotesAreNoRisks DEF Concern
  <2> QED BY <1>1, <2>2, <2>3, HearStays
<1> QED BY <1>2, <1>3, <1>4

\* A day ends with every sweep ended; no key of the next day has been claimed.
LEMMA HearDay ==
  ASSUME AuditsTypeOK, SchedulerTypeOK, ClaimsTypeOK, IdleInv, HearInv, DayPasses, UNCHANGED <<claimVars, auditVars>>
  PROVE  HearInv'
<1>1. UNCHANGED <<ops, control, copied, auditSweep, claims, sent>>
  BY DEF DayPasses, claimVars, auditVars
<1>2. SUFFICES ASSUME Sound
               PROVE  /\ \A s \in Replicas : RightlyRead(auditSweep[s])'
                      /\ \A k \in claims' \cap Notifications' : k.type = "REMINDER_OVERDUE" => k.snapshot <= day'
                      /\ \A a \in Admins, c \in Controls : \A t, n, m : Concern(a, c, t, n, m)' => HearsOf(t, n, m)'
  BY <1>1 DEF HearInv, Sound, Without
<1>3. \A s \in Replicas : auditSweep[s] = AuditSweepIdle
  BY DEF DayPasses, IdleInv
<1>4. \A s \in Replicas : /\ auditSweep[s].pc = "start" /\ auditSweep[s].todo = {}
                          /\ auditSweep[s].byRecipient = {} /\ auditSweep[s].byAdmin = {}
  BY <1>3 DEF AuditSweepIdle
<1>5. \A s \in Replicas : RightlyRead(auditSweep[s])'
  BY <1>1, <1>4 DEF RightlyRead
<1>6. day \in Nat /\ day' \in Nat /\ day' > day
  <2>1. ~Dateless
    BY <1>2 DEF Sound, Dateless
  <2>2. day' \in Days /\ day' > day
    BY <2>1, NextDay DEF DayPasses, SchedulerTypeOK
  <2> QED BY <2>2, SchedulerAssumption DEF SchedulerTypeOK
<1>7. \A k \in claims \cap Notifications : k.type = "REMINDER_OVERDUE" => k.snapshot <= day
  BY <1>2 DEF HearInv
<1>8. \A k \in claims' \cap Notifications' : k.type = "REMINDER_OVERDUE" => k.snapshot <= day'
  <2>1. \A k \in Notifications : k.snapshot \in Nat
    BY SchedulerAssumption, AuditRemindersAssumption DEF Notifications
  <2>2. claims' \cap Notifications' = claims \cap Notifications
    BY <1>1 DEF Notifications
  <2> QED BY <1>6, <1>7, <2>1, <2>2
<1>9. \A s \in Replicas : ~Started(s)'
  <2>1. \A s \in Replicas : replica'[s].fired = FALSE
    BY DEF DayPasses, SchedulerTypeOK, ReplicaStates
  <2> QED BY <1>1, <1>4, <2>1 DEF Started
<1>10. ASSUME NEW k, k.type = "REMINDER_OVERDUE", k.snapshot = day', k \notin RiskKeys PROVE k \notin claims'
  <2>1. k \in claims => k \in claims \cap Notifications
    BY <1>10 DEF ClaimsTypeOK
  <2> QED BY <1>1, <1>6, <1>7, <1>10, <2>1
<1>11. ASSUME NEW a \in Admins, NEW c \in Controls, NEW t, NEW n, NEW m, Concern(a, c, t, n, m)' PROVE HearsOf(t, n, m)'
  <2>1. n.type = "REMINDER_OVERDUE" /\ n.snapshot = day' /\ m.type = "REMINDER_OVERDUE" /\ m.snapshot = day'
    BY <1>11 DEF Concern, Note
  <2>2. DOMAIN n = {"to", "control", "type", "snapshot"} /\ DOMAIN m = {"to", "control", "type", "snapshot"}
    BY <1>11 DEF Concern, Note
  <2>3. \A k \in RiskKeys : DOMAIN k = {"risk", "tier", "due"}
    BY DEF RiskKeys
  <2>4. n \notin RiskKeys /\ m \notin RiskKeys
    BY <2>2, <2>3
  <2>5. n \notin claims' /\ m \notin claims'
    BY <1>10, <2>1, <2>4
  <2> QED BY <1>9, <2>5 DEF HearsOf
<1> QED BY <1>5, <1>8, <1>11

\* What a risk sweep's step does to the tables it shares.
LEMMA RiskSweepDoes ==
  ASSUME RisksTypeOK, ItemInv, ClaimsTypeOK, NEW r \in Replicas, RiskSweep(r)
  PROVE  /\ claims' \subseteq claims \cup RiskKeys /\ sent \subseteq sent' /\ ClaimsTypeOK'
         /\ UNCHANGED schedulerVars \/ Done(r, "risk")
<1>1. PICK q : q = riskSweep[r]
  OBVIOUS
<1>2. q \in RiskSweepStates /\ (q.item # NoKey <=> q.pc \in {"send", "release"})
  BY <1>1 DEF RisksTypeOK, ItemInv
<1>3. q.left \subseteq RiskKeys /\ (q.pc \in {"send", "release"} => q.item \in RiskKeys)
  BY <1>2 DEF RiskSweepStates
<1>4. CASE ListRisks(r)
  BY <1>4 DEF ListRisks, claimVars, ClaimsTypeOK
<1>5. CASE ClaimRisk(r)
  <2>1. PICK k \in q.left : Won(k) \/ Taken(k) \/ ClaimFails(k)
    BY <1>1, <1>5 DEF ClaimRisk
  <2>2. k \in RiskKeys
    BY <1>3
  <2>3. claims' \subseteq claims \cup {k}
    BY <2>1 DEF Won, Taken, ClaimFails
  <2> QED BY <1>5, <2>2, <2>3 DEF ClaimRisk, Unsent, ClaimsTypeOK
<1>6. CASE NotifyRisk(r)
  <2>1. q.pc = "send" /\ (Unsent \/ Mail({q.item})) /\ UNCHANGED <<claims, schedulerVars>>
    BY <1>1, <1>6 DEF NotifyRisk, RiskStep
  <2> QED BY <1>3, <2>1 DEF Unsent, Mail, ClaimsTypeOK
<1>7. CASE ReleaseRisk(r)
  BY <1>7 DEF ReleaseRisk, Release, Unsent, ClaimsTypeOK
<1>8. CASE RiskSweepEnds(r)
  BY <1>8 DEF RiskSweepEnds, claimVars, ClaimsTypeOK
<1> QED BY <1>4, <1>5, <1>6, <1>7, <1>8 DEF RiskSweep

\* What an audit sweep's step does to them.
LEMMA AuditSweepDoes ==
  ASSUME AuditsTypeOK, SchedulerTypeOK, ClaimsTypeOK, NEW r \in Replicas, AuditSweep(r)
  PROVE  ClaimsTypeOK' /\ (UNCHANGED schedulerVars \/ Done(r, "audit"))
<1>1. day \in Days
  BY DEF SchedulerTypeOK
<1>2. auditSweep[r].byRecipient \subseteq Notifications /\ auditSweep[r].byAdmin \subseteq Notifications
  BY DEF AuditsTypeOK, AuditSweepStates
<1>3. ASSUME UNCHANGED claims, NEW ks \in SUBSET Notifications, Mail(ks) \/ Unsent PROVE ClaimsTypeOK'
  BY <1>3 DEF ClaimsTypeOK, Mail, Unsent
<1>4. ASSUME UNCHANGED <<claims, sent, twice>> PROVE ClaimsTypeOK'
  BY <1>4 DEF ClaimsTypeOK
<1>5. CASE ReadControls(r)
  <2>1. UNCHANGED <<claims, sent, twice>>
    BY <1>1, <1>5, ReadControlsDoes DEF claimVars
  <2>2. UNCHANGED schedulerVars \/ Done(r, "audit")
    BY <1>1, <1>5, ReadControlsDoes
  <2> QED BY <1>4, <2>1, <2>2
<1>6. CASE ClaimNotification(r)
  <2>1. UNCHANGED <<sent, twice, schedulerVars>>
    BY <1>6, ClaimNotificationDoes DEF schedulerVars
  <2>2. PICK k \in Notifications : Won(k) \/ Taken(k) \/ ClaimFails(k)
    BY <1>6, ClaimNotificationDoes
  <2>3. claims' \subseteq claims \cup {k}
    BY <2>2 DEF Won, Taken, ClaimFails
  <2> QED BY <2>1, <2>3 DEF ClaimsTypeOK
<1>7. CASE ReleaseNotification(r)
  <2>1. UNCHANGED <<sent, twice, schedulerVars>> /\ claims' \subseteq claims
    BY <1>7, ReleaseNotificationDoes DEF Release
  <2> QED BY <2>1 DEF ClaimsTypeOK
<1>8. CASE AuditSweepEnds(r)
  <2>1. UNCHANGED <<claims, sent, twice>> /\ Done(r, "audit")
    BY <1>8, AuditSweepEndsDoes DEF claimVars
  <2> QED BY <1>4, <2>1
<1>9. ASSUME NEW to, NotifyRecipient(r, to) PROVE ClaimsTypeOK' /\ UNCHANGED schedulerVars
  <2>1. UNCHANGED <<claims, schedulerVars>> /\ (Mail(DigestOf(r, to)) \/ Unsent)
    BY <1>1, <1>9, NotifyRecipientDoes
  <2>2. DigestOf(r, to) \subseteq Notifications
    BY <1>2 DEF DigestOf
  <2> QED BY <1>3, <2>1, <2>2
<1>10. ASSUME NEW a, NotifyAdmin(r, a) PROVE ClaimsTypeOK' /\ UNCHANGED schedulerVars
  <2>1. UNCHANGED <<claims, schedulerVars>> /\ (Mail(EscalationOf(r, a)) \/ Unsent)
    BY <1>10, NotifyAdminDoes
  <2>2. EscalationOf(r, a) \subseteq Notifications
    BY <1>2 DEF EscalationOf
  <2> QED BY <1>3, <2>1, <2>2
<1> QED BY <1>5, <1>6, <1>7, <1>8, <1>9, <1>10 DEF AuditSweep

LEMMA SyncScheduler ==
  ASSUME SyncTypeOK, NEW r \in Replicas, SyncRun(r)
  PROVE  UNCHANGED schedulerVars \/ Done(r, "sync")
BY ResolveDoes, GatherDoes, SendDigestDoes, DisableDoes, SyncEndsDoes DEF SyncRun, schedulerVars

LEMMA AdminSync ==
  ASSUME AdminInv, AccountsTypeOK, SyncTypeOK, NEW r \in Replicas, SyncRun(r)
  PROVE  AdminInv'
<1>1. UNCHANGED ops
  BY SyncScheduler DEF schedulerVars, Done
<1>2. ASSUME NEW next, Runs(r, next), next.departed \subseteq sync[r].departed, UNCHANGED <<accountVars, snapshot>> PROVE AdminInv'
  <2>1. \A s \in Replicas : sync'[s].departed \subseteq sync[s].departed
    BY <1>2 DEF Runs, SyncGoes, SyncTypeOK
  <2> QED BY <1>1, <1>2, <2>1, AdminStays DEF accountVars
<1>3. SyncIdle.departed = {}
  BY DEF SyncIdle
<1>4. CASE Gather(r)
  <2>1. UNCHANGED <<accountVars, snapshot>>
    BY <1>4, GatherDoes
  <2>2. \E next : Runs(r, next) /\ next.departed \subseteq sync[r].departed
    BY <1>3, <1>4, GatherDoes
  <2> QED BY <1>2, <2>1, <2>2
<1>5. CASE SendDigest(r)
  <2>1. UNCHANGED <<accountVars, snapshot>>
    BY <1>5, SendDigestDoes
  <2>2. \E next : Runs(r, next) /\ next.departed \subseteq sync[r].departed
    BY <1>5, SendDigestDoes
  <2> QED BY <1>2, <2>1, <2>2
<1>6. CASE SyncEnds(r)
  BY <1>2, <1>3, <1>6, SyncEndsDoes
<1> QED BY <1>4, <1>5, <1>6, AdminResolve, AdminDisable DEF SyncRun

-----------------------------------------------------------------------------
(* The inductive invariant.                                                    *)

ClaimInv == ItemInv /\ PartsInv /\ HeldInv

IInv == TypeOK /\ IdleInv /\ ClaimInv /\ AdminInv /\ WorkInv /\ HearInv

\* The types, by component.
LEMMA TypesByPart ==
  TypeOK <=> SchedulerTypeOK /\ RisksTypeOK /\ AuditsTypeOK /\ AccountsTypeOK /\ SyncTypeOK /\ ClaimsTypeOK
<1>1. TypeOK => SchedulerTypeOK /\ RisksTypeOK /\ AuditsTypeOK /\ AccountsTypeOK /\ SyncTypeOK
  BY DEF TypeOK
<1>2. TypeOK => ClaimsTypeOK
  BY DEF TypeOK, ClaimsTypeOK
<1>3. ASSUME SchedulerTypeOK, RisksTypeOK, AuditsTypeOK, AccountsTypeOK, SyncTypeOK, ClaimsTypeOK PROVE TypeOK
  <2>1. /\ claims \subseteq RiskKeys \cup Notifications
        /\ twice \subseteq sent /\ sent \subseteq RiskKeys \cup Notifications
    BY <1>3 DEF ClaimsTypeOK
  <2> QED BY <1>3, <2>1 DEF TypeOK
<1> QED BY <1>1, <1>2, <1>3

LEMMA TypesByPartNext ==
  ASSUME SchedulerTypeOK', RisksTypeOK', AuditsTypeOK', AccountsTypeOK', SyncTypeOK', ClaimsTypeOK'
  PROVE  TypeOK'
<1>1. /\ claims' \subseteq RiskKeys' \cup Notifications'
      /\ twice' \subseteq sent' /\ sent' \subseteq RiskKeys' \cup Notifications'
  BY DEF ClaimsTypeOK
<1> QED BY <1>1 DEF TypeOK

\* What the claims rest on, left alone.
LEMMA ClaimsStay ==
  ASSUME ClaimInv, UNCHANGED <<ops, claims, sent, twice, riskSweep, auditSweep>>
  PROVE  ClaimInv'
<1>1. Held' = Held
  BY DEF Held, OnRisk, OnAudit
<1> QED BY <1>1 DEF ClaimInv, ItemInv, PartsInv, HeldInv

LEMMA TypesStay ==
  /\ UNCHANGED riskVars /\ RisksTypeOK => RisksTypeOK'
  /\ UNCHANGED auditVars /\ AuditsTypeOK => AuditsTypeOK'
  /\ UNCHANGED accountVars /\ AccountsTypeOK => AccountsTypeOK'
  /\ UNCHANGED syncVars /\ SyncTypeOK => SyncTypeOK'
  /\ UNCHANGED claimVars /\ ClaimsTypeOK => ClaimsTypeOK'
  /\ UNCHANGED schedulerVars /\ SchedulerTypeOK => SchedulerTypeOK'
BY DEF riskVars, RisksTypeOK, auditVars, AuditsTypeOK, accountVars, AccountsTypeOK, syncVars, SyncTypeOK,
       claimVars, ClaimsTypeOK, schedulerVars, SchedulerTypeOK

\* What the admins and the announcements rest on, left alone.
LEMMA SyncStays ==
  ASSUME AdminInv, WorkInv, SyncTypeOK, UNCHANGED <<ops, accountVars, syncVars>>
  PROVE  AdminInv' /\ WorkInv'
<1>1. UNCHANGED <<ops, snapshot, granted, status, reported, work, told, sync>>
  BY DEF accountVars, syncVars
<1> QED BY <1>1, AdminStays, WorkStays

\* No first state has a sweep under way; no mail went out, no user is reported.
LEMMA InitInv == Init => IInv
<1> SUFFICES ASSUME Init PROVE IInv
  OBVIOUS
<1>1. SchedulerTypeOK
  BY SchedulerTypes DEF Init
<1>2. RisksTypeOK /\ ItemInv /\ \A r \in Replicas : OnRisk(riskSweep[r]) = {}
  <2>1. [Risks -> [due : DueDates, level : Levels]] # {}
    <3>1. DueDates # {} /\ "HIGH" \in Levels
      BY DueDatesAssumption DEF Levels, reminderTiersByLevel
    <3>2. PICK d \in DueDates : TRUE
      BY <3>1
    <3>3. [k \in Risks |-> [due |-> d, level |-> "HIGH"]] \in [Risks -> [due : DueDates, level : Levels]]
      BY <3>1, <3>2
    <3> QED BY <3>3
  <2>2. risk \in [Risks -> [due : DueDates, level : Levels]]
    BY <2>1, VariedIn DEF Init, RisksInit
  <2>3. riskSweep = [r \in Replicas |-> RiskSweepIdle] /\ RiskSweepIdle \in RiskSweepStates
        /\ RiskSweepIdle.item = NoKey /\ RiskSweepIdle.pc = "start"
    BY DEF Init, RisksInit, RiskSweepIdle, RiskSweepStates
  <2> QED BY <2>2, <2>3 DEF RisksTypeOK, ItemInv, OnRisk
<1>3. /\ AuditsTypeOK
      /\ \A r \in Replicas : auditSweep[r] = AuditSweepIdle
  <2>1. [Controls -> [assignee : People \cup {Nobody}, daily : {FALSE, "Daily" \in ops}]] # {}
    <3>1. [c \in Controls |-> [assignee |-> Nobody, daily |-> FALSE]]
            \in [Controls -> [assignee : People \cup {Nobody}, daily : {FALSE, "Daily" \in ops}]]
      OBVIOUS
    <3> QED BY <3>1
  <2>2. control \in [Controls -> [assignee : People \cup {Nobody}, daily : {FALSE, "Daily" \in ops}]]
    BY <2>1, VariedIn DEF Init, AuditsInit
  <2>3. control \in [Controls -> [assignee : People \cup {Nobody}, daily : BOOLEAN]]
    <3>1. PICK daily \in BOOLEAN : daily = ("Daily" \in ops)
      <4>1. ("Daily" \in ops) \in BOOLEAN
        OBVIOUS
      <4> QED BY <4>1, Zenon
    <3>2. control \in [Controls -> [assignee : People \cup {Nobody}, daily : {FALSE, daily}]]
      BY <2>2, <3>1
    <3> QED BY <3>2
  <2>4. auditSweep = [r \in Replicas |-> AuditSweepIdle] /\ AuditSweepIdle \in AuditSweepStates /\ copied = {}
    BY DEF Init, AuditsInit, AuditSweepIdle, AuditSweepStates
  <2> QED BY <2>3, <2>4 DEF AuditsTypeOK
<1>4. \A r \in Replicas : /\ auditSweep[r].pc = "start" /\ auditSweep[r].todo = {} /\ auditSweep[r].batch = {}
                          /\ auditSweep[r].byRecipient = {} /\ auditSweep[r].byAdmin = {}
  BY <1>3 DEF AuditSweepIdle
<1>5. claims = {} /\ sent = {} /\ twice = {} /\ ClaimsTypeOK
  BY DEF Init, ClaimsInit, ClaimsTypeOK
<1>6. ClaimInv
  <2>1. \A r \in Replicas : Held[r] = {}
    BY <1>2, <1>4 DEF Held, OnAudit
  <2>2. PartsInv
    BY <1>4 DEF PartsInv
  <2> QED BY <1>2, <1>5, <2>1, <2>2 DEF ClaimInv, HeldInv
<1>7. /\ reported = {} /\ granted = Holders /\ CandidateIDs # {}
      /\ status \in [Users -> {"ACTIVE", "INACTIVE", "DISABLED"}]
  BY DEF Init, AccountsInit
<1>8. AccountsTypeOK
  BY <1>7, AccountsAssumption DEF AccountsTypeOK
<1>9. /\ snapshot = [r \in Replicas |-> {}] /\ told = {} /\ sync = [r \in Replicas |-> SyncIdle]
      /\ work \in [DOMAIN Hubs -> SUBSET Users] /\ outage \in BOOLEAN
  BY DEF Init, SyncInit
<1>10. SyncTypeOK
  BY <1>9, SyncIdleTyped DEF SyncTypeOK
<1>11. AdminInv
  <2>1. PICK S : S = [r \in Replicas |-> {}]
    OBVIOUS
  <2>2. \A r \in Replicas : sync[r].departed = {}
    BY <1>9 DEF SyncIdle
  <2>3. S \in [Replicas -> SUBSET reported] /\ Basis(S)
    BY <1>9, <2>1, <2>2 DEF Basis
  <2> QED BY <1>7, <1>9, <2>3 DEF AdminInv
<1>12. WorkInv
  BY <1>9, IdleAnnounces DEF WorkInv, Announces
<1>13. IdleInv
  <2>1. PICK running \in IF "Replicas" \in ops THEN {Replicas} ELSE {{CHOOSE r \in Replicas : TRUE}} :
          replica = [r \in Replicas |-> [up |-> r \in running, fired |-> FALSE, busy |-> {}, override |-> FALSE]]
    BY DEF Init, SchedulerInit
  <2>2. \E r \in Replicas : r \in running
    BY SchedulerAssumption, <2>1
  <2> QED BY <1>3, <2>1, <2>2 DEF IdleInv
<1>14. HearInv
  <2>1. \A r \in Replicas : replica[r].fired = FALSE
    BY DEF Init, SchedulerInit
  <2>2. \A r \in Replicas : ~Started(r) /\ RightlyRead(auditSweep[r])
    BY <1>4, <2>1 DEF Started, RightlyRead
  <2>3. \A t, n, m : HearsOf(t, n, m)
    BY <1>5, <2>2 DEF HearsOf
  <2> QED BY <1>5, <2>2, <2>3 DEF HearInv
<1> QED BY <1>1, <1>2, <1>3, <1>5, <1>6, <1>8, <1>10, <1>11, <1>12, <1>13, <1>14, TypesByPart DEF IInv

-----------------------------------------------------------------------------
(* The invariant, step by step.                                                *)

LEMMA SchedulerKeeps ==
  ASSUME IInv, NEW r \in Replicas, SchedulerSteps(r), UNCHANGED <<claimVars, riskVars, auditVars, accountVars, syncVars>>
  PROVE  IInv'
<1>1. TypeOK'
  BY SchedulerTypes, TypesByPart, TypesByPartNext, TypesStay DEF IInv, SchedulerSteps
<1>2. UNCHANGED ops
  BY DEF SchedulerSteps, Fire, Up, Trigger
<1>3. UNCHANGED <<claims, sent, twice, riskSweep, auditSweep, control, copied, day>>
  BY DEF claimVars, riskVars, auditVars, SchedulerSteps, Fire, Up, Trigger
<1>4. IdleInv'
  BY <1>3, SchedulerIdle, TypesByPart DEF IInv
<1>5. ClaimInv'
  BY <1>2, <1>3, ClaimsStay DEF IInv
<1>6. AdminInv' /\ WorkInv'
  BY <1>2, SyncStays, TypesByPart DEF IInv
<1>7. ASSUME Sound, NEW s \in Replicas, Started(s)' PROVE Started(s)
  <2>1. SchedulerTypeOK /\ "audit" \in ops
    BY <1>7, TypesByPart DEF IInv, Sound
  <2>2. CASE Fire(r)
    <3>1. "audit" \in replica'[r].busy
      BY <2>1, <2>2 DEF Fire, Scheduled, Sweeps, SchedulerTypeOK, ReplicaStates
    <3>2. \A t \in Replicas : t # r => replica'[t] = replica[t]
      BY <2>1, <2>2 DEF Fire, SchedulerTypeOK
    <3> QED BY <1>3, <1>7, <3>1, <3>2 DEF Started
  <2>3. CASE Up(r)
    BY <1>7, <2>3 DEF Up, Sound, Without
  <2>4. CASE \E w \in Sweeps : Trigger(r, w)
    <3>1. PICK w, override : replica' = [replica EXCEPT ![r].busy = @ \cup {w}, ![r].override = IF w = "sync" THEN override ELSE @]
      BY <2>4 DEF Trigger
    <3>2. replica'[s].fired = replica[s].fired /\ replica[s].busy \subseteq replica'[s].busy
      BY <2>1, <3>1 DEF SchedulerTypeOK, ReplicaStates
    <3> QED BY <1>3, <1>7, <3>2 DEF Started
  <2> QED BY <2>2, <2>3, <2>4 DEF SchedulerSteps
<1>8. HearInv'
  BY <1>2, <1>3, <1>7, HearOther DEF IInv
<1> QED BY <1>1, <1>4, <1>5, <1>6, <1>8 DEF IInv

LEMMA RiskSweepKeeps ==
  ASSUME IInv, NEW r \in Replicas, RiskSweep(r), UNCHANGED <<auditVars, accountVars, syncVars>>
  PROVE  IInv'
<1>1. /\ SchedulerTypeOK /\ RisksTypeOK /\ AuditsTypeOK /\ AccountsTypeOK /\ SyncTypeOK /\ ClaimsTypeOK
      /\ ItemInv /\ PartsInv /\ HeldInv
  BY TypesByPart DEF IInv, ClaimInv
<1>2. UNCHANGED <<auditSweep, control, copied>>
  BY DEF auditVars
<1>3. /\ claims' \subseteq claims \cup RiskKeys /\ sent \subseteq sent' /\ ClaimsTypeOK'
      /\ UNCHANGED schedulerVars \/ Done(r, "risk")
  BY <1>1, RiskSweepDoes
<1>4. UNCHANGED <<day, ops>>
  BY <1>3 DEF schedulerVars, Done
<1>5. RisksTypeOK' /\ ItemInv'
  BY <1>1, RisksTypes
<1>6. SchedulerTypeOK'
  BY <1>1, <1>3, SchedulerTypes DEF Sweeps
<1>7. TypeOK'
  BY <1>1, <1>3, <1>5, <1>6, TypesByPart, TypesByPartNext, TypesStay
<1>8. ClaimInv'
  BY <1>1, <1>5, RiskSweepClaims DEF ClaimInv
<1>9. IdleInv'
  <2>1. CASE UNCHANGED schedulerVars
    BY <1>1, <1>2, <2>1, SchedulerIdle DEF IInv, schedulerVars
  <2>2. CASE Done(r, "risk")
    BY <1>1, <1>2, <2>2, SchedulerIdle DEF IInv, Sweeps
  <2> QED BY <1>3, <2>1, <2>2
<1>10. AdminInv' /\ WorkInv'
  BY <1>1, <1>4, SyncStays DEF IInv
<1>11. \A s \in Replicas : Started(s)' => Started(s)
  <2>1. CASE UNCHANGED schedulerVars
    BY <1>2, <2>1 DEF Started, schedulerVars
  <2>2. CASE Done(r, "risk")
    <3>1. \A s \in Replicas : replica'[s].fired = replica[s].fired /\ ("audit" \in replica[s].busy => "audit" \in replica'[s].busy)
      BY <1>1, <2>2 DEF Done, SchedulerTypeOK, ReplicaStates
    <3> QED BY <1>2, <3>1 DEF Started
  <2> QED BY <1>3, <2>1, <2>2
<1>12. HearInv'
  BY <1>2, <1>3, <1>4, <1>11, HearOther DEF IInv
<1> QED BY <1>7, <1>8, <1>9, <1>10, <1>12 DEF IInv

LEMMA AuditSweepKeeps ==
  ASSUME IInv, NEW r \in Replicas, AuditSweep(r), UNCHANGED <<riskVars, accountVars, syncVars>>
  PROVE  IInv'
<1>1. /\ SchedulerTypeOK /\ RisksTypeOK /\ AuditsTypeOK /\ AccountsTypeOK /\ SyncTypeOK /\ ClaimsTypeOK
      /\ ItemInv /\ PartsInv /\ HeldInv /\ day \in Days
  BY TypesByPart DEF IInv, ClaimInv, SchedulerTypeOK
<1>2. ClaimsTypeOK' /\ (UNCHANGED schedulerVars \/ Done(r, "audit"))
  BY <1>1, AuditSweepDoes
<1>3. SchedulerTypeOK' /\ UNCHANGED ops
  BY <1>1, <1>2, SchedulerTypes DEF Sweeps, schedulerVars, Done
<1>4. TypeOK'
  BY <1>1, <1>2, <1>3, AuditsTypes, TypesByPart, TypesByPartNext, TypesStay
<1>5. ItemInv'
  BY <1>1 DEF ItemInv, riskVars
<1>6. HeldInv' /\ PartsInv'
  BY <1>1, AuditSweepClaims
<1>7. IdleInv'
  BY <1>1, AuditIdle DEF IInv
<1>8. AdminInv' /\ WorkInv'
  BY <1>1, <1>3, SyncStays DEF IInv
<1>9. HearInv'
  BY <1>1, HearSweep DEF IInv
<1> QED BY <1>4, <1>5, <1>6, <1>7, <1>8, <1>9 DEF IInv, ClaimInv

\* The run of the sync, and what else moves its tables, leave the reminders alone.
LEMMA SyncKeeps ==
  ASSUME IInv, UNCHANGED <<claimVars, riskVars, auditVars>>,
         \/ \E r \in Replicas : SyncRun(r) \/ Refresh(r)
         \/ \E h \in DOMAIN Hubs : Reassign(h)
         \/ Recover
  PROVE  IInv'
<1>1. /\ SchedulerTypeOK /\ RisksTypeOK /\ AuditsTypeOK /\ AccountsTypeOK /\ SyncTypeOK /\ ClaimsTypeOK
      /\ IdleInv /\ AdminInv /\ WorkInv
  BY TypesByPart DEF IInv
<1>2. UNCHANGED <<claims, sent, twice, riskSweep, auditSweep, control, copied>>
  BY DEF claimVars, riskVars, auditVars
<1>3. SyncTypeOK' /\ AccountsTypeOK'
  BY <1>1, SyncTypes
<1>4. \/ UNCHANGED schedulerVars
      \/ \E r \in Replicas : Done(r, "sync")
      \/ Edit("sync")
  BY <1>1, SyncScheduler DEF Refresh, Reassign, Recover
<1>5. SchedulerTypeOK' /\ UNCHANGED <<day, ops>>
  <2>1. UNCHANGED <<day, ops>>
    BY <1>4 DEF schedulerVars, Done, Edit
  <2>2. "sync" \in Sweeps
    BY DEF Sweeps
  <2> QED BY <1>1, <1>4, <2>1, <2>2, SchedulerTypes
<1>6. TypeOK'
  BY <1>1, <1>3, <1>5, TypesByPart, TypesByPartNext, TypesStay
<1>7. ClaimInv'
  BY <1>2, <1>5, ClaimsStay DEF IInv
<1>8. IdleInv' /\ \A s \in Replicas : Started(s)' => Started(s)
  <2>1. ASSUME NEW r \in Replicas, Done(r, "sync") PROVE IdleInv' /\ \A s \in Replicas : Started(s)' => Started(s)
    <3>1. IdleInv'
      BY <1>1, <1>2, <2>1, SchedulerIdle DEF Sweeps
    <3>2. \A s \in Replicas : replica'[s].fired = replica[s].fired /\ ("audit" \in replica[s].busy => "audit" \in replica'[s].busy)
      BY <1>1, <2>1 DEF Done, SchedulerTypeOK, ReplicaStates
    <3> QED BY <1>2, <3>1, <3>2 DEF Started
  <2>2. ASSUME UNCHANGED <<replica, ops>> PROVE IdleInv' /\ \A s \in Replicas : Started(s)' => Started(s)
    BY <1>1, <1>2, <2>2, SchedulerIdle DEF Started
  <2> QED BY <1>4, <2>1, <2>2 DEF schedulerVars, Edit
<1>9. HearInv'
  BY <1>2, <1>5, <1>8, HearOther DEF IInv
<1>10. AdminInv'
  <2>1. ASSUME NEW r \in Replicas, Refresh(r) PROVE AdminInv'
    BY <1>1, <2>1, AdminSnapshot DEF Refresh, schedulerVars
  <2>2. ASSUME UNCHANGED <<ops, snapshot, accountVars, sync>> PROVE AdminInv'
    BY <1>1, <2>2, AdminStays DEF accountVars
  <2>3. ASSUME NEW h \in DOMAIN Hubs, Reassign(h) PROVE AdminInv'
    BY <1>5, <2>2, <2>3 DEF Reassign
  <2>4. ASSUME Recover PROVE AdminInv'
    BY <1>5, <2>2, <2>4 DEF Recover
  <2> QED BY <1>1, <2>1, <2>3, <2>4, AdminSync
<1>11. WorkInv'
  <2>1. ASSUME UNCHANGED <<ops, work, told, sync>> PROVE WorkInv'
    BY <1>1, <2>1, WorkStays
  <2>2. ASSUME NEW r \in Replicas, Refresh(r) PROVE WorkInv'
    BY <1>5, <2>1, <2>2 DEF Refresh
  <2>3. ASSUME Recover PROVE WorkInv'
    BY <1>5, <2>1, <2>3 DEF Recover
  <2> QED BY <1>1, <2>2, <2>3, WorkSync, WorkReassign
<1> QED BY <1>6, <1>7, <1>8, <1>9, <1>10, <1>11 DEF IInv

LEMMA AccountsKeep ==
  ASSUME IInv, UNCHANGED <<claimVars, riskVars, auditVars, syncVars>>, (\E u \in Users : Report(u)) \/ Console
  PROVE  IInv'
<1>1. /\ SchedulerTypeOK /\ RisksTypeOK /\ AuditsTypeOK /\ AccountsTypeOK /\ SyncTypeOK /\ ClaimsTypeOK
      /\ IdleInv /\ AdminInv /\ WorkInv
  BY TypesByPart DEF IInv
<1>2. UNCHANGED <<claims, sent, twice, riskSweep, auditSweep, control, copied, snapshot, work, told, sync>>
  BY DEF claimVars, riskVars, auditVars, syncVars
<1>3. UNCHANGED <<day, replica, ops>> /\ (acts' = acts \/ acts' = acts + 1)
  BY DEF Report, schedulerVars, Console, handleUpdateUserStatus, handleCreateGrant, handleRevokeGrant, Authorised
<1>4. SchedulerTypeOK'
  BY <1>1, <1>3 DEF SchedulerTypeOK
<1>5. TypeOK'
  BY <1>1, <1>4, AccountsTypes, TypesByPart, TypesByPartNext, TypesStay
<1>6. ClaimInv'
  BY <1>2, <1>3, ClaimsStay DEF IInv
<1>7. IdleInv'
  BY <1>1, <1>2, <1>3, SchedulerIdle
<1>8. HearInv'
  <2>1. \A s \in Replicas : Started(s)' => Started(s)
    BY <1>2, <1>3 DEF Started
  <2> QED BY <1>2, <1>3, <2>1, HearOther DEF IInv
<1>9. WorkInv'
  BY <1>1, <1>2, <1>3, WorkStays
<1>10. AdminInv'
  <2>1. ASSUME NEW u \in Users, Report(u) PROVE AdminInv'
    BY <1>1, <1>2, <1>3, <2>1, AdminStays DEF Report
  <2> QED BY <1>1, <2>1, AdminConsole
<1> QED BY <1>5, <1>6, <1>7, <1>8, <1>9, <1>10 DEF IInv

\* Crashes: what the sweeps held is lost, and the runs with it.
LEMMA CrashKeeps ==
  ASSUME IInv, NEW r \in Replicas, Crash(r)
  PROVE  IInv'
<1>1. /\ SchedulerTypeOK /\ RisksTypeOK /\ AuditsTypeOK /\ AccountsTypeOK /\ SyncTypeOK /\ ClaimsTypeOK
      /\ IdleInv /\ AdminInv /\ WorkInv /\ ItemInv /\ PartsInv /\ HeldInv
  BY TypesByPart DEF IInv, ClaimInv
<1>2. /\ Down(r) /\ RiskGoes(r, RiskSweepIdle) /\ AuditGoes(r, AuditSweepIdle) /\ SyncGoes(r, SyncIdle)
      /\ snapshot' = [snapshot EXCEPT ![r] = {}]
      /\ UNCHANGED <<claimVars, risk, control, copied, accountVars, work, outage, told>>
  BY DEF Crash
<1>3. "Crash" \in ops /\ UNCHANGED ops
  BY <1>2 DEF Down
<1>4. RisksTypeOK' /\ ItemInv'
  BY <1>1, <1>2, RisksTypes
<1>5. AuditsTypeOK'
  BY <1>1, <1>2, AuditsTypes DEF SchedulerTypeOK
<1>6. SyncTypeOK' /\ SchedulerTypeOK'
  BY <1>1, <1>2, SyncTypes, SchedulerTypes
<1>7. TypeOK'
  BY <1>1, <1>2, <1>4, <1>5, <1>6, TypesByPartNext, TypesStay
<1>8. IdleInv'
  BY <1>1, <1>2, CrashIdle
<1>9. HeldInv'
  <2>1. Held' = [Held EXCEPT ![r] = OnRisk(RiskSweepIdle) \cup OnAudit(AuditSweepIdle)]
    BY <1>1, <1>2, HeldMoves
  <2>2. OnRisk(RiskSweepIdle) \cup OnAudit(AuditSweepIdle) = {}
    BY DEF OnRisk, OnAudit, RiskSweepIdle, AuditSweepIdle
  <2>3. Drops(r, {})
    BY <1>2, <1>3 DEF Drops
  <2> QED BY <1>1, <1>3, <2>1, <2>2, <2>3, ClaimingKeeps DEF Claiming
<1>10. PartsInv'
  <2>1. \A s \in Replicas : auditSweep'[s] = IF s = r THEN AuditSweepIdle ELSE auditSweep[s]
    BY <1>1, <1>2 DEF AuditGoes, AuditsTypeOK
  <2> QED BY <1>1, <2>1 DEF PartsInv, AuditSweepIdle
<1>11. SyncIdle.departed = {} /\ \A s \in Replicas : sync'[s] = IF s = r THEN SyncIdle ELSE sync[s]
  BY <1>1, <1>2 DEF SyncIdle, SyncGoes, SyncTypeOK
<1>12. AdminInv'
  BY <1>1, <1>2, <1>3, <1>11, AdminSnapshot
<1>13. WorkInv'
  <2>1. Runs(r, SyncIdle)
    BY <1>2, SyncIdleTyped DEF Runs
  <2> QED BY <1>1, <1>2, <1>3, <2>1, IdleAnnounces, WorkMoves
<1>14. HearInv'
  BY <1>3 DEF HearInv, Sound, Without
<1> QED BY <1>4, <1>7, <1>8, <1>9, <1>10, <1>12, <1>13, <1>14 DEF IInv, ClaimInv

LEMMA DayKeeps ==
  ASSUME IInv, DayPasses, UNCHANGED <<claimVars, riskVars, auditVars, accountVars, syncVars>>
  PROVE  IInv'
<1>1. /\ SchedulerTypeOK /\ RisksTypeOK /\ AuditsTypeOK /\ AccountsTypeOK /\ SyncTypeOK /\ ClaimsTypeOK
      /\ IdleInv /\ AdminInv /\ WorkInv /\ HearInv
  BY TypesByPart DEF IInv
<1>2. UNCHANGED <<ops, claims, sent, twice, riskSweep, auditSweep>>
  BY DEF DayPasses, claimVars, riskVars, auditVars
<1>3. SchedulerTypeOK'
  BY <1>1, SchedulerTypes
<1>4. AuditsTypeOK' /\ RisksTypeOK' /\ ClaimsTypeOK' /\ AccountsTypeOK' /\ SyncTypeOK'
  BY <1>1, TypesStay
<1>5. TypeOK'
  BY <1>3, <1>4, TypesByPartNext
<1>6. ClaimInv'
  BY <1>2, ClaimsStay DEF IInv
<1>7. IdleInv'
  BY <1>1, <1>2, SchedulerIdle
<1>8. AdminInv' /\ WorkInv'
  BY <1>1, <1>2, SyncStays
<1>9. HearInv'
  BY <1>1, HearDay
<1> QED BY <1>5, <1>6, <1>7, <1>8, <1>9 DEF IInv

LEMMA EditsKeep ==
  ASSUME IInv, UNCHANGED <<accountVars, syncVars>>,
         \/ (\E k \in Risks : AssessRisk(k)) /\ UNCHANGED auditVars
         \/ (\E c \in Controls : EditControl(c)) /\ UNCHANGED riskVars
  PROVE  IInv'
<1>1. /\ SchedulerTypeOK /\ RisksTypeOK /\ AuditsTypeOK /\ AccountsTypeOK /\ SyncTypeOK /\ ClaimsTypeOK
      /\ IdleInv /\ AdminInv /\ WorkInv /\ HearInv
  BY TypesByPart DEF IInv
<1>2. /\ UNCHANGED <<ops, replica, day, claimVars, claims, sent, twice, riskSweep, auditSweep, copied>>
      /\ "Edit" \in ops \/ UNCHANGED control
  BY DEF AssessRisk, EditControl, Edit, claimVars, riskVars, auditVars
<1>3. SchedulerTypeOK'
  BY <1>1, SchedulerTypes DEF AssessRisk, EditControl, Sweeps
<1>4. RisksTypeOK'
  <2>1. ASSUME NEW k \in Risks, AssessRisk(k) PROVE RisksTypeOK'
    BY <1>1, <2>1 DEF AssessRisk, RisksTypeOK
  <2> QED BY <1>1, <2>1, TypesStay
<1>5. AuditsTypeOK'
  <2>1. ASSUME NEW c \in Controls, EditControl(c) PROVE AuditsTypeOK'
    <3>1. PICK p \in People \cup {Nobody}, d \in {FALSE, "Daily" \in ops} : control' = [control EXCEPT ![c] = [assignee |-> p, daily |-> d]]
      BY <2>1 DEF EditControl
    <3>2. PICK daily \in BOOLEAN : daily = d
      <4>1. ("Daily" \in ops) \in BOOLEAN /\ FALSE \in BOOLEAN
        OBVIOUS
      <4> QED BY <4>1, Zenon
    <3>3. control' \in [Controls -> [assignee : People \cup {Nobody}, daily : BOOLEAN]]
      BY <1>1, <3>1, <3>2 DEF AuditsTypeOK
    <3> QED BY <1>1, <2>1, <3>3 DEF EditControl, AuditsTypeOK
  <2> QED BY <1>1, <2>1, TypesStay
<1>6. TypeOK'
  BY <1>1, <1>2, <1>3, <1>4, <1>5, TypesByPartNext, TypesStay
<1>7. ClaimInv'
  BY <1>2, ClaimsStay DEF IInv
<1>8. IdleInv'
  BY <1>1, <1>2, SchedulerIdle
<1>9. AdminInv' /\ WorkInv'
  BY <1>1, <1>2, SyncStays
<1>10. HearInv'
  <2>1. CASE "Edit" \in ops
    BY <1>2, <2>1 DEF HearInv, Sound, Without
  <2>2. CASE UNCHANGED control
    <3>1. \A s \in Replicas : Started(s)' => Started(s)
      BY <1>2 DEF Started
    <3> QED BY <1>1, <1>2, <2>2, <3>1, HearOther
  <2> QED BY <1>2, <2>1, <2>2
<1> QED BY <1>6, <1>7, <1>8, <1>9, <1>10 DEF IInv

LEMMA StutterKeeps ==
  ASSUME IInv, UNCHANGED vars
  PROVE  IInv'
<1>1. /\ SchedulerTypeOK /\ RisksTypeOK /\ AuditsTypeOK /\ AccountsTypeOK /\ SyncTypeOK /\ ClaimsTypeOK
      /\ IdleInv /\ AdminInv /\ WorkInv /\ HearInv
  BY TypesByPart DEF IInv
<1>2. UNCHANGED <<schedulerVars, claimVars, riskVars, auditVars, accountVars, syncVars>>
  BY DEF vars
<1>3. UNCHANGED <<ops, replica, day, claims, sent, twice, riskSweep, auditSweep, control, copied>>
  BY <1>2 DEF schedulerVars, claimVars, riskVars, auditVars
<1>4. TypeOK'
  BY <1>1, <1>2, TypesByPartNext, TypesStay
<1>5. ClaimInv'
  BY <1>3, ClaimsStay DEF IInv
<1>6. IdleInv'
  BY <1>1, <1>3, SchedulerIdle
<1>7. AdminInv' /\ WorkInv'
  BY <1>1, <1>2, <1>3, SyncStays
<1>8. HearInv'
  <2>1. \A s \in Replicas : Started(s)' => Started(s)
    BY <1>3 DEF Started
  <2> QED BY <1>1, <1>3, <2>1, HearOther
<1> QED BY <1>4, <1>5, <1>6, <1>7, <1>8 DEF IInv

LEMMA StepInv == IInv /\ [Next]_vars => IInv'
<1>1. SUFFICES ASSUME IInv, Next PROVE IInv'
  BY StutterKeeps
<1>2. ASSUME NEW r \in Replicas, SchedulerSteps(r), UNCHANGED <<claimVars, riskVars, auditVars, accountVars, syncVars>> PROVE IInv'
  BY <1>1, <1>2, SchedulerKeeps
<1>3. ASSUME NEW r \in Replicas, RiskSweep(r), UNCHANGED <<auditVars, accountVars, syncVars>> PROVE IInv'
  BY <1>1, <1>3, RiskSweepKeeps
<1>4. ASSUME NEW r \in Replicas, AuditSweep(r), UNCHANGED <<riskVars, accountVars, syncVars>> PROVE IInv'
  BY <1>1, <1>4, AuditSweepKeeps
<1>5. ASSUME NEW r \in Replicas, SyncRun(r) \/ Refresh(r), UNCHANGED <<claimVars, riskVars, auditVars>> PROVE IInv'
  BY <1>1, <1>5, SyncKeeps
<1>6. ASSUME NEW r \in Replicas, Crash(r) PROVE IInv'
  BY <1>1, <1>6, CrashKeeps
<1>7. ASSUME DayPasses, UNCHANGED <<claimVars, riskVars, auditVars, accountVars, syncVars>> PROVE IInv'
  BY <1>1, <1>7, DayKeeps
<1>8. ASSUME \E k \in Risks : AssessRisk(k), UNCHANGED <<auditVars, accountVars, syncVars>> PROVE IInv'
  BY <1>1, <1>8, EditsKeep
<1>9. ASSUME \E c \in Controls : EditControl(c), UNCHANGED <<riskVars, accountVars, syncVars>> PROVE IInv'
  BY <1>1, <1>9, EditsKeep
<1>10. ASSUME (\E u \in Users : Report(u)) \/ Console, UNCHANGED <<claimVars, riskVars, auditVars, syncVars>> PROVE IInv'
  BY <1>1, <1>10, AccountsKeep
<1>11. ASSUME (\E h \in DOMAIN Hubs : Reassign(h)) \/ Recover, UNCHANGED <<claimVars, riskVars, auditVars>> PROVE IInv'
  BY <1>1, <1>11, SyncKeeps
<1> QED BY <1>1, <1>2, <1>3, <1>4, <1>5, <1>6, <1>7, <1>8, <1>9, <1>10, <1>11 DEF Next

\* The invariant holds throughout.
THEOREM Invariance == Spec => []IInv
BY InitInv, StepInv, PTL DEF Spec

-----------------------------------------------------------------------------
(* The invariants that are wanted.                                            *)

\* Every reachable state has its type.
THEOREM TypeCorrect == Spec => []TypeOK
<1>1. IInv => TypeOK
  BY DEF IInv
<1> QED BY <1>1, Invariance, PTL

\* However many replicas run the sweeps, and however they stop, nobody is reminded
\* twice: unless a mail went out whose answer was lost.
THEOREM NobodyRemindedTwice == Spec => []RemindedOnce
<1>1. IInv => RemindedOnce
  BY DEF IInv, ClaimInv, HeldInv, RemindedOnce, Without
<1> QED BY <1>1, Invariance, PTL

\* A row of the reminders stands for a mail that went out or that a sweep still
\* holds: no claim is used up without its mail.
THEOREM NoClaimWasted == Spec => []ClaimsBackedByMail
<1>1. \A r \in Replicas : Held[r] = Pending(r)
  BY DEF Held, OnRisk, OnAudit, Pending
<1>2. IInv => ClaimsBackedByMail
  BY <1>1 DEF IInv, ClaimInv, HeldInv, ClaimsBackedByMail, Without
<1> QED BY <1>2, Invariance, PTL

\* However the runs of the replicas and the console's requests interleave, an active
\* user who may manage users remains.
THEOREM SomebodyManages == Spec => []AnAdminRemains
<1>1. IInv => AnAdminRemains
  BY DEF IInv, AdminInv, AnAdminRemains, Without
<1> QED BY <1>1, Invariance, PTL

-----------------------------------------------------------------------------
(* The action properties.                                                     *)

\* Only a run of the sync disables anybody, and only whom it has announced.
LEMMA OnlyDisable ==
  ASSUME IInv, Next, NEW u \in Users, status[u] # "DISABLED", status'[u] = "DISABLED"
  PROVE  \E r \in Replicas : Disable(r, u) /\ ~notifyPending(r, u) /\ UNCHANGED ops
<1>1. SyncTypeOK /\ status \in [Users -> {"ACTIVE", "INACTIVE", "DISABLED"}]
  BY TypesByPart DEF IInv, AccountsTypeOK
<1>2. UNCHANGED accountVars => FALSE
  BY DEF accountVars
<1>3. ASSUME NEW r \in Replicas, SyncRun(r) PROVE Disable(r, u) /\ ~notifyPending(r, u) /\ UNCHANGED ops
  <2>1. PICK v \in Users : Disable(r, v)
    BY <1>2, <1>3 DEF SyncRun, Resolve, Gather, SendDigest, SyncEnds
  <2>2. /\ UNCHANGED schedulerVars
        /\ \/ ~notifyPending(r, v) /\ status' = [status EXCEPT ![v] = "DISABLED"]
           \/ UNCHANGED status
    BY <1>1, <2>1, DisableDoes
  <2>3. ~notifyPending(r, v) /\ v = u
    BY <1>1, <2>2
  <2> QED BY <2>1, <2>2, <2>3 DEF schedulerVars
<1>4. ASSUME NEW r \in Replicas, Refresh(r) \/ Crash(r) PROVE FALSE
  BY <1>2, <1>4 DEF Refresh, Crash
<1>5. ASSUME Recover \/ \E h \in DOMAIN Hubs : Reassign(h) PROVE FALSE
  BY <1>2, <1>5 DEF Recover, Reassign
<1>6. ASSUME Console \/ \E v \in Users : Report(v) PROVE FALSE
  <2>1. ASSUME NEW v \in Users, NEW s \in {"ACTIVE", "INACTIVE"}, status' = [status EXCEPT ![v] = s] PROVE FALSE
    BY <1>1, <2>1
  <2>2. UNCHANGED status => FALSE
    OBVIOUS
  <2>3. UNCHANGED status \/ \E v \in Users, s \in {"ACTIVE", "INACTIVE"} : status' = [status EXCEPT ![v] = s]
    BY <1>6 DEF Report, Console, handleUpdateUserStatus, handleCreateGrant, handleRevokeGrant
  <2> QED BY <2>1, <2>2, <2>3
<1> QED BY <1>2, <1>3, <1>4, <1>5, <1>6 DEF Next

\* Whom a run disables, somebody has been told of, at every hub that has work of theirs.
THEOREM NobodyLeavesUnannounced == Spec => DeparturesAnnounced
<1> DEFINE Announced ==
      \A u \in Users :
        status[u] # "DISABLED" /\ status'[u] = "DISABLED" /\ Without({"Assign"}) =>
          \A h \in DOMAIN Hubs : u \in work[h] => <<h, u>> \in told
<1>1. IInv /\ [Next]_vars => [Announced]_vars
  <2> SUFFICES ASSUME IInv, [Next]_vars, NEW u \in Users,
                      status[u] # "DISABLED", status'[u] = "DISABLED", Without({"Assign"}),
                      NEW h \in DOMAIN Hubs, u \in work[h]
               PROVE  <<h, u>> \in told
    OBVIOUS
  <2>1. Next
    BY DEF vars, accountVars
  <2>2. PICK r \in Replicas : Disable(r, u) /\ ~notifyPending(r, u)
    BY <2>1, OnlyDisable
  <2>3. WorkInv /\ SyncTypeOK /\ "Assign" \notin ops
    BY TypesByPart DEF IInv, Without
  <2> QED BY <2>2, <2>3, DisableAnnounced
<1> QED BY <1>1, Invariance, PTL DEF Spec, DeparturesAnnounced

\* The day passes only by itself, and leaves the tables as they are.
LEMMA OnlyDays ==
  ASSUME IInv, Next, day' # day
  PROVE  DayPasses /\ UNCHANGED <<ops, control, copied, sent>>
<1>1. RisksTypeOK /\ AuditsTypeOK /\ SchedulerTypeOK /\ ClaimsTypeOK /\ ItemInv
  BY TypesByPart DEF IInv, ClaimInv
<1>2. ASSUME UNCHANGED schedulerVars \/ \E r, s : Done(r, s) PROVE FALSE
  BY <1>2 DEF schedulerVars, Done
<1>3. ASSUME \E s : Edit(s) PROVE FALSE
  BY <1>3 DEF Edit
<1>4. ASSUME NEW r \in Replicas, SchedulerSteps(r) \/ Crash(r) PROVE FALSE
  BY <1>4 DEF SchedulerSteps, Fire, Up, Trigger, Crash, Down
<1>5. ASSUME NEW r \in Replicas, RiskSweep(r) \/ AuditSweep(r) PROVE FALSE
  BY <1>1, <1>2, <1>5, RiskSweepDoes, AuditSweepDoes
<1>6. ASSUME NEW r \in Replicas, SyncRun(r) \/ Refresh(r) PROVE FALSE
  BY <1>1, <1>2, <1>6, TypesByPart, SyncScheduler DEF Refresh, IInv
<1>7. ASSUME \/ \E k \in Risks : AssessRisk(k)
             \/ \E c \in Controls : EditControl(c)
             \/ \E h \in DOMAIN Hubs : Reassign(h)
      PROVE  FALSE
  BY <1>3, <1>7 DEF AssessRisk, EditControl, Reassign
<1>8. ASSUME Recover \/ Console \/ \E u \in Users : Report(u) PROVE FALSE
  BY <1>8 DEF Recover, Console, Report, handleUpdateUserStatus, handleCreateGrant, handleRevokeGrant, Authorised, schedulerVars
<1>9. DayPasses /\ UNCHANGED <<claimVars, riskVars, auditVars, accountVars, syncVars>>
  BY <1>4, <1>5, <1>6, <1>7, <1>8 DEF Next
<1> QED BY <1>9 DEF DayPasses, claimVars, auditVars

\* By the end of a day each admin has heard of every control that is overdue.
THEOREM AdminsHear == Spec => AdminsHearOfOverdue
<1> DEFINE Hear ==
      day' # day /\ Without({"Crash", "Edit", "ListFails", "LookupFails", "ClaimFails", "ClaimLost", "DigestFails"}) =>
        \A c \in Controls : \A a \in Admins \ {control[c].assignee} :
          "audit" \in ops /\ Overdue(c) =>
            <<a, c, day>> \in copied
              \/ [to |-> a, control |-> c, type |-> "REMINDER_OVERDUE", snapshot |-> day] \in sent
<1>1. IInv /\ [Next]_vars => [Hear]_vars
  <2> SUFFICES ASSUME IInv, [Next]_vars, day' # day, Sound,
                      NEW c \in Controls, NEW a \in Admins \ {control[c].assignee}, Overdue(c)
               PROVE  <<a, c, day>> \in copied \/ Note(a, c) \in sent
    BY DEF Sound, Note
  <2>1. DayPasses
    BY OnlyDays DEF vars, schedulerVars
  <2>2. PICK r \in Replicas : replica[r].up
    BY DEF Sound, Without, IInv, IdleInv
  <2>3. \A s \in Replicas : auditSweep[s] = AuditSweepIdle
    BY <2>1 DEF DayPasses, IInv, IdleInv
  <2>4. \A s \in Replicas : auditSweep[s].todo = {} /\ auditSweep[s].byAdmin = {} /\ auditSweep[s].byRecipient = {}
    BY <2>3 DEF AuditSweepIdle
  <2>5. Started(r)
    BY <2>1, <2>2 DEF DayPasses, Started
  <2>6. PICK t, n, m : Concern(a, c, t, n, m) /\ t = <<a, c, day>> /\ n = Note(a, c)
    BY DEF Concern
  <2>7. HearsOf(t, n, m)
    BY <2>6 DEF IInv, HearInv
  <2>8. Reached(t, n, m)
    BY <2>4, <2>5, <2>7 DEF HearsOf, Awaits
  <2> QED BY <2>4, <2>6, <2>8 DEF Reached, Carries
<1> QED BY <1>1, Invariance, PTL DEF Spec, AdminsHearOfOverdue

=============================================================================
