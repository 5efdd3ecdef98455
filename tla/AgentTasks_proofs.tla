-------------------------- MODULE AgentTasks_proofs --------------------------
(* Theorems about AgentTasks, for any numbers of tasks, runners, requests and *)
(* files, and any mixes.                                                      *)
EXTENDS AgentTasks, FiniteSetTheorems, WellFoundedInduction, SequenceTheorems, TLAPS

USE AgentAssumption, EvidenceAssumption

-----------------------------------------------------------------------------
(* Facts about the operators.                                                 *)

\* A set of naturals with a bound has a least element.
LEMMA LeastOf ==
  ASSUME NEW N \in Nat, NEW S \in SUBSET (0..N), S # {}
  PROVE  \E m \in S : \A n \in S : m <= n
<1> DEFINE Below(k) == S \cap (0..k)
           Initials == {Below(k) : k \in S}
<1>1. IsFiniteSet(S)
  <2>1. IsFiniteSet(0..N)
    BY FS_Interval
  <2> QED BY <2>1, FS_Subset
<1>2. Initials \subseteq FiniteSubsetsOf(S) /\ Initials # {}
  <2>1. \A k \in S : Below(k) \in SUBSET S
    OBVIOUS
  <2>2. \A k \in S : IsFiniteSet(Below(k))
    BY <1>1, <2>1, FS_Subset
  <2> QED BY <2>1, <2>2 DEF FiniteSubsetsOf
<1>3. PICK X \in Initials : \A Y \in Initials : <<Y, X>> \notin StrictSubsetOrdering(S)
  <2> HIDE DEF Initials
  <2> QED BY <1>2, FS_StrictSubsetOrderingWellFounded, WFMin
<1>4. PICK m \in S : X = Below(m)
  BY <1>3
<1>5. ASSUME NEW n \in S, ~(m <= n) PROVE FALSE
  <2>1. Below(n) \subseteq Below(m) /\ m \in Below(m) /\ m \notin Below(n)
    BY <1>5
  <2>2. <<Below(n), Below(m)>> \in StrictSubsetOrdering(S)
    BY <2>1 DEF StrictSubsetOrdering
  <2> QED BY <2>2, <1>3, <1>4
<1> QED BY <1>5

\* A finite set of naturals has a greatest element.
LEMMA GreatestOf ==
  ASSUME NEW S \in SUBSET Nat, S # {}, IsFiniteSet(S)
  PROVE  Max(S) \in S /\ \A n \in S : Max(S) >= n
<1> DEFINE Above(k) == {n \in S : n >= k}
           Finals == {Above(k) : k \in S}
<1>1. Finals \subseteq FiniteSubsetsOf(S) /\ Finals # {}
  <2>1. \A k \in S : Above(k) \in SUBSET S
    OBVIOUS
  <2>2. \A k \in S : IsFiniteSet(Above(k))
    BY <2>1, FS_Subset
  <2>3. \A k \in S : Above(k) \in FiniteSubsetsOf(S)
    BY <2>1, <2>2 DEF FiniteSubsetsOf
  <2> HIDE DEF Above
  <2> QED BY <2>3
<1>2. PICK X \in Finals : \A Y \in Finals : <<Y, X>> \notin StrictSubsetOrdering(S)
  <2> HIDE DEF Finals
  <2> QED BY <1>1, FS_StrictSubsetOrderingWellFounded, WFMin
<1>3. PICK m \in S : X = Above(m)
  BY <1>2
<1>4. ASSUME NEW n \in S, ~(m >= n) PROVE FALSE
  <2>1. \A k \in S : k >= n => k >= m
    BY <1>4
  <2>2. Above(n) \subseteq Above(m)
    BY <2>1
  <2>3. m \in Above(m) /\ m \notin Above(n)
    BY <1>4
  <2>4. Above(n) \in SUBSET S /\ Above(m) \in SUBSET S /\ Above(n) \in Finals
    BY <1>4
  <2> HIDE DEF Above, Finals
  <2>5. <<Above(n), Above(m)>> \in StrictSubsetOrdering(S)
    BY <2>2, <2>3, <2>4 DEF StrictSubsetOrdering
  <2> QED BY <2>4, <2>5, <1>2, <1>3
<1> QED BY <1>4 DEF Max

\* The first of the files of an evidence is one of them.
LEMMA FirstFile ==
  ASSUME NEW files \in SUBSET Files, files # {}
  PROVE  Min(files) \in files
<1>1. files \in SUBSET (0..MaxFiles)
  BY DEF Files
<1>2. \E m \in files : \A n \in files : m <= n
  BY <1>1, LeastOf
<1> QED BY <1>2 DEF Min

\* The rows stay a sequence of rows when one of them is written ...
LEMMA RowWritten ==
  ASSUME EvidenceTypeOK, NEW e \in DOMAIN evidence, NEW row \in Rows,
         evidence' = [evidence EXCEPT ![e] = row]
  PROVE  /\ evidence' \in Seq(Rows) /\ DOMAIN evidence' = DOMAIN evidence
         /\ \A d \in DOMAIN evidence : evidence'[d] = IF d = e THEN row ELSE evidence[d]
<1>1. e \in 1..Len(evidence) /\ evidence \in Seq(Rows)
  BY LenProperties DEF EvidenceTypeOK
<1>2. evidence' \in Seq(Rows)
  BY <1>1, ExceptSeq
<1> QED BY <1>1, <1>2 DEF EvidenceTypeOK

\* ... when all are written ...
LEMMA RowsWritten ==
  ASSUME EvidenceTypeOK, NEW next, DOMAIN next = DOMAIN evidence,
         \A e \in DOMAIN evidence : next[e] \in Rows,
         next = [e \in DOMAIN next |-> next[e]]
  PROVE  next \in Seq(Rows)
<1>1. Len(evidence) \in Nat /\ DOMAIN evidence = 1..Len(evidence)
  BY LenProperties DEF EvidenceTypeOK
<1>2. next \in [1..Len(evidence) -> Rows]
  BY <1>1
<1> QED BY <1>1, <1>2, SeqDef

\* ... and when one is added.
LEMMA RowAdded ==
  ASSUME EvidenceTypeOK, NEW row \in Rows, evidence' = Append(evidence, row)
  PROVE  LET n == Len(evidence) + 1 IN
         /\ evidence' \in Seq(Rows)
         /\ n \notin DOMAIN evidence /\ DOMAIN evidence' = DOMAIN evidence \cup {n}
         /\ evidence'[n] = row
         /\ \A e \in DOMAIN evidence : evidence'[e] = evidence[e]
<1>1. Len(evidence) \in Nat /\ DOMAIN evidence = 1..Len(evidence)
  BY LenProperties DEF EvidenceTypeOK
<1> QED BY <1>1 DEF EvidenceTypeOK

\* What a request holds next.
LEMMA Holding ==
  ASSUME EvidenceTypeOK, NEW q \in EvidenceRequests, NEW next \in Holds, Hold(q, next)
  PROVE  /\ ereq' \in [EvidenceRequests -> Holds]
         /\ \A p \in EvidenceRequests : ereq'[p] = IF p = q THEN next ELSE ereq[p]
BY DEF Hold, EvidenceTypeOK

\* What a runner is next.
LEMMA Becoming ==
  ASSUME TypeOK, NEW r \in Runners, NEW state \in RunnerStates, Becomes(r, state)
  PROVE  /\ runner' \in [Runners -> RunnerStates]
         /\ \A s \in Runners : runner'[s] = IF s = r THEN state ELSE runner[s]
BY DEF Becomes, TypeOK

LEMMA AtType ==
  ASSUME NEW pc \in {"off", "poll", "claimed", "run", "paused", "await"}
  PROVE  At(pc) \in RunnerStates
BY DEF At, RunnerStates, None

-----------------------------------------------------------------------------
(* The inductive invariant: who holds a task, and who holds a file.           *)

Idle(r) == runner[r].pc \in {"off", "poll"}
Working(r) == runner[r].pc \in {"claimed", "run", "paused"}
Taken(t) == task[t].status \notin {"none", "queued"}

\* A task is held by the one runner it was given to; until that posts a result there is none.
RunnerInv ==
  \A r \in Runners :
    /\ runner[r].task = None <=> Idle(r)
    /\ runner[r].pc \in {"off", "poll", "claimed"} => runner[r].files = {}
    /\ ~Idle(r) => Taken(runner[r].task)
    /\ Working(r) => ~task[runner[r].task].recorded /\ \A m \in posts : m.task # runner[r].task
    /\ ~Idle(r) => \A s \in Runners : runner[s].task = runner[r].task => s = r

\* Only a task that was given away has results, and only a recorded one has ended by one.
ResultInv ==
  /\ \A m \in posts : Taken(m.task) /\ (m.files # {} => m.status = "completed")
  /\ \A t \in Tasks : IF task[t].recorded THEN task[t].status \in Finished
                                          ELSE task[t].status \notin {"completed", "failed"}

\* A request that is pending is a click that has not ended a pause yet.
PauseInv ==
  \A t \in Tasks : task[t].resumed + (IF task[t].resume_requested THEN 1 ELSE 0) <= task[t].clicks

\* Where no call is lost, no process ends and no second runner is started, ...
Faultless == ops \cap {"Lost", "Exit", "SecondRunner"} = {}

\* ... one runner is on for good, and no task runs but the one it has.
AloneInv ==
  Faultless =>
    \E r \in Runners :
      /\ runner[r].pc # "off" /\ runner[r].next = "poll"
      /\ \A s \in Runners : s # r => runner[s].pc = "off"
      /\ \A t \in Tasks : task[t].status = "running" => t = runner[r].task

\* A deletion that read the last file of its evidence finds no other one there.
LastFile ==
  \A q \in EvidenceRequests :
    HoldsAt(q, "commit") =>
      /\ ereq[q].row \in DOMAIN evidence
      /\ ereq[q].survivor = 0 => evidence[ereq[q].row].files \subseteq {ereq[q].file}

\* The files that are listed; that a request has uploaded, or is to purge; that are,
\* or may yet become, those of an evidence or its legacy name; and those a task may
\* still leave evidence with.
Listed == UNION {evidence[e].files : e \in LiveRows}
Uploading(q) == IF HoldsAt(q, "upload") THEN ereq[q].files ELSE {}
Purging(q) == IF HoldsAt(q, "purge") THEN ereq[q].files ELSE {}
Owned(e) ==
  {f \in Files : \/ f \in evidence[e].files
                 \/ f = evidence[e].primary
                 \/ \E q \in EvidenceRequests : HoldsAt(q, "commit") /\ ereq[q].row = e /\ ereq[q].survivor = f}
Awaited(t) ==
  {f \in Files : \/ \E r \in Runners : Working(r) /\ runner[r].task = t /\ f \in runner[r].files
                 \/ ~task[t].recorded /\ \E m \in posts : m.task = t /\ f \in m.files}

\* What is listed, or may come to be listed, is stored ...
Stored ==
  /\ Listed \subseteq blobs
  /\ \A q \in EvidenceRequests : Uploading(q) \subseteq blobs
  /\ \A t \in Tasks : Awaited(t) \subseteq blobs

\* ... every name was given to a blob ...
Known ==
  /\ blobs \subseteq 1..uploads
  /\ \A e \in DOMAIN evidence : Owned(e) \subseteq 1..uploads
  /\ \A q \in EvidenceRequests : Purging(q) \subseteq 1..uploads

\* ... a file has one owner ...
Apart ==
  /\ \A d, e \in DOMAIN evidence : d # e => Owned(d) \cap Owned(e) = {}
  /\ \A e \in DOMAIN evidence, q \in EvidenceRequests : Owned(e) \cap Uploading(q) = {}
  /\ \A e \in DOMAIN evidence, t \in Tasks : Owned(e) \cap Awaited(t) = {}
  /\ \A p, q \in EvidenceRequests : p # q => Uploading(p) \cap Uploading(q) = {}
  /\ \A q \in EvidenceRequests, t \in Tasks : Uploading(q) \cap Awaited(t) = {}
  /\ \A s, t \in Tasks : s # t => Awaited(s) \cap Awaited(t) = {}

\* ... and what is to be purged has none that counts.
PurgedOnly ==
  \A q \in EvidenceRequests :
    /\ Purging(q) \cap Listed = {}
    /\ \A p \in EvidenceRequests : Purging(q) \cap Uploading(p) = {}
    /\ \A t \in Tasks : Purging(q) \cap Awaited(t) = {}

FilesInv == Stored /\ Known /\ Apart /\ PurgedOnly

TaskInv == RunnerInv /\ ResultInv /\ PauseInv /\ AloneInv

IInv == TypeOK /\ TaskInv /\ LastFile /\ FilesInv

-----------------------------------------------------------------------------
(* Types.                                                                     *)

LEMMA FreeType == Free \in Holds
BY DEF Free, Holds

LEMMA SubmissionType ==
  ASSUME EvidenceTypeOK, NEW q \in EvidenceRequests, Submission(q)
  PROVE  EvidenceTypeOK'
<1>0. ereq[q] \in Holds
  BY DEF EvidenceTypeOK
<1>1. CASE create_evidence(q)
  <2>1. [Free EXCEPT !.pc = "upload"] \in Holds
    BY FreeType DEF Holds
  <2> QED BY <1>1, <2>1, Holding DEF create_evidence, EvidenceTypeOK
<1>2. CASE UploadNext(q)
  <2>1. [ereq[q] EXCEPT !.files = @ \cup {uploads + 1}] \in Holds
    BY <1>0, <1>2 DEF Holds, UploadNext, save_file, EvidenceTypeOK, Files
  <2> QED BY <1>2, <2>1, Holding DEF UploadNext, save_file, EvidenceTypeOK, Files
<1>3. CASE CommitEvidence(q)
  <2>1. [live |-> TRUE, task |-> 0, files |-> ereq[q].files, primary |-> Min(ereq[q].files)] \in Rows
    BY <1>0, <1>3, FirstFile DEF Holds, CommitEvidence, Rows
  <2> QED BY <1>3, <2>1, RowAdded, Holding, FreeType DEF CommitEvidence, AddEvidence, EvidenceTypeOK
<1>4. CASE CreateFails(q)
  <2>1. [Free EXCEPT !.pc = "purge", !.files = ereq[q].files] \in Holds
    BY <1>0, FreeType DEF Holds
  <2> QED BY <1>4, <2>1, Holding DEF CreateFails, EvidenceTypeOK
<1> QED BY <1>1, <1>2, <1>3, <1>4 DEF Submission

LEMMA RowsType ==
  ASSUME EvidenceTypeOK
  PROVE  \A e \in DOMAIN evidence : evidence[e] \in Rows /\ e \in Nat \ {0}
BY LenProperties DEF EvidenceTypeOK

LEMMA DeleteRowsType ==
  ASSUME EvidenceTypeOK, NEW q \in EvidenceRequests, NEW rows \in SUBSET LiveRows, DeleteRows(q, rows)
  PROVE  /\ EvidenceTypeOK' /\ DOMAIN evidence' = DOMAIN evidence
         /\ \A e \in DOMAIN evidence :
              evidence'[e] = IF e \in rows THEN [evidence[e] EXCEPT !.live = FALSE, !.files = {}] ELSE evidence[e]
<1> DEFINE purged == UNION {evidence[e].files \cup {evidence[e].primary} : e \in rows}
           cleared(e) == IF e \in rows THEN [evidence[e] EXCEPT !.live = FALSE, !.files = {}] ELSE evidence[e]
<1>1. \A e \in DOMAIN evidence : evidence[e] \in Rows /\ e \in Nat \ {0}
  BY RowsType
<1>2. rows \subseteq DOMAIN evidence
  BY DEF LiveRows
<1>3. purged \in SUBSET Files
  BY <1>1, <1>2 DEF Rows
<1>4. [Free EXCEPT !.pc = "purge", !.files = purged] \in Holds
  BY <1>3, FreeType DEF Holds
<1>5. \A e \in DOMAIN evidence : cleared(e) \in Rows
  BY <1>1 DEF Rows
<1>6. evidence' = [e \in DOMAIN evidence |-> cleared(e)] /\ UNCHANGED <<blobs, uploads>>
      /\ Hold(q, [Free EXCEPT !.pc = "purge", !.files = purged])
  BY DEF DeleteRows
<1> HIDE DEF cleared, purged
<1>7. DOMAIN evidence' = DOMAIN evidence /\ \A e \in DOMAIN evidence : evidence'[e] = cleared(e)
  BY <1>6
<1>8. evidence' \in Seq(Rows)
  <2>1. evidence' = [e \in DOMAIN evidence' |-> evidence'[e]]
    BY <1>6, <1>7
  <2> QED BY <1>5, <1>7, <2>1, RowsWritten
<1>9. EvidenceTypeOK'
  BY <1>4, <1>6, <1>8, Holding DEF EvidenceTypeOK
<1> QED BY <1>7, <1>9 DEF cleared

\* Which file and which rows a deletion takes.
LEMMA CommitDeletionEffect ==
  ASSUME EvidenceTypeOK, LastFile, NEW q \in EvidenceRequests, CommitDeletion(q)
  PROVE  LET e == ereq[q].row
             f == ereq[q].file
             s == ereq[q].survivor IN
         /\ EvidenceTypeOK'
         /\ e \in DOMAIN evidence /\ evidence[e].live /\ f \in evidence[e].files
         /\ DOMAIN evidence' = DOMAIN evidence /\ \A d \in DOMAIN evidence : d # e => evidence'[d] = evidence[d]
         /\ evidence'[e].files = evidence[e].files \ {f} /\ evidence'[e].task = evidence[e].task
         /\ evidence'[e].live = (s # 0)
         /\ evidence'[e].primary \in {evidence[e].primary, s} /\ (s = 0 => evidence'[e].primary = evidence[e].primary)
         /\ \A p \in EvidenceRequests : p # q => ereq'[p] = ereq[p]
         /\ ereq'[q].pc = "purge"
         /\ ereq'[q].files = {f} \cup (IF s = 0 THEN {evidence[e].primary} ELSE {})
<1> DEFINE e == ereq[q].row
           f == ereq[q].file
           s == ereq[q].survivor
           live == s # 0
           primary == IF s # 0 /\ ereq[q].wasPrimary THEN s ELSE evidence[e].primary
           row == [evidence[e] EXCEPT !.files = @ \ {f}, !.live = live, !.primary = primary]
           purged == {f} \cup (IF s = 0 THEN {evidence[e].primary} ELSE {})
           held == [Free EXCEPT !.pc = "purge", !.files = purged]
<1>1. /\ e \in DOMAIN evidence /\ evidence[e].live /\ f \in evidence[e].files
      /\ evidence' = [evidence EXCEPT ![e] = row]
      /\ Hold(q, held) /\ UNCHANGED <<blobs, uploads>>
  BY RowsType DEF CommitDeletion, LastFile, HoldsAt
<1>2. evidence[e] \in Rows /\ ereq[q] \in Holds
  BY <1>1, RowsType DEF EvidenceTypeOK
<1>3. row \in Rows
  <2>1. live \in BOOLEAN /\ primary \in Files
    BY <1>2 DEF Rows, Holds, Files
  <2> HIDE DEF live, primary
  <2> QED BY <1>2, <2>1 DEF Rows
<1>4. /\ row.files = evidence[e].files \ {f} /\ row.task = evidence[e].task /\ row.live = live
      /\ row.primary = primary
  BY <1>2 DEF Rows
<1>5. purged \in SUBSET Files
  BY <1>1, <1>2 DEF Rows
<1>6. held \in Holds /\ held.pc = "purge" /\ held.files = purged
  <2> HIDE DEF purged
  <2> QED BY <1>5, FreeType DEF Holds
<1> HIDE DEF row, held
<1>7. /\ evidence' \in Seq(Rows) /\ DOMAIN evidence' = DOMAIN evidence
      /\ \A d \in DOMAIN evidence : evidence'[d] = IF d = e THEN row ELSE evidence[d]
  <2> HIDE DEF e
  <2> QED BY <1>1, <1>3, RowWritten
<1>8. /\ ereq' \in [EvidenceRequests -> Holds]
      /\ \A p \in EvidenceRequests : ereq'[p] = IF p = q THEN held ELSE ereq[p]
  BY <1>1, <1>6, Holding
<1>9. EvidenceTypeOK'
  BY <1>1, <1>7, <1>8 DEF EvidenceTypeOK
<1> QED BY SMTT(30), <1>1, <1>4, <1>6, <1>7, <1>8, <1>9

LEMMA DeletionType ==
  ASSUME EvidenceTypeOK, LastFile, NEW q \in EvidenceRequests, Deletion(q)
  PROVE  EvidenceTypeOK'
<1>0. ereq[q] \in Holds
  BY DEF EvidenceTypeOK
<1>1. CASE delete_evidence_file(q)
  <2>0. PICK e \in LiveRows : \E f \in evidence[e].files :
          LET remaining == evidence[e].files \ {f} IN
          Hold(q, [Free EXCEPT !.pc = "commit", !.row = e, !.file = f, !.wasPrimary = (f = evidence[e].primary),
                               !.survivor = IF remaining = {} THEN 0 ELSE Min(remaining)])
    BY <1>1 DEF delete_evidence_file
  <2>1. PICK f \in evidence[e].files :
          LET remaining == evidence[e].files \ {f} IN
          Hold(q, [Free EXCEPT !.pc = "commit", !.row = e, !.file = f, !.wasPrimary = (f = evidence[e].primary),
                               !.survivor = IF remaining = {} THEN 0 ELSE Min(remaining)])
    BY <2>0
  <2> DEFINE remaining == evidence[e].files \ {f}
             survivor == IF remaining = {} THEN 0 ELSE Min(remaining)
  <2>2. e \in Nat /\ remaining \in SUBSET Files /\ f \in Files
    BY RowsType DEF LiveRows, Rows
  <2>3. survivor \in 0..MaxFiles /\ f \in 0..MaxFiles
    BY <2>2, FirstFile DEF Files
  <2>4. [Free EXCEPT !.pc = "commit", !.row = e, !.file = f, !.wasPrimary = (f = evidence[e].primary),
                     !.survivor = survivor] \in Holds
    BY <2>2, <2>3, FreeType DEF Holds
  <2> QED BY <1>1, <2>1, <2>4, Holding DEF delete_evidence_file, EvidenceTypeOK
<1>2. CASE CommitDeletion(q)
  BY <1>2, CommitDeletionEffect
<1>3. CASE delete_files(q)
  <2>1. \A f : [ereq[q] EXCEPT !.files = @ \ {f}] \in Holds
    BY <1>0 DEF Holds
  <2> QED BY <1>3, <2>1, Holding, FreeType DEF delete_files, EvidenceTypeOK
<1>4. CASE RequestStops(q)
  BY <1>4, Holding, FreeType DEF RequestStops, EvidenceTypeOK
<1>5. CASE (\E e \in LiveRows : DeleteRows(q, {e})) \/ DeleteRows(q, LiveRows)
  BY <1>5, DeleteRowsType
<1> QED BY <1>1, <1>2, <1>3, <1>4, <1>5 DEF Deletion

LEMMA EvidenceType ==
  ASSUME TypeOK, LastFile, Evidence
  PROVE  TypeOK'
<1>1. PICK q \in EvidenceRequests : Submission(q) \/ Deletion(q)
  BY DEF Evidence
<1>2. EvidenceTypeOK'
  BY <1>1, SubmissionType, DeletionType DEF TypeOK
<1> QED BY <1>2 DEF TypeOK, Evidence

LEMMA EvidenceKept ==
  ASSUME EvidenceTypeOK, UNCHANGED evidenceVars
  PROVE  EvidenceTypeOK'
BY DEF EvidenceTypeOK, evidenceVars

-----------------------------------------------------------------------------
(* The tasks and their runners.                                               *)

LEMMA StatesType ==
  ASSUME TypeOK
  PROVE  /\ \A r \in Runners : runner[r] \in RunnerStates
         /\ \A t \in Tasks : task[t] \in TaskRows /\ t \in Nat \ {0}
         /\ \A m \in posts : m \in Posts
BY DEF TypeOK

LEMMA UserStep ==
  ASSUME TypeOK, TaskInv, NEW t \in Tasks, create_task(t) \/ cancel_task(t) \/ resume_task(t)
  PROVE  TypeOK' /\ TaskInv'
<1>0. task[t] \in TaskRows /\ UNCHANGED <<evidenceVars, posts, runner, ops>>
  BY StatesType DEF create_task, cancel_task, resume_task, UserActs
<1>1. PICK row \in TaskRows :
        /\ task' = [task EXCEPT ![t] = row]
        /\ row.recorded = task[t].recorded /\ row.resumed = task[t].resumed
        /\ \/ row.clicks = task[t].clicks /\ row.resume_requested = task[t].resume_requested
           \/ row.clicks = task[t].clicks + 1
        /\ \/ row.status = task[t].status
           \/ row.status = "cancelled" /\ task[t].status \in {"queued", "running"}
           \/ task[t].status = "none" /\ row.status = "queued"
  <2>1. CASE create_task(t)
    <3> DEFINE row == [task[t] EXCEPT !.status = "queued"]
    <3>1. row \in TaskRows
      BY <1>0 DEF TaskRows, Finished
    <3>2. task' = [task EXCEPT ![t] = row]
      BY <2>1 DEF create_task
    <3> QED BY <1>0, <2>1, <3>1, <3>2 DEF create_task, TaskRows
  <2>2. CASE cancel_task(t)
    <3> DEFINE row == [task[t] EXCEPT !.status = "cancelled"]
    <3>1. row \in TaskRows
      BY <1>0 DEF TaskRows, Finished
    <3>2. task' = [task EXCEPT ![t] = row]
      BY <2>2 DEF cancel_task
    <3> QED BY <1>0, <2>2, <3>1, <3>2 DEF cancel_task, TaskRows
  <2>3. CASE resume_task(t)
    <3> DEFINE row == [task[t] EXCEPT !.resume_requested = TRUE, !.clicks = @ + 1]
    <3>1. row \in TaskRows
      <4>1. task[t].clicks + 1 \in Nat
        BY <1>0 DEF TaskRows
      <4> QED BY <1>0, <4>1 DEF TaskRows
    <3>2. task' = [task EXCEPT ![t] = row]
      BY <2>3 DEF resume_task
    <3> QED BY <1>0, <2>3, <3>1, <3>2 DEF resume_task, TaskRows
  <2> QED BY <2>1, <2>2, <2>3
<1>2. /\ task' \in [Tasks -> TaskRows]
      /\ \A s \in Tasks : task'[s] = IF s = t THEN row ELSE task[s]
  BY <1>1 DEF TypeOK
<1>3. TypeOK'
  BY <1>0, <1>2, EvidenceKept DEF TypeOK
<1>4. RunnerInv'
  BY <1>0, <1>1, <1>2, StatesType DEF TaskInv, RunnerInv, Idle, Working, Taken, RunnerStates
<1>5. ResultInv'
  BY <1>0, <1>1, <1>2, StatesType DEF TaskInv, ResultInv, Taken, Posts, Finished
<1>6. PauseInv'
  BY <1>0, <1>1, <1>2, StatesType DEF TaskInv, PauseInv, TaskRows
<1>7. AloneInv'
  <2>1. \A s \in Tasks : task'[s].status = "running" => task[s].status = "running"
    BY <1>1, <1>2
  <2> QED BY <1>0, <2>1 DEF TaskInv, AloneInv, Faultless
<1> QED BY <1>3, <1>4, <1>5, <1>6, <1>7 DEF TaskInv

\* A runner that holds its task as before, or holds one no longer.
LEMMA RunnerMoves ==
  ASSUME TypeOK, TaskInv, NEW r \in Runners, NEW state \in RunnerStates, Becomes(r, state),
         UNCHANGED <<task, posts, ops>>,
         IF state.pc \in {"off", "poll"} THEN state.task = None ELSE state.task = runner[r].task /\ ~Idle(r),
         state.pc \in {"claimed", "run", "paused"} => Working(r),
         state.pc \in {"off", "poll", "claimed"} => state.files = {},
         IF state.pc \in {"off", "poll"} THEN ~Faultless \/ \A s \in Runners : runner[s].pc = "off"
                                        ELSE state.next = runner[r].next
  PROVE  TaskInv' /\ runner' \in [Runners -> RunnerStates]
<1>1. /\ runner' \in [Runners -> RunnerStates]
      /\ \A s \in Runners : runner'[s] = IF s = r THEN state ELSE runner[s]
  BY Becoming
<1>2. RunnerInv'
  BY <1>1, StatesType DEF TaskInv, RunnerInv, Idle, Working, Taken, RunnerStates
<1>3. ResultInv' /\ PauseInv'
  BY DEF TaskInv, ResultInv, PauseInv, Taken
<1>4. AloneInv'
  <2> SUFFICES ASSUME Faultless, state.pc \notin {"off", "poll"} PROVE AloneInv'
    BY DEF TaskInv, AloneInv, Faultless
  <2>1. state.task = runner[r].task /\ runner[r].pc # "off" /\ state.next = runner[r].next
    BY DEF Idle
  <2>2. PICK q \in Runners :
          /\ runner[q].pc # "off" /\ runner[q].next = "poll"
          /\ \A s \in Runners : s # q => runner[s].pc = "off"
          /\ \A t \in Tasks : task[t].status = "running" => t = runner[q].task
    BY DEF TaskInv, AloneInv
  <2>3. q = r
    BY <2>1, <2>2
  <2> QED BY <1>1, <2>1, <2>2, <2>3 DEF AloneInv
<1> QED BY <1>1, <1>2, <1>3, <1>4 DEF TaskInv

\* A result on its way.
LEMMA SendStep ==
  ASSUME TypeOK, TaskInv, NEW r \in Runners, NEW s \in Finished, NEW files \in SUBSET Files,
         NEW next \in {"poll", "off"}, ~Idle(r), files # {} => s = "completed", Send(r, s, files, next),
         next = "off" => "Exit" \in ops
  PROVE  TypeOK' /\ TaskInv'
<1> DEFINE state == [runner[r] EXCEPT !.pc = "await", !.sent = s, !.next = next]
           m == [runner |-> r, task |-> runner[r].task, status |-> s, files |-> files]
<1>0. runner[r] \in RunnerStates /\ runner[r].task \in Tasks /\ Taken(runner[r].task)
  BY StatesType DEF TaskInv, RunnerInv, RunnerStates, Idle
<1>1. state \in RunnerStates /\ m \in Posts
  BY <1>0 DEF RunnerStates, Posts
<1>2. /\ posts' = posts \cup {m} /\ Becomes(r, state) /\ UNCHANGED <<evidenceVars, task, ops>>
      /\ state.pc = "await" /\ state.task = runner[r].task /\ state.next = next
      /\ m.task = runner[r].task /\ m.status = s /\ m.files = files
  BY <1>0 DEF Send, RunnerStates
<1> HIDE DEF state, m
<1>3. /\ runner' \in [Runners -> RunnerStates]
      /\ \A q \in Runners : runner'[q] = IF q = r THEN state ELSE runner[q]
  BY <1>1, <1>2, Becoming
<1>4. TypeOK'
  BY <1>1, <1>2, <1>3, EvidenceKept DEF TypeOK
<1>5. RunnerInv'
  BY <1>0, <1>1, <1>2, <1>3, StatesType DEF TaskInv, RunnerInv, Idle, Working, Taken, RunnerStates
<1>6. ResultInv' /\ PauseInv'
  BY <1>0, <1>2 DEF TaskInv, ResultInv, PauseInv, Taken
<1>7. AloneInv'
  <2> SUFFICES ASSUME Faultless PROVE AloneInv'
    BY <1>2 DEF AloneInv, Faultless
  <2>1. PICK q \in Runners :
          /\ runner[q].pc # "off" /\ runner[q].next = "poll"
          /\ \A p \in Runners : p # q => runner[p].pc = "off"
          /\ \A t \in Tasks : task[t].status = "running" => t = runner[q].task
    BY DEF TaskInv, AloneInv
  <2>2. q = r /\ next = "poll"
    BY <2>1 DEF Idle, Faultless
  <2> QED BY <1>2, <1>3, <2>1, <2>2 DEF AloneInv
<1> QED BY <1>4, <1>5, <1>6, <1>7 DEF TaskInv

\* A claim: the runner, if it hears of it, is the first to hold the task.
LEMMA ClaimStep ==
  ASSUME TypeOK, TaskInv, (\E r \in Runners : runner_next_task(r)) \/ UnheardClaim
  PROVE  TypeOK' /\ TaskInv'
<1>1. PICK t \in Queued : task' = [task EXCEPT ![t].status = "running"]
  BY DEF runner_next_task, UnheardClaim
<1>2. t \in Tasks /\ task[t].status = "queued" /\ t # None /\ UNCHANGED <<evidenceVars, posts, ops>>
  BY StatesType DEF Queued, None, runner_next_task, UnheardClaim
<1>3. /\ task' \in [Tasks -> TaskRows]
      /\ \A s \in Tasks : s # t => task'[s] = task[s]
      /\ task'[t].status = "running" /\ task'[t].recorded = task[t].recorded /\ task'[t].resumed = task[t].resumed
      /\ task'[t].clicks = task[t].clicks /\ task'[t].resume_requested = task[t].resume_requested
  BY <1>1, <1>2 DEF TypeOK, TaskRows
<1> DEFINE Claims(r) ==
      /\ runner[r].pc = "poll" /\ \A s \in Runners : s # r => runner'[s] = runner[s]
      /\ runner'[r].pc = "claimed" /\ runner'[r].task = t /\ runner'[r].files = {} /\ runner'[r].next = "poll"
<1>4. /\ runner' \in [Runners -> RunnerStates]
      /\ (UNCHANGED runner /\ ~Faultless) \/ \E r \in Runners : Claims(r)
  <2>1. CASE UnheardClaim
    BY <2>1 DEF UnheardClaim, Faultless, TypeOK
  <2>2. ASSUME NEW r \in Runners, runner_next_task(r)
        PROVE  runner' \in [Runners -> RunnerStates] /\ Claims(r)
    <3>1. PICK u \in Queued, n \in 0..MaxPauses :
            /\ task' = [task EXCEPT ![u].status = "running"]
            /\ Becomes(r, [At("claimed") EXCEPT !.task = u, !.left = n])
      BY <2>2 DEF runner_next_task
    <3>2. u \in Tasks /\ task[u].status = "queued"
      BY DEF Queued
    <3>3. u = t
      <4>1. task'[u].status = "running"
        BY <3>1, <3>2 DEF TypeOK, TaskRows
      <4> QED BY <1>3, <3>2, <4>1
    <3> DEFINE state == [At("claimed") EXCEPT !.task = t, !.left = n]
    <3>4. /\ state \in RunnerStates /\ state.pc = "claimed" /\ state.task = t /\ state.files = {}
          /\ state.next = "poll"
      BY <1>2 DEF At, RunnerStates, None
    <3>5. Becomes(r, state)
      BY <3>1, <3>3
    <3> HIDE DEF state
    <3> QED BY <2>2, <3>4, <3>5, Becoming DEF runner_next_task
  <2> QED BY <2>1, <2>2
<1> HIDE DEF Claims
<1>5. TypeOK'
  BY <1>2, <1>3, <1>4, EvidenceKept DEF TypeOK
<1>6. \A s \in Runners : runner[s].task # t
  BY <1>2, StatesType DEF TaskInv, RunnerInv, Taken, Idle, None
<1>7. (\A m \in posts : m.task # t) /\ ~task[t].recorded
  BY <1>2, StatesType DEF TaskInv, ResultInv, Taken, Finished
<1>8. RunnerInv'
  <2>1. \A s \in Tasks : Taken(s) => s # t /\ Taken(s)'
    BY <1>2, <1>3 DEF Taken
  <2>2. \A s \in Runners : ~Idle(s) => runner[s].task \in Tasks
    BY StatesType DEF TaskInv, RunnerInv, RunnerStates
  <2> SUFFICES ASSUME NEW s \in Runners
               PROVE  /\ runner'[s].task = None <=> Idle(s)'
                      /\ runner'[s].pc \in {"off", "poll", "claimed"} => runner'[s].files = {}
                      /\ ~Idle(s)' => Taken(runner[s].task)'
                      /\ Working(s)' => /\ ~task'[runner'[s].task].recorded
                                        /\ \A m \in posts' : m.task # runner'[s].task
                      /\ ~Idle(s)' => \A q \in Runners : runner'[q].task = runner'[s].task => q = s
    BY DEF RunnerInv
  <2>3. CASE runner'[s] = runner[s]
    <3>1. CASE Idle(s)
      BY <2>3, <3>1 DEF TaskInv, RunnerInv, Idle, Working
    <3>2. CASE ~Idle(s)
      <4>1. runner[s].task \in Tasks /\ task'[runner[s].task] = task[runner[s].task] /\ Taken(runner[s].task)'
        BY <1>3, <1>6, <2>1, <2>2, <2>3, <3>2 DEF TaskInv, RunnerInv, Taken
      <4>2. \A q \in Runners : runner'[q].task = runner[s].task => runner[q].task = runner[s].task
        BY <1>4, <1>6 DEF Claims
      <4> QED BY <1>2, <2>3, <3>2, <4>1, <4>2 DEF TaskInv, RunnerInv, Idle, Working
    <3> QED BY <3>1, <3>2
  <2>4. CASE Claims(s)
    BY <1>2, <1>3, <1>6, <1>7, <2>4 DEF Claims, Idle, Working, Taken, None
  <2> QED BY <1>4, <2>3, <2>4 DEF Claims
<1>9. ResultInv' /\ PauseInv'
  BY <1>2, <1>3, <1>7, StatesType DEF TaskInv, ResultInv, PauseInv, Taken, Posts, TaskRows
<1>10. AloneInv'
  <2> SUFFICES ASSUME Faultless PROVE AloneInv'
    BY <1>2 DEF AloneInv, Faultless
  <2>1. PICK q \in Runners :
          /\ runner[q].pc # "off"
          /\ \A s \in Runners : s # q => runner[s].pc = "off"
          /\ \A u \in Tasks : task[u].status = "running" => u = runner[q].task
    BY DEF TaskInv, AloneInv
  <2>2. Claims(q)
    BY <1>4, <2>1 DEF Claims
  <2>3. runner[q].task = None
    BY <2>2 DEF Claims, TaskInv, RunnerInv, Idle
  <2>4. \A u \in Tasks : task[u].status # "running"
    BY <2>1, <2>3, StatesType DEF None
  <2> QED BY <1>3, <2>1, <2>2, <2>4 DEF Claims, AloneInv
<1> QED BY <1>5, <1>8, <1>9, <1>10 DEF TaskInv

LEMMA UploadStep ==
  ASSUME TypeOK, TaskInv, NEW r \in Runners, upload_screenshot(r)
  PROVE  TypeOK' /\ TaskInv'
<1> DEFINE state == [runner[r] EXCEPT !.files = {uploads + 1}]
<1>1. /\ Becomes(r, state) /\ UNCHANGED <<evidence, ereq, task, posts, ops>>
      /\ runner[r] \in RunnerStates /\ runner[r].pc = "run"
      /\ uploads + 1 \in Files /\ uploads' = uploads + 1 /\ blobs' = blobs \cup {uploads + 1}
  BY StatesType DEF upload_screenshot, save_file, TypeOK, EvidenceTypeOK, Files
<1>2. /\ state \in RunnerStates /\ state.pc = "run" /\ state.task = runner[r].task
      /\ state.next = runner[r].next
  BY <1>1 DEF RunnerStates
<1> HIDE DEF state
<1>3. TaskInv' /\ runner' \in [Runners -> RunnerStates]
  BY <1>1, <1>2, RunnerMoves DEF Idle, Working
<1>4. EvidenceTypeOK'
  BY <1>1 DEF TypeOK, EvidenceTypeOK, Files
<1> QED BY <1>1, <1>3, <1>4 DEF TypeOK

LEMMA PollStep ==
  ASSUME TypeOK, TaskInv, NEW r \in Runners, runner_pause_poll(r)
  PROVE  TypeOK' /\ TaskInv'
<1> DEFINE t == runner[r].task
           state == [runner[r] EXCEPT !.pc = "run"]
<1>1. /\ runner[r] \in RunnerStates /\ runner[r].pc = "paused" /\ t \in Tasks /\ task[t] \in TaskRows
      /\ task[t].resume_requested /\ UNCHANGED <<evidenceVars, posts, ops>>
  BY StatesType DEF runner_pause_poll, TaskInv, RunnerInv, Idle, RunnerStates
<1>2. state \in RunnerStates /\ state.pc = "run" /\ state.task = t /\ state.files = runner[r].files
      /\ state.next = runner[r].next
  BY <1>1 DEF RunnerStates
<1>3. PICK row \in TaskRows :
        /\ task' = [task EXCEPT ![t] = row]
        /\ row.status = task[t].status /\ row.recorded = task[t].recorded /\ row.clicks = task[t].clicks
        /\ ~row.resume_requested /\ row.resumed <= task[t].resumed + 1
  <2> DEFINE ended == [task[t] EXCEPT !.resume_requested = FALSE, !.resumed = task[t].resumed + 1]
             cleared == [task[t] EXCEPT !.resume_requested = FALSE]
  <2>1. task' = [task EXCEPT ![t] = ended] \/ task' = [task EXCEPT ![t] = cleared]
    BY <1>1 DEF runner_pause_poll
  <2>2. task[t].resumed + 1 \in Nat /\ task[t].resumed <= task[t].resumed + 1
    BY <1>1 DEF TaskRows
  <2>3. ended \in TaskRows /\ cleared \in TaskRows
    BY <1>1, <2>2 DEF TaskRows
  <2>4. /\ ended.status = task[t].status /\ ended.recorded = task[t].recorded /\ ended.clicks = task[t].clicks
        /\ ~ended.resume_requested /\ ended.resumed <= task[t].resumed + 1
    BY <1>1, <2>2 DEF TaskRows
  <2>5. /\ cleared.status = task[t].status /\ cleared.recorded = task[t].recorded /\ cleared.clicks = task[t].clicks
        /\ ~cleared.resume_requested /\ cleared.resumed <= task[t].resumed + 1
    BY <1>1, <2>2 DEF TaskRows
  <2> HIDE DEF ended, cleared
  <2> QED BY <2>1, <2>3, <2>4, <2>5
<1>4. /\ task' \in [Tasks -> TaskRows]
      /\ \A s \in Tasks : task'[s] = IF s = t THEN row ELSE task[s]
  BY <1>1, <1>3 DEF TypeOK
<1>5. /\ runner' \in [Runners -> RunnerStates]
      /\ \A s \in Runners : s # r => runner'[s] = runner[s]
      /\ runner'[r] \in {runner[r], state}
  <2>1. CASE UNCHANGED runner
    BY <2>1 DEF TypeOK
  <2>2. CASE Becomes(r, state)
    BY <1>2, <2>2, Becoming
  <2> QED BY <2>1, <2>2 DEF runner_pause_poll
<1> HIDE DEF state
<1>6. TypeOK'
  BY <1>1, <1>4, <1>5, EvidenceKept DEF TypeOK
<1>7. /\ \A s \in Tasks : Taken(s)' <=> Taken(s)
      /\ \A s \in Tasks : task'[s].recorded = task[s].recorded /\ task'[s].status = task[s].status
      /\ \A s \in Runners : /\ runner'[s].task = runner[s].task /\ runner'[s].files = runner[s].files
                            /\ (Idle(s)' <=> Idle(s)) /\ (Working(s)' <=> Working(s))
                            /\ (runner'[s].pc = "off" <=> runner[s].pc = "off") /\ runner'[s].next = runner[s].next
                            /\ (runner'[s].pc = "claimed" <=> runner[s].pc = "claimed")
  BY <1>1, <1>2, <1>3, <1>4, <1>5 DEF Taken, Idle, Working
<1>8. RunnerInv'
  <2> SUFFICES ASSUME NEW s \in Runners
               PROVE  /\ runner'[s].task = None <=> Idle(s)'
                      /\ runner'[s].pc \in {"off", "poll", "claimed"} => runner'[s].files = {}
                      /\ ~Idle(s)' => Taken(runner[s].task)'
                      /\ Working(s)' => /\ ~task'[runner'[s].task].recorded
                                        /\ \A m \in posts' : m.task # runner'[s].task
                      /\ ~Idle(s)' => \A q \in Runners : runner'[q].task = runner'[s].task => q = s
    BY DEF RunnerInv
  <2>1. runner'[s].pc \in {"off", "poll", "claimed"} => Idle(s)' \/ runner'[s].pc = "claimed"
    BY DEF Idle
  <2>2. runner[s].task \in Tasks \/ runner[s].task = None
    BY StatesType DEF RunnerStates
  <2>3. CASE Idle(s)
    BY <1>7, <2>1, <2>3 DEF TaskInv, RunnerInv, Idle, Working
  <2>4. CASE ~Idle(s)
    <3>1. runner[s].task \in Tasks
      BY <2>2, <2>4 DEF TaskInv, RunnerInv
    <3>2. task'[runner[s].task].recorded = task[runner[s].task].recorded /\ Taken(runner[s].task)'
      BY <1>7, <2>4, <3>1 DEF TaskInv, RunnerInv, Taken
    <3> QED BY <1>1, <1>7, <2>1, <2>4, <3>1, <3>2 DEF TaskInv, RunnerInv, Idle
  <2> QED BY <2>3, <2>4
<1>9. ResultInv'
  BY <1>1, <1>7, StatesType DEF TaskInv, ResultInv, Taken, Posts
<1>10. PauseInv'
  BY <1>1, <1>3, <1>4, StatesType DEF TaskInv, PauseInv, TaskRows
<1>11. AloneInv'
  <2> SUFFICES ASSUME Faultless PROVE AloneInv'
    BY <1>1 DEF AloneInv, Faultless
  <2>1. PICK q \in Runners :
          /\ runner[q].pc # "off" /\ runner[q].next = "poll"
          /\ \A s \in Runners : s # q => runner[s].pc = "off"
          /\ \A u \in Tasks : task[u].status = "running" => u = runner[q].task
    BY DEF TaskInv, AloneInv
  <2>2. runner'[q].pc # "off" /\ runner'[q].next = "poll" /\ runner'[q].task = runner[q].task
    BY <1>7, <2>1
  <2>3. \A s \in Runners : s # q => runner'[s].pc = "off"
    BY <1>7, <2>1
  <2>4. \A u \in Tasks : task'[u].status = "running" => u = runner'[q].task
    BY <1>7, <2>1, <2>2
  <2> QED BY <2>2, <2>3, <2>4 DEF AloneInv
<1> QED BY <1>6, <1>8, <1>9, <1>10, <1>11 DEF TaskInv

\* What a result does to its task.
LEMMA ResultEffect ==
  ASSUME TypeOK, NEW m \in posts, ApplyResult(m)
  PROVE  /\ task' \in [Tasks -> TaskRows]
         /\ m \in Posts /\ m.task \in Tasks
         /\ \A s \in Tasks :
              /\ task'[s].clicks = task[s].clicks /\ task'[s].resumed = task[s].resumed
              /\ task'[s].resume_requested = task[s].resume_requested
              /\ task'[s].recorded = (s = m.task \/ task[s].recorded)
              /\ task'[s].status = IF s = m.task /\ ~task[s].recorded /\ task[s].status # "cancelled"
                                     THEN m.status ELSE task[s].status
<1> DEFINE t == m.task
           status == IF ~task[t].recorded /\ task[t].status # "cancelled" THEN m.status ELSE task[t].status
           row == [task[t] EXCEPT !.status = status, !.recorded = TRUE]
<1>1. m \in Posts /\ t \in Tasks /\ m.status \in Finished /\ task[t] \in TaskRows
  BY StatesType DEF Posts
<1>2. task' = [task EXCEPT ![t] = row]
  BY <1>1 DEF ApplyResult, TypeOK
<1>3. status \in {"none", "queued", "running"} \cup Finished
  BY <1>1 DEF TaskRows
<1> HIDE DEF status
<1>4. row \in TaskRows
  BY <1>1, <1>3 DEF TaskRows
<1>5. /\ row.clicks = task[t].clicks /\ row.resumed = task[t].resumed
      /\ row.resume_requested = task[t].resume_requested
      /\ row.recorded = TRUE /\ row.status = status
  BY <1>1 DEF TaskRows
<1> HIDE DEF row
<1>6. /\ task' \in [Tasks -> TaskRows]
      /\ \A s \in Tasks : task'[s] = IF s = t THEN row ELSE task[s]
  BY <1>1, <1>2, <1>4 DEF TypeOK
<1>7. ASSUME NEW s \in Tasks
      PROVE  /\ task'[s].clicks = task[s].clicks /\ task'[s].resumed = task[s].resumed
             /\ task'[s].resume_requested = task[s].resume_requested
             /\ task'[s].recorded = (s = m.task \/ task[s].recorded)
             /\ task'[s].status = IF s = m.task /\ ~task[s].recorded /\ task[s].status # "cancelled"
                                    THEN m.status ELSE task[s].status
  BY <1>5, <1>6, StatesType DEF TaskRows, status
<1> QED BY <1>1, <1>6, <1>7

LEMMA ResultStep ==
  ASSUME TypeOK, TaskInv, EvidenceTypeOK', NEW m, runner_result(m)
  PROVE  TypeOK' /\ TaskInv'
<1>1. m \in posts /\ posts' = posts \ {m} /\ ApplyResult(m) /\ UNCHANGED ops
  BY DEF runner_result
<1>2. /\ task' \in [Tasks -> TaskRows]
      /\ m \in Posts /\ m.task \in Tasks /\ m.runner \in Runners /\ m.status \in Finished
      /\ \A s \in Tasks :
           /\ task'[s].clicks = task[s].clicks /\ task'[s].resumed = task[s].resumed
           /\ task'[s].resume_requested = task[s].resume_requested
           /\ task'[s].recorded = (s = m.task \/ task[s].recorded)
           /\ task'[s].status = IF s = m.task /\ ~task[s].recorded /\ task[s].status # "cancelled"
                                  THEN m.status ELSE task[s].status
  BY <1>1, ResultEffect DEF Posts
<1>3. /\ runner' \in [Runners -> RunnerStates]
      /\ \A s \in Runners :
           \/ runner'[s] = runner[s]
           \/ /\ runner[s].pc = "await" /\ runner'[s].pc \in {"poll", "off"}
              /\ runner'[s].task = None /\ runner'[s].files = {}
              /\ runner[s].task = m.task /\ runner'[s].pc = runner[s].next /\ runner'[s].next = "poll"
  <2>1. CASE UNCHANGED runner
    BY <2>1 DEF TypeOK
  <2>2. CASE Awaits(m.runner, m) /\ Becomes(m.runner, At(runner[m.runner].next))
    <3> DEFINE next == runner[m.runner].next
    <3>1. next \in {"poll", "off"}
      BY <1>2, StatesType DEF RunnerStates
    <3>2. At(next) \in RunnerStates /\ At(next).pc = next /\ At(next).task = None /\ At(next).files = {}
          /\ At(next).next = "poll"
      BY <3>1, AtType DEF At
    <3>3. /\ runner' \in [Runners -> RunnerStates]
          /\ \A s \in Runners : runner'[s] = IF s = m.runner THEN At(next) ELSE runner[s]
      BY <1>2, <2>2, <3>2, Becoming
    <3> QED BY <2>2, <3>1, <3>2, <3>3 DEF Awaits
  <2> QED BY <2>1, <2>2 DEF runner_result
<1>4. TypeOK'
  BY <1>1, <1>2, <1>3 DEF TypeOK
<1>5. Taken(m.task) /\ \A s \in Tasks : Taken(s)' <=> Taken(s)
  BY <1>1, <1>2 DEF TaskInv, ResultInv, Taken, Finished
<1>6. RunnerInv'
  <2> SUFFICES ASSUME NEW s \in Runners
               PROVE  /\ runner'[s].task = None <=> Idle(s)'
                      /\ runner'[s].pc \in {"off", "poll", "claimed"} => runner'[s].files = {}
                      /\ ~Idle(s)' => Taken(runner[s].task)'
                      /\ Working(s)' => /\ ~task'[runner'[s].task].recorded
                                        /\ \A p \in posts' : p.task # runner'[s].task
                      /\ ~Idle(s)' => \A q \in Runners : runner'[q].task = runner'[s].task => q = s
    BY DEF RunnerInv
  <2>1. CASE runner'[s] = runner[s] /\ ~Idle(s)
    <3>1. runner[s].task \in Tasks /\ Taken(runner[s].task)'
      BY <1>5, <2>1, StatesType DEF TaskInv, RunnerInv, RunnerStates, Taken
    <3>2. Working(s) => /\ ~task'[runner[s].task].recorded
                        /\ \A p \in posts' : p.task # runner[s].task
      BY ZenonT(40), <1>1, <1>2, <3>1 DEF TaskInv, RunnerInv
    <3>3. \A q \in Runners : runner'[q].task = runner[s].task => q = s
      BY <1>3, <2>1, <3>1 DEF TaskInv, RunnerInv, None
    <3> QED BY <2>1, <3>1, <3>2, <3>3 DEF TaskInv, RunnerInv, Idle, Working
  <2>2. CASE runner'[s] = runner[s] /\ Idle(s)
    BY <2>2 DEF TaskInv, RunnerInv, Idle, Working
  <2>3. CASE runner'[s].pc \in {"poll", "off"} /\ runner'[s].task = None /\ runner'[s].files = {}
    BY <2>3 DEF Idle, Working
  <2> QED BY <1>3, <2>1, <2>2, <2>3
<1>7. ResultInv'
  BY ZenonT(30), <1>1, <1>2, <1>5, StatesType DEF TaskInv, ResultInv, Posts, Finished
<1>8. PauseInv'
  BY <1>2 DEF TaskInv, PauseInv
<1>9. AloneInv'
  <2> SUFFICES ASSUME Faultless PROVE AloneInv'
    BY <1>1 DEF AloneInv, Faultless
  <2>1. \A s \in Tasks : task'[s].status = "running" => task[s].status = "running" /\ s # m.task
    BY <1>2 DEF TaskInv, ResultInv, Finished
  <2>2. PICK q \in Runners :
          /\ runner[q].pc # "off" /\ runner[q].next = "poll"
          /\ \A s \in Runners : s # q => runner[s].pc = "off"
          /\ \A u \in Tasks : task[u].status = "running" => u = runner[q].task
    BY DEF TaskInv, AloneInv
  <2>3. \A s \in Runners : s # q => runner'[s].pc = "off"
    BY <1>3, <2>2
  <2>4. runner'[q].pc # "off" /\ runner'[q].next = "poll"
    BY <1>3, <2>2
  <2>5. \A u \in Tasks : task'[u].status = "running" => u = runner'[q].task
    BY <1>3, <2>1, <2>2
  <2> QED BY <2>3, <2>4, <2>5 DEF AloneInv
<1> QED BY <1>4, <1>6, <1>7, <1>8, <1>9 DEF TaskInv

LEMMA ResultEvidence ==
  ASSUME TypeOK, NEW m, runner_result(m)
  PROVE  EvidenceTypeOK'
<1>1. m \in Posts /\ UNCHANGED <<blobs, uploads, ereq>> /\ ApplyResult(m)
  BY StatesType DEF runner_result
<1>2. CASE UNCHANGED evidence
  BY <1>1, <1>2 DEF TypeOK, EvidenceTypeOK
<1>3. CASE m.files # {} /\ AddEvidence(m.task, m.files)
  <2>1. [live |-> TRUE, task |-> m.task, files |-> m.files, primary |-> Min(m.files)] \in Rows
    BY <1>1, <1>3, FirstFile DEF Posts, Rows
  <2> QED BY <1>1, <1>3, <2>1, RowAdded DEF AddEvidence, TypeOK, EvidenceTypeOK
<1> QED BY <1>1, <1>2, <1>3 DEF ApplyResult

\* The steps in which a runner acts by itself, with nothing else changed.
Alone(r) == LoadPolicy(r) \/ Crash(r) \/ Start(r) \/ Pause(r) \/ PauseTimeout(r)

LEMMA AloneStep ==
  ASSUME TypeOK, TaskInv, NEW r \in Runners, Alone(r)
  PROVE  TypeOK' /\ TaskInv'
<1>0. runner[r] \in RunnerStates /\ UNCHANGED <<evidenceVars, task, posts, ops>>
  BY StatesType DEF Alone, LoadPolicy, Crash, Start, Pause, PauseTimeout
<1>1. PICK state \in RunnerStates :
        /\ Becomes(r, state)
        /\ \/ /\ state.pc \in {"run", "paused"} /\ state.task = runner[r].task /\ Working(r)
              /\ state.next = runner[r].next
           \/ /\ state.pc \in {"off", "poll"} /\ state.task = None /\ state.files = {}
              /\ ~Faultless \/ \A s \in Runners : runner[s].pc = "off"
  <2>1. CASE LoadPolicy(r) \/ PauseTimeout(r)
    <3> DEFINE state == [runner[r] EXCEPT !.pc = "run"]
    <3>1. /\ state \in RunnerStates /\ state.pc = "run" /\ state.task = runner[r].task
          /\ state.next = runner[r].next
      BY <1>0 DEF RunnerStates
    <3> QED BY <2>1, <3>1 DEF LoadPolicy, PauseTimeout, Working
  <2>2. CASE Pause(r)
    <3> DEFINE state == [runner[r] EXCEPT !.pc = "paused", !.left = runner[r].left - 1]
    <3>1. runner[r].left - 1 \in 0..MaxPauses
      BY <1>0, <2>2 DEF RunnerStates, Pause
    <3>2. /\ state \in RunnerStates /\ state.pc = "paused" /\ state.task = runner[r].task
          /\ state.next = runner[r].next
      BY <1>0, <3>1 DEF RunnerStates
    <3> QED BY <2>2, <3>2 DEF Pause, Working
  <2>3. CASE Crash(r)
    <3>1. At("off").pc = "off" /\ At("off").task = None /\ At("off").files = {}
      BY DEF At
    <3> QED BY <2>3, <3>1, AtType DEF Crash, Faultless
  <2>4. CASE Start(r)
    <3>1. At("poll").pc = "poll" /\ At("poll").task = None /\ At("poll").files = {}
      BY DEF At
    <3> QED BY <2>4, <3>1, AtType DEF Start, Faultless
  <2> QED BY <2>1, <2>2, <2>3, <2>4 DEF Alone
<1>2. TaskInv' /\ runner' \in [Runners -> RunnerStates]
  BY <1>0, <1>1, RunnerMoves DEF Idle, Working
<1> QED BY <1>0, <1>2, EvidenceKept DEF TypeOK

\* The steps that post a result.
Sends(r) ==
  \/ PolicyUnavailable(r) \/ Finish(r) \/ TaskFails(r) \/ Watch(r) \/ Interrupt(r)
  \/ GivesUp(r) /\ runner[r].sent = "completed"

LEMMA SendsWhat ==
  ASSUME TypeOK, NEW r \in Runners, Sends(r)
  PROVE  \E s \in Finished, files \in SUBSET Files, next \in {"poll", "off"} :
           /\ Send(r, s, files, next)
           /\ next = "off" => "Exit" \in ops
           /\ ~Idle(r)
           /\ files # {} => s = "completed" /\ runner[r].pc = "run" /\ files = runner[r].files
<1>0. runner[r].files \in SUBSET Files
  BY StatesType DEF RunnerStates
<1>1. CASE PolicyUnavailable(r) \/ TaskFails(r)
  BY <1>1 DEF PolicyUnavailable, TaskFails, Finished, Idle
<1>2. CASE Finish(r)
  BY <1>0, <1>2 DEF Finish, Finished, Idle
<1>3. CASE Watch(r) \/ Interrupt(r)
  BY <1>3 DEF Watch, Interrupt, Supervised, Finished, Idle
<1>4. CASE GivesUp(r) /\ runner[r].sent = "completed"
  BY <1>4 DEF GivesUp, Finished, Idle
<1> QED BY <1>1, <1>2, <1>3, <1>4 DEF Sends

\* A runner lets a result go.
LEMMA LetGoStep ==
  ASSUME TypeOK, TaskInv, NEW r \in Runners, GivesUp(r), runner[r].sent # "completed"
  PROVE  TypeOK' /\ TaskInv'
<1> DEFINE next == runner[r].next
<1>1. /\ Becomes(r, At(next)) /\ UNCHANGED <<evidenceVars, task, posts, ops>> /\ runner[r].pc = "await"
      /\ next \in {"poll", "off"}
  BY StatesType DEF GivesUp, RunnerStates
<1>2. At(next) \in RunnerStates /\ At(next).pc = next /\ At(next).task = None /\ At(next).files = {}
  BY <1>1, AtType DEF At
<1>3. TaskInv' /\ runner' \in [Runners -> RunnerStates]
  <2>1. ~Faultless
    BY DEF GivesUp, Faultless
  <2> QED BY <1>1, <1>2, <2>1, RunnerMoves DEF Idle, Working
<1> QED BY <1>1, <1>3, EvidenceKept DEF TypeOK

\* Every step is one of a kind.
LEMMA Kinds ==
  ASSUME Next
  PROVE  \/ \E t \in Tasks : create_task(t) \/ cancel_task(t) \/ resume_task(t)
         \/ \E r \in Runners : \/ Alone(r) \/ Sends(r) \/ runner_next_task(r) \/ upload_screenshot(r)
                               \/ runner_pause_poll(r) \/ (GivesUp(r) /\ runner[r].sent # "completed")
         \/ \E m \in posts : runner_result(m)
         \/ UnheardClaim
         \/ Evidence
<1>1. ASSUME NEW r \in Runners, GivesUp(r)
      PROVE  Sends(r) \/ runner[r].sent # "completed"
  BY <1>1 DEF Sends
<1>2. ASSUME NEW r \in Runners, Works(r)
      PROVE  Alone(r) \/ Sends(r) \/ runner_next_task(r) \/ \E m \in posts : runner_result(m)
  BY <1>2 DEF Works, Alone, Sends
<1>3. CASE \E t \in Tasks : create_task(t) \/ cancel_task(t) \/ resume_task(t)
  BY <1>3
<1>4. ASSUME NEW r \in Runners,
             \/ Works(r) \/ PolicyUnavailable(r) \/ upload_screenshot(r) \/ TaskFails(r) \/ Watch(r)
             \/ Interrupt(r) \/ Crash(r) \/ Start(r) \/ runner_pause_poll(r) \/ GivesUp(r)
      PROVE  \/ Alone(r) \/ Sends(r) \/ runner_next_task(r) \/ upload_screenshot(r)
             \/ runner_pause_poll(r) \/ (GivesUp(r) /\ runner[r].sent # "completed")
             \/ \E m \in posts : runner_result(m)
  <2>1. PolicyUnavailable(r) \/ TaskFails(r) \/ Watch(r) \/ Interrupt(r) => Sends(r)
    BY DEF Sends
  <2>2. Crash(r) \/ Start(r) => Alone(r)
    BY DEF Alone
  <2> QED BY <1>1, <1>2, <1>4, <2>1, <2>2
<1> QED BY <1>3, <1>4 DEF Next

LEMMA TaskStep ==
  ASSUME TypeOK, TaskInv, LastFile, [Next]_vars
  PROVE  TypeOK' /\ TaskInv'
<1>1. ASSUME NEW r \in Runners, Sends(r) PROVE TypeOK' /\ TaskInv'
  BY <1>1, SendsWhat, SendStep
<1>2. ASSUME NEW m, runner_result(m) PROVE TypeOK' /\ TaskInv'
  BY <1>2, ResultEvidence, ResultStep
<1>3. CASE Evidence
  <2>1. UNCHANGED <<task, posts, runner, ops>>
    BY <1>3 DEF Evidence
  <2>2. TaskInv'
    BY <2>1 DEF TaskInv, RunnerInv, ResultInv, PauseInv, AloneInv, Faultless, Taken, Idle, Working
  <2> QED BY <1>3, <2>2, EvidenceType
<1>4. CASE UNCHANGED vars
  BY <1>4 DEF vars, evidenceVars, TypeOK, EvidenceTypeOK, TaskInv, RunnerInv, ResultInv, PauseInv, AloneInv,
              Faultless, Taken, Idle, Working
<1> QED BY <1>1, <1>2, <1>3, <1>4, Kinds, UserStep, AloneStep, ClaimStep, UploadStep, PollStep, LetGoStep

-----------------------------------------------------------------------------
(* The files: how the sets of the invariant may change.                      *)

\* New files, if any, go to one request or one task; all else can only be let go.
LEMMA Grows ==
  ASSUME FilesInv, NEW new, new \cap (1..uploads) = {}, blobs' = blobs \cup new,
         new \subseteq 1..uploads', 1..uploads \subseteq 1..uploads',
         DOMAIN evidence' = DOMAIN evidence, Listed' \subseteq Listed,
         \A e \in DOMAIN evidence : Owned(e)' \subseteq Owned(e),
         \A q \in EvidenceRequests : Purging(q)' \subseteq Purging(q),
         \A q \in EvidenceRequests : Uploading(q)' \subseteq Uploading(q) \cup new,
         \A t \in Tasks : Awaited(t)' \subseteq Awaited(t) \cup new,
         \/ /\ \A t \in Tasks : Awaited(t)' \subseteq Awaited(t)
            /\ \A p, q \in EvidenceRequests :
                 p # q => Uploading(p)' \subseteq Uploading(p) \/ Uploading(q)' \subseteq Uploading(q)
         \/ /\ \A q \in EvidenceRequests : Uploading(q)' \subseteq Uploading(q)
            /\ \A s, t \in Tasks : s # t => Awaited(s)' \subseteq Awaited(s) \/ Awaited(t)' \subseteq Awaited(t)
  PROVE  FilesInv'
<1>1. /\ Listed \cap new = {}
      /\ \A e \in DOMAIN evidence : Owned(e) \cap new = {}
      /\ \A q \in EvidenceRequests : Purging(q) \cap new = {} /\ Uploading(q) \cap new = {}
      /\ \A t \in Tasks : Awaited(t) \cap new = {}
  BY DEF FilesInv, Stored, Known
<1>2. Stored'
  BY DEF FilesInv, Stored
<1>3. Known'
  BY DEF FilesInv, Known
<1>4. Apart'
  <2>1. \A d, e \in DOMAIN evidence' : d # e => Owned(d)' \cap Owned(e)' = {}
    BY DEF FilesInv, Apart
  <2>2. \A e \in DOMAIN evidence', q \in EvidenceRequests : Owned(e)' \cap Uploading(q)' = {}
    BY <1>1 DEF FilesInv, Apart
  <2>3. \A e \in DOMAIN evidence', t \in Tasks : Owned(e)' \cap Awaited(t)' = {}
    BY <1>1 DEF FilesInv, Apart
  <2>4. \A p, q \in EvidenceRequests : p # q => Uploading(p)' \cap Uploading(q)' = {}
    BY <1>1 DEF FilesInv, Apart
  <2>5. \A q \in EvidenceRequests, t \in Tasks : Uploading(q)' \cap Awaited(t)' = {}
    BY <1>1 DEF FilesInv, Apart
  <2>6. \A s, t \in Tasks : s # t => Awaited(s)' \cap Awaited(t)' = {}
    BY <1>1 DEF FilesInv, Apart
  <2> QED BY <2>1, <2>2, <2>3, <2>4, <2>5, <2>6 DEF Apart
<1>5. PurgedOnly'
  BY <1>1 DEF FilesInv, PurgedOnly
<1> QED BY <1>2, <1>3, <1>4, <1>5 DEF FilesInv

\* Nothing new.
LEMMA Shrinks ==
  ASSUME FilesInv, UNCHANGED <<blobs, uploads>>, DOMAIN evidence' = DOMAIN evidence, Listed' \subseteq Listed,
         \A e \in DOMAIN evidence : Owned(e)' \subseteq Owned(e),
         \A q \in EvidenceRequests : Purging(q)' \subseteq Purging(q) /\ Uploading(q)' \subseteq Uploading(q),
         \A t \in Tasks : Awaited(t)' \subseteq Awaited(t)
  PROVE  FilesInv'
<1>1. Stored' /\ Known'
  BY DEF FilesInv, Stored, Known
<1>2. Apart'
  BY DEF FilesInv, Apart
<1>3. PurgedOnly'
  BY DEF FilesInv, PurgedOnly
<1> QED BY <1>1, <1>2, <1>3 DEF FilesInv

\* One request is given files to purge that nobody lists or may list any more.
LEMMA Purges ==
  ASSUME FilesInv, NEW q \in EvidenceRequests, UNCHANGED <<blobs, uploads>>, DOMAIN evidence' = DOMAIN evidence,
         Listed' \subseteq Listed,
         \A e \in DOMAIN evidence : Owned(e)' \subseteq Owned(e),
         \A p \in EvidenceRequests : Uploading(p)' \subseteq Uploading(p),
         \A p \in EvidenceRequests : p # q => Purging(p)' \subseteq Purging(p),
         \A t \in Tasks : Awaited(t)' \subseteq Awaited(t),
         Purging(q)' \subseteq 1..uploads, Purging(q)' \cap Listed' = {},
         \A p \in EvidenceRequests : Purging(q)' \cap Uploading(p)' = {},
         \A t \in Tasks : Purging(q)' \cap Awaited(t)' = {}
  PROVE  FilesInv'
<1>1. Stored' /\ Known'
  BY DEF FilesInv, Stored, Known
<1>2. Apart'
  BY DEF FilesInv, Apart
<1>3. PurgedOnly'
  BY DEF FilesInv, PurgedOnly
<1> QED BY <1>1, <1>2, <1>3 DEF FilesInv

\* A blob to purge is deleted.
LEMMA Deletes ==
  ASSUME FilesInv, NEW q \in EvidenceRequests, NEW f \in Purging(q), blobs' = blobs \ {f},
         UNCHANGED <<uploads, evidence>>, Listed' = Listed,
         \A e \in DOMAIN evidence : Owned(e)' \subseteq Owned(e),
         \A p \in EvidenceRequests : Purging(p)' \subseteq Purging(p) /\ Uploading(p)' \subseteq Uploading(p),
         \A t \in Tasks : Awaited(t)' = Awaited(t)
  PROVE  FilesInv'
<1>1. Stored'
  BY DEF FilesInv, Stored, PurgedOnly
<1>2. Known'
  BY DEF FilesInv, Known
<1>3. Apart'
  BY DEF FilesInv, Apart
<1>4. PurgedOnly'
  BY DEF FilesInv, PurgedOnly
<1> QED BY <1>1, <1>2, <1>3, <1>4 DEF FilesInv

\* A new row takes the files of the request, or of the task, that adds it.
LEMMA Adds ==
  ASSUME FilesInv, NEW d, NEW taken, UNCHANGED <<blobs, uploads>>,
         DOMAIN evidence' = DOMAIN evidence \cup {d}, d \notin DOMAIN evidence,
         Listed' \subseteq Listed \cup taken, Owned(d)' \subseteq taken,
         \A e \in DOMAIN evidence : Owned(e)' \subseteq Owned(e),
         \A q \in EvidenceRequests : Purging(q)' \subseteq Purging(q) /\ Uploading(q)' \subseteq Uploading(q),
         \A t \in Tasks : Awaited(t)' \subseteq Awaited(t),
         \/ \E q \in EvidenceRequests : taken \subseteq Uploading(q) /\ Uploading(q)' = {}
         \/ \E t \in Tasks : taken \subseteq Awaited(t) /\ Awaited(t)' = {}
  PROVE  FilesInv'
<1>1. /\ taken \subseteq blobs
      /\ \A e \in DOMAIN evidence : Owned(e) \cap taken = {}
      /\ \A q \in EvidenceRequests : Uploading(q)' \cap taken = {} /\ Purging(q) \cap taken = {}
      /\ \A t \in Tasks : Awaited(t)' \cap taken = {}
  <2>1. CASE \E q \in EvidenceRequests : taken \subseteq Uploading(q) /\ Uploading(q)' = {}
    BY <2>1 DEF FilesInv, Stored, Apart, PurgedOnly
  <2>2. CASE \E t \in Tasks : taken \subseteq Awaited(t) /\ Awaited(t)' = {}
    BY <2>2 DEF FilesInv, Stored, Apart, PurgedOnly
  <2> QED BY <2>1, <2>2
<1>2. Stored'
  BY <1>1 DEF FilesInv, Stored
<1>3. Known'
  BY <1>1 DEF FilesInv, Known
<1>4. Apart'
  <2>1. \A c, e \in DOMAIN evidence' : c # e => Owned(c)' \cap Owned(e)' = {}
    BY <1>1 DEF FilesInv, Apart
  <2>2. \A e \in DOMAIN evidence', q \in EvidenceRequests : Owned(e)' \cap Uploading(q)' = {}
    BY <1>1 DEF FilesInv, Apart
  <2>3. \A e \in DOMAIN evidence', t \in Tasks : Owned(e)' \cap Awaited(t)' = {}
    BY <1>1 DEF FilesInv, Apart
  <2> QED BY <2>1, <2>2, <2>3 DEF FilesInv, Apart
<1>5. PurgedOnly'
  BY <1>1 DEF FilesInv, PurgedOnly
<1> QED BY <1>2, <1>3, <1>4, <1>5 DEF FilesInv

LEMMA EvidenceFrame ==
  ASSUME UNCHANGED <<evidence, ereq>>
  PROVE  /\ Listed' = Listed /\ (LastFile => LastFile')
         /\ \A e : Owned(e)' = Owned(e)
         /\ \A q : Uploading(q)' = Uploading(q) /\ Purging(q)' = Purging(q)
BY DEF Listed, LiveRows, LastFile, Owned, Uploading, Purging, HoldsAt

LEMMA TaskFrame ==
  ASSUME UNCHANGED <<task, posts, runner>>
  PROVE  \A t : Awaited(t)' = Awaited(t)
BY DEF Awaited, Working

\* Requests other than q hold on to what they held.
LEMMA RequestFrame ==
  ASSUME NEW q \in EvidenceRequests, \A p \in EvidenceRequests : p # q => ereq'[p] = ereq[p]
  PROVE  /\ \A p \in EvidenceRequests : p # q => Uploading(p)' = Uploading(p) /\ Purging(p)' = Purging(p)
         /\ ereq'[q].pc # "upload" => Uploading(q)' = {}
         /\ ereq'[q].pc # "purge" => Purging(q)' = {}
         /\ ereq'[q].pc = "upload" => Uploading(q)' = ereq'[q].files
         /\ ereq'[q].pc = "purge" => Purging(q)' = ereq'[q].files
BY DEF Uploading, Purging, HoldsAt

\* A row is owned what it was owned, or less, as long as nothing more is read of it.
LEMMA OwnedFrame ==
  ASSUME NEW q \in EvidenceRequests, NEW e,
         \A p \in EvidenceRequests : p # q => ereq'[p] = ereq[p], ereq'[q].pc # "commit",
         evidence'[e].files \subseteq evidence[e].files, evidence'[e].primary \in Owned(e)
  PROVE  Owned(e)' \subseteq Owned(e)
BY DEF Owned, HoldsAt

\* What is in the primary of a row, or in its survivor, is its own.
LEMMA OwnedHas ==
  ASSUME EvidenceTypeOK, NEW e \in DOMAIN evidence
  PROVE  /\ evidence[e].files \subseteq Owned(e) /\ evidence[e].primary \in Owned(e)
         /\ \A q \in EvidenceRequests :
              HoldsAt(q, "commit") /\ ereq[q].row = e /\ ereq[q].survivor # 0 => ereq[q].survivor \in Owned(e)
<1>1. evidence[e] \in Rows
  BY RowsType
<1>2. \A q \in EvidenceRequests : ereq[q].survivor \in 0..MaxFiles
  BY DEF EvidenceTypeOK, Holds
<1> QED BY <1>1, <1>2 DEF Rows, Owned, Files

\* What a submission, before its transaction, does.
LEMMA SubmissionFiles ==
  ASSUME TypeOK, LastFile, FilesInv, NEW q \in EvidenceRequests, Submission(q), UNCHANGED <<task, posts, runner>>
  PROVE  LastFile' /\ FilesInv'
<1>0. /\ ereq[q] \in Holds /\ EvidenceTypeOK /\ \A t \in Tasks : Awaited(t)' = Awaited(t)
      /\ [Free EXCEPT !.pc = "upload"].pc = "upload" /\ [Free EXCEPT !.pc = "upload"].files = {}
      /\ Free.pc = "idle"
  BY TaskFrame, FreeType DEF TypeOK, EvidenceTypeOK, Free
<1>1. CASE create_evidence(q)
  <2>1. /\ UNCHANGED <<evidence, blobs, uploads>>
        /\ \A p \in EvidenceRequests : p # q => ereq'[p] = ereq[p]
        /\ ereq'[q].pc = "upload" /\ ereq'[q].files = {}
    BY <1>0, <1>1 DEF create_evidence, Hold, EvidenceTypeOK
  <2>2. LastFile'
    BY <2>1 DEF LastFile, HoldsAt
  <2>3. Listed' = Listed
    BY <2>1 DEF Listed, LiveRows
  <2>4. \A e \in DOMAIN evidence : Owned(e)' \subseteq Owned(e)
    BY <1>0, <2>1, OwnedFrame, OwnedHas
  <2> QED BY <1>0, <2>1, <2>2, <2>3, <2>4, RequestFrame, Shrinks
<1>2. CASE UploadNext(q)
  <2> DEFINE new == {uploads + 1}
  <2>1. /\ evidence' = evidence /\ uploads' = uploads + 1 /\ uploads \in Nat /\ blobs' = blobs \cup new
        /\ \A p \in EvidenceRequests : p # q => ereq'[p] = ereq[p]
        /\ ereq[q].pc = "upload" /\ ereq'[q].pc = "upload" /\ ereq'[q].files = ereq[q].files \cup new
    BY <1>0, <1>2 DEF UploadNext, HoldsAt, save_file, Hold, EvidenceTypeOK, Holds
  <2>2. LastFile'
    BY <2>1 DEF LastFile, HoldsAt
  <2>3. Listed' = Listed
    BY <2>1 DEF Listed, LiveRows
  <2>4. \A e \in DOMAIN evidence : Owned(e)' \subseteq Owned(e)
    BY <1>0, <2>1, OwnedFrame, OwnedHas
  <2>5. new \cap (1..uploads) = {} /\ new \subseteq 1..uploads' /\ 1..uploads \subseteq 1..uploads'
    BY <2>1
  <2>6. Uploading(q)' = Uploading(q) \cup new /\ Purging(q)' = {}
    BY <2>1 DEF Uploading, Purging, HoldsAt
  <2>7. \A p \in EvidenceRequests : p # q => Uploading(p)' = Uploading(p) /\ Purging(p)' = Purging(p)
    BY <2>1, RequestFrame
  <2> HIDE DEF new
  <2> QED BY <1>0, <2>1, <2>2, <2>3, <2>4, <2>5, <2>6, <2>7, Grows
<1>3. CASE CommitEvidence(q)
  <2> DEFINE row == [live |-> TRUE, task |-> 0, files |-> ereq[q].files, primary |-> Min(ereq[q].files)]
  <2>1. /\ HoldsAt(q, "upload") /\ evidence' = Append(evidence, row) /\ Hold(q, Free) /\ UNCHANGED <<blobs, uploads>>
        /\ Min(ereq[q].files) \in ereq[q].files
    BY <1>0, <1>3, FirstFile DEF CommitEvidence, AddEvidence, Holds
  <2>2. row \in Rows
    BY <1>0, <2>1 DEF Rows, Holds
  <2>3. PICK d :
          /\ d \notin DOMAIN evidence /\ DOMAIN evidence' = DOMAIN evidence \cup {d}
          /\ evidence'[d] = row /\ \A e \in DOMAIN evidence : evidence'[e] = evidence[e]
    BY <1>0, <2>1, <2>2, RowAdded
  <2>4. /\ \A p \in EvidenceRequests : p # q => ereq'[p] = ereq[p]
        /\ ereq'[q].pc = "idle"
    BY <1>0, <2>1 DEF Hold, EvidenceTypeOK
  <2>5. row.files = Uploading(q) /\ row.primary \in Uploading(q)
    BY <2>1 DEF Uploading
  <2> HIDE DEF row
  <2>6. Owned(d)' \subseteq Uploading(q)
    <3>1. \A p \in EvidenceRequests : ereq'[p].pc = "commit" => ereq'[p].row \in DOMAIN evidence
      BY <2>4 DEF LastFile, HoldsAt
    <3> QED BY <2>3, <2>5, <3>1 DEF Owned, HoldsAt
  <2>7. \A e \in DOMAIN evidence : Owned(e)' \subseteq Owned(e)
    BY <1>0, <2>3, <2>4, OwnedFrame, OwnedHas
  <2>8. Listed' \subseteq Listed \cup Uploading(q)
    BY <2>3, <2>5 DEF Listed, LiveRows
  <2>9. LastFile'
    BY <2>3, <2>4 DEF LastFile, HoldsAt
  <2>10. \A p \in EvidenceRequests : Purging(p)' \subseteq Purging(p) /\ Uploading(p)' \subseteq Uploading(p)
    BY <2>4, RequestFrame
  <2>11. Uploading(q)' = {}
    BY <2>4, RequestFrame
  <2>12. PICK taken : taken = Uploading(q)
    OBVIOUS
  <2>13. FilesInv'
    <3>1. \E p \in EvidenceRequests : taken \subseteq Uploading(p) /\ Uploading(p)' = {}
      BY <2>11, <2>12
    <3>2. Listed' \subseteq Listed \cup taken /\ Owned(d)' \subseteq taken
      BY <2>6, <2>8, <2>12
    <3>3. UNCHANGED <<blobs, uploads>> /\ \A t \in Tasks : Awaited(t)' \subseteq Awaited(t)
      BY <1>0, <2>1
    <3> QED BY <2>3, <2>7, <2>10, <3>1, <3>2, <3>3, Adds
  <2> QED BY <2>9, <2>13
<1>4. CASE CreateFails(q)
  <2> DEFINE held == [Free EXCEPT !.pc = "purge", !.files = ereq[q].files]
  <2>1. held.pc = "purge" /\ held.files = ereq[q].files
    BY DEF Free
  <2>2. /\ HoldsAt(q, "upload") /\ UNCHANGED <<evidence, blobs, uploads>>
        /\ \A p \in EvidenceRequests : p # q => ereq'[p] = ereq[p]
        /\ ereq'[q].pc = "purge" /\ ereq'[q].files = ereq[q].files
    BY <1>0, <1>4, <2>1 DEF CreateFails, Hold, EvidenceTypeOK
  <2>3. LastFile'
    BY <2>2 DEF LastFile, HoldsAt
  <2>4. Listed' = Listed
    BY <2>2 DEF Listed, LiveRows
  <2>5. \A e \in DOMAIN evidence : Owned(e)' \subseteq Owned(e)
    BY <1>0, <2>2, OwnedFrame, OwnedHas
  <2>6. Purging(q)' = Uploading(q) /\ Uploading(q)' = {}
    BY <2>2 DEF Purging, Uploading, HoldsAt
  <2>7. \A p \in EvidenceRequests : p # q => Uploading(p)' = Uploading(p) /\ Purging(p)' = Purging(p)
    BY <2>2, RequestFrame
  <2>8. Listed \subseteq UNION {Owned(e) : e \in DOMAIN evidence}
    BY <1>0, OwnedHas DEF Listed, LiveRows
  <2>9. Uploading(q) \cap Listed = {} /\ Uploading(q) \subseteq 1..uploads
    <3>1. \A e \in DOMAIN evidence : Owned(e) \cap Uploading(q) = {}
      BY DEF FilesInv, Apart
    <3>2. Uploading(q) \subseteq blobs /\ blobs \subseteq 1..uploads
      BY DEF FilesInv, Stored, Known
    <3> QED BY <2>8, <3>1, <3>2
  <2>10. /\ \A p \in EvidenceRequests : Purging(q)' \cap Uploading(p)' = {}
         /\ \A t \in Tasks : Purging(q)' \cap Awaited(t)' = {}
    BY <1>0, <2>6, <2>7 DEF FilesInv, Apart
  <2>11. FilesInv'
    BY <1>0, <2>2, <2>4, <2>5, <2>6, <2>7, <2>9, <2>10, Purges
  <2> QED BY <2>3, <2>11
<1> QED BY <1>1, <1>2, <1>3, <1>4 DEF Submission

\* The first file that is left can only be missing when none is.
LEMMA DeletionRead ==
  ASSUME TypeOK, LastFile, FilesInv, NEW q \in EvidenceRequests, delete_evidence_file(q),
         UNCHANGED <<task, posts, runner>>
  PROVE  LastFile' /\ FilesInv'
<1>0. EvidenceTypeOK /\ EvidenceTypeOK' /\ UNCHANGED <<evidence, blobs, uploads>>
      /\ \A t \in Tasks : Awaited(t)' = Awaited(t)
  <2>1. EvidenceTypeOK' /\ UNCHANGED <<evidence, blobs, uploads>>
    BY DeletionType DEF TypeOK, Deletion, delete_evidence_file
  <2> QED BY <2>1, TaskFrame DEF TypeOK
<1>1. PICK e \in LiveRows : \E f \in evidence[e].files :
          LET remaining == evidence[e].files \ {f} IN
          Hold(q, [Free EXCEPT !.pc = "commit", !.row = e, !.file = f, !.wasPrimary = (f = evidence[e].primary),
                               !.survivor = IF remaining = {} THEN 0 ELSE Min(remaining)])
  BY DEF delete_evidence_file
<1>2. PICK f \in evidence[e].files :
          LET remaining == evidence[e].files \ {f} IN
          Hold(q, [Free EXCEPT !.pc = "commit", !.row = e, !.file = f, !.wasPrimary = (f = evidence[e].primary),
                               !.survivor = IF remaining = {} THEN 0 ELSE Min(remaining)])
  BY <1>1
<1>3. PICK survivor : survivor = IF evidence[e].files \ {f} = {} THEN 0 ELSE Min(evidence[e].files \ {f})
  OBVIOUS
<1>4. PICK was : was = (f = evidence[e].primary)
  OBVIOUS
<1>5. /\ \A p \in EvidenceRequests : p # q => ereq'[p] = ereq[p]
      /\ ereq'[q].pc = "commit" /\ ereq'[q].row = e /\ ereq'[q].file = f /\ ereq'[q].survivor = survivor
  <2> DEFINE held == [Free EXCEPT !.pc = "commit", !.row = e, !.file = f, !.wasPrimary = was, !.survivor = survivor]
  <2>1. Hold(q, held)
    BY <1>2, <1>3, <1>4
  <2>2. held.pc = "commit" /\ held.row = e /\ held.file = f /\ held.survivor = survivor
    BY DEF Free
  <2> HIDE DEF held
  <2> QED BY <1>0, <2>1, <2>2 DEF Hold, EvidenceTypeOK
<1>6. e \in DOMAIN evidence /\ evidence[e] \in Rows
  BY <1>0, RowsType DEF LiveRows
<1>7. (survivor = 0 /\ evidence[e].files \subseteq {f}) \/ survivor \in evidence[e].files
  <2>1. evidence[e].files \ {f} \in SUBSET Files
    BY <1>6 DEF Rows
  <2> QED BY <1>3, <2>1, FirstFile
<1>8. LastFile'
  <2>1. 0 \notin evidence[e].files
    BY <1>6 DEF Rows, Files
  <2> QED BY <1>0, <1>5, <1>6, <1>7, <2>1 DEF LastFile, HoldsAt
<1>9. \A d \in DOMAIN evidence : Owned(d)' \subseteq Owned(d)
  <2>1. 0 \notin Files
    BY DEF Files
  <2> QED BY <1>0, <1>5, <1>7, <2>1 DEF Owned, HoldsAt
<1>10. Listed' = Listed
  BY <1>0 DEF Listed, LiveRows
<1>11. \A p \in EvidenceRequests : Purging(p)' \subseteq Purging(p) /\ Uploading(p)' \subseteq Uploading(p)
  BY <1>5, RequestFrame
<1>12. FilesInv'
  BY <1>0, <1>9, <1>10, <1>11, Shrinks
<1> QED BY <1>8, <1>12

LEMMA CommitDeletionFiles ==
  ASSUME TypeOK, LastFile, FilesInv, NEW q \in EvidenceRequests, CommitDeletion(q),
         UNCHANGED <<task, posts, runner>>
  PROVE  LastFile' /\ FilesInv'
<1>1. PICK e, f, s : e = ereq[q].row /\ f = ereq[q].file /\ s = ereq[q].survivor
  OBVIOUS
<1>2. /\ e \in DOMAIN evidence /\ evidence[e].live /\ f \in evidence[e].files
      /\ DOMAIN evidence' = DOMAIN evidence /\ \A d \in DOMAIN evidence : d # e => evidence'[d] = evidence[d]
      /\ evidence'[e].files = evidence[e].files \ {f}
      /\ evidence'[e].live = (s # 0)
      /\ evidence'[e].primary \in {evidence[e].primary, s} /\ (s = 0 => evidence'[e].primary = evidence[e].primary)
      /\ \A p \in EvidenceRequests : p # q => ereq'[p] = ereq[p]
      /\ ereq'[q].pc = "purge"
      /\ ereq'[q].files = {f} \cup (IF s = 0 THEN {evidence[e].primary} ELSE {})
  BY <1>1, CommitDeletionEffect DEF TypeOK
<1>3. HoldsAt(q, "commit") /\ UNCHANGED <<blobs, uploads>> /\ EvidenceTypeOK
      /\ \A t \in Tasks : Awaited(t)' = Awaited(t)
  BY TaskFrame DEF CommitDeletion, TypeOK
<1>4. LastFile'
  BY <1>2 DEF LastFile, HoldsAt
<1>5. evidence[e].files \subseteq Owned(e) /\ evidence[e].primary \in Owned(e) /\ (s # 0 => s \in Owned(e))
  BY <1>1, <1>2, <1>3, OwnedHas
<1>6. \A d \in DOMAIN evidence : Owned(d)' \subseteq Owned(d)
  BY <1>2, <1>3, <1>5, OwnedFrame, OwnedHas
<1>7. Listed' \subseteq Listed /\ Listed \subseteq UNION {Owned(d) : d \in DOMAIN evidence}
  BY <1>2, <1>3, OwnedHas DEF Listed, LiveRows
<1>8. Purging(q)' \subseteq Owned(e) /\ Uploading(q)' = {}
  BY <1>2, <1>5, RequestFrame
<1>9. \A p \in EvidenceRequests : p # q => Uploading(p)' = Uploading(p) /\ Purging(p)' = Purging(p)
  BY <1>2, RequestFrame
<1>10. Purging(q)' \cap Listed' = {}
  <2>1. ASSUME NEW d \in LiveRows' PROVE Purging(q)' \cap evidence'[d].files = {}
    <3>1. d \in DOMAIN evidence
      BY <1>2, <2>1 DEF LiveRows
    <3>2. CASE d # e
      <4>1. evidence'[d].files \subseteq Owned(d) /\ Owned(d) \cap Owned(e) = {}
        BY <1>2, <1>3, <3>1, <3>2, OwnedHas DEF FilesInv, Apart
      <4> QED BY <1>8, <4>1
    <3>3. CASE d = e
      <4>1. s # 0
        BY <1>2, <2>1, <3>3 DEF LiveRows
      <4> QED BY <1>2, <3>3, <4>1, RequestFrame
    <3> QED BY <3>2, <3>3
  <2> QED BY <2>1 DEF Listed
<1>11. /\ \A p \in EvidenceRequests : Purging(q)' \cap Uploading(p)' = {}
       /\ \A t \in Tasks : Purging(q)' \cap Awaited(t)' = {}
       /\ Purging(q)' \subseteq 1..uploads
  <2>1. /\ \A p \in EvidenceRequests : Owned(e) \cap Uploading(p) = {}
        /\ \A t \in Tasks : Owned(e) \cap Awaited(t) = {}
        /\ Owned(e) \subseteq 1..uploads
    BY <1>2 DEF FilesInv, Apart, Known
  <2> QED BY <1>3, <1>8, <1>9, <2>1
<1>12. FilesInv'
  BY <1>2, <1>3, <1>6, <1>7, <1>8, <1>9, <1>10, <1>11, Purges
<1> QED BY <1>4, <1>12

LEMMA DeleteRowsFiles ==
  ASSUME TypeOK, LastFile, FilesInv, NEW q \in EvidenceRequests, NEW rows \in SUBSET LiveRows, DeleteRows(q, rows),
         UNCHANGED <<task, posts, runner>>
  PROVE  LastFile' /\ FilesInv'
<1>0. EvidenceTypeOK /\ UNCHANGED <<blobs, uploads>> /\ \A t \in Tasks : Awaited(t)' = Awaited(t)
  BY TaskFrame DEF TypeOK, DeleteRows
<1>1. /\ DOMAIN evidence' = DOMAIN evidence
      /\ \A e \in DOMAIN evidence :
           evidence'[e] = IF e \in rows THEN [evidence[e] EXCEPT !.live = FALSE, !.files = {}] ELSE evidence[e]
  BY <1>0, DeleteRowsType
<1>2. /\ \A e \in rows : evidence'[e].files = {} /\ ~evidence'[e].live /\ evidence'[e].primary = evidence[e].primary
      /\ \A e \in DOMAIN evidence \ rows : evidence'[e] = evidence[e]
      /\ rows \subseteq DOMAIN evidence
  <2>1. rows \subseteq DOMAIN evidence
    BY DEF LiveRows
  <2> QED BY <1>0, <1>1, <2>1, RowsType DEF Rows
<1>3. PICK purged : purged = UNION {evidence[e].files \cup {evidence[e].primary} : e \in rows}
  OBVIOUS
<1>4. /\ \A p \in EvidenceRequests : p # q => ereq'[p] = ereq[p]
      /\ ereq'[q].pc = "purge" /\ ereq'[q].files = purged
  <2> DEFINE held == [Free EXCEPT !.pc = "purge", !.files = purged]
  <2>1. Hold(q, held)
    BY <1>3 DEF DeleteRows
  <2>2. held.pc = "purge" /\ held.files = purged
    BY DEF Free
  <2> HIDE DEF held
  <2> QED BY <1>0, <2>1, <2>2 DEF Hold, EvidenceTypeOK
<1>5. LastFile'
  <2>1. \A e \in DOMAIN evidence : evidence'[e].files \subseteq evidence[e].files
    BY <1>2
  <2> QED BY <1>1, <1>4, <2>1 DEF LastFile, HoldsAt
<1>6. \A e \in DOMAIN evidence : Owned(e)' \subseteq Owned(e)
  <2>1. \A e \in DOMAIN evidence : evidence'[e].files \subseteq evidence[e].files /\ evidence'[e].primary \in Owned(e)
    BY <1>0, <1>2, OwnedHas
  <2> QED BY <1>4, <2>1, OwnedFrame
<1>7. Listed' \subseteq Listed /\ \A e \in LiveRows' : e \in DOMAIN evidence \ rows /\ evidence'[e] = evidence[e]
  <2>1. \A e \in LiveRows' : e \in DOMAIN evidence \ rows /\ evidence'[e] = evidence[e]
    BY <1>1, <1>2 DEF LiveRows
  <2> QED BY <2>1 DEF Listed, LiveRows
<1>8. /\ \A p \in EvidenceRequests : p # q => Uploading(p)' = Uploading(p) /\ Purging(p)' = Purging(p)
      /\ Uploading(q)' = {} /\ Purging(q)' = purged
  BY <1>4, RequestFrame
<1>9. \A f \in purged : \E e \in rows : f \in Owned(e)
  BY <1>0, <1>2, <1>3, OwnedHas
<1>10. purged \cap Listed' = {}
  <2>1. \A d \in LiveRows', e \in rows : Owned(e) \cap evidence'[d].files = {}
    <3>1. \A d \in DOMAIN evidence \ rows, e \in rows : Owned(e) \cap Owned(d) = {}
      BY <1>2 DEF FilesInv, Apart
    <3> QED BY <1>0, <1>7, <3>1, OwnedHas
  <2> QED BY <1>9, <2>1 DEF Listed
<1>11. /\ \A p \in EvidenceRequests : purged \cap Uploading(p) = {}
       /\ \A t \in Tasks : purged \cap Awaited(t) = {}
       /\ purged \subseteq 1..uploads
  BY <1>2, <1>9 DEF FilesInv, Apart, Known
<1>12. FilesInv'
  BY <1>0, <1>1, <1>6, <1>7, <1>8, <1>10, <1>11, Purges
<1> QED BY <1>5, <1>12

LEMMA DeletionFiles ==
  ASSUME TypeOK, LastFile, FilesInv, NEW q \in EvidenceRequests, Deletion(q), UNCHANGED <<task, posts, runner>>
  PROVE  LastFile' /\ FilesInv'
<1>0. EvidenceTypeOK /\ (\A t \in Tasks : Awaited(t)' = Awaited(t)) /\ Free.pc = "idle" /\ ereq[q] \in Holds
  BY TaskFrame DEF TypeOK, EvidenceTypeOK, Free
<1>1. CASE /\ HoldsAt(q, "purge") /\ UNCHANGED <<evidence, uploads>>
           /\ \E f \in ereq[q].files : blobs' = blobs \ {f} /\ Hold(q, [ereq[q] EXCEPT !.files = @ \ {f}])
  <2>1. PICK f \in ereq[q].files : blobs' = blobs \ {f} /\ Hold(q, [ereq[q] EXCEPT !.files = @ \ {f}])
    BY <1>1
  <2>2. /\ UNCHANGED <<evidence, uploads>> /\ HoldsAt(q, "purge")
        /\ \A p \in EvidenceRequests : p # q => ereq'[p] = ereq[p]
        /\ ereq'[q].pc = "purge" /\ ereq'[q].files \subseteq ereq[q].files
    BY <1>0, <1>1, <2>1 DEF Hold, EvidenceTypeOK, Holds, HoldsAt
  <2>3. LastFile'
    BY <2>2 DEF LastFile, HoldsAt
  <2>4. Listed' = Listed
    BY <2>2 DEF Listed, LiveRows
  <2>5. \A e \in DOMAIN evidence : Owned(e)' \subseteq Owned(e)
    BY <1>0, <2>2, OwnedFrame, OwnedHas
  <2>6. \A p \in EvidenceRequests : Purging(p)' \subseteq Purging(p) /\ Uploading(p)' \subseteq Uploading(p)
    BY <2>2, RequestFrame DEF Purging
  <2>7. f \in Purging(q)
    BY <2>1, <2>2 DEF Purging
  <2>8. FilesInv'
    BY <1>0, <2>1, <2>2, <2>4, <2>5, <2>6, <2>7, Deletes
  <2> QED BY <2>3, <2>8
<1>2. CASE Hold(q, Free) /\ UNCHANGED <<evidence, blobs, uploads>>
  <2>1. /\ \A p \in EvidenceRequests : p # q => ereq'[p] = ereq[p]
        /\ ereq'[q].pc = "idle"
    BY <1>0, <1>2 DEF Hold, EvidenceTypeOK
  <2>2. LastFile'
    BY <1>2, <2>1 DEF LastFile, HoldsAt
  <2>3. Listed' = Listed
    BY <1>2 DEF Listed, LiveRows
  <2>4. \A e \in DOMAIN evidence : Owned(e)' \subseteq Owned(e)
    BY <1>0, <1>2, <2>1, OwnedFrame, OwnedHas
  <2>5. \A p \in EvidenceRequests : Purging(p)' \subseteq Purging(p) /\ Uploading(p)' \subseteq Uploading(p)
    BY <2>1, RequestFrame
  <2> QED BY <1>0, <1>2, <2>2, <2>3, <2>4, <2>5, Shrinks
<1>3. CASE (\E e \in LiveRows : DeleteRows(q, {e})) \/ DeleteRows(q, LiveRows)
  BY <1>3, DeleteRowsFiles
<1>4. CASE delete_files(q)
  BY <1>1, <1>2, <1>4 DEF delete_files
<1>5. CASE RequestStops(q)
  BY <1>2, <1>5 DEF RequestStops
<1> QED BY <1>1, <1>2, <1>3, <1>4, <1>5, DeletionRead, CommitDeletionFiles DEF Deletion

-----------------------------------------------------------------------------
(* The files of the agents.                                                   *)

\* Steps that leave the evidence alone, and give no task a file.
LEMMA AgentLetsGo ==
  ASSUME FilesInv, LastFile, UNCHANGED evidenceVars, \A t \in Tasks : Awaited(t)' \subseteq Awaited(t)
  PROVE  LastFile' /\ FilesInv'
<1>1. UNCHANGED <<evidence, ereq, blobs, uploads>>
  BY DEF evidenceVars
<1> QED BY <1>1, EvidenceFrame, Shrinks

\* A runner that works keeps its files, and a task that was recorded stays recorded.
KeepFiles ==
  \A r \in Runners :
    Working(r)' =>
      \/ runner'[r].files = {}
      \/ Working(r) /\ runner'[r].task = runner[r].task /\ runner'[r].files = runner[r].files

LEMMA AwaitedLess ==
  ASSUME KeepFiles,
         \A t \in Tasks : task[t].recorded => task'[t].recorded,
         posts' \subseteq posts
  PROVE  \A t \in Tasks : Awaited(t)' \subseteq Awaited(t)
BY DEF Awaited, KeepFiles

LEMMA UserFiles ==
  ASSUME TypeOK, FilesInv, LastFile, NEW t \in Tasks, create_task(t) \/ cancel_task(t) \/ resume_task(t)
  PROVE  LastFile' /\ FilesInv'
<1>1. /\ UNCHANGED <<evidenceVars, posts, runner>>
      /\ \A s \in Tasks : task[s].recorded => task'[s].recorded
  BY DEF create_task, cancel_task, resume_task, UserActs, TypeOK, TaskRows
<1>2. \A s \in Tasks : Awaited(s)' \subseteq Awaited(s)
  BY <1>1, AwaitedLess DEF Working, KeepFiles
<1> QED BY <1>1, <1>2, AgentLetsGo

LEMMA AloneFiles ==
  ASSUME TypeOK, FilesInv, LastFile, NEW r \in Runners,
         Alone(r) \/ (GivesUp(r) /\ runner[r].sent # "completed")
  PROVE  LastFile' /\ FilesInv'
<1>0. runner[r] \in RunnerStates
  BY StatesType
<1>1. UNCHANGED <<evidenceVars, task, posts>>
  BY DEF Alone, LoadPolicy, Crash, Start, Pause, PauseTimeout, GivesUp
<1>2. \E state :
        /\ Becomes(r, state)
        /\ \/ state.files = {}
           \/ Working(r) /\ state.task = runner[r].task /\ state.files = runner[r].files
  <2>1. CASE LoadPolicy(r) \/ PauseTimeout(r)
    <3> DEFINE state == [runner[r] EXCEPT !.pc = "run"]
    <3>1. state.task = runner[r].task /\ state.files = runner[r].files
      BY <1>0 DEF RunnerStates
    <3>2. Becomes(r, state) /\ Working(r)
      BY <2>1 DEF LoadPolicy, PauseTimeout, Working
    <3> QED BY <3>1, <3>2
  <2>2. CASE Pause(r)
    <3> DEFINE state == [runner[r] EXCEPT !.pc = "paused", !.left = @ - 1]
    <3>1. state.task = runner[r].task /\ state.files = runner[r].files
      BY <1>0 DEF RunnerStates
    <3>2. Becomes(r, state) /\ Working(r)
      BY <2>2 DEF Pause, Working
    <3> QED BY <3>1, <3>2
  <2>3. \A pc : At(pc).files = {}
    BY DEF At
  <2>4. CASE Crash(r) \/ Start(r) \/ (GivesUp(r) /\ runner[r].sent # "completed")
    BY <2>3, <2>4 DEF Crash, Start, GivesUp
  <2> QED BY <2>1, <2>2, <2>4 DEF Alone
<1>3. KeepFiles
  BY <1>2 DEF Becomes, TypeOK, Working, KeepFiles
<1>4. \A t \in Tasks : Awaited(t)' \subseteq Awaited(t)
  BY <1>1, <1>3, AwaitedLess
<1> QED BY <1>1, <1>4, AgentLetsGo

LEMMA ClaimFiles ==
  ASSUME TypeOK, FilesInv, LastFile, (\E r \in Runners : runner_next_task(r)) \/ UnheardClaim
  PROVE  LastFile' /\ FilesInv'
<1>1. PICK t \in Queued : task' = [task EXCEPT ![t].status = "running"]
  BY DEF runner_next_task, UnheardClaim
<1>2. UNCHANGED <<evidenceVars, posts>>
  BY DEF runner_next_task, UnheardClaim
<1>3. \A s \in Tasks : task[s].recorded => task'[s].recorded
  BY <1>1 DEF Queued, TypeOK, TaskRows
<1>4. KeepFiles
  <2>1. CASE UNCHANGED runner
    BY <2>1 DEF Working, KeepFiles
  <2>2. ASSUME NEW r \in Runners, NEW u, NEW n, Becomes(r, [At("claimed") EXCEPT !.task = u, !.left = n])
        PROVE  KeepFiles
    <3>1. [At("claimed") EXCEPT !.task = u, !.left = n].files = {}
      BY DEF At
    <3> QED BY <2>2, <3>1 DEF Becomes, TypeOK, Working, KeepFiles
  <2> QED BY <2>1, <2>2 DEF runner_next_task, UnheardClaim
<1>5. \A s \in Tasks : Awaited(s)' \subseteq Awaited(s)
  BY <1>2, <1>3, <1>4, AwaitedLess
<1> QED BY <1>2, <1>5, AgentLetsGo

LEMMA PollFiles ==
  ASSUME TypeOK, FilesInv, LastFile, NEW r \in Runners, runner_pause_poll(r)
  PROVE  LastFile' /\ FilesInv'
<1>1. /\ UNCHANGED <<evidenceVars, posts>>
      /\ \A s \in Tasks : task[s].recorded => task'[s].recorded
  BY DEF runner_pause_poll, TypeOK, TaskRows
<1>2. KeepFiles
  <2>1. CASE UNCHANGED runner
    BY <2>1 DEF Working, KeepFiles
  <2>2. CASE Becomes(r, [runner[r] EXCEPT !.pc = "run"])
    BY <2>2, StatesType DEF Becomes, TypeOK, Working, KeepFiles, runner_pause_poll, RunnerStates
  <2> QED BY <2>1, <2>2 DEF runner_pause_poll
<1>3. \A t \in Tasks : Awaited(t)' \subseteq Awaited(t)
  BY <1>1, <1>2, AwaitedLess
<1> QED BY <1>1, <1>3, AgentLetsGo

\* A result takes the files along.
LEMMA SendFiles ==
  ASSUME TypeOK, TaskInv, FilesInv, LastFile, NEW r \in Runners, Sends(r)
  PROVE  LastFile' /\ FilesInv'
<1>1. PICK s \in Finished, files \in SUBSET Files, next \in {"poll", "off"} :
           /\ Send(r, s, files, next)
           /\ next = "off" => "Exit" \in ops
           /\ ~Idle(r)
           /\ files # {} => s = "completed" /\ runner[r].pc = "run" /\ files = runner[r].files
  BY SendsWhat
<1> DEFINE m == [runner |-> r, task |-> runner[r].task, status |-> s, files |-> files]
<1>2. UNCHANGED <<evidenceVars, task>> /\ posts' = posts \cup {m}
  BY <1>1 DEF Send
<1>3. \A q \in Runners : Working(q)' => q # r /\ runner'[q] = runner[q]
  BY <1>1 DEF Send, Becomes, TypeOK, Working, RunnerStates
<1>4. m.task = runner[r].task /\ m.files = files
  OBVIOUS
<1> HIDE DEF m
<1>5. ASSUME NEW t \in Tasks PROVE Awaited(t)' \subseteq Awaited(t)
  <2>1. files # {} => Working(r) /\ files = runner[r].files
    BY <1>1 DEF Working
  <2>2. ASSUME NEW f \in Awaited(t)' PROVE f \in Awaited(t)
    <3>1. CASE \E q \in Runners : Working(q)' /\ runner'[q].task = t /\ f \in runner'[q].files
      <4>1. \E q \in Runners : Working(q) /\ runner[q].task = t /\ f \in runner[q].files
        BY <1>3, <3>1 DEF Working
      <4> QED BY <2>2, <4>1 DEF Awaited
    <3>2. CASE ~task'[t].recorded /\ \E p \in posts' : p.task = t /\ f \in p.files
      <4>1. PICK p \in posts' : p.task = t /\ f \in p.files
        BY <3>2
      <4>2. CASE p = m
        <5>1. Working(r) /\ runner[r].task = t /\ f \in runner[r].files
          BY <1>4, <2>1, <4>1, <4>2
        <5> QED BY <2>2, <5>1 DEF Awaited
      <4>3. CASE p # m
        BY <1>2, <2>2, <3>2, <4>1, <4>3 DEF Awaited
      <4> QED BY <4>2, <4>3
    <3> QED BY <2>2, <3>1, <3>2 DEF Awaited
  <2> QED BY <2>2
<1> QED BY <1>2, <1>5, AgentLetsGo

LEMMA UploadFiles ==
  ASSUME TypeOK, TaskInv, FilesInv, LastFile, NEW r \in Runners, upload_screenshot(r)
  PROVE  LastFile' /\ FilesInv'
<1> DEFINE state == [runner[r] EXCEPT !.files = {uploads + 1}]
<1>1. /\ Becomes(r, state) /\ UNCHANGED <<evidence, ereq, task, posts>>
      /\ runner[r] \in RunnerStates /\ runner[r].pc = "run" /\ uploads \in Nat
      /\ uploads' = uploads + 1 /\ blobs' = blobs \cup {uploads + 1}
  BY StatesType DEF upload_screenshot, save_file, TypeOK, EvidenceTypeOK
<1>2. PICK new : new = {uploads + 1}
  OBVIOUS
<1>3. state.pc = "run" /\ state.task = runner[r].task /\ state.files = new
  BY <1>1, <1>2 DEF RunnerStates
<1> HIDE DEF state
<1>4. \A s \in Runners : runner'[s] = IF s = r THEN state ELSE runner[s]
  BY <1>1 DEF Becomes, TypeOK
<1>5. \A t \in Tasks : Awaited(t)' \subseteq Awaited(t) \cup new
  BY <1>1, <1>3, <1>4 DEF Awaited, Working
<1>6. \A t \in Tasks : t # runner[r].task => Awaited(t)' \subseteq Awaited(t)
  BY <1>1, <1>3, <1>4 DEF Awaited, Working
<1>7. /\ Listed' = Listed /\ LastFile'
      /\ \A e \in DOMAIN evidence : Owned(e)' = Owned(e)
      /\ \A q \in EvidenceRequests : Purging(q)' = Purging(q) /\ Uploading(q)' = Uploading(q)
  BY <1>1, EvidenceFrame
<1>8. new \cap (1..uploads) = {} /\ new \subseteq 1..uploads' /\ 1..uploads \subseteq 1..uploads'
  BY <1>1, <1>2
<1>9. \A s, t \in Tasks : s # t => Awaited(s)' \subseteq Awaited(s) \/ Awaited(t)' \subseteq Awaited(t)
  BY <1>6
<1>10. blobs' = blobs \cup new /\ DOMAIN evidence' = DOMAIN evidence
  BY <1>1, <1>2
<1>11. FilesInv'
  <2>1. /\ Listed' \subseteq Listed
        /\ \A e \in DOMAIN evidence : Owned(e)' \subseteq Owned(e)
        /\ \A q \in EvidenceRequests : Purging(q)' \subseteq Purging(q)
        /\ \A q \in EvidenceRequests : Uploading(q)' \subseteq Uploading(q)
        /\ \A q \in EvidenceRequests : Uploading(q)' \subseteq Uploading(q) \cup new
    BY <1>7
  <2> QED BY <1>5, <1>8, <1>9, <1>10, <2>1, Grows
<1> QED BY <1>7, <1>11

\* The first result of a task takes what the task may leave.
LEMMA ResultFiles ==
  ASSUME TypeOK, TaskInv, FilesInv, LastFile, NEW m, runner_result(m)
  PROVE  LastFile' /\ FilesInv'
<1>1. /\ m \in posts /\ posts' \subseteq posts /\ ApplyResult(m) /\ UNCHANGED <<blobs, uploads, ereq>>
      /\ m \in Posts /\ m.task \in Tasks /\ EvidenceTypeOK
  BY StatesType DEF runner_result, Posts, TypeOK
<1>2. task'[m.task].recorded /\ \A s \in Tasks : task[s].recorded => task'[s].recorded
  BY <1>1, ResultEffect
<1>3. KeepFiles
  <2>1. CASE UNCHANGED runner
    BY <2>1 DEF Working, KeepFiles
  <2>2. CASE Becomes(m.runner, At(runner[m.runner].next))
    <3>1. \A pc : At(pc).files = {}
      BY DEF At
    <3> QED BY <2>2, <3>1 DEF Becomes, TypeOK, Working, KeepFiles
  <2> QED BY <2>1, <2>2 DEF runner_result
<1>4. \A t \in Tasks : Awaited(t)' \subseteq Awaited(t)
  BY <1>1, <1>2, <1>3, AwaitedLess
<1>5. CASE UNCHANGED evidence
  <2>1. UNCHANGED evidenceVars
    BY <1>1, <1>5 DEF evidenceVars
  <2> QED BY <1>4, <2>1, AgentLetsGo
<1>6. CASE ~task[m.task].recorded /\ m.files # {} /\ AddEvidence(m.task, m.files)
  <2> DEFINE row == [live |-> TRUE, task |-> m.task, files |-> m.files, primary |-> Min(m.files)]
  <2>1. m.files \in SUBSET Files /\ Min(m.files) \in m.files /\ evidence' = Append(evidence, row)
    BY <1>1, <1>6, FirstFile DEF AddEvidence, Posts
  <2>2. row \in Rows
    BY <1>1, <2>1 DEF Rows
  <2>3. PICK d :
          /\ d \notin DOMAIN evidence /\ DOMAIN evidence' = DOMAIN evidence \cup {d}
          /\ evidence'[d] = row /\ \A e \in DOMAIN evidence : evidence'[e] = evidence[e]
    BY <1>1, <2>1, <2>2, RowAdded
  <2>4. row.files = m.files /\ row.primary \in m.files
    BY <2>1
  <2> HIDE DEF row
  <2>5. PICK taken : taken = m.files
    OBVIOUS
  <2>6. Owned(d)' \subseteq taken
    <3>1. \A p \in EvidenceRequests : ereq[p].pc = "commit" => ereq[p].row \in DOMAIN evidence
      BY DEF LastFile, HoldsAt
    <3> QED BY <1>1, <2>3, <2>4, <2>5, <3>1 DEF Owned, HoldsAt
  <2>7. \A e \in DOMAIN evidence : Owned(e)' \subseteq Owned(e)
    BY <1>1, <2>3 DEF Owned, HoldsAt
  <2>8. Listed' \subseteq Listed \cup taken
    BY <2>3, <2>4, <2>5 DEF Listed, LiveRows
  <2>9. \A q \in EvidenceRequests : Purging(q)' \subseteq Purging(q) /\ Uploading(q)' \subseteq Uploading(q)
    BY <1>1 DEF Purging, Uploading, HoldsAt
  <2>10. \E t \in Tasks : taken \subseteq Awaited(t) /\ Awaited(t)' = {}
    <3>1. taken \subseteq Awaited(m.task)
      BY <1>1, <1>6, <2>1, <2>5 DEF Awaited
    <3>2. \A r \in Runners : Working(r)' /\ runner'[r].task = m.task => runner'[r].files = {}
      BY <1>1, <1>3 DEF KeepFiles, TaskInv, RunnerInv
    <3>3. Awaited(m.task)' = {}
      <4> SUFFICES ASSUME NEW f \in Awaited(m.task)' PROVE FALSE
        OBVIOUS
      <4>1. CASE \E r \in Runners : Working(r)' /\ runner'[r].task = m.task /\ f \in runner'[r].files
        BY <3>2, <4>1
      <4>2. CASE ~task'[m.task].recorded
        BY <1>2, <4>2
      <4> QED BY <4>1, <4>2 DEF Awaited
    <3> QED BY <1>1, <3>1, <3>3
  <2>11. LastFile'
    BY <1>1, <2>3 DEF LastFile, HoldsAt
  <2>12. FilesInv'
    BY <1>1, <1>4, <2>3, <2>6, <2>7, <2>8, <2>9, <2>10, Adds
  <2> QED BY <2>11, <2>12
<1> QED BY <1>1, <1>5, <1>6 DEF ApplyResult

\* Only a capture gives a runner files it did not have.
LEMMA KeptFiles ==
  ASSUME TypeOK, [Next]_vars
  PROVE  \A r \in Runners :
           runner'[r].files \in {{}, runner[r].files} \/ upload_screenshot(r)
<1> SUFFICES ASSUME NEW r \in Runners, ~upload_screenshot(r) PROVE runner'[r].files \in {{}, runner[r].files}
  OBVIOUS
<1>1. \A s \in Runners : runner[s] \in RunnerStates
  BY StatesType
<1>2. \A pc : At(pc).files = {}
  BY DEF At
<1>3. ASSUME NEW s \in Runners, NEW state, Becomes(s, state), s = r => state.files \in {{}, runner[r].files}
      PROVE  runner'[r].files \in {{}, runner[r].files}
  BY <1>3 DEF Becomes, TypeOK
<1>4. ASSUME NEW s \in Runners, Alone(s) \/ (GivesUp(s) /\ runner[s].sent # "completed")
      PROVE  runner'[r].files \in {{}, runner[r].files}
  <2>1. CASE LoadPolicy(s) \/ PauseTimeout(s)
    <3>1. Becomes(s, [runner[s] EXCEPT !.pc = "run"])
      BY <2>1 DEF LoadPolicy, PauseTimeout
    <3> QED BY <1>1, <1>3, <3>1 DEF RunnerStates
  <2>2. CASE Pause(s)
    <3>1. Becomes(s, [runner[s] EXCEPT !.pc = "paused", !.left = @ - 1])
      BY <2>2 DEF Pause
    <3> QED BY <1>1, <1>3, <3>1 DEF RunnerStates
  <2>3. CASE Crash(s) \/ Start(s) \/ (GivesUp(s) /\ runner[s].sent # "completed")
    BY <1>2, <1>3, <2>3 DEF Crash, Start, GivesUp
  <2> QED BY <1>4, <2>1, <2>2, <2>3 DEF Alone
<1>5. ASSUME NEW s \in Runners, Sends(s) PROVE runner'[r].files \in {{}, runner[r].files}
  <2>1. PICK p \in Finished, next \in {"poll", "off"} :
          Becomes(s, [runner[s] EXCEPT !.pc = "await", !.sent = p, !.next = next])
    BY ZenonT(30), <1>5, SendsWhat DEF Send
  <2> QED BY <1>1, <1>3, <2>1 DEF RunnerStates
<1>6. ASSUME NEW s \in Runners, runner_next_task(s) \/ runner_pause_poll(s)
      PROVE  runner'[r].files \in {{}, runner[r].files}
  <2>1. ASSUME NEW t, NEW n, Becomes(s, [At("claimed") EXCEPT !.task = t, !.left = n])
        PROVE  runner'[r].files = {} \/ s # r
    <3>1. [At("claimed") EXCEPT !.task = t, !.left = n].files = {}
      BY DEF At
    <3> QED BY <2>1, <3>1 DEF Becomes, TypeOK
  <2>2. CASE Becomes(s, [runner[s] EXCEPT !.pc = "run"])
    BY <1>1, <1>3, <2>2 DEF RunnerStates
  <2>3. \A state : Becomes(s, state) /\ s # r => runner'[r] = runner[r]
    BY DEF Becomes, TypeOK
  <2> QED BY <1>6, <2>1, <2>2, <2>3 DEF runner_next_task, runner_pause_poll
<1>7. ASSUME NEW s \in Runners, upload_screenshot(s) PROVE runner'[r] = runner[r]
  BY <1>7 DEF upload_screenshot, Becomes, TypeOK
<1>8. ASSUME NEW m \in posts, runner_result(m) PROVE runner'[r].files \in {{}, runner[r].files}
  <2>1. m.runner \in Runners
    BY StatesType DEF Posts
  <2> QED BY <1>2, <1>3, <1>8, <2>1 DEF runner_result
<1>9. CASE \/ UNCHANGED vars \/ Evidence \/ UnheardClaim
           \/ \E t \in Tasks : create_task(t) \/ cancel_task(t) \/ resume_task(t)
  BY <1>9 DEF vars, Evidence, UnheardClaim, create_task, cancel_task, resume_task, UserActs
<1> QED BY <1>4, <1>5, <1>6, <1>7, <1>8, <1>9, Kinds

-----------------------------------------------------------------------------
(* The theorems.                                                              *)

LEMMA InitInv == Init => IInv
<1> SUFFICES ASSUME Init PROVE IInv
  OBVIOUS
<1>1. /\ evidence = <<>> /\ blobs = {} /\ uploads = 0 /\ posts = {} /\ ops \in Mixes
      /\ ereq = [q \in EvidenceRequests |-> Free] /\ Free.pc = "idle"
      /\ \A t \in Tasks : /\ task[t].status = "none" /\ task[t].recorded = FALSE
                          /\ task[t].resume_requested = FALSE /\ task[t].clicks = 0 /\ task[t].resumed = 0
  BY DEF Init, EvidenceInit, Free
<1>2. PICK r \in Runners : runner = [s \in Runners |-> At(IF s = r THEN "poll" ELSE "off")]
  BY DEF Init
<1>3. \A s \in Runners :
        /\ runner[s] = At(IF s = r THEN "poll" ELSE "off")
        /\ runner[s].pc = (IF s = r THEN "poll" ELSE "off") /\ runner[s].task = None /\ runner[s].files = {}
        /\ runner[s].next = "poll"
  BY <1>2 DEF At
<1>4. TypeOK
  <2>1. EvidenceTypeOK
    BY <1>1, FreeType, EmptySeq DEF EvidenceTypeOK
  <2>2. task \in [Tasks -> TaskRows]
    BY DEF Init, TaskRows
  <2>3. runner \in [Runners -> RunnerStates]
    BY <1>2, AtType
  <2> QED BY <1>1, <2>1, <2>2, <2>3 DEF TypeOK
<1>5. TaskInv
  <2>1. RunnerInv
    BY <1>1, <1>3 DEF RunnerInv, Idle, Working, Taken, None
  <2>2. ResultInv /\ PauseInv
    BY <1>1 DEF ResultInv, PauseInv, Taken
  <2>3. AloneInv
    BY <1>1, <1>3 DEF AloneInv
  <2> QED BY <2>1, <2>2, <2>3 DEF TaskInv
<1>6. LastFile
  BY <1>1 DEF LastFile, HoldsAt
<1>7. FilesInv
  <2>1. DOMAIN evidence = {}
    BY <1>1
  <2>2. /\ Listed = {}
        /\ \A q \in EvidenceRequests : Uploading(q) = {} /\ Purging(q) = {}
        /\ \A t \in Tasks : Awaited(t) = {}
    BY <1>1, <1>3, <2>1 DEF Listed, LiveRows, Uploading, Purging, Awaited, HoldsAt
  <2> QED BY <1>1, <2>1, <2>2 DEF FilesInv, Stored, Known, Apart, PurgedOnly
<1> QED BY <1>4, <1>5, <1>6, <1>7 DEF IInv

LEMMA StepInv == IInv /\ [Next]_vars => IInv'
<1> SUFFICES ASSUME IInv, [Next]_vars PROVE IInv'
  OBVIOUS
<1> USE DEF IInv
<1>1. TypeOK' /\ TaskInv'
  BY TaskStep
<1>2. CASE Evidence
  <2>1. PICK q \in EvidenceRequests : Submission(q) \/ Deletion(q)
    BY <1>2 DEF Evidence
  <2> QED BY <1>1, <1>2, <2>1, SubmissionFiles, DeletionFiles DEF Evidence
<1>3. CASE UNCHANGED vars
  <2>1. UNCHANGED evidenceVars /\ UNCHANGED <<task, posts, runner>>
    BY <1>3 DEF vars, evidenceVars
  <2>2. \A t \in Tasks : Awaited(t)' \subseteq Awaited(t)
    BY <2>1, TaskFrame
  <2> QED BY <1>1, <2>1, <2>2, AgentLetsGo
<1>4. CASE Next /\ ~Evidence
  <2>1. LastFile' /\ FilesInv'
    BY <1>4, Kinds, UserFiles, AloneFiles, SendFiles, ClaimFiles, UploadFiles, PollFiles, ResultFiles
  <2> QED BY <1>1, <2>1
<1> QED BY <1>2, <1>3, <1>4

\* For any number of tasks, runners and requests, the invariant holds.
THEOREM Invariance == Spec => []IInv
BY InitInv, StepInv, PTL DEF Spec

\* The rows, what requests and runners hold, and the results on their way are of their types.
THEOREM TypeCorrect == Spec => []TypeOK
<1>1. IInv => TypeOK
  BY DEF IInv
<1> QED BY <1>1, Invariance, PTL

\* A file that is listed can be downloaded, however submissions, deletions, results
\* and failures interleave: no blob is deleted that a row still lists.
THEOREM StoredFiles == Spec => []FilesStored
<1>1. IInv => FilesStored
  BY DEF IInv, FilesInv, Stored, Listed, FilesStored
<1> QED BY <1>1, Invariance, PTL

\* A click on Resume ends one pause at most.
THEOREM PausesNeedClicks == Spec => []OnePausePerResume
<1>1. IInv => OnePausePerResume
  BY DEF IInv, TypeOK, TaskRows, TaskInv, PauseInv, OnePausePerResume
<1> QED BY <1>1, Invariance, PTL

\* A screenshot is filed under the task it was taken for, or under one with a higher id
\* that runs as well, and under no other unless the task was cancelled; and where no claim
\* goes unheard, no process ends and no second runner is started, under its own alone.
THEOREM FiledRight == Spec => ScreenshotsFiledUnderTheirTask
<1>1. ASSUME IInv, [Next]_vars, NEW r \in Runners, runner'[r].files # runner[r].files, runner'[r].files # {}
      PROVE  \/ _running_task_for = runner[r].task
             \/ _running_task_for > runner[r].task /\ ops \cap {"Lost", "Exit", "SecondRunner"} # {}
             \/ task[runner[r].task].status = "cancelled"
  <2>0. TypeOK /\ TaskInv
    BY <1>1 DEF IInv
  <2> USE <2>0
  <2>1. upload_screenshot(r)
    BY <1>1, KeptFiles
  <2>2. runner[r].pc = "run"
    BY <2>1 DEF upload_screenshot
  <2> DEFINE t == runner[r].task
             Running == {u \in Tasks : task[u].status = "running"}
  <2>3. t \in Tasks /\ Taken(t) /\ ~task[t].recorded
    <3>1. Working(r) /\ ~Idle(r) /\ t \in Tasks \cup {None}
      BY <2>2, StatesType DEF Working, Idle, RunnerStates
    <3> QED BY <3>1 DEF TaskInv, RunnerInv
  <2>4. task[t].status \in {"running", "cancelled"}
    <3>1. task[t].status \in {"none", "queued", "running", "completed", "failed", "cancelled"}
      BY <2>3, StatesType DEF TaskRows, Finished
    <3> QED BY <2>3, <3>1 DEF TaskInv, ResultInv, Taken
  <2>5. ASSUME task[t].status = "running"
        PROVE  /\ _running_task_for \in Running /\ _running_task_for >= t
               /\ _running_task_for \in Nat /\ t \in Nat
    <3>1. t \in Running /\ Running \subseteq Tasks
      BY <2>3, <2>5
    <3>2. Running \in SUBSET Nat /\ IsFiniteSet(Running)
      BY <3>1, FS_Subset
    <3>3. _running_task_for = Max(Running)
      BY <3>1 DEF _running_task_for
    <3> QED BY <3>1, <3>2, <3>3, GreatestOf
  <2>6. ASSUME task[t].status = "running", Faultless PROVE _running_task_for = t
    <3>1. \A u \in Tasks : task[u].status = "running" => u = t
      BY <2>2, <2>6 DEF TaskInv, AloneInv
    <3> QED BY <2>5, <2>6, <3>1
  <2> QED BY <2>4, <2>5, <2>6 DEF Faultless
<1>2. IInv /\ [Next]_vars =>
        [\A r \in Runners :
           LET t     == runner[r].task
               filed == _running_task_for
           IN runner'[r].files # runner[r].files /\ runner'[r].files # {} =>
                \/ filed = t
                \/ filed > t /\ ops \cap {"Lost", "Exit", "SecondRunner"} # {}
                \/ task[t].status = "cancelled"]_vars
  BY <1>1
<1> QED BY <1>2, Invariance, PTL DEF Spec, ScreenshotsFiledUnderTheirTask

-----------------------------------------------------------------------------
(* The queue keeps its promise.                                              *)

\* The evidence of a task.
By(t) == {e \in DOMAIN evidence : evidence[e].task = t}

LEMMA ByFinite ==
  ASSUME EvidenceTypeOK
  PROVE  \A t : IsFiniteSet(By(t))
<1>1. IsFiniteSet(DOMAIN evidence)
  BY LenProperties, FS_Interval DEF EvidenceTypeOK
<1> QED BY <1>1, FS_Subset DEF By

\* Users' requests neither add to nor take from it.
LEMMA EvidenceBy ==
  ASSUME TypeOK, LastFile, Evidence
  PROVE  \A t \in Tasks : By(t)' = By(t)
<1>0. EvidenceTypeOK
  BY DEF TypeOK
<1>1. PICK q \in EvidenceRequests : Submission(q) \/ Deletion(q)
  BY DEF Evidence
<1>2. CASE CommitEvidence(q)
  <2> DEFINE row == [live |-> TRUE, task |-> 0, files |-> ereq[q].files, primary |-> Min(ereq[q].files)]
  <2>1. evidence' = Append(evidence, row) /\ row \in Rows /\ row.task = 0
    BY <1>0, <1>2, FirstFile DEF CommitEvidence, AddEvidence, Rows, EvidenceTypeOK, Holds
  <2> HIDE DEF row
  <2>2. PICK n : /\ n \notin DOMAIN evidence /\ DOMAIN evidence' = DOMAIN evidence \cup {n}
                 /\ evidence'[n] = row
                 /\ \A e \in DOMAIN evidence : evidence'[e] = evidence[e]
    BY <1>0, <2>1, RowAdded
  <2>3. 0 \notin Tasks
    OBVIOUS
  <2> QED BY <2>1, <2>2, <2>3 DEF By
<1>3. CASE CommitDeletion(q)
  <2>1. /\ DOMAIN evidence' = DOMAIN evidence
        /\ \A e \in DOMAIN evidence : evidence'[e].task = evidence[e].task
    BY <1>0, <1>3, CommitDeletionEffect
  <2> QED BY <2>1 DEF By
<1>4. ASSUME NEW rows \in SUBSET LiveRows, DeleteRows(q, rows) PROVE \A t \in Tasks : By(t)' = By(t)
  <2>1. /\ DOMAIN evidence' = DOMAIN evidence
        /\ \A e \in DOMAIN evidence : evidence'[e].task = evidence[e].task
    <3>1. /\ DOMAIN evidence' = DOMAIN evidence
          /\ \A e \in DOMAIN evidence :
               evidence'[e] = IF e \in rows THEN [evidence[e] EXCEPT !.live = FALSE, !.files = {}] ELSE evidence[e]
      BY <1>0, <1>4, DeleteRowsType
    <3> QED BY <1>0, <3>1, RowsType DEF Rows
  <2> QED BY <2>1 DEF By
<1>5. CASE UNCHANGED evidence
  BY <1>5 DEF By
<1>6. Submission(q) => CommitEvidence(q) \/ UNCHANGED evidence
  BY DEF Submission, create_evidence, UploadNext, CreateFails
<1>7. Deletion(q) => CommitDeletion(q) \/ UNCHANGED evidence \/ \E rows \in SUBSET LiveRows : DeleteRows(q, rows)
  BY DEF Deletion, delete_evidence_file, delete_files, RequestStops
<1> QED BY <1>1, <1>2, <1>3, <1>4, <1>5, <1>6, <1>7

\* What the abstract queue sees of a step.
Same == \A t \in Tasks : By(t)' = By(t)

Seen(t, status) ==
  \A s \in Tasks :
    /\ task'[s].recorded = task[s].recorded
    /\ task'[s].status = IF s = t THEN status ELSE task[s].status

LEMMA QueueStutters ==
  ASSUME Same, \A t \in Tasks : task'[t].status = task[t].status /\ task'[t].recorded = task[t].recorded
  PROVE  UNCHANGED Queue!taskVars
<1>1. \A t \in Tasks : Cardinality(By(t))' = Cardinality(By(t))
  BY DEF Same
<1> QED BY <1>1 DEF Queue!taskVars, By

LEMMA QueueMoves ==
  ASSUME Same, NEW t \in Tasks, NEW status, Seen(t, status),
         \/ task[t].status = "none" /\ status = "queued"
         \/ task[t].status = "queued" /\ status = "running"
         \/ task[t].status \in {"queued", "running"} /\ status = "cancelled"
  PROVE  Queue!Next
<1>1. \A s \in Tasks : Cardinality(By(s))' = Cardinality(By(s))
  BY DEF Same
<1>2. /\ [s \in Tasks |-> task'[s].recorded] = [s \in Tasks |-> task[s].recorded]
      /\ [s \in Tasks |-> Cardinality(By(s))'] = [s \in Tasks |-> Cardinality(By(s))]
      /\ [s \in Tasks |-> task'[s].status] = [[s \in Tasks |-> task[s].status] EXCEPT ![t] = status]
  BY <1>1 DEF Seen
<1>3. Queue!Create(t) \/ Queue!Claim(t) \/ Queue!Cancel(t)
  BY <1>2 DEF Queue!Create, Queue!Claim, Queue!Cancel, Queue!Move, By
<1> QED BY <1>3 DEF Queue!Next

\* An evidence added for a task is one more of its own.
LEMMA EvidenceAdded ==
  ASSUME EvidenceTypeOK, NEW t \in Tasks, NEW files \in SUBSET Files, files # {}, AddEvidence(t, files)
  PROVE  /\ \A s \in Tasks : s # t => By(s)' = By(s)
         /\ By(t)' # By(t) /\ Cardinality(By(t))' = Cardinality(By(t)) + 1
<1> DEFINE row == [live |-> TRUE, task |-> t, files |-> files, primary |-> Min(files)]
<1>1. evidence' = Append(evidence, row) /\ row \in Rows /\ row.task = t
  BY FirstFile DEF AddEvidence, Rows
<1> HIDE DEF row
<1>2. PICK n : /\ n \notin DOMAIN evidence /\ DOMAIN evidence' = DOMAIN evidence \cup {n}
               /\ evidence'[n] = row
               /\ \A e \in DOMAIN evidence : evidence'[e] = evidence[e]
  BY <1>1, RowAdded
<1>3. By(t)' = By(t) \cup {n} /\ n \notin By(t)
  BY <1>1, <1>2 DEF By
<1>4. IsFiniteSet(By(t))
  BY ByFinite
<1>5. Cardinality(By(t) \cup {n}) = Cardinality(By(t)) + 1
  BY <1>3, <1>4, FS_AddElement
<1>6. Cardinality(By(t))' = Cardinality(By(t) \cup {n})
  BY <1>3
<1>7. \A s \in Tasks : s # t => By(s)' = By(s)
  BY <1>1, <1>2 DEF By
<1> QED BY <1>3, <1>5, <1>6, <1>7

LEMMA QueueRecords ==
  ASSUME TypeOK, TaskInv, NEW m \in posts, ApplyResult(m)
  PROVE  Queue!Next \/ UNCHANGED Queue!taskVars
<1>0. EvidenceTypeOK
  BY DEF TypeOK
<1>1. /\ m \in Posts /\ m.task \in Tasks /\ m.status \in Finished /\ m.files \in SUBSET Files
      /\ \A s \in Tasks :
           /\ task'[s].recorded = (s = m.task \/ task[s].recorded)
           /\ task'[s].status = IF s = m.task /\ ~task[s].recorded /\ task[s].status # "cancelled"
                                  THEN m.status ELSE task[s].status
  BY ResultEffect DEF Posts
<1>2. PICK t \in Tasks : t = m.task
  BY <1>1
<1>3. task[t] \in TaskRows /\ Taken(t) /\ task[t].recorded \in BOOLEAN
  BY <1>2, StatesType DEF TaskInv, ResultInv, TaskRows
<1>4. CASE task[t].recorded
  <2>1. Same
    BY <1>2, <1>4 DEF ApplyResult, Same, By
  <2>2. \A s \in Tasks : task'[s].status = task[s].status /\ task'[s].recorded = task[s].recorded
    <3>1. ASSUME NEW s \in Tasks PROVE task'[s].status = task[s].status /\ task'[s].recorded = task[s].recorded
      <4>1. task[s].recorded \in BOOLEAN
        BY StatesType DEF TaskRows
      <4> QED BY <1>1, <1>2, <1>4, <4>1
    <3> QED BY <3>1
  <2> QED BY <2>1, <2>2, QueueStutters
<1>5. CASE ~task[t].recorded
  <2>1. task[t].status \in {"running", "cancelled"}
    <3>1. task[t].status \in {"none", "queued", "running", "completed", "failed", "cancelled"}
      BY <1>3 DEF TaskRows, Finished
    <3> QED BY <1>3, <1>5, <3>1 DEF TaskInv, ResultInv, Taken
  <2>2. [s \in Tasks |-> task'[s].recorded] = [[s \in Tasks |-> task[s].recorded] EXCEPT ![t] = TRUE]
    <3>1. ASSUME NEW s \in Tasks PROVE task'[s].recorded = IF s = t THEN TRUE ELSE task[s].recorded
      <4>1. task[s].recorded \in BOOLEAN
        BY StatesType DEF TaskRows
      <4> QED BY <1>1, <1>2, <4>1
    <3> QED BY <3>1
  <2>3. \A s \in Tasks : s # t => By(s)' = By(s)
    <3>1. CASE UNCHANGED evidence
      BY <3>1 DEF By
    <3>2. CASE m.files # {} /\ AddEvidence(m.task, m.files)
      BY <1>0, <1>1, <1>2, <3>2, EvidenceAdded
    <3> QED BY <3>1, <3>2 DEF ApplyResult
  <2>4. CASE task[t].status = "cancelled"
    <3>1. UNCHANGED evidence
      BY <1>2, <2>4 DEF ApplyResult
    <3>2. \A s \in Tasks : Cardinality(By(s))' = Cardinality(By(s))
      BY <3>1 DEF By
    <3>3. \A s \in Tasks : task'[s].status = task[s].status
      BY <1>1, <1>2, <2>4
    <3>4. Queue!Record(t)
      BY <1>5, <2>2, <2>4, <3>2, <3>3 DEF Queue!Record, By
    <3> QED BY <3>4 DEF Queue!Next
  <2>5. CASE task[t].status = "running"
    <3>1. [s \in Tasks |-> task'[s].status] = [[s \in Tasks |-> task[s].status] EXCEPT ![t] = m.status]
      BY <1>1, <1>2, <1>5, <2>5
    <3>2. m.status \in Queue!Ended
      BY <1>1 DEF Queue!Ended, Finished
    <3>3. \/ UNCHANGED evidence
          \/ m.status = "completed" /\ By(t)' # By(t) /\ Cardinality(By(t))' = Cardinality(By(t)) + 1
      <4>1. CASE m.files # {} /\ AddEvidence(m.task, m.files)
        <5>1. m.status = "completed"
          BY <4>1 DEF TaskInv, ResultInv
        <5> QED BY <1>0, <1>1, <1>2, <4>1, <5>1, EvidenceAdded
      <4> QED BY <4>1 DEF ApplyResult
    <3>4. CASE UNCHANGED evidence
      <4>1. \A s \in Tasks : Cardinality(By(s))' = Cardinality(By(s))
        BY <3>4 DEF By
      <4>2. Queue!Record(t)
        BY ZenonT(30), <1>5, <2>2, <2>5, <3>1, <3>2, <4>1 DEF Queue!Record, Queue!Move, By
      <4> QED BY <4>2 DEF Queue!Next
    <3>5. CASE m.status = "completed" /\ Cardinality(By(t))' = Cardinality(By(t)) + 1
      <4>1. [s \in Tasks |-> Cardinality(By(s))'] =
              [[s \in Tasks |-> Cardinality(By(s))] EXCEPT ![t] = Cardinality(By(t)) + 1]
        <5>1. \A s \in Tasks : s # t => Cardinality(By(s))' = Cardinality(By(s))
          BY <2>3
        <5> QED BY <3>5, <5>1
      <4>2. Queue!Record(t)
        BY <1>5, <2>2, <2>5, <3>1, <3>2, <3>5, <4>1 DEF Queue!Record, Queue!Move, By
      <4> QED BY <4>2 DEF Queue!Next
    <3> QED BY <3>3, <3>4, <3>5
  <2> QED BY <2>1, <2>4, <2>5
<1> QED BY <1>3, <1>4, <1>5

\* A task ends once, and produces evidence at most once: for any number of tasks, runners
\* and requests, the agents' queue implements the abstract one.
THEOREM QueueImplemented == Spec => TaskEndsOnce
<1>1. Init => Queue!Init
  <2> SUFFICES ASSUME Init PROVE Queue!Init
    OBVIOUS
  <2>1. \A t \in Tasks : task[t].status = "none" /\ task[t].recorded = FALSE
    BY DEF Init
  <2>2. \A t \in Tasks : Cardinality({e \in DOMAIN evidence : evidence[e].task = t}) = 0
    <3>1. DOMAIN evidence = {}
      BY DEF Init, EvidenceInit
    <3> QED BY <3>1, FS_EmptySet
  <2> QED BY <2>1, <2>2 DEF Queue!Init
<1>2. ASSUME IInv, [Next]_vars PROVE Queue!Next \/ UNCHANGED Queue!taskVars
  <2>0. TypeOK /\ TaskInv /\ LastFile
    BY <1>2 DEF IInv
  <2>1. CASE Evidence
    <3>1. Same
      BY <2>0, <2>1, EvidenceBy DEF Same
    <3>2. UNCHANGED task
      BY <2>1 DEF Evidence
    <3> QED BY <3>1, <3>2, QueueStutters
  <2>2. ASSUME UNCHANGED evidence PROVE Same
    BY <2>2 DEF Same, By
  <2>3. ASSUME NEW t \in Tasks, create_task(t) \/ cancel_task(t) \/ resume_task(t)
        PROVE  Queue!Next \/ UNCHANGED Queue!taskVars
    <3>1. Same
      BY <2>2, <2>3 DEF create_task, cancel_task, resume_task, UserActs, evidenceVars
    <3>2. CASE create_task(t)
      BY <2>0, <3>1, <3>2, QueueMoves DEF create_task, Seen, TypeOK, TaskRows
    <3>3. CASE cancel_task(t)
      <4>1. Seen(t, "cancelled") /\ task[t].status \in {"queued", "running"}
        BY <2>0, <3>3 DEF cancel_task, Seen, TypeOK, TaskRows
      <4> QED BY <3>1, <4>1, QueueMoves
    <3>4. CASE resume_task(t)
      BY <2>0, <3>1, <3>4, QueueStutters DEF resume_task, TypeOK, TaskRows
    <3> QED BY <2>3, <3>2, <3>3, <3>4
  <2>4. ASSUME (\E r \in Runners : runner_next_task(r)) \/ UnheardClaim PROVE Queue!Next
    <3>1. PICK t \in Tasks : task[t].status = "queued" /\ task' = [task EXCEPT ![t].status = "running"]
      BY <2>4 DEF runner_next_task, UnheardClaim, Queued
    <3>2. Same
      BY <2>2, <2>4 DEF runner_next_task, UnheardClaim, evidenceVars
    <3>3. Seen(t, "running")
      BY <2>0, <3>1 DEF Seen, TypeOK, TaskRows
    <3> QED BY <3>1, <3>2, <3>3, QueueMoves
  <2>5. ASSUME NEW r \in Runners, runner_pause_poll(r) PROVE UNCHANGED Queue!taskVars
    <3>1. \A t \in Tasks : task'[t].status = task[t].status /\ task'[t].recorded = task[t].recorded
      BY <2>0, <2>5 DEF runner_pause_poll, TypeOK, TaskRows
    <3>2. Same
      BY <2>2, <2>5 DEF runner_pause_poll, evidenceVars
    <3> QED BY <3>1, <3>2, QueueStutters
  <2>6. ASSUME NEW r \in Runners,
               Alone(r) \/ Sends(r) \/ upload_screenshot(r) \/ (GivesUp(r) /\ runner[r].sent # "completed")
        PROVE  UNCHANGED Queue!taskVars
    <3>1. UNCHANGED <<evidence, task>>
      <4>1. Sends(r) => UNCHANGED <<evidence, task>>
        BY <2>0, SendsWhat DEF Send, evidenceVars
      <4> QED BY <2>6, <4>1 DEF Alone, LoadPolicy, Crash, Start, Pause, PauseTimeout, upload_screenshot, GivesUp,
                               evidenceVars
    <3> QED BY <2>2, <3>1, QueueStutters
  <2>7. ASSUME NEW m \in posts, runner_result(m) PROVE Queue!Next \/ UNCHANGED Queue!taskVars
    BY <2>0, <2>7, QueueRecords DEF runner_result
  <2>8. CASE UNCHANGED vars
    <3>1. UNCHANGED <<evidence, task>>
      BY <2>8 DEF vars
    <3> QED BY <2>2, <3>1, QueueStutters
  <2> QED BY <1>2, <2>1, <2>3, <2>4, <2>5, <2>6, <2>7, <2>8, Kinds
<1> QED BY <1>1, <1>2, Invariance, PTL DEF Spec, TaskEndsOnce, Queue!Spec

=============================================================================
