---------------------------- MODULE EvidenceStore ----------------------------
(* The evidence of the evidence app: its rows, the rows of its files, and    *)
(* the blobs these name.  The blobs are outside the database: a request      *)
(* uploads them before its transaction and deletes them after it, with the   *)
(* steps of other requests in between, and may stop at any point.            *)
EXTENDS Naturals, Sequences, FiniteSetsExt

CONSTANTS EvidenceRequests,   \* requests of users about evidence in flight at the same time
          MaxFiles,           \* bound on the blobs ever uploaded
          MaxUpload           \* bound on the files of one manual submission

ASSUME EvidenceAssumption == MaxFiles \in Nat /\ MaxUpload \in Nat \ {0}

VARIABLES evidence,   \* the rows, in the order of their insertion
          blobs,      \* the stored blobs, named in the order of their upload
          uploads,    \* how many blobs were uploaded so far
          ereq        \* what each request holds between two steps

evidenceVars == <<evidence, blobs, uploads, ereq>>

Files == 1..MaxFiles

\* task: the agent task that produced it, or 0; files: its EvidenceFile rows;
\* primary: the legacy file_name of the row itself.
Rows == [live : BOOLEAN, task : Nat, files : SUBSET Files, primary : Files]

\* files: uploaded by, or to be purged by, the request; row, file, survivor,
\* wasPrimary: what the deletion of a file has read.
Holds == [pc : {"idle", "upload", "commit", "purge"}, row : Nat, file : 0..MaxFiles,
          survivor : 0..MaxFiles, wasPrimary : BOOLEAN, files : SUBSET Files]

Free == [pc |-> "idle", row |-> 0, file |-> 0, survivor |-> 0, wasPrimary |-> FALSE, files |-> {}]

EvidenceTypeOK ==
  /\ evidence \in Seq(Rows)
  /\ blobs \in SUBSET Files /\ uploads \in 0..MaxFiles
  /\ ereq \in [EvidenceRequests -> Holds]

EvidenceInit ==
  /\ evidence = <<>> /\ blobs = {} /\ uploads = 0
  /\ ereq = [q \in EvidenceRequests |-> Free]

LiveRows == {e \in DOMAIN evidence : evidence[e].live}

-----------------------------------------------------------------------------
\* save_file: every blob has a fresh name.
save_file == uploads < MaxFiles /\ uploads' = uploads + 1 /\ blobs' = blobs \cup {uploads + 1}

\* The row of an evidence and the rows of its files; the first file is also its own.
AddEvidence(t, files) ==
  evidence' = Append(evidence, [live |-> TRUE, task |-> t, files |-> files, primary |-> Min(files)])

Hold(q, next) == ereq' = [ereq EXCEPT ![q] = next]
HoldsAt(q, pc) == ereq[q].pc = pc

\* create_evidence: one upload after the other, then one transaction.
create_evidence(q) ==
  /\ ereq[q] = Free
  /\ Hold(q, [Free EXCEPT !.pc = "upload"])
  /\ UNCHANGED <<evidence, blobs, uploads>>

UploadNext(q) ==
  /\ HoldsAt(q, "upload") /\ Cardinality(ereq[q].files) < MaxUpload
  /\ save_file
  /\ Hold(q, [ereq[q] EXCEPT !.files = @ \cup {uploads + 1}])
  /\ UNCHANGED evidence

CommitEvidence(q) ==
  /\ HoldsAt(q, "upload") /\ ereq[q].files # {}
  /\ AddEvidence(0, ereq[q].files)
  /\ Hold(q, Free)
  /\ UNCHANGED <<blobs, uploads>>

\* An upload, or the transaction, fails: what was uploaded is deleted again.
CreateFails(q) ==
  /\ HoldsAt(q, "upload")
  /\ Hold(q, [Free EXCEPT !.pc = "purge", !.files = ereq[q].files])
  /\ UNCHANGED <<evidence, blobs, uploads>>

-----------------------------------------------------------------------------
\* delete_evidence_file reads the file, its evidence, and the file that would be
\* the first without it.
delete_evidence_file(q) ==
  /\ ereq[q] = Free
  /\ \E e \in LiveRows : \E f \in evidence[e].files :
       LET remaining == evidence[e].files \ {f} IN
       Hold(q, [Free EXCEPT !.pc = "commit", !.row = e, !.file = f, !.wasPrimary = (f = evidence[e].primary),
                            !.survivor = IF remaining = {} THEN 0 ELSE Min(remaining)])
  /\ UNCHANGED <<evidence, blobs, uploads>>

\* Mutant: the blob is deleted before the transaction, which may still fail.
CommitDeletion_BlobFirst(q) ==
  LET e == ereq[q].row
      f == ereq[q].file IN
  /\ HoldsAt(q, "commit")
  /\ evidence[e].live /\ f \in evidence[e].files
  /\ \/ f \in blobs /\ blobs' = blobs \ {f} /\ UNCHANGED <<evidence, ereq>>
     \/ /\ f \notin blobs
        /\ evidence' = [evidence EXCEPT ![e].files = @ \ {f}]
        /\ Hold(q, Free) /\ UNCHANGED blobs
  /\ UNCHANGED uploads

\* Its transaction, decided by what was read: the evidence goes with its last
\* file, or gets another first one.
CommitDeletion(q) ==
  LET e == ereq[q].row
      f == ereq[q].file
      s == ereq[q].survivor IN
  /\ HoldsAt(q, "commit")
  /\ evidence[e].live /\ f \in evidence[e].files
  /\ evidence' = [evidence EXCEPT ![e].files = @ \ {f}, ![e].live = (s # 0),
                                  ![e].primary = IF s # 0 /\ ereq[q].wasPrimary THEN s ELSE @]
  /\ Hold(q, [Free EXCEPT !.pc = "purge", !.files = {f} \cup (IF s = 0 THEN {evidence[e].primary} ELSE {})])
  /\ UNCHANGED <<blobs, uploads>>

\* delete_evidence, and the same for every evidence of a deleted control.
DeleteRows(q, rows) ==
  /\ ereq[q] = Free /\ rows # {}
  /\ evidence' = [e \in DOMAIN evidence |->
                    IF e \in rows THEN [evidence[e] EXCEPT !.live = FALSE, !.files = {}] ELSE evidence[e]]
  /\ Hold(q, [Free EXCEPT !.pc = "purge",
                          !.files = UNION {evidence[e].files \cup {evidence[e].primary} : e \in rows}])
  /\ UNCHANGED <<blobs, uploads>>

\* delete_files: best effort, one blob at a time.
delete_files(q) ==
  /\ HoldsAt(q, "purge")
  /\ \/ \E f \in ereq[q].files :
          /\ blobs' = blobs \ {f}
          /\ Hold(q, [ereq[q] EXCEPT !.files = @ \ {f}])
     \/ ereq[q].files = {} /\ Hold(q, Free) /\ UNCHANGED blobs
  /\ UNCHANGED <<evidence, uploads>>

\* A transaction fails, the deletion of the blobs fails, or the process stops.
RequestStops(q) ==
  /\ ereq[q] # Free
  /\ Hold(q, Free)
  /\ UNCHANGED <<evidence, blobs, uploads>>

Submission(q) == create_evidence(q) \/ UploadNext(q) \/ CommitEvidence(q) \/ CreateFails(q)

Deletion(q) ==
  \/ delete_evidence_file(q) \/ CommitDeletion(q) \/ delete_files(q) \/ RequestStops(q)
  \/ \E e \in LiveRows : DeleteRows(q, {e})
  \/ DeleteRows(q, LiveRows)

-----------------------------------------------------------------------------
\* Whatever uploads, deletions and failures overlap, a file that is listed can be
\* shown and downloaded: its blob is stored.  (The reverse does not hold, a
\* failure leaves blobs behind; nor does it hold of the legacy file_name, which
\* two deletions at the same time can leave pointing at the other's file.)
FilesStored == \A e \in LiveRows : evidence[e].files \subseteq blobs
=============================================================================
