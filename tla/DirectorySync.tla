---------------------------- MODULE DirectorySync ----------------------------
(* The daily sync that disables the users whom the identity directory reports *)
(* as disabled, after telling the admins of each hub of the work they leave.  *)
EXTENDS Accounts, Sequences

CONSTANTS Hubs,                  \* the modules with work to hand on, in the order they are asked
          maxDeparturesPerRun    \* how many a run disables without being told to

ASSUME SyncAssumption == Hubs \in Seq(STRING) /\ maxDeparturesPerRun \in Nat

VARIABLES snapshot,   \* what each replica last read of the directory
          work,       \* who is named on live work, by hub
          outage,     \* whether mail may fail
          told,       \* history: <<hub, user>> an admin has been told of
          sync        \* the run of each replica

syncVars == <<snapshot, work, outage, told, sync>>

\* departed: whom the run is about, and has yet to disable; found: what the first
\* `gathered` hubs hold of theirs; delivered: which of the first `tried` digests arrived.
SyncStates == [pc : {"start", "run"}, departed : SUBSET Users, gathered : 0..Len(Hubs),
               found : [DOMAIN Hubs -> SUBSET Users], tried : 0..Len(Hubs), delivered : SUBSET DOMAIN Hubs]

SyncIdle == [pc |-> "start", departed |-> {}, gathered |-> 0, found |-> [h \in DOMAIN Hubs |-> {}],
             tried |-> 0, delivered |-> {}]

SyncTypeOK ==
  /\ snapshot \in [Replicas -> SUBSET Users]
  /\ work \in [DOMAIN Hubs -> SUBSET Users]
  /\ outage \in BOOLEAN
  /\ told \subseteq (DOMAIN Hubs) \X Users
  /\ sync \in [Replicas -> SyncStates]

SyncInit ==
  /\ snapshot = [r \in Replicas |-> {}]
  /\ work = [h \in DOMAIN Hubs |-> IF "Assign" \in ops THEN {} ELSE Users]
  /\ outage = ("Outage" \in ops)
  /\ told = {}
  /\ sync = [r \in Replicas |-> SyncIdle]

-----------------------------------------------------------------------------
(* The snapshots, the people and the mail server.                            *)

\* A replica's own bulk refresh.
Refresh(r) ==
  /\ replica[r].up /\ snapshot[r] # reported
  /\ snapshot' = [snapshot EXCEPT ![r] = reported]
  /\ UNCHANGED <<accountVars, work, outage, told, sync, schedulerVars>>

\* Somebody's live work is handed on or done or, with Assign, given to them.
Reassign(h) ==
  /\ Edit("sync")
  /\ \/ \E u \in work[h] : work' = [work EXCEPT ![h] = @ \ {u}]
     \/ "Assign" \in ops /\ \E u \in Users \ work[h] : work' = [work EXCEPT ![h] = @ \cup {u}]
  /\ UNCHANGED <<accountVars, snapshot, outage, told, sync>>

Recover ==
  /\ outage /\ outage' = FALSE
  /\ UNCHANGED <<accountVars, snapshot, work, told, sync, schedulerVars>>

-----------------------------------------------------------------------------
SyncStep(r, pc) == "sync" \in replica[r].busy /\ sync[r].pc = pc

SyncGoes(r, state) == sync' = [sync EXCEPT ![r] = state]

\* The two statuses a user can be moved out of.
Enabled == {u \in Users : status[u] # "DISABLED"}

\* resolveDeparted: the internal ones from the snapshot, the external ones one by
\* one, where a lookup that fails says nothing.
Departed(r, failed) ==
  Enabled \cap ((snapshot[r] \ External) \cup ((reported \cap External) \ failed))

\* Mutant: the run may take them all, if no more.
spareAdmins_AllOfThem(departed) ==
  LET holders == CandidateIDs IN
  IF holders = {} \/ Cardinality(departed \cap holders) <= Cardinality(holders) THEN departed ELSE departed \ holders

\* Never the last of those who hold MANAGE_USERS.
spareAdmins(departed) ==
  LET holders == CandidateIDs IN
  IF holders = {} \/ ~(holders \subseteq departed) THEN departed ELSE departed \ holders

\* Mutant: the cap is one too low.
TooMany_AtLimit(departed) == Cardinality(departed) >= maxDeparturesPerRun

\* Taken for a fault of the directory.
TooMany(departed) == Cardinality(departed) > maxDeparturesPerRun

\* The guard of the last admin is inactive where the holders cannot be read.
Resolve(r) ==
  /\ SyncStep(r, "start")
  /\ \E failed \in IF "LookupFails" \in ops THEN SUBSET External ELSE {{}} :
     \E guarded \in IF "LookupFails" \in ops THEN BOOLEAN ELSE {TRUE} :
       LET all      == Departed(r, failed)
           departed == IF guarded THEN spareAdmins(all) ELSE all
       IN IF departed = {} \/ (TooMany(all) /\ ~replica[r].override)
            THEN Done(r, "sync") /\ UNCHANGED sync
            ELSE SyncGoes(r, [SyncIdle EXCEPT !.pc = "run", !.departed = departed]) /\ UNCHANGED schedulerVars
  /\ UNCHANGED <<accountVars, snapshot, work, outage, told>>

\* The next hub says what work it has; one that cannot ends the run.
Gather(r) ==
  LET h == sync[r].gathered + 1 IN
  /\ SyncStep(r, "run") /\ h \in DOMAIN Hubs
  /\ \/ /\ SyncGoes(r, [sync[r] EXCEPT !.gathered = h, !.found[h] = work[h] \cap sync[r].departed])
        /\ UNCHANGED schedulerVars
     \/ "ListFails" \in ops /\ SyncGoes(r, SyncIdle) /\ Done(r, "sync")
  /\ UNCHANGED <<accountVars, snapshot, work, outage, told>>

\* Mutant: a digest counts as delivered as soon as it was tried.
SendDigest_Tried(r) ==
  LET h == sync[r].tried + 1 IN
  /\ SyncStep(r, "run") /\ sync[r].gathered = Len(Hubs) /\ h \in DOMAIN Hubs
  /\ SyncGoes(r, [sync[r] EXCEPT !.tried = h, !.delivered = @ \cup {h}])
  /\ told' = IF outage THEN told ELSE told \cup ({h} \X sync[r].found[h])
  /\ UNCHANGED <<accountVars, snapshot, work, outage, schedulerVars>>

\* The digest of the next hub: delivered if an admin got it, or if there is nothing to tell.
SendDigest(r) ==
  LET h == sync[r].tried + 1 IN
  /\ SyncStep(r, "run") /\ sync[r].gathered = Len(Hubs) /\ h \in DOMAIN Hubs
  /\ \/ /\ SyncGoes(r, [sync[r] EXCEPT !.tried = h, !.delivered = @ \cup {h}])
        /\ told' = told \cup ({h} \X sync[r].found[h])
     \/ /\ outage /\ sync[r].found[h] # {}
        /\ SyncGoes(r, [sync[r] EXCEPT !.tried = h])
        /\ UNCHANGED told
  /\ UNCHANGED <<accountVars, snapshot, work, outage, schedulerVars>>

notifyPending(r, u) == \E h \in DOMAIN Hubs \ sync[r].delivered : u \in sync[r].found[h]

\* One status is written, left for the next run, or not written by an error.
Disable(r, u) ==
  /\ SyncStep(r, "run") /\ sync[r].tried = Len(Hubs) /\ u \in sync[r].departed
  /\ SyncGoes(r, [sync[r] EXCEPT !.departed = @ \ {u}])
  /\ \/ ~notifyPending(r, u) /\ status' = [status EXCEPT ![u] = "DISABLED"]
     \/ (notifyPending(r, u) \/ "WriteFails" \in ops) /\ UNCHANGED status
  /\ UNCHANGED <<reported, granted, snapshot, work, outage, told, schedulerVars>>

SyncEnds(r) ==
  /\ SyncStep(r, "run") /\ sync[r].departed = {}
  /\ SyncGoes(r, SyncIdle)
  /\ Done(r, "sync")
  /\ UNCHANGED <<accountVars, snapshot, work, outage, told>>

SyncRun(r) == Resolve(r) \/ Gather(r) \/ SendDigest(r) \/ SyncEnds(r) \/ \E u \in Users : Disable(r, u)
=============================================================================
