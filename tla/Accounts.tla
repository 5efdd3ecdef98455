------------------------------ MODULE Accounts ------------------------------
(* Users, who of them may manage users, and the admin console that changes    *)
(* both.  A console request is one step: two that overlap are not modelled,   *)
(* and one that changes nothing is left out.                                  *)
EXTENDS Scheduler

CONSTANTS Users, Holders,        \* users, and those of them who hold MANAGE_USERS at first
          External,              \* users of the external organisation
          MaxRequests            \* bound on the console's requests and the running replicas together

ASSUME AccountsAssumption ==
  /\ Holders \subseteq Users \ External /\ External \subseteq Users
  /\ MaxRequests \in Nat

VARIABLES reported,   \* the users disabled in the directory
          status,     \* user.status
          granted     \* who has an active grant of a role that carries MANAGE_USERS

accountVars == <<reported, status, granted>>

AccountsTypeOK ==
  /\ reported \subseteq Users
  /\ status \in [Users -> {"ACTIVE", "INACTIVE", "DISABLED"}]
  /\ granted \subseteq Users \ External

\* The holders the platform can name: a candidate is an active user.
CandidateIDs == {u \in granted : status[u] = "ACTIVE"}

AccountsInit ==
  /\ reported = {} /\ granted = Holders
  /\ status \in [Users -> IF "Inactive" \in ops THEN {"ACTIVE", "INACTIVE"} ELSE {"ACTIVE"}]
  /\ CandidateIDs # {}

\* An account is disabled, or reported so by mistake.
Report(u) ==
  /\ "sync" \in ops /\ u \notin reported
  /\ reported' = reported \cup {u}
  /\ UNCHANGED <<status, granted, schedulerVars>>

\* Auth and RequirePrivilege: an active user who can still sign in and holds the privilege.
Authorised(caller) ==
  /\ "Console" \in ops /\ acts + Cardinality({r \in Replicas : replica[r].up}) < MaxRequests
  /\ caller \in CandidateIDs \ reported
  /\ acts' = acts + 1
  /\ UNCHANGED <<day, replica, ops, reported>>

\* Nobody changes their own status; DISABLED may be left, never set.
handleUpdateUserStatus(caller, u) ==
  /\ Authorised(caller) /\ u # caller
  /\ \E s \in {"ACTIVE", "INACTIVE"} \ {status[u]} : status' = [status EXCEPT ![u] = s]
  /\ UNCHANGED granted

\* The role is only for the internal; their status is not asked for.
handleCreateGrant(caller, u) ==
  /\ Authorised(caller) /\ u \notin External \cup granted
  /\ granted' = granted \cup {u}
  /\ UNCHANGED status

\* The row stays, inactive: revoking one's own is refused.
handleRevokeGrant(caller, u) ==
  /\ Authorised(caller) /\ u \in granted \ {caller}
  /\ granted' = granted \ {u}
  /\ UNCHANGED status

Console ==
  \E caller \in Holders, u \in Users :
    handleUpdateUserStatus(caller, u) \/ handleCreateGrant(caller, u) \/ handleRevokeGrant(caller, u)
=============================================================================
