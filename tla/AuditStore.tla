----------------------------- MODULE AuditStore ------------------------------
(* The compliance entity's side of the audit workflow, for one control: its  *)
(* row, its population and evidence rounds, and the status of its audit,     *)
(* which is derived from all its controls.  Each operator is one transaction *)
(* or statement of the entity.                                               *)
EXTENDS AuditStatus, Sequences, FiniteSetsExt

Kinds == {"population", "evidence"}

CONSTANT MaxRounds   \* bounds on the rounds of each kind

ASSUME MaxRoundsAssumption == MaxRounds \in [Kinds -> Nat \ {0}]

VARIABLES ctl,      \* the control
          rounds,   \* its rounds of each kind, numbered in the order of their insertion
          audit,    \* the audit's status
          others    \* some other control of the audit is not COMPLETE

storeVars == <<ctl, rounds, audit, others>>

Types == {"OE", "DESIGN"}
AuditStatuses == {"ACTIVE", "COMPLETED", "ARCHIVED", "REMOVED"}

\* A deleted round leaves its number behind: no later round is given it.
Deleted == "DELETED"

StoreTypeOK ==
  /\ ctl \in [status : ControlStatuses \cup {Deleted}, type : Types]
  /\ rounds \in [Kinds -> Seq(RoundStatuses \cup {Deleted})]
  /\ audit \in AuditStatuses
  /\ others \in BOOLEAN

Live(k) == {i \in DOMAIN rounds[k] : rounds[k][i] # Deleted}

\* LatestRound, or 0.
Latest(k) == IF Live(k) = {} THEN 0 ELSE Max(Live(k))

\* FindActivePopulation.
ActivePopulation == Latest("population") # 0 /\ rounds["population"][Latest("population")] \in OpenToTeam

InitialStatus(type) == IF type = "OE" THEN "POPULATION_PENDING" ELSE "EVIDENCE_PENDING"

CreateControl(type) ==
  /\ ctl = [status |-> InitialStatus(type), type |-> type]
  /\ rounds = [k \in Kinds |-> IF k = "population" /\ type = "OE" THEN <<"PENDING">> ELSE <<>>]
  /\ audit = "ACTIVE"
  /\ others \in BOOLEAN

-----------------------------------------------------------------------------
\* ARCHIVED and REMOVED are the admin's and stay.
recomputeAuditStatus(status, otherControls) ==
  IF audit \in {"ARCHIVED", "REMOVED"} THEN audit
  ELSE IF otherControls \/ status \notin {"COMPLETE", Deleted} THEN "ACTIVE" ELSE "COMPLETED"

Admitted(to) == ctl.status # Deleted /\ isValidControlTransition(ctl.status, to)

\* PATCH of the control's status: read, checked against the table, and written
\* by an UPDATE that expects the status read.
UpdateControl(to) ==
  /\ Admitted(to)
  /\ ctl' = [ctl EXCEPT !.status = to]
  /\ audit' = recomputeAuditStatus(to, others)
  /\ UNCHANGED <<rounds, others>>

\* What the cascade of an override writes over the round i, if anything: never
\* a status of the same or a higher rank.
demotion(k, i, target) ==
  IF i # 0 /\ target # Untouched /\ roundStatusRank[target] < roundStatusRank[rounds[k][i]]
  THEN target ELSE Untouched

\* The cascade as an override to a status finds it: the latest round of each
\* kind, and what it is demoted to.
Cascade(to) ==
  [k \in Kinds |-> [id |-> Latest(k),
                    to |-> demotion(k, Latest(k), IF k = "population" THEN overridePopulationTarget[to]
                                                                       ELSE overrideEvidenceTarget[to])]]

NoCascade == [k \in Kinds |-> [id |-> 0, to |-> Untouched]]

\* Mutant: the cascade does not look whether its table has a target.
cascaded_Unmapped(cascade) ==
  [k \in Kinds |-> IF cascade[k].id \in Live(k) THEN [rounds[k] EXCEPT ![cascade[k].id] = cascade[k].to] ELSE rounds[k]]

\* The rounds after a cascade: they are written by id, whatever they have become.
cascaded(cascade) ==
  [k \in Kinds |-> IF cascade[k].to # Untouched /\ cascade[k].id \in Live(k)
                   THEN [rounds[k] EXCEPT ![cascade[k].id] = cascade[k].to] ELSE rounds[k]]

\* Mutant: the audit is not recomputed after an override.
OverrideControlStatus_NoRecompute(to, cascade) ==
  /\ ctl' = [ctl EXCEPT !.status = to]
  /\ rounds' = cascaded(cascade)
  /\ UNCHANGED <<audit, others>>

OverrideControlStatus(to, cascade) ==
  /\ ctl' = [ctl EXCEPT !.status = to]
  /\ rounds' = cascaded(cascade)
  /\ audit' = recomputeAuditStatus(to, others)
  /\ UNCHANGED others

\* Under locks on the control and its rounds: only an untouched control changes
\* its type, and its population round comes or goes with it.  (A PENDING round
\* that holds files is not untouched; files are not modelled.)
ChangeRequirementType(type) ==
  /\ audit # "REMOVED"
  /\ Live("evidence") = {}
  /\ \/ /\ type = "OE" /\ ctl.type = "DESIGN" /\ ctl.status = "EVIDENCE_PENDING"
        /\ Live("population") = {} /\ Len(rounds["population"]) < MaxRounds["population"]
        /\ rounds' = [rounds EXCEPT !["population"] = Append(@, "PENDING")]
     \/ /\ type = "DESIGN" /\ ctl.type = "OE" /\ ctl.status = "POPULATION_PENDING"
        /\ \E i \in Live("population") :
             /\ Live("population") = {i} /\ rounds["population"][i] = "PENDING"
             /\ rounds' = [rounds EXCEPT !["population"][i] = Deleted]
  /\ ctl' = [status |-> InitialStatus(type), type |-> type]
  /\ audit' = recomputeAuditStatus(InitialStatus(type), others)
  /\ UNCHANGED others

\* The rounds go with the control.  A forced delete, and the admin is offered one,
\* stops at nothing.
DeleteControl ==
  /\ ctl.status # Deleted
  /\ ctl' = [ctl EXCEPT !.status = Deleted]
  /\ rounds' = [k \in Kinds |-> [i \in DOMAIN rounds[k] |-> Deleted]]
  /\ audit' = recomputeAuditStatus(Deleted, others)
  /\ UNCHANGED others

-----------------------------------------------------------------------------
(* Rounds.  None of these looks at the control.                              *)

InsertRound(k, status) ==
  /\ ctl.status # Deleted
  /\ Len(rounds[k]) < MaxRounds[k]
  /\ rounds' = [rounds EXCEPT ![k] = Append(@, status)]
  /\ UNCHANGED <<ctl, audit, others>>

\* Mutant: a resubmission does not check that its round is still the latest.
createReplacementRound_Unchecked(previous) == InsertRound("population", "PENDING")

\* The population rounds are locked: only one resubmission replaces a round.
createReplacementRound(previous) ==
  /\ Latest("population") = previous
  /\ InsertRound("population", "PENDING")

\* PATCH of a round's status: read, checked, written where it is still as read.
UpdateRound(k, i, to) ==
  /\ i \in Live(k)
  /\ isValidRoundTransition(rounds[k][i], to)
  /\ rounds' = [rounds EXCEPT ![k][i] = to]
  /\ UNCHANGED <<ctl, audit, others>>

\* Only the latest evidence round can be deleted.
DeleteEvidence(i) ==
  /\ i \in Live("evidence") /\ i = Latest("evidence")
  /\ rounds' = [rounds EXCEPT !["evidence"][i] = Deleted]
  /\ UNCHANGED <<ctl, audit, others>>

-----------------------------------------------------------------------------
\* The other controls of the audit: created, deleted, completed, reopened.
OtherControls ==
  /\ others' \in BOOLEAN
  /\ audit' = recomputeAuditStatus(ctl.status, others')
  /\ UNCHANGED <<ctl, rounds>>

\* PATCH of the audit by an admin: archived, or restored to the status that the
\* client infers.  Nothing is checked.
UpdateAudit(status) ==
  /\ audit' = status
  /\ UNCHANGED <<ctl, rounds, others>>

DeleteAudit ==
  /\ audit # "REMOVED"
  /\ audit' = "REMOVED"
  /\ UNCHANGED <<ctl, rounds, others>>
=============================================================================
