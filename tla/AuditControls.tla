---------------------------- MODULE AuditControls ----------------------------
(* The GRC backend's side of the audit workflow, for one control.  Like in   *)
(* RiskWorkflow a request is a chain of calls to the entity, with the calls  *)
(* of other requests in between, and any of them may be the last: the call   *)
(* fails, or the backend stops.  A request reads when it begins.  Where the  *)
(* code lets an admin or a reader of all audits past a check that holds for  *)
(* the control's owner, the caller is taken to be one of them.               *)
EXTENDS AuditStore

CONSTANTS Requests,   \* requests in flight at the same time
          Mixes       \* sets of operations, out of AllOps, that happen together

AllOps == {"SubmitPopulation", "ReviewPopulation", "ValidatePopulation", "SubmitSample",
           "RequestSampleTime", "SubmitEvidence", "WithdrawEvidence",
           "ReviewEvidence", "ValidateEvidence", "DeleteEvidenceFile", "DeleteEvidenceRound",
           "UpdateControlStatus", "OverrideControlStatus", "ChangeRequirementType",
           "DeleteControl", "OtherControls", "UpdateAudit", "DeleteAudit", "CallFails"}

ASSUME MixesAssumption == Mixes \subseteq SUBSET AllOps

VARIABLES ops,     \* what happens in this behaviour: the operations clients call, failures
          req,     \* what each request holds between two calls
          byHand,  \* an admin has moved the control, by a bare PATCH of its status or an override
          crossed  \* an override was written that the control's type no longer allowed

vars == <<ctl, rounds, audit, others, ops, req, byHand, crossed>>

PCs == {"idle", "replace", "mark", "insert", "status", "discard", "remove", "reconcile",
        "check", "override", "cascade"}

None == "NONE"

\* round: the round the request works on, of this kind; mark: the status it is to
\* get; to: the control's next status; from: the status an override has read;
\* cascade: what its open transaction has read.
ReqStates == [pc : PCs, kind : Kinds, round : Nat, mark : RoundStatuses \cup {None},
              to : ControlStatuses \cup {None}, from : ControlStatuses \cup {None},
              cascade : [Kinds -> [id : Nat, to : RoundStatuses \cup {Untouched}]]]

Idle == [pc |-> "idle", kind |-> "evidence", round |-> 0, mark |-> None, to |-> None,
         from |-> None, cascade |-> NoCascade]

TypeOK ==
  /\ StoreTypeOK
  /\ ops \in Mixes
  /\ req \in [Requests -> ReqStates]
  /\ byHand \in BOOLEAN /\ crossed \in BOOLEAN

Init ==
  /\ \E type \in Types : CreateControl(type)
  /\ req = [r \in Requests |-> Idle]
  /\ byHand = FALSE /\ crossed = FALSE
  /\ ops \in Mixes

-----------------------------------------------------------------------------
\* The request r, not in flight, has read the store and goes on as `next`.
Begin(r, op, next) ==
  /\ op \in ops
  /\ req[r] = Idle
  /\ req' = [req EXCEPT ![r] = next]
  /\ UNCHANGED <<storeVars, byHand, crossed, ops>>

Continue(r, next) == req' = [req EXCEPT ![r] = next] /\ UNCHANGED <<byHand, crossed, ops>>
At(r, pc) == req[r].pc = pc
Goto(r, pc) == Continue(r, [req[r] EXCEPT !.pc = pc])
End(r) == Continue(r, Idle)

\* A request at pc, about to move the control to a status.
Moving(pc, to) == [Idle EXCEPT !.pc = pc, !.to = to]

\* The row of the control is locked while an override's transaction is open.
Locked == \E r \in Requests : At(r, "cascade")

\* A call of r fails, or is refused as the code's own checks may do, or the
\* backend stops: nothing is written.  A failed transition of an evidence
\* submission is compensated.
CallFails(r) ==
  /\ "CallFails" \in ops
  /\ req[r] # Idle
  /\ IF At(r, "status") /\ req[r].mark = "SUBMITTED" /\ req[r].kind = "evidence"
     THEN Goto(r, "discard") \/ End(r)
     ELSE End(r)
  /\ UNCHANGED storeVars

-----------------------------------------------------------------------------
(* The steps that several operations end in.                                 *)

\* UpdateStatus, which the entity checks again.
UpdateStatus(r) ==
  /\ At(r, "status") /\ ~Locked
  /\ UpdateControl(req[r].to)
  /\ End(r)

\* UpdateRoundStatus, then the control.
MarkRound(r) ==
  /\ At(r, "mark")
  /\ UpdateRound(req[r].kind, req[r].round, req[r].mark)
  /\ Continue(r, Moving("status", req[r].to))

\* Mutant: the control moves first, the round is marked afterwards.
decide_ControlFirst(r, op, kind, required, mark, to) ==
  /\ ctl.status = required
  /\ ~Locked
  /\ Latest(kind) # 0
  /\ op \in ops /\ req[r] = Idle
  /\ UpdateControl(to)
  /\ Continue(r, [Moving("mark", to) EXCEPT !.kind = kind, !.round = Latest(kind), !.mark = mark])

\* decideRound: the decision goes to whatever round is now the latest.
decide(r, op, kind, required, mark, to) ==
  /\ ctl.status = required
  /\ Latest(kind) # 0
  /\ Begin(r, op, [Moving("mark", to) EXCEPT !.kind = kind, !.round = Latest(kind), !.mark = mark])

-----------------------------------------------------------------------------
(* Population and sample.                                                    *)

\* A rejected round is replaced, any other open round is used again.
SubmitPopulation(r) ==
  /\ ctl.status \notin {"COMPLETE", Deleted}
  /\ ActivePopulation
  /\ Begin(r, "SubmitPopulation",
           [Moving(IF rounds["population"][Latest("population")] \in Rejected THEN "replace" ELSE "mark",
                   "POPULATION_INTERNAL_REVIEW")
              EXCEPT !.kind = "population", !.round = Latest("population"), !.mark = "SUBMITTED"])

CreateRound(r) ==
  /\ At(r, "replace") /\ ~Locked
  /\ createReplacementRound(req[r].round)
  /\ Continue(r, [req[r] EXCEPT !.pc = "mark", !.round = Len(rounds["population"]) + 1])

ReviewPopulation(r) ==
  \/ decide(r, "ReviewPopulation", "population", "POPULATION_INTERNAL_REVIEW",
            "COMPLIANCE_APPROVED", "POPULATION_UNDER_VALIDATION")
  \/ decide(r, "ReviewPopulation", "population", "POPULATION_INTERNAL_REVIEW",
            "COMPLIANCE_REJECTED", "POPULATION_PENDING")

ValidatePopulation(r) ==
  \/ decide(r, "ValidatePopulation", "population", "POPULATION_UNDER_VALIDATION",
            "APPROVED", "POPULATION_COMPLETE")
  \/ decide(r, "ValidatePopulation", "population", "POPULATION_UNDER_VALIDATION",
            "AUDITOR_REJECTED", "POPULATION_NEED_CLARIFICATION")

\* The sample's files and note are not modelled.
SubmitSample(r) ==
  /\ ctl.status \in {"POPULATION_COMPLETE", "AWAITING_SAMPLE", "SUBMITTED_SAMPLE"}
  /\ Latest("population") # 0
  /\ Begin(r, "SubmitSample", Moving("status", "SUBMITTED_SAMPLE"))

RequestSampleTime(r) ==
  /\ ctl.status = "POPULATION_COMPLETE"
  /\ Begin(r, "RequestSampleTime", Moving("status", "AWAITING_SAMPLE"))

-----------------------------------------------------------------------------
(* Evidence.                                                                 *)

\* finalizeEvidenceSubmission: always a round of its own.
SubmitEvidence(r) ==
  /\ ctl.status \notin {"COMPLETE", Deleted}
  /\ Begin(r, "SubmitEvidence", [Moving("insert", "EVIDENCE_INTERNAL_REVIEW") EXCEPT !.mark = "SUBMITTED"])

\* Submit: the row and its files.
Submit(r) ==
  /\ At(r, "insert") /\ ~Locked
  /\ InsertRound("evidence", "SUBMITTED")
  /\ Continue(r, [req[r] EXCEPT !.pc = "status", !.round = Len(rounds["evidence"]) + 1])

\* The entity refuses the transition of a submission: its round is discarded.
TransitionRefused(r) ==
  /\ At(r, "status") /\ req[r].mark = "SUBMITTED" /\ req[r].kind = "evidence"
  /\ ~Admitted(req[r].to)
  /\ Goto(r, "discard")
  /\ UNCHANGED storeVars

DiscardRound(r) == At(r, "discard") /\ DeleteEvidence(req[r].round) /\ End(r)

\* The round that is withdrawn stays as it is.
WithdrawEvidence(r) ==
  /\ ctl.status = "EVIDENCE_INTERNAL_REVIEW"
  /\ Begin(r, "WithdrawEvidence", Moving("status", "EVIDENCE_PENDING"))

ReviewEvidence(r) ==
  \/ decide(r, "ReviewEvidence", "evidence", "EVIDENCE_INTERNAL_REVIEW",
            "COMPLIANCE_APPROVED", "EVIDENCE_UNDER_VALIDATION")
  \/ decide(r, "ReviewEvidence", "evidence", "EVIDENCE_INTERNAL_REVIEW",
            "COMPLIANCE_REJECTED", "EVIDENCE_PENDING")

ValidateEvidence(r) ==
  \/ decide(r, "ValidateEvidence", "evidence", "EVIDENCE_UNDER_VALIDATION", "APPROVED", "COMPLETE")
  \/ decide(r, "ValidateEvidence", "evidence", "EVIDENCE_UNDER_VALIDATION",
            "AUDITOR_REJECTED", "EVIDENCE_NEED_CLARIFICATION")

\* A latest round without files.
DeleteEvidenceRound(r) ==
  /\ ctl.status \notin {"COMPLETE", Deleted}
  /\ Latest("evidence") # 0
  /\ Begin(r, "DeleteEvidenceRound", [Idle EXCEPT !.pc = "remove", !.round = Latest("evidence")])

RemoveRound(r) ==
  /\ At(r, "remove")
  /\ DeleteEvidence(req[r].round)
  /\ Continue(r, [Idle EXCEPT !.pc = "reconcile"])

\* A file of the latest round: only what comes after is modelled.
DeleteEvidenceFile(r) ==
  /\ ctl.status \notin {"COMPLETE", Deleted}
  /\ Latest("evidence") # 0
  /\ Begin(r, "DeleteEvidenceFile", [Idle EXCEPT !.pc = "reconcile"])

\* reconcileAfterDelete: a submission that was emptied, or is gone, leaves the review.
ReconcileAfterDelete(r) ==
  /\ At(r, "reconcile")
  /\ \/ ctl.status = "EVIDENCE_INTERNAL_REVIEW" /\ Continue(r, Moving("status", "EVIDENCE_PENDING"))
     \/ (ctl.status # "EVIDENCE_INTERNAL_REVIEW" \/ Latest("evidence") # 0) /\ End(r)
  /\ UNCHANGED storeVars

-----------------------------------------------------------------------------
(* Administration.                                                           *)

\* PATCH of the status alone: any step of the table, the rounds are not touched.
UpdateControlStatus ==
  /\ "UpdateControlStatus" \in ops /\ ~Locked
  /\ \E to \in ControlStatuses : to # ctl.status /\ UpdateControl(to)
  /\ byHand' = TRUE
  /\ UNCHANGED <<req, crossed, ops>>

\* The entity's read of the control, which decides whether the override is legal, and
\* then of the audit: one that is not removed may as well be read at once, since
\* nothing is kept of it.
BeginOverride(r) ==
  /\ ctl.status # Deleted
  /\ \E to \in ControlStatuses :
       /\ isValidOverrideTransition(ctl.type, ctl.status, to)
       /\ Begin(r, "OverrideControlStatus",
                [Moving(IF audit = "REMOVED" THEN "check" ELSE "override", to) EXCEPT !.from = ctl.status])

\* A removed one, which may have been restored meanwhile.
CheckAudit(r) ==
  /\ At(r, "check")
  /\ IF audit = "REMOVED" THEN End(r) ELSE Goto(r, "override")
  /\ UNCHANGED storeVars

\* The transaction's UPDATE of the control, which expects the status that was read
\* and nothing of the type; the row stays locked.  Then its reads of the latest
\* rounds, which lock nothing.
WriteOverride(r) ==
  /\ At(r, "override") /\ ~Locked
  /\ IF ctl.status = req[r].from
     THEN Continue(r, [Moving("cascade", req[r].to) EXCEPT !.cascade = Cascade(req[r].to)])
     ELSE End(r)
  /\ UNCHANGED storeVars

CommitOverride(r) ==
  /\ At(r, "cascade")
  /\ OverrideControlStatus(req[r].to, req[r].cascade)
  /\ req' = [req EXCEPT ![r] = Idle]
  /\ byHand' = TRUE
  /\ crossed' = (crossed \/ ~isValidOverrideTransition(ctl.type, ctl.status, req[r].to))
  /\ UNCHANGED ops

SetRequirementType ==
  /\ "ChangeRequirementType" \in ops /\ ~Locked
  /\ \E type \in Types : ChangeRequirementType(type)
  /\ UNCHANGED <<req, byHand, crossed, ops>>

Delete ==
  /\ "DeleteControl" \in ops /\ ~Locked
  /\ DeleteControl
  /\ UNCHANGED <<req, byHand, crossed, ops>>

Environment ==
  /\ \/ "OtherControls" \in ops /\ OtherControls
     \/ "UpdateAudit" \in ops /\ \E status \in AuditStatuses : UpdateAudit(status)
     \/ "DeleteAudit" \in ops /\ DeleteAudit
  /\ UNCHANGED <<req, byHand, crossed, ops>>

-----------------------------------------------------------------------------
Step(r) ==
  \/ SubmitPopulation(r) \/ CreateRound(r) \/ MarkRound(r) \/ UpdateStatus(r)
  \/ ReviewPopulation(r) \/ ValidatePopulation(r) \/ SubmitSample(r) \/ RequestSampleTime(r)
  \/ SubmitEvidence(r) \/ Submit(r) \/ TransitionRefused(r) \/ DiscardRound(r)
  \/ WithdrawEvidence(r) \/ ReviewEvidence(r) \/ ValidateEvidence(r)
  \/ DeleteEvidenceRound(r) \/ RemoveRound(r) \/ DeleteEvidenceFile(r) \/ ReconcileAfterDelete(r)
  \/ BeginOverride(r) \/ CheckAudit(r) \/ WriteOverride(r) \/ CommitOverride(r)
  \/ CallFails(r)

Next == (\E r \in Requests : Step(r)) \/ UpdateControlStatus \/ SetRequirementType \/ Delete \/ Environment

Spec == Init /\ [][Next]_vars

-----------------------------------------------------------------------------
(* Properties.                                                               *)

\* Whenever a control's status is written, by whichever way, an audit that no
\* admin has archived or removed becomes COMPLETED exactly if all its controls
\* now are COMPLETE or gone.  (As an invariant this fails: an admin's restore
\* writes the status that the client inferred some time ago.)
AuditFollowsControls ==
  [][ctl'.status # ctl.status /\ audit' \in {"ACTIVE", "COMPLETED"} =>
       (audit' = "COMPLETED" <=> ctl'.status \in {"COMPLETE", Deleted} /\ ~others')]_vars

\* The sample and the evidence of an OE control rest on a population the auditor
\* approved, however the decisions, resubmissions and failures interleave, until
\* an admin overrides its status.
PopulationApprovedBehindEvidence ==
  (ctl.type = "OE" /\ ~byHand /\ ctl.status \notin PopulationStages \cup {Deleted}) =>
    \E i \in Live("population") : rounds["population"][i] = "APPROVED"

\* Resubmissions at the same time replace a rejected round once: no earlier round
\* stands empty.  (An override may reopen a round while its replacement is under way.)
OneReplacementRound ==
  ~byHand =>
    \A i \in Live("population") : i # Latest("population") => rounds["population"][i] # "PENDING"

\* The rounds are as the open override of r has read them, and it is one that the
\* control's type allows.
StillFits(r) ==
  /\ req[r].cascade = Cascade(req[r].to)
  /\ isValidOverrideTransition(ctl.type, ctl.status, req[r].to)

\* An override takes the rounds along: a control that is sent back to the team for
\* its population has a round that the team can submit, or submit again, and one
\* that is sent back before the review of its evidence has no evidence round left
\* open.  This holds if the rounds are still as the override's transaction read
\* them (it does not lock them, and a decision in flight can overtake it) and if the
\* control's type still allows the override (the UPDATE does not look at it).
OverrideCascades ==
  [][\A r \in Requests :
       At(r, "cascade") /\ ctl' # ctl /\ StillFits(r) =>
         /\ ctl'.status \in {"POPULATION_PENDING", "POPULATION_NEED_CLARIFICATION"} => ActivePopulation'
         /\ controlStatusRank[ctl'.status] < controlStatusRank["EVIDENCE_INTERNAL_REVIEW"] =>
              Latest("evidence") = 0 \/ rounds["evidence"][Latest("evidence")]' \in Rejected]_vars

\* A DESIGN control has no population and an OE control has one, after overrides
\* and type changes with any request in flight that read the former type.  Nor does
\* a DESIGN control stand at a stage before its evidence, unless an override reached
\* it that was judged by its former type: the control has changed its type and is
\* back at the status that the override expects.
TypeFitsStage ==
  ctl.status # Deleted =>
    IF ctl.type = "OE" THEN Live("population") # {}
    ELSE /\ Live("population") = {}
         /\ crossed \/ controlStatusRank[ctl.status] >= designControlFloorRank

\* An evidence round that a later one has replaced was decided: it is not left
\* for the reviewers next to its successor.
EarlierRoundsDecided ==
  \A i \in Live("evidence") : i # Latest("evidence") => rounds["evidence"][i] # "SUBMITTED"
=============================================================================
