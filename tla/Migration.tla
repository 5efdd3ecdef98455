------------------------------ MODULE Migration ------------------------------
(* The import of a risk register: a task that drives the compliance entity   *)
(* from a sheet, one call at a time, and keeps nothing itself.  It may be    *)
(* killed between any two calls, or after a call whose answer it never saw;  *)
(* started again, it finds out from the entity how far it had come.          *)
EXTENDS RiskStatus, Naturals, Sequences, FiniteSetsExt

CONSTANTS Sheets,     \* the sheets to import, each its rows in the order of their Migration IDs
          PageLimit,  \* searchPageLimit
          MaxRisks,   \* bound on the risks in the registers of the sheet
          MaxActs,    \* bound on what happens beside the runs
          Mixes       \* sets of what may happen, out of AllActs, together

\* Crash: the task is killed; Job: the nightly escalation; Users: they work on the
\* risks; Retitle, Raise: also change titles, raise risks; Revoke: of grants; Overlap:
\* risks raised while the search on resume is between counting and reading a page;
\* Ties: risks created within a second of each other.
AllActs == {"Crash", "Job", "Users", "Retitle", "Raise", "Revoke", "Overlap", "Ties"}

\* A title that no row has.
NoKey == "none"
Titles == STRING \cup {NoKey}

\* key: the natural key; overdue: the implementation date is before the migration's.
SheetRows == [key : Titles \ {NoKey}, target : {"APPROVED", "CLOSED"}, overdue : BOOLEAN,
              residual : BOOLEAN, grants : Seq(STRING)]

ASSUME MigrationAssumption ==
  /\ \A s \in Sheets : s # <<>> /\ s \in Seq(SheetRows)
  /\ PageLimit \in Nat \ {0} /\ MaxRisks \in Nat /\ MaxActs \in Nat
  /\ Mixes \subseteq SUBSET AllActs

VARIABLES sheet,    \* the sheet that is imported
          risks,    \* the risks of the sheet's registers, in the order of their creation
          granted,  \* grants that are ACTIVE
          run,      \* the run in progress, if any
          settled,  \* history: a run ended with exitOK, and nobody has acted since it began
          acts,     \* how much has happened beside the runs
          ops       \* what may happen in this behaviour

Rows == DOMAIN sheet

entityVars == <<risks, granted>>
vars == <<sheet, risks, granted, run, settled, acts, ops>>

NoRow == 0

\* due: the row's implementation date, as overdue; tied: created in the second of
\* the one before; assessed, open: how many assessments, OPEN escalations of the
\* marker; escalated: the job's escalation is OPEN.
Risks == [key : Titles, marker : BOOLEAN, status : Statuses, due : BOOLEAN, tied : BOOLEAN,
          assessed : Nat, open : Nat, escalated : BOOLEAN, planDone : BOOLEAN]

\* What reconstructState found of a row.  The stages between None and Complete
\* do not matter: migrateRow looks at what is missing itself.
Progresses == [stage : {"None", "Partial", "Complete"}, id : Nat, status : Statuses \cup {"NULL"},
               assessed : BOOLEAN]

Phases == {"idle", "search", "page", "resume", "row", "create", "assess", "walk", "list", "suppress",
           "grant", "plan", "recheck", "repage", "verify"}

\* A risk as a search has seen it, on the page that began at an offset: on two, if
\* risks were raised in between.
Sightings == [page : Nat, id : Nat, key : Titles, status : Statuses]

\* row, found, offset: where the run is; total: what SearchRisks counted, for the page
\* it reads next; todo: grants of the row still to write; calm: history: nobody has
\* acted since the run began.
Runs == [pc : Phases, row : Nat,
         found : SUBSET Sightings, offset : Nat, total : Nat,
         progress : [Rows -> Progresses], todo : Seq(STRING),
         rejected : SUBSET Rows, mismatch : BOOLEAN, calm : BOOLEAN]

TypeOK ==
  /\ sheet \in Sheets
  /\ risks \in Seq(Risks)
  /\ granted \subseteq UNION {Range(sheet[r].grants) : r \in Rows}
  /\ run \in Runs
  /\ settled \in BOOLEAN /\ acts \in 0..MaxActs /\ ops \in Mixes

NotFound == [stage |-> "None", id |-> 0, status |-> "NULL", assessed |-> FALSE]

Idle == [pc |-> "idle", row |-> NoRow, found |-> {}, offset |-> 0, total |-> 0,
         progress |-> [r \in Rows |-> NotFound], todo |-> <<>>, rejected |-> {}, mismatch |-> FALSE, calm |-> TRUE]

Init ==
  /\ sheet \in Sheets
  /\ risks = <<>> /\ granted = {}
  /\ run = Idle /\ settled = FALSE
  /\ acts = 0 /\ ops \in Mixes

-----------------------------------------------------------------------------
(* What the entity holds against what a row asks for.                        *)

\* The born state and the hops of walkPath; statusRank is the place on it.
Path == <<"PENDING_RISK_OWNER_APPROVAL", "PENDING_COMPLIANCE_REVIEW", "APPROVED",
          "PENDING_OWNER_COMPLETION_APPROVAL", "PENDING_COMPLIANCE_CLOSURE", "CLOSED">>

\* A status off the path counts as before every target.
statusAtLeast(current, target) ==
  \E i, j \in DOMAIN Path : Path[i] = current /\ Path[j] = target /\ i >= j

\* walkPath without the hops that are skipped, as places on the path.
HopsLeft(current, target) ==
  {h \in 2..Len(Path) : statusAtLeast(target, Path[h]) /\ ~statusAtLeast(current, Path[h])}

wantsSuppressingEscalation(row) == row.target = "APPROVED" /\ row.overdue

expectedGrants(row) == IF row.target = "APPROVED" THEN row.grants ELSE <<>>

\* Mutant: the residual assessment is not looked for.
HasAssessment_Never(risk) == FALSE

HasAssessment(risk) == risk.assessed > 0

\* What else is written for a row, but for its escalation.
ChildrenDone(row, risk) ==
  /\ Range(expectedGrants(row)) \subseteq granted
  /\ row.target = "CLOSED" => risk.planDone
  /\ row.residual => HasAssessment(risk)

\* Mutant: a row is done once its risk has the status.
StepsDone_Status(row, status, risk) == statusAtLeast(status, row.target)

\* stageOf, of a risk that the search saw at `status` and fetchRiskState sees as it is now.
StepsDone(row, status, risk) ==
  /\ statusAtLeast(status, row.target)
  /\ wantsSuppressingEscalation(row) => risk.open > 0
  /\ ChildrenDone(row, risk)

\* Mutant: the status is left to the users.
verifyRow_AnyStatus(row, risk) ==
  /\ risk.key = row.key
  /\ wantsSuppressingEscalation(row) <=> risk.open > 0
  /\ ChildrenDone(row, risk)

\* verifyRow finds no mismatch.
verifyRow(row, risk) ==
  /\ risk.key = row.key /\ risk.status = row.target
  /\ wantsSuppressingEscalation(row) <=> risk.open > 0
  /\ ChildrenDone(row, risk)

-----------------------------------------------------------------------------
(* A run: searching and reconstructing.                                      *)

Start ==
  /\ run.pc = "idle"
  /\ run' = [Idle EXCEPT !.pc = "search"]
  /\ UNCHANGED <<risks, granted, settled, acts, ops, sheet>>

SameSecond(i, j) == \A k \in DOMAIN risks : i < k /\ k <= j => risks[k].tied

\* What ORDER BY created_at DESC LIMIT l OFFSET o may return: the newest o risks are
\* before it, but those of one second come in any order, another one for each query.
PageOf(o, l) ==
  {page \in SUBSET DOMAIN risks :
     /\ Cardinality(page) = Min({l, Len(risks) - o})
     /\ \E before \in SUBSET (DOMAIN risks \ page) :
          /\ Cardinality(before) = o
          /\ \A b \in before, p \in page : b > p \/ SameSecond(b, p)
          /\ \A p \in page, a \in DOMAIN risks \ (before \cup page) : p > a \/ SameSecond(p, a)}

Found(page, offset) == {[page |-> offset, id |-> i, key |-> risks[i].key, status |-> risks[i].status] :
                          i \in {i \in page : risks[i].marker}}

\* SearchRisks counts the risks, ...
CountRisks ==
  /\ run.pc \in {"search", "recheck"}
  /\ run' = [run EXCEPT !.total = Len(risks), !.pc = IF @ = "search" THEN "page" ELSE "repage"]
  /\ UNCHANGED <<risks, granted, settled, acts, ops, sheet>>

\* ... and reads a page of them in a statement of its own.  searchMarkerRisks goes on to
\* another page until it has as many as this one's count.
SearchPage(count, next) ==
  /\ \E page \in PageOf(run.offset, PageLimit) :
       LET found  == run.found \cup Found(page, run.offset)
           offset == run.offset + Cardinality(page)
       IN run' = IF page = {} \/ offset >= run.total
                 THEN [run EXCEPT !.found = found, !.offset = 0, !.total = 0, !.pc = next, !.row = 1]
                 ELSE [run EXCEPT !.found = found, !.offset = offset, !.total = 0, !.pc = count]
  /\ UNCHANGED <<risks, granted, settled, acts, ops, sheet>>

\* Mutant: the search on resume reads one page.
Search_FirstPage ==
  /\ run.pc = "page"
  /\ \E page \in PageOf(0, PageLimit) :
       run' = [run EXCEPT !.found = Found(page, 0), !.total = 0, !.pc = "resume", !.row = 1]
  /\ UNCHANGED <<risks, granted, settled, acts, ops, sheet>>

Search == run.pc = "page" /\ SearchPage("search", "resume")

\* Mutant: rows that share a natural key are only found out on resume.
rejectDuplicateKeys_Later == {}

rejectDuplicateKeys == {r \in Rows : \E s \in Rows \ {r} : sheet[s].key = sheet[r].key}

Matches(r) == {f \in run.found : f.key = sheet[r].key}

Ambiguous(r) == \E f, g \in Matches(r) : f # g

Match(r) == CHOOSE f \in Matches(r) : TRUE

\* A row goes on to the next one, the last to the next phase.
Advance(state, phase, next) ==
  IF state.row = Len(sheet) THEN [state EXCEPT !.pc = next, !.row = 1]
                            ELSE [state EXCEPT !.pc = phase, !.row = @ + 1]

\* Mutant: no status is kept of a risk that is off the path.
Progress_OnPath(r, m) ==
  [stage |-> IF StepsDone(sheet[r], m.status, risks[m.id]) THEN "Complete" ELSE "Partial",
   id |-> m.id, status |-> IF m.status \in Range(Path) THEN m.status ELSE "",
   assessed |-> HasAssessment(risks[m.id])]

Progress(r, m) ==
  [stage |-> IF StepsDone(sheet[r], m.status, risks[m.id]) THEN "Complete" ELSE "Partial",
   id |-> m.id, status |-> m.status, assessed |-> HasAssessment(risks[m.id])]

\* reconstructState, for one row: the risk that matches is read now.  A row that
\* matches more than one is rejected.
Resume ==
  /\ run.pc = "resume"
  /\ LET r == run.row
         state == IF r \in rejectDuplicateKeys \/ Ambiguous(r) THEN [run EXCEPT !.rejected = @ \cup {r}]
                  ELSE IF Matches(r) = {} THEN run
                  ELSE [run EXCEPT !.progress[r] = Progress(r, Match(r))]
     IN run' = Advance(IF r = Len(sheet) THEN [state EXCEPT !.found = {}] ELSE state, "resume", "row")
  /\ UNCHANGED <<risks, granted, settled, acts, ops, sheet>>

-----------------------------------------------------------------------------
(* A run: writing, one call to the entity at a time.                         *)

Row == sheet[run.row]
Here == run.progress[run.row]

\* The row is done with; what was found of it is not looked at again.
Done(state) ==
  Advance([state EXCEPT !.progress[state.row] = NotFound, !.todo = <<>>], "row", "recheck")

\* migrateRow from its assessment on, for the risk it has.
AfterCreate(p) ==
  [run EXCEPT !.progress[run.row] = p, !.pc = IF Row.residual /\ ~p.assessed THEN "assess" ELSE "walk"]

MigrateRow ==
  /\ run.pc = "row"
  /\ run' = IF run.row \in run.rejected \/ Here.stage = "Complete"
            THEN Done(run)
            ELSE IF Here.stage = "None" THEN [run EXCEPT !.pc = "create"]
            ELSE AfterCreate(Here)
  /\ UNCHANGED <<risks, granted, settled, acts, ops, sheet>>

NewRisk(key, marker, due) ==
  {[key |-> key, marker |-> marker, status |-> "PENDING_RISK_OWNER_APPROVAL", due |-> due, tied |-> t,
    assessed |-> 0, open |-> 0, escalated |-> FALSE, planDone |-> FALSE] :
     t \in IF "Ties" \in ops /\ risks # <<>> THEN BOOLEAN ELSE {FALSE}}

CreateRisk ==
  /\ run.pc = "create" /\ Len(risks) < MaxRisks
  /\ \E risk \in NewRisk(Row.key, TRUE, Row.overdue) :
       risks' = Append(risks, risk)
  /\ run' = AfterCreate([Here EXCEPT !.id = Len(risks) + 1, !.status = "PENDING_RISK_OWNER_APPROVAL"])
  /\ UNCHANGED <<granted, settled, acts, ops, sheet>>

CreateAssessment ==
  /\ run.pc = "assess"
  /\ risks' = [risks EXCEPT ![Here.id].assessed = @ + 1]
  /\ run' = [run EXCEPT !.pc = "walk"]
  /\ UNCHANGED <<granted, settled, acts, ops, sheet>>

\* A 400 rejects the row and goes on; a 409 ends the run.
Rejected(r) == Done([run EXCEPT !.rejected = @ \cup {r}])

\* What comes after the walk, by the target.
Walked ==
  [run EXCEPT !.pc = IF Row.target = "CLOSED" THEN "plan"
                     ELSE IF wantsSuppressingEscalation(Row) THEN "list" ELSE "grant",
              !.todo = expectedGrants(Row)]

\* Mutant: the hop is not guarded by the status it starts from.
PatchAccepted_NoCAS(id, expected) == TRUE

PatchAccepted(id, expected) == risks[id].status = expected

\* One hop: expectedStatus is what the search, or the hop before, has seen.
PatchRisk ==
  /\ run.pc = "walk"
  /\ LET hops == HopsLeft(Here.status, Row.target)
         hop  == Path[Min(hops)]
     IN IF hops = {} THEN run' = Walked /\ UNCHANGED risks
        ELSE IF ~isValidRiskTransition(Here.status, hop) THEN run' = Rejected(run.row) /\ UNCHANGED risks
        ELSE IF PatchAccepted(Here.id, Here.status)
        THEN /\ risks' = [risks EXCEPT ![Here.id].status = hop]
             /\ run' = [run EXCEPT !.progress[run.row].status = hop]
        ELSE run' = Idle /\ UNCHANGED risks
  /\ UNCHANGED <<granted, settled, acts, ops, sheet>>

ListEscalations ==
  /\ run.pc = "list"
  /\ run' = [run EXCEPT !.pc = IF risks[Here.id].open > 0 THEN "grant" ELSE "suppress"]
  /\ UNCHANGED <<risks, granted, settled, acts, ops, sheet>>

\* The row alone: the status of the risk stays, and is not asked for.
CreateEscalation ==
  /\ run.pc = "suppress"
  /\ risks' = [risks EXCEPT ![Here.id].open = @ + 1]
  /\ run' = [run EXCEPT !.pc = "grant"]
  /\ UNCHANGED <<granted, settled, acts, ops, sheet>>

\* An upsert: a grant that was revoked is ACTIVE again.
CreateGrant ==
  /\ run.pc = "grant"
  /\ IF run.todo = <<>>
     THEN run' = Done(run) /\ UNCHANGED granted
     ELSE granted' = granted \cup {Head(run.todo)} /\ run' = [run EXCEPT !.todo = Tail(@)]
  /\ UNCHANGED <<risks, settled, acts, ops, sheet>>

\* A plain UPDATE of the plan: neither its steps nor the risk are looked at.
PatchActionPlan ==
  /\ run.pc = "plan"
  /\ risks' = [risks EXCEPT ![Here.id].planDone = TRUE]
  /\ run' = Done(run)
  /\ UNCHANGED <<granted, settled, acts, ops, sheet>>

-----------------------------------------------------------------------------
(* A run: the verification, and its end.                                     *)

Recheck == run.pc = "repage" /\ SearchPage("recheck", "verify")

\* Exit code 0 or 2; the report is the run's only other result.
VerifyRow ==
  /\ run.pc = "verify"
  /\ LET r  == run.row
         ok == IF r \in run.rejected THEN Matches(r) = {}
               ELSE Matches(r) # {} /\ ~Ambiguous(r) /\ verifyRow(sheet[r], risks[Match(r).id])
         state == [run EXCEPT !.mismatch = @ \/ ~ok]
     IN IF r = Len(sheet)
        THEN run' = Idle /\ settled' = (run.calm /\ (settled \/ (state.rejected = {} /\ ~state.mismatch)))
        ELSE run' = Advance(state, "verify", "idle") /\ UNCHANGED settled
  /\ UNCHANGED <<risks, granted, acts, ops, sheet>>

\* A call fails, the task is killed, or a call went through whose answer is lost.
Crash ==
  /\ "Crash" \in ops /\ acts < MaxActs /\ run.pc # "idle"
  /\ run' = Idle /\ acts' = acts + 1
  /\ UNCHANGED <<risks, granted, settled, ops, sheet>>

RunStep ==
  \/ Start \/ CountRisks \/ Search \/ Resume \/ MigrateRow \/ CreateRisk \/ CreateAssessment
  \/ PatchRisk \/ ListEscalations \/ CreateEscalation \/ CreateGrant \/ PatchActionPlan \/ Recheck \/ VerifyRow

-----------------------------------------------------------------------------
(* What happens beside the runs: the work on the risks, in the GRC backend.  *)

Act(what) ==
  /\ what \in ops /\ acts < MaxActs
  /\ acts' = acts + 1 /\ settled' = FALSE
  /\ run' = [run EXCEPT !.calm = FALSE]
  /\ UNCHANGED <<ops, sheet>>

\* The nightly job leaves out what has an OPEN escalation.
EscalateOverdue(i) ==
  /\ Act("Job")
  /\ risks[i].status = "APPROVED" /\ risks[i].due
  /\ risks[i].open = 0 /\ ~risks[i].escalated
  /\ risks' = [risks EXCEPT ![i].status = "ESCALATED", ![i].escalated = TRUE]
  /\ UNCHANGED granted

\* Any move of the entity's table; escalations are left to the job.
Decide(i) ==
  /\ Act("Users")
  /\ \E to \in Statuses \ {"ESCALATED", "PENDING_OWNER_COMPLETION_APPROVAL"} :
       /\ <<risks[i].status, to>> \in allowedRiskTransitions
       /\ risks' = [risks EXCEPT ![i].status = to]
  /\ UNCHANGED granted

\* A submission resolves the open escalations, the marker's among them, if it can.
Submit(i) ==
  /\ Act("Users")
  /\ risks[i].status = "APPROVED"
  /\ \E resolved \in BOOLEAN :
       risks' = [risks EXCEPT ![i].status = "PENDING_OWNER_COMPLETION_APPROVAL",
                              ![i].open = IF resolved THEN 0 ELSE @,
                              ![i].escalated = @ /\ ~resolved]
  /\ UNCHANGED granted

Retitle(i) ==
  /\ Act("Retitle")
  /\ risks[i].key # NoKey
  /\ risks' = [risks EXCEPT ![i].key = NoKey]
  /\ UNCHANGED granted

RevokeGrant ==
  /\ Act("Revoke")
  /\ \E g \in granted : granted' = granted \ {g}
  /\ UNCHANGED risks

\* Somebody else's risk in the same registers.
RaiseRisk ==
  /\ "Raise" \in ops /\ acts < MaxActs /\ Len(risks) < MaxRisks
  /\ run.pc = "page" => "Overlap" \in ops
  /\ acts' = acts + 1
  /\ \E risk \in NewRisk(NoKey, FALSE, FALSE) : risks' = Append(risks, risk)
  /\ UNCHANGED <<granted, run, settled, ops, sheet>>

Next ==
  \/ RunStep
  \/ Crash
  \/ \E i \in DOMAIN risks : EscalateOverdue(i) \/ Decide(i) \/ Submit(i) \/ Retitle(i)
  \/ RevokeGrant
  \/ RaiseRisk

\* Each call has a timeout, and a run that stopped is started again.
Spec == Init /\ [][Next]_vars /\ WF_vars(RunStep)

-----------------------------------------------------------------------------
(* Properties.                                                               *)

Without(what) == ops \cap what = {}

\* A row of the sheet has one risk that carries its key, wherever the runs were killed and
\* whatever users do in between: as long as no page of the search on resume can miss a
\* risk.  A risk whose title users have changed is not the row's any more, and a run that
\* follows creates another.
OneRiskPerRow ==
  Without({"Overlap"}) =>
    \A i, j \in DOMAIN risks : i # j /\ risks[i].key = risks[j].key => risks[i].key = NoKey

\* Neither the assessment nor the escalation that keeps the nightly job away is written
\* to a risk twice, by runs that resume at any place.
WrittenOnce == \A i \in DOMAIN risks : risks[i].assessed <= 1 /\ risks[i].open <= 1

\* Another run after one that ended with exit code 0 writes nothing: risks, assessments,
\* escalations, plans and grants are as they were.  Unless a risk is raised between the
\* count and a page of its search: then it may miss a risk, and create that again.
RerunChangesNothing ==
  [][Without({"Overlap"}) /\ settled /\ RunStep => UNCHANGED entityVars]_vars

\* Exit code 0 means that the whole sheet is in the entity: also if the risks were worked
\* on between the runs, and if a page of a search has missed a risk.
CleanRunMeansMigrated ==
  settled => \A r \in Rows : \E i \in DOMAIN risks :
    /\ risks[i].key = sheet[r].key /\ risks[i].status = sheet[r].target
    /\ sheet[r].residual => risks[i].assessed = 1
    /\ sheet[r].target = "CLOSED" => risks[i].planDone
    /\ wantsSuppressingEscalation(sheet[r]) => risks[i].open = 1
    /\ Range(expectedGrants(sheet[r])) \subseteq granted

\* A risk that was closed or cancelled while a run went on stays so, although the run
\* decided on what its search had seen.
TerminalIsFinal ==
  [][\A i \in DOMAIN risks : risks[i].status \in Terminal => risks'[i].status = risks[i].status]_vars

\* The row's risk is left to the runs, and no search on resume misses it.
Spared(r) == Without({"Users", "Retitle", "Overlap"}) /\ ~("Job" \in ops /\ sheet[r].overdue)

Landed(r) == \E i \in DOMAIN risks : risks[i].marker /\ verifyRow(sheet[r], risks[i])

\* Runs that are started again until they end bring every row in: unless users, or the
\* nightly job, have come to its risk first.
EveryRowLands == []<>(\A r \in Rows \ rejectDuplicateKeys : Spared(r) => Landed(r))
=============================================================================
