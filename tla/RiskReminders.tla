---------------------------- MODULE RiskReminders ----------------------------
(* The daily reminders of the risks whose implementation date comes near.     *)
EXTENDS ReminderClaims

CONSTANTS Risks,     \* approved risks
          DueDates   \* the implementation dates they may have

ASSUME DueDatesAssumption == DueDates \subseteq Nat /\ DueDates # {}

VARIABLES risk,        \* the APPROVED risks' dates and effective levels
          riskSweep    \* the sweep of each replica

riskVars == <<risk, riskSweep>>

Tiers == {"DUE_IN_15_DAYS", "DUE_IN_5_DAYS", "DUE_TODAY"}

ReminderLeadDays == [t \in Tiers |-> CASE t = "DUE_IN_15_DAYS" -> 15 [] t = "DUE_IN_5_DAYS" -> 5 [] OTHER -> 0]

reminderTiersByLevel ==
  [HIGH |-> Tiers, MEDIUM |-> {"DUE_IN_5_DAYS", "DUE_TODAY"}, LOW |-> {"DUE_TODAY"}]

Levels == DOMAIN reminderTiersByLevel

RiskKeys == [risk : Risks, tier : Tiers, due : DueDates]

NoKey == [risk |-> "none"]

\* left: what is yet to be claimed; item: what is claimed, and being sent or released.
RiskSweepStates == [pc : {"start", "claim", "send", "release"}, left : SUBSET RiskKeys, item : RiskKeys \cup {NoKey}]

RiskSweepIdle == [pc |-> "start", left |-> {}, item |-> NoKey]

RisksTypeOK ==
  /\ risk \in [Risks -> [due : DueDates, level : Levels]]
  /\ riskSweep \in [Replicas -> RiskSweepStates]

RisksInit ==
  /\ risk \in Varied("risk", [Risks -> [due : DueDates, level : Levels]])
  /\ riskSweep = [r \in Replicas |-> RiskSweepIdle]

\* A reassessment moves the date or the level of a risk.
AssessRisk(k) ==
  /\ Edit("risk")
  /\ \E d \in DueDates, l \in Levels : risk' = [risk EXCEPT ![k] = [due |-> d, level |-> l]]
  /\ UNCHANGED <<riskSweep, claimVars>>

-----------------------------------------------------------------------------
\* ReminderTierFor, of every risk of the page: never late.
DueToday ==
  {k \in RiskKeys : /\ k.due = risk[k.risk].due
                    /\ k.tier \in reminderTiersByLevel[risk[k.risk].level]
                    /\ k.due - day = ReminderLeadDays[k.tier]}

RiskStep(r, pc) == "risk" \in replica[r].busy /\ riskSweep[r].pc = pc

RiskGoes(r, state) == riskSweep' = [riskSweep EXCEPT ![r] = state]

ListRisks(r) ==
  /\ RiskStep(r, "start")
  /\ \/ RiskGoes(r, [riskSweep[r] EXCEPT !.pc = "claim", !.left = DueToday]) /\ UNCHANGED schedulerVars
     \/ "ListFails" \in ops /\ Done(r, "risk") /\ UNCHANGED riskSweep
  /\ UNCHANGED <<risk, claimVars>>

\* A claim that fails is taken for lost: the risk is skipped.
ClaimRisk(r) ==
  /\ RiskStep(r, "claim")
  /\ \E k \in riskSweep[r].left :
       \/ Won(k) /\ RiskGoes(r, [riskSweep[r] EXCEPT !.pc = "send", !.left = @ \ {k}, !.item = k])
       \/ (Taken(k) \/ ClaimFails(k)) /\ RiskGoes(r, [riskSweep[r] EXCEPT !.left = @ \ {k}])
  /\ Unsent /\ UNCHANGED <<risk, schedulerVars>>

\* SendDueReminderSync: an error also when nobody could be written to, or when
\* the mail went out and the answer did not arrive.
NotifyRisk(r) ==
  /\ RiskStep(r, "send")
  /\ \/ Mail({riskSweep[r].item}) /\ RiskGoes(r, [riskSweep[r] EXCEPT !.pc = "claim", !.item = NoKey])
     \/ /\ \/ "MailFails" \in ops /\ Unsent
           \/ "MailLost" \in ops /\ Mail({riskSweep[r].item})
        /\ RiskGoes(r, [riskSweep[r] EXCEPT !.pc = "release"])
  /\ UNCHANGED <<risk, claims, schedulerVars>>

ReleaseRisk(r) ==
  /\ RiskStep(r, "release")
  /\ Release(riskSweep[r].item)
  /\ RiskGoes(r, [riskSweep[r] EXCEPT !.pc = "claim", !.item = NoKey])
  /\ Unsent /\ UNCHANGED <<risk, schedulerVars>>

RiskSweepEnds(r) ==
  /\ RiskStep(r, "claim") /\ riskSweep[r].left = {}
  /\ RiskGoes(r, RiskSweepIdle)
  /\ Done(r, "risk")
  /\ UNCHANGED <<risk, claimVars>>

RiskSweep(r) == ListRisks(r) \/ ClaimRisk(r) \/ NotifyRisk(r) \/ ReleaseRisk(r) \/ RiskSweepEnds(r)
=============================================================================
