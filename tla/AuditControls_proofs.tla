------------------------- MODULE AuditControls_proofs -------------------------
(* Theorems about AuditControls, for any number of requests in flight, any    *)
(* bounds on the rounds and any mixes of operations.                          *)
EXTENDS AuditControls, FiniteSetTheorems, WellFoundedInduction, SequenceTheorems, TLAPS

-----------------------------------------------------------------------------
(* The inductive invariant.                                                   *)

\* Some round of the population is approved.
PopulationApproved == \E i \in Live("population") : rounds["population"][i] = "APPROVED"

\* What a request in flight may rely on when it comes to its next call, whatever
\* the others have done since its last one.
\*   replace: its round is one of the population's, and it is not open again
\*            unless an admin reopened it;
\*   mark, status: whoever is about to complete the population, and no submission
\*            is, approves a round of it first, and the round stays approved;
\*   check, override: the control had the status that it read, which is none of a
\*            deleted control, and is to get one;
\*   cascade: the control, which it has locked, is there.
RequestOK(q) ==
  /\ q.pc = "replace" =>
       /\ q.round \in DOMAIN rounds["population"]
       /\ ~byHand => rounds["population"][q.round] # "PENDING"
  /\ q.to = "POPULATION_COMPLETE" =>
       /\ q.pc \notin {"replace", "insert"}
       /\ q.pc = "mark" => q.kind = "population" /\ q.mark = "APPROVED"
       /\ q.pc = "status" /\ ~byHand /\ ctl.status # Deleted => PopulationApproved
  /\ q.pc \in {"check", "override"} => q.to \in ControlStatuses /\ q.from \in ControlStatuses
  /\ q.pc = "cascade" =>
       /\ ctl.status # Deleted
       /\ q.to \in ControlStatuses
       /\ q.cascade["evidence"].to # "PENDING"

RequestInv ==
  /\ \A r \in Requests : RequestOK(req[r])
  /\ \A r, s \in Requests : At(r, "cascade") /\ At(s, "cascade") => r = s

\* The evidence has no rounds that wait for a first submission.
EvidenceInv == \A i \in Live("evidence") : rounds["evidence"][i] # "PENDING"

RoundsInv == EvidenceInv /\ TypeFitsStage /\ PopulationApprovedBehindEvidence /\ OneReplacementRound

IInv == TypeOK /\ RequestInv /\ RoundsInv

-----------------------------------------------------------------------------
(* The tables.                                                                *)

\* A step of a round: it does not open an empty round, and APPROVED is final.
LEMMA RoundMoves ==
  ASSUME NEW from \in RoundStatuses, NEW to, isValidRoundTransition(from, to)
  PROVE  /\ to \in RoundStatuses
         /\ from # "PENDING" => to # "PENDING"
         /\ from = "APPROVED" => to = "APPROVED"
BY DEF RoundStatuses, Rejected, isValidRoundTransition, allowedRoundTransitions

\* The ranks of the control's statuses.
LEMMA Ranks ==
  /\ controlStatusRank \in [ControlStatuses -> Nat]
  /\ designControlFloorRank = 6
  /\ controlStatusRank["EVIDENCE_INTERNAL_REVIEW"] = 7
  /\ \A s \in ControlStatuses :
       /\ controlStatusRank[s] < 6 <=>
            s \in PopulationStages \cup {"POPULATION_COMPLETE", "AWAITING_SAMPLE", "SUBMITTED_SAMPLE"}
       /\ controlStatusRank[s] < 7 <=>
            s \notin {"EVIDENCE_INTERNAL_REVIEW", "EVIDENCE_UNDER_VALIDATION", "COMPLETE"}
BY DEF controlStatusRank, designControlFloorRank, ControlStatuses, PopulationStages

\* A step of a control: it does not fall below the floor of the DESIGN controls,
\* and only POPULATION_COMPLETE leads out of the population's stages.
LEMMA ControlMoves ==
  ASSUME NEW from \in ControlStatuses, NEW to, isValidControlTransition(from, to)
  PROVE  /\ to \in ControlStatuses
         /\ controlStatusRank[from] >= designControlFloorRank => controlStatusRank[to] >= designControlFloorRank
         /\ from \in PopulationStages => to \in PopulationStages \cup {"POPULATION_COMPLETE"}
<1>1. to = from \/ to \in allowedControlTransitions[from]
  BY DEF isValidControlTransition
<1>2. /\ to \in ControlStatuses
      /\ from \in PopulationStages => to \in PopulationStages \cup {"POPULATION_COMPLETE"}
  BY <1>1 DEF allowedControlTransitions, ControlStatuses, PopulationStages
<1>3. from \in {"EVIDENCE_PENDING", "EVIDENCE_INTERNAL_REVIEW", "EVIDENCE_UNDER_VALIDATION",
                "EVIDENCE_NEED_CLARIFICATION", "COMPLETE"} =>
        to \notin PopulationStages \cup {"POPULATION_COMPLETE", "AWAITING_SAMPLE", "SUBMITTED_SAMPLE"}
  BY <1>1 DEF allowedControlTransitions, ControlStatuses, PopulationStages
<1>4. controlStatusRank[from] >= 6 =>
        from \in {"EVIDENCE_PENDING", "EVIDENCE_INTERNAL_REVIEW", "EVIDENCE_UNDER_VALIDATION",
                  "EVIDENCE_NEED_CLARIFICATION", "COMPLETE"}
  BY Ranks DEF ControlStatuses, PopulationStages
<1>5. controlStatusRank[from] \in Nat /\ controlStatusRank[to] \in Nat
  BY <1>2, Ranks
<1> QED BY <1>2, <1>3, <1>4, <1>5, Ranks

\* What an override demotes a round to: an evidence round never to PENDING.
LEMMA Targets ==
  ASSUME NEW to \in ControlStatuses
  PROVE  /\ overridePopulationTarget[to] \in RoundStatuses \cup {Untouched}
         /\ overrideEvidenceTarget[to] \in (RoundStatuses \ {"PENDING"}) \cup {Untouched}
BY DEF overridePopulationTarget, overrideEvidenceTarget, ControlStatuses, PopulationStages,
       RoundStatuses, Rejected, Untouched

-----------------------------------------------------------------------------
(* The rounds.                                                                *)

\* A set of naturals with a bound has a greatest element.
LEMMA GreatestOf ==
  ASSUME NEW N \in Nat, NEW S \in SUBSET (1..N), S # {}
  PROVE  Max(S) \in S /\ \A n \in S : n <= Max(S)
<1> DEFINE Above(k) == S \cap (k..N)
           Finals == {Above(k) : k \in S}
<1>1. IsFiniteSet(S)
  <2>1. IsFiniteSet(1..N)
    BY FS_Interval
  <2> QED BY <2>1, FS_Subset
<1>2. Finals \subseteq FiniteSubsetsOf(S) /\ Finals # {}
  <2>1. \A k \in S : Above(k) \in SUBSET S
    OBVIOUS
  <2>2. \A k \in S : IsFiniteSet(Above(k))
    BY <1>1, <2>1, FS_Subset
  <2> QED BY <2>1, <2>2 DEF FiniteSubsetsOf
<1>3. PICK X \in Finals : \A Y \in Finals : <<Y, X>> \notin StrictSubsetOrdering(S)
  <2> HIDE DEF Finals
  <2> QED BY <1>1, <1>2, FS_StrictSubsetOrderingWellFounded, WFMin
<1>4. PICK m \in S : X = Above(m)
  BY <1>3
<1>5. ASSUME NEW n \in S, ~(n <= m) PROVE FALSE
  <2>1. Above(n) \subseteq Above(m) /\ m \in Above(m) /\ m \notin Above(n)
    BY <1>5
  <2>2. <<Above(n), Above(m)>> \in StrictSubsetOrdering(S)
    BY <2>1 DEF StrictSubsetOrdering
  <2> QED BY <2>2, <1>3, <1>4
<1> QED BY <1>5 DEF Max

Lists == Seq(RoundStatuses \cup {Deleted})

\* Those of a list's rounds that are live.
LiveOf(list) == {i \in DOMAIN list : list[i] # Deleted}

\* The last of them.
LEMMA LastOf ==
  ASSUME NEW list \in Lists, LiveOf(list) # {}
  PROVE  /\ Max(LiveOf(list)) \in LiveOf(list)
         /\ \A i \in LiveOf(list) : i <= Max(LiveOf(list))
<1>1. Len(list) \in Nat /\ LiveOf(list) \in SUBSET (1..Len(list))
  BY DEF Lists, LiveOf
<1> QED BY <1>1, GreatestOf

\* The latest round of a kind.
LEMMA LatestRound ==
  ASSUME StoreTypeOK, NEW k \in Kinds
  PROVE  /\ rounds[k] \in Lists
         /\ Latest(k) \in Nat
         /\ Latest(k) = 0 <=> Live(k) = {}
         /\ Live(k) # {} => Latest(k) \in Live(k)
         /\ \A i \in Live(k) : i <= Latest(k) /\ i \in DOMAIN rounds[k] /\ rounds[k][i] \in RoundStatuses
<1>1. rounds[k] \in Lists /\ Live(k) = LiveOf(rounds[k])
  BY DEF StoreTypeOK, Lists, Live, LiveOf
<1>2. Live(k) \subseteq 1..Len(rounds[k]) /\ Len(rounds[k]) \in Nat
  BY <1>1 DEF Lists, Live
<1>3. CASE Live(k) = {}
  BY <1>1, <1>3 DEF Latest
<1>4. CASE Live(k) # {}
  <2>1. Max(Live(k)) \in Live(k) /\ \A i \in Live(k) : i <= Max(Live(k))
    BY <1>1, <1>4, LastOf
  <2>2. \A i \in Live(k) : rounds[k][i] \in RoundStatuses /\ i \in DOMAIN rounds[k]
    BY <1>1 DEF Lists, Live
  <2> QED BY <1>1, <1>2, <1>4, <2>1, <2>2 DEF Latest
<1> QED BY <1>3, <1>4

-----------------------------------------------------------------------------
(* What the entity's transactions do to the rounds.                           *)

\* One round of a kind is written.
LEMMA RoundWritten ==
  ASSUME StoreTypeOK, NEW k \in Kinds, NEW i \in DOMAIN rounds[k], NEW to \in RoundStatuses \cup {Deleted},
         rounds' = [rounds EXCEPT ![k][i] = to]
  PROVE  /\ rounds' \in [Kinds -> Lists]
         /\ \A l \in Kinds :
              /\ DOMAIN rounds'[l] = DOMAIN rounds[l]
              /\ \A j \in DOMAIN rounds[l] : rounds'[l][j] = IF l = k /\ j = i THEN to ELSE rounds[l][j]
<1>1. rounds \in [Kinds -> Lists] /\ i \in 1..Len(rounds[k])
  BY LenProperties DEF StoreTypeOK, Lists
<1>2. rounds' = [rounds EXCEPT ![k] = [rounds[k] EXCEPT ![i] = to]]
  BY <1>1
<1>3. [rounds[k] EXCEPT ![i] = to] \in Lists
  BY <1>1, ExceptSeq DEF Lists
<1> QED BY <1>1, <1>2, <1>3

\* One round of a kind is added.
LEMMA RoundAdded ==
  ASSUME StoreTypeOK, NEW k \in Kinds, NEW status \in RoundStatuses,
         rounds' = [rounds EXCEPT ![k] = Append(@, status)]
  PROVE  LET n == Len(rounds[k]) + 1 IN
         /\ rounds' \in [Kinds -> Lists]
         /\ n \in Nat \ {0} /\ DOMAIN rounds[k] = 1..(n - 1) /\ DOMAIN rounds'[k] = 1..n
         /\ rounds'[k][n] = status
         /\ \A j \in DOMAIN rounds[k] : rounds'[k][j] = rounds[k][j]
         /\ \A l \in Kinds \ {k} : rounds'[l] = rounds[l]
<1>1. rounds \in [Kinds -> Lists] /\ rounds[k] \in Seq(RoundStatuses \cup {Deleted})
  BY DEF StoreTypeOK, Lists
<1>2. Append(rounds[k], status) \in Lists
  BY <1>1, AppendProperties DEF Lists
<1>3. rounds'[k] = Append(rounds[k], status)
  BY <1>1
<1>4. \A l \in Kinds \ {k} : rounds'[l] = rounds[l]
  BY <1>1
<1>5. rounds' \in [Kinds -> Lists]
  BY <1>1, <1>2
<1> QED BY <1>1, <1>3, <1>4, <1>5, AppendProperties, LenProperties

\* Deleted is no status of a round that is live.
LEMMA DeletedIsNone == Deleted \notin RoundStatuses /\ Deleted \notin ControlStatuses
BY DEF Deleted, RoundStatuses, Rejected, ControlStatuses, PopulationStages

\* A round is marked: the same rounds are live.
LEMMA RoundMarked ==
  ASSUME StoreTypeOK, NEW k \in Kinds, NEW i, NEW to, UpdateRound(k, i, to)
  PROVE  /\ rounds' \in [Kinds -> Lists]
         /\ \A l \in Kinds : DOMAIN rounds'[l] = DOMAIN rounds[l] /\ Live(l)' = Live(l)
         /\ \A l \in Kinds : \A j \in DOMAIN rounds[l] :
              /\ rounds[l][j] # "PENDING" => rounds'[l][j] # "PENDING"
              /\ rounds[l][j] = "APPROVED" => rounds'[l][j] = "APPROVED"
<1>1. i \in DOMAIN rounds[k] /\ rounds[k][i] \in RoundStatuses /\ rounds' = [rounds EXCEPT ![k][i] = to]
  BY LatestRound DEF UpdateRound
<1>2. /\ to \in RoundStatuses
      /\ rounds[k][i] # "PENDING" => to # "PENDING"
      /\ rounds[k][i] = "APPROVED" => to = "APPROVED"
  BY <1>1, RoundMoves DEF UpdateRound
<1>3. /\ rounds' \in [Kinds -> Lists]
      /\ \A l \in Kinds :
           /\ DOMAIN rounds'[l] = DOMAIN rounds[l]
           /\ \A j \in DOMAIN rounds[l] : rounds'[l][j] = IF l = k /\ j = i THEN to ELSE rounds[l][j]
  BY <1>1, <1>2, RoundWritten
<1>4. \A l \in Kinds : Live(l)' = Live(l)
  BY <1>1, <1>2, <1>3, DeletedIsNone DEF Live
<1> QED BY <1>1, <1>2, <1>3, <1>4

-----------------------------------------------------------------------------
(* What the steps do to the store: its type and its rounds' invariant hold     *)
(* again, and what the requests in flight rely on stays.                       *)

\* An approved round stays approved, and no round opens again, while no admin
\* has moved the control by hand and it is not deleted.
Onwards ==
  /\ DOMAIN rounds["population"] \subseteq DOMAIN rounds'["population"]
  /\ ~byHand' =>
       /\ ~byHand
       /\ \A i \in DOMAIN rounds["population"] :
            rounds["population"][i] # "PENDING" => rounds'["population"][i] # "PENDING"
       /\ ctl'.status # Deleted => ctl.status # Deleted /\ (PopulationApproved => PopulationApproved')

\* The round invariant speaks of which rounds are live, of what is PENDING and of
\* what is APPROVED: it stays if the live rounds stay and only go forward.
LEMMA RoundsForward ==
  ASSUME StoreTypeOK, RoundsInv, UNCHANGED <<ctl, byHand, crossed>>,
         \A l \in Kinds : DOMAIN rounds'[l] = DOMAIN rounds[l] /\ Live(l)' = Live(l),
         \A l \in Kinds : \A j \in DOMAIN rounds[l] :
           /\ rounds[l][j] # "PENDING" => rounds'[l][j] # "PENDING"
           /\ rounds[l][j] = "APPROVED" => rounds'[l][j] = "APPROVED"
  PROVE  RoundsInv' /\ Onwards
<1>0. "population" \in Kinds /\ "evidence" \in Kinds
  BY DEF Kinds
<1>1. \A l \in Kinds : Live(l)' = Live(l) /\ Latest(l)' = Latest(l) /\ Live(l) \subseteq DOMAIN rounds[l]
  BY DEF Latest, Live
<1>2. EvidenceInv'
  BY <1>0, <1>1 DEF RoundsInv, EvidenceInv
<1>3. TypeFitsStage'
  BY <1>0, <1>1 DEF RoundsInv, TypeFitsStage
<1>4. PopulationApproved => PopulationApproved'
  BY <1>0, <1>1 DEF PopulationApproved
<1>5. PopulationApprovedBehindEvidence'
  BY <1>4 DEF RoundsInv, PopulationApprovedBehindEvidence, PopulationApproved
<1>6. OneReplacementRound'
  BY <1>0, <1>1 DEF RoundsInv, OneReplacementRound
<1>7. Onwards
  BY <1>0, <1>4 DEF Onwards
<1> QED BY <1>2, <1>3, <1>5, <1>6, <1>7 DEF RoundsInv

\* Calls that write nothing.
LEMMA NothingWritten ==
  ASSUME StoreTypeOK, RoundsInv, UNCHANGED storeVars, UNCHANGED <<byHand, crossed>>
  PROVE  StoreTypeOK' /\ RoundsInv' /\ Onwards
<1>1. UNCHANGED <<ctl, rounds, audit, others, byHand, crossed>>
  BY DEF storeVars
<1>2. StoreTypeOK'
  BY <1>1 DEF StoreTypeOK
<1>3. \A l \in Kinds : DOMAIN rounds'[l] = DOMAIN rounds[l] /\ Live(l)' = Live(l)
  BY <1>1 DEF Live
<1> QED BY <1>1, <1>2, <1>3, RoundsForward

\* UpdateRound.
LEMMA UpdateRoundStep ==
  ASSUME StoreTypeOK, RoundsInv, NEW k \in Kinds, NEW i, NEW to, UpdateRound(k, i, to), UNCHANGED <<byHand, crossed>>
  PROVE  StoreTypeOK' /\ RoundsInv' /\ Onwards
<1>1. UNCHANGED <<ctl, audit, others>>
  BY DEF UpdateRound
<1>2. StoreTypeOK'
  BY <1>1, RoundMarked DEF StoreTypeOK, Lists
<1>3. RoundsInv' /\ Onwards
  BY <1>1, RoundMarked, RoundsForward
<1> QED BY <1>2, <1>3

\* DeleteEvidence: the population's rounds are not touched.
LEMMA DeleteEvidenceStep ==
  ASSUME StoreTypeOK, RoundsInv, NEW i, DeleteEvidence(i), UNCHANGED <<byHand, crossed>>
  PROVE  StoreTypeOK' /\ RoundsInv' /\ Onwards
<1>0. "population" \in Kinds /\ "evidence" \in Kinds
  BY DEF Kinds
<1>1. /\ i \in DOMAIN rounds["evidence"] /\ UNCHANGED <<ctl, audit, others>>
      /\ rounds' = [rounds EXCEPT !["evidence"][i] = Deleted]
  BY DEF DeleteEvidence, Live
<1>2. /\ rounds' \in [Kinds -> Lists]
      /\ \A l \in Kinds :
           /\ DOMAIN rounds'[l] = DOMAIN rounds[l]
           /\ \A j \in DOMAIN rounds[l] :
                rounds'[l][j] = IF l = "evidence" /\ j = i THEN Deleted ELSE rounds[l][j]
  BY <1>0, <1>1, RoundWritten
<1>3. StoreTypeOK'
  BY <1>1, <1>2 DEF StoreTypeOK, Lists
<1>4. /\ Live("population")' = Live("population") /\ Latest("population")' = Latest("population")
      /\ \A j \in DOMAIN rounds["population"] : rounds'["population"][j] = rounds["population"][j]
  BY <1>0, <1>2 DEF Live, Latest
<1>5. \A j \in Live("evidence")' : j \in Live("evidence") /\ rounds'["evidence"][j] = rounds["evidence"][j]
  BY <1>0, <1>2 DEF Live
<1>6. EvidenceInv'
  BY <1>5 DEF RoundsInv, EvidenceInv
<1>7. Live("population") \subseteq DOMAIN rounds["population"]
  BY DEF Live
<1>8. TypeFitsStage' /\ PopulationApprovedBehindEvidence' /\ OneReplacementRound'
  BY <1>1, <1>4, <1>7 DEF RoundsInv, TypeFitsStage, PopulationApprovedBehindEvidence, OneReplacementRound
<1>9. Onwards
  BY <1>0, <1>1, <1>2, <1>4, <1>7 DEF Onwards, PopulationApproved
<1> QED BY <1>3, <1>6, <1>8, <1>9 DEF RoundsInv

\* A round is added: it is live, and the latest of its kind.
LEMMA AddedIsLatest ==
  ASSUME StoreTypeOK, NEW k \in Kinds, NEW status \in RoundStatuses,
         rounds' = [rounds EXCEPT ![k] = Append(@, status)]
  PROVE  LET n == Len(rounds[k]) + 1 IN
         /\ n \notin Live(k) /\ Live(k)' = Live(k) \cup {n} /\ Latest(k)' = n
         /\ \A l \in Kinds \ {k} : Live(l)' = Live(l) /\ Latest(l)' = Latest(l)
<1> DEFINE n == Len(rounds[k]) + 1
<1>1. /\ rounds' \in [Kinds -> Lists]
      /\ n \in Nat \ {0} /\ DOMAIN rounds[k] = 1..(n - 1) /\ DOMAIN rounds'[k] = 1..n
      /\ rounds'[k][n] = status
      /\ \A j \in DOMAIN rounds[k] : rounds'[k][j] = rounds[k][j]
      /\ \A l \in Kinds \ {k} : rounds'[l] = rounds[l]
  BY RoundAdded
<1> HIDE DEF n
<1>2. n \notin Live(k) /\ Live(k)' = Live(k) \cup {n}
  BY <1>1, DeletedIsNone DEF Live
<1>3. Latest(k)' = n
  <2>1. rounds'[k] \in Lists /\ Live(k)' = LiveOf(rounds'[k])
    BY <1>1 DEF Live, LiveOf
  <2>2. Live(k)' # {} /\ Latest(k)' = Max(LiveOf(rounds'[k]))
    BY <1>2, <2>1 DEF Latest
  <2>3. Latest(k)' \in Live(k)' /\ \A i \in Live(k)' : i <= Latest(k)'
    BY <2>1, <2>2, LastOf
  <2>4. Live(k)' \subseteq 1..n
    BY <1>1 DEF Live
  <2> QED BY <1>1, <1>2, <2>3, <2>4
<1>4. \A l \in Kinds \ {k} : Live(l)' = Live(l) /\ Latest(l)' = Latest(l)
  BY <1>1 DEF Live, Latest
<1> QED BY <1>2, <1>3, <1>4 DEF n

\* InsertRound, by a submission of evidence or in place of a rejected round of the
\* population: the round it replaces is not left PENDING behind it.
LEMMA InsertRoundStep ==
  ASSUME StoreTypeOK, RoundsInv, NEW k \in Kinds, NEW status \in RoundStatuses, InsertRound(k, status),
         UNCHANGED <<byHand, crossed>>,
         k = "evidence" => status # "PENDING",
         k = "population" =>
           Latest("population") # 0 /\ (~byHand => rounds["population"][Latest("population")] # "PENDING")
  PROVE  StoreTypeOK' /\ RoundsInv' /\ Onwards
<1>0. "population" \in Kinds /\ "evidence" \in Kinds /\ Kinds = {"population", "evidence"}
  BY DEF Kinds
<1>1. UNCHANGED <<ctl, audit, others>> /\ rounds' = [rounds EXCEPT ![k] = Append(@, status)]
  BY DEF InsertRound
<1> DEFINE n == Len(rounds[k]) + 1
<1>2. /\ rounds' \in [Kinds -> Lists]
      /\ n \in Nat \ {0} /\ DOMAIN rounds[k] = 1..(n - 1) /\ DOMAIN rounds'[k] = 1..n
      /\ rounds'[k][n] = status
      /\ \A j \in DOMAIN rounds[k] : rounds'[k][j] = rounds[k][j]
      /\ \A l \in Kinds \ {k} : rounds'[l] = rounds[l]
  BY <1>1, RoundAdded
<1>3. /\ n \notin Live(k) /\ Live(k)' = Live(k) \cup {n} /\ Latest(k)' = n
      /\ \A l \in Kinds \ {k} : Live(l)' = Live(l) /\ Latest(l)' = Latest(l)
  BY <1>1, AddedIsLatest
<1> HIDE DEF n
<1>4. \A l \in Kinds : Live(l) \subseteq DOMAIN rounds[l]
  BY DEF Live
<1>5. StoreTypeOK'
  BY <1>1, <1>2 DEF StoreTypeOK, Lists
<1>6. \A l \in Kinds : DOMAIN rounds[l] \subseteq DOMAIN rounds'[l]
                       /\ \A j \in DOMAIN rounds[l] : rounds'[l][j] = rounds[l][j]
  BY <1>2
<1>7. \A l \in Kinds : Live(l) \subseteq Live(l)'
  BY <1>3
<1>8. PopulationApproved => PopulationApproved'
  BY <1>0, <1>4, <1>6, <1>7 DEF PopulationApproved
<1>9. Onwards
  BY <1>0, <1>1, <1>6, <1>8 DEF Onwards
<1>10. PopulationApprovedBehindEvidence'
  BY <1>1, <1>8 DEF RoundsInv, PopulationApprovedBehindEvidence, PopulationApproved
<1>11. CASE k = "evidence"
  <2>1. \A j \in Live("evidence")' : rounds'["evidence"][j] # "PENDING"
    BY <1>0, <1>2, <1>3, <1>4, <1>6, <1>11 DEF RoundsInv, EvidenceInv
  <2>2. Live("population")' = Live("population") /\ Latest("population")' = Latest("population")
    BY <1>0, <1>3, <1>11
  <2>3. TypeFitsStage' /\ OneReplacementRound'
    BY <1>0, <1>1, <1>4, <1>6, <2>2 DEF RoundsInv, TypeFitsStage, OneReplacementRound
  <2> QED BY <1>5, <1>9, <1>10, <2>1, <2>3 DEF RoundsInv, EvidenceInv
<1>12. CASE k = "population"
  <2>1. Live("evidence")' = Live("evidence") /\ rounds'["evidence"] = rounds["evidence"]
    BY <1>0, <1>2, <1>3, <1>12
  <2>2. EvidenceInv'
    BY <2>1 DEF RoundsInv, EvidenceInv
  <2>3. Live("population") # {}
    BY <1>12, <1>0, LatestRound
  <2>4. TypeFitsStage'
    BY <1>1, <1>3, <1>12, <2>3 DEF RoundsInv, TypeFitsStage
  <2>5. OneReplacementRound'
    BY <1>0, <1>1, <1>3, <1>4, <1>6, <1>12 DEF RoundsInv, OneReplacementRound
  <2> QED BY <1>5, <1>9, <1>10, <2>2, <2>4, <2>5 DEF RoundsInv
<1> QED BY <1>0, <1>11, <1>12

\* UpdateControl, of a request or by hand: a request completes the population
\* after it has approved a round.
LEMMA UpdateControlStep ==
  ASSUME StoreTypeOK, RoundsInv, NEW to, UpdateControl(to), byHand => byHand', UNCHANGED crossed,
         to = "POPULATION_COMPLETE" /\ ~byHand' => PopulationApproved
  PROVE  StoreTypeOK' /\ RoundsInv' /\ Onwards
<1>0. "population" \in Kinds /\ "evidence" \in Kinds
  BY DEF Kinds
<1>1. ctl.status \in ControlStatuses /\ ctl.status # Deleted /\ isValidControlTransition(ctl.status, to)
  BY DEF UpdateControl, Admitted, StoreTypeOK
<1>2. /\ to \in ControlStatuses
      /\ controlStatusRank[ctl.status] >= designControlFloorRank => controlStatusRank[to] >= designControlFloorRank
      /\ ctl.status \in PopulationStages => to \in PopulationStages \cup {"POPULATION_COMPLETE"}
  BY <1>1, ControlMoves
<1>3. ctl'.status = to /\ ctl'.type = ctl.type /\ UNCHANGED <<rounds, others>>
  BY DEF UpdateControl, StoreTypeOK
<1>4. audit' \in AuditStatuses
  BY DEF UpdateControl, recomputeAuditStatus, StoreTypeOK, AuditStatuses
<1>5. StoreTypeOK'
  BY <1>2, <1>3, <1>4 DEF UpdateControl, StoreTypeOK
<1>6. \A k \in Kinds : Live(k)' = Live(k) /\ Latest(k)' = Latest(k)
  BY <1>3 DEF Live, Latest
<1>7. EvidenceInv' /\ OneReplacementRound'
  BY <1>0, <1>3, <1>6 DEF RoundsInv, EvidenceInv, OneReplacementRound
<1>8. TypeFitsStage'
  BY <1>0, <1>1, <1>2, <1>3, <1>6 DEF RoundsInv, TypeFitsStage
<1>9. PopulationApproved => PopulationApproved'
  BY <1>0, <1>3, <1>6 DEF PopulationApproved
<1>10. PopulationApprovedBehindEvidence'
  BY <1>1, <1>2, <1>3, <1>9 DEF RoundsInv, PopulationApprovedBehindEvidence, PopulationApproved
<1>11. Onwards
  BY <1>1, <1>3, <1>9 DEF Onwards
<1> QED BY <1>5, <1>7, <1>8, <1>10, <1>11 DEF RoundsInv

\* A cascade writes a status over a live round: the same rounds are live.
LEMMA CascadedRounds ==
  ASSUME StoreTypeOK, NEW cascade \in [Kinds -> [id : Nat, to : RoundStatuses \cup {Untouched}]],
         rounds' = cascaded(cascade)
  PROVE  /\ rounds' \in [Kinds -> Lists]
         /\ \A k \in Kinds :
              /\ DOMAIN rounds'[k] = DOMAIN rounds[k] /\ Live(k)' = Live(k) /\ Latest(k)' = Latest(k)
              /\ \A j \in DOMAIN rounds[k] :
                   rounds'[k][j] = IF cascade[k].to # Untouched /\ cascade[k].id \in Live(k) /\ j = cascade[k].id
                                   THEN cascade[k].to ELSE rounds[k][j]
<1>1. ASSUME NEW k \in Kinds
      PROVE  /\ rounds'[k] \in Lists
             /\ DOMAIN rounds'[k] = DOMAIN rounds[k] /\ Live(k)' = Live(k)
             /\ \A j \in DOMAIN rounds[k] :
                  rounds'[k][j] = IF cascade[k].to # Untouched /\ cascade[k].id \in Live(k) /\ j = cascade[k].id
                                  THEN cascade[k].to ELSE rounds[k][j]
  <2> DEFINE i == cascade[k].id
             to == cascade[k].to
  <2>1. rounds'[k] = IF to # Untouched /\ i \in Live(k) THEN [rounds[k] EXCEPT ![i] = to] ELSE rounds[k]
    BY <1>1 DEF cascaded
  <2>2. rounds[k] \in Seq(RoundStatuses \cup {Deleted}) /\ to \in RoundStatuses \cup {Untouched}
    BY <1>1 DEF StoreTypeOK
  <2> HIDE DEF i, to
  <2>3. CASE to # Untouched /\ i \in Live(k)
    <3>1. i \in 1..Len(rounds[k]) /\ DOMAIN rounds[k] = 1..Len(rounds[k])
      BY <2>2, <2>3, LenProperties DEF Live
    <3>2. rounds'[k] \in Seq(RoundStatuses \cup {Deleted}) /\ DOMAIN rounds'[k] = DOMAIN rounds[k]
      BY <2>1, <2>2, <2>3, <3>1, ExceptSeq
    <3>3. \A j \in DOMAIN rounds[k] : rounds'[k][j] = IF j = i THEN to ELSE rounds[k][j]
      BY <2>1, <2>2, <2>3, <3>1
    <3>4. Live(k)' = Live(k)
      BY <2>2, <2>3, <3>2, <3>3, DeletedIsNone DEF Live
    <3> QED BY <2>3, <3>2, <3>3, <3>4 DEF Lists, i, to
  <2>4. CASE ~(to # Untouched /\ i \in Live(k))
    BY <2>1, <2>2, <2>4 DEF Lists, Live, i, to
  <2> QED BY <2>3, <2>4
<1>2. rounds' = [k \in Kinds |-> rounds'[k]]
  BY DEF cascaded
<1>3. rounds' \in [Kinds -> Lists]
  BY <1>1, <1>2
<1>4. \A k \in Kinds : Latest(k)' = Latest(k)
  BY <1>1 DEF Latest
<1> QED BY <1>1, <1>3, <1>4

\* OverrideControlStatus, which is by hand.
LEMMA OverrideStep ==
  ASSUME StoreTypeOK, RoundsInv, NEW to \in ControlStatuses,
         NEW cascade \in [Kinds -> [id : Nat, to : RoundStatuses \cup {Untouched}]],
         OverrideControlStatus(to, cascade), byHand' = TRUE,
         crossed' = (crossed \/ ~isValidOverrideTransition(ctl.type, ctl.status, to)), ctl.status # Deleted,
         cascade["evidence"].to # "PENDING"
  PROVE  StoreTypeOK' /\ RoundsInv' /\ Onwards
<1>0. "population" \in Kinds /\ "evidence" \in Kinds
  BY DEF Kinds
<1>1. rounds' = cascaded(cascade) /\ ctl' = [ctl EXCEPT !.status = to] /\ others' = others
  BY DEF OverrideControlStatus
<1>2. ctl'.status = to /\ ctl'.type = ctl.type
  BY <1>1 DEF StoreTypeOK
<1>3. /\ rounds' \in [Kinds -> Lists]
      /\ \A k \in Kinds :
           /\ DOMAIN rounds'[k] = DOMAIN rounds[k] /\ Live(k)' = Live(k) /\ Latest(k)' = Latest(k)
           /\ \A j \in DOMAIN rounds[k] :
                rounds'[k][j] = IF cascade[k].to # Untouched /\ cascade[k].id \in Live(k) /\ j = cascade[k].id
                                THEN cascade[k].to ELSE rounds[k][j]
  BY <1>1, CascadedRounds
<1>4. audit' \in AuditStatuses
  BY DEF OverrideControlStatus, recomputeAuditStatus, StoreTypeOK, AuditStatuses
<1>5. StoreTypeOK'
  BY <1>1, <1>3, <1>4 DEF StoreTypeOK, Lists
<1>6. EvidenceInv'
  <2>1. Live("evidence")' = Live("evidence") /\ Live("evidence") \subseteq DOMAIN rounds["evidence"]
    BY <1>0, <1>3 DEF Live
  <2> QED BY <1>0, <1>3, <2>1 DEF RoundsInv, EvidenceInv
<1>7. TypeFitsStage'
  <2>1. ctl.type \in Types /\ (ctl.type = "DESIGN" => crossed' \/ controlStatusRank[to] >= designControlFloorRank)
    BY DEF StoreTypeOK, isValidOverrideTransition
  <2> QED BY <1>0, <1>2, <1>3, <2>1 DEF RoundsInv, TypeFitsStage, Types
<1>8. PopulationApprovedBehindEvidence' /\ OneReplacementRound'
  BY DEF PopulationApprovedBehindEvidence, OneReplacementRound
<1>9. Onwards
  BY <1>0, <1>3 DEF Onwards
<1> QED BY <1>5, <1>6, <1>7, <1>8, <1>9 DEF RoundsInv

\* ChangeRequirementType: no round of the control was ever submitted.
LEMMA ChangeTypeStep ==
  ASSUME StoreTypeOK, RoundsInv, NEW type \in Types, ChangeRequirementType(type), UNCHANGED <<byHand, crossed>>
  PROVE  StoreTypeOK' /\ RoundsInv' /\ Onwards
<1>0. "population" \in Kinds /\ "evidence" \in Kinds /\ Kinds = {"population", "evidence"}
  BY DEF Kinds
<1>1. /\ ctl' = [status |-> InitialStatus(type), type |-> type]
      /\ audit' = recomputeAuditStatus(InitialStatus(type), others) /\ others' = others
      /\ Live("evidence") = {} /\ ctl.status # Deleted
  BY DEF ChangeRequirementType, Deleted
<1>2. ctl'.status \in ControlStatuses /\ ctl'.type = type /\ ctl'.status \in {"POPULATION_PENDING", "EVIDENCE_PENDING"}
  BY <1>1 DEF InitialStatus, ControlStatuses, PopulationStages
<1>3. audit' \in AuditStatuses
  BY <1>1 DEF recomputeAuditStatus, StoreTypeOK, AuditStatuses
<1>4. ctl'.type = "OE" => ctl'.status = "POPULATION_PENDING" /\ ctl'.status \in PopulationStages
  BY <1>1 DEF InitialStatus, PopulationStages
<1>5. ctl'.type = "DESIGN" => controlStatusRank[ctl'.status] >= designControlFloorRank
  BY <1>1, Ranks DEF InitialStatus, designControlFloorRank
<1>6. ctl' \in [status : ControlStatuses \cup {Deleted}, type : Types]
  BY <1>1, <1>2
<1>7. PopulationApprovedBehindEvidence'
  BY <1>2, <1>4 DEF PopulationApprovedBehindEvidence
<1>8. CASE /\ type = "OE" /\ Live("population") = {}
           /\ rounds' = [rounds EXCEPT !["population"] = Append(@, "PENDING")]
  <2> DEFINE n == Len(rounds["population"]) + 1
  <2>0. "PENDING" \in RoundStatuses
    BY DEF RoundStatuses
  <2>1. /\ rounds' \in [Kinds -> Lists]
        /\ n \in Nat \ {0} /\ DOMAIN rounds["population"] = 1..(n - 1) /\ DOMAIN rounds'["population"] = 1..n
        /\ \A j \in DOMAIN rounds["population"] : rounds'["population"][j] = rounds["population"][j]
    BY <1>0, <1>8, <2>0, RoundAdded
  <2>2. /\ Live("population")' = Live("population") \cup {n} /\ Latest("population")' = n
        /\ Live("evidence")' = Live("evidence")
    BY <1>0, <1>8, <2>0, AddedIsLatest
  <2> HIDE DEF n
  <2>3. StoreTypeOK'
    BY <1>1, <1>3, <1>6, <2>1 DEF StoreTypeOK, Lists
  <2>4. EvidenceInv' /\ TypeFitsStage' /\ OneReplacementRound'
    BY <1>1, <1>8, <2>2 DEF EvidenceInv, TypeFitsStage, OneReplacementRound
  <2>5. Onwards
    BY <1>1, <1>8, <2>1 DEF Onwards, PopulationApproved
  <2> QED BY <1>7, <2>3, <2>4, <2>5 DEF RoundsInv
<1>9. ASSUME type = "DESIGN",
             NEW i \in Live("population"), Live("population") = {i}, rounds["population"][i] = "PENDING",
             rounds' = [rounds EXCEPT !["population"][i] = Deleted]
      PROVE  StoreTypeOK' /\ RoundsInv' /\ Onwards
  <2>0. i \in DOMAIN rounds["population"]
    BY DEF Live
  <2>1. /\ rounds' \in [Kinds -> Lists]
        /\ \A l \in Kinds :
             /\ DOMAIN rounds'[l] = DOMAIN rounds[l]
             /\ \A j \in DOMAIN rounds[l] :
                  rounds'[l][j] = IF l = "population" /\ j = i THEN Deleted ELSE rounds[l][j]
    BY <1>0, <1>9, <2>0, RoundWritten
  <2>2. Live("population")' = {} /\ Live("evidence")' = {}
    BY <1>0, <1>1, <1>9, <2>1 DEF Live
  <2>3. StoreTypeOK'
    BY <1>1, <1>3, <1>6, <2>1 DEF StoreTypeOK, Lists
  <2>4. EvidenceInv' /\ TypeFitsStage' /\ OneReplacementRound'
    BY <1>2, <1>5, <1>9, <2>2 DEF EvidenceInv, TypeFitsStage, OneReplacementRound
  <2>5. ~PopulationApproved
    BY <1>9 DEF PopulationApproved
  <2>6. "PENDING" # Deleted
    BY DEF Deleted
  <2>7. Onwards
    BY <1>0, <1>1, <2>0, <2>1, <2>5 DEF Onwards, Deleted
  <2> QED BY <1>7, <2>3, <2>4, <2>7 DEF RoundsInv
<1> QED BY <1>8, <1>9 DEF ChangeRequirementType

\* DeleteControl: nothing is left of the control.
LEMMA DeleteControlStep ==
  ASSUME StoreTypeOK, RoundsInv, DeleteControl, UNCHANGED <<byHand, crossed>>
  PROVE  StoreTypeOK' /\ RoundsInv' /\ Onwards
<1>0. "population" \in Kinds /\ "evidence" \in Kinds
  BY DEF Kinds
<1>1. /\ ctl' = [ctl EXCEPT !.status = Deleted] /\ others' = others
      /\ rounds' = [k \in Kinds |-> [i \in DOMAIN rounds[k] |-> Deleted]]
      /\ audit' = recomputeAuditStatus(Deleted, others)
  BY DEF DeleteControl
<1>2. ctl'.status = Deleted /\ ctl'.type = ctl.type
  BY <1>1 DEF StoreTypeOK
<1>3. rounds' \in [Kinds -> Lists]
  <2>1. ASSUME NEW k \in Kinds PROVE [i \in DOMAIN rounds[k] |-> Deleted] \in Lists
    <3>1. Len(rounds[k]) \in Nat /\ DOMAIN rounds[k] = 1..Len(rounds[k])
      BY <2>1, LenProperties DEF StoreTypeOK
    <3> QED BY <3>1, SeqDef DEF Lists
  <2> QED BY <1>1, <2>1
<1>4. audit' \in AuditStatuses
  BY <1>1 DEF recomputeAuditStatus, StoreTypeOK, AuditStatuses
<1>5. StoreTypeOK'
  BY <1>1, <1>3, <1>4 DEF StoreTypeOK, Lists
<1>6. \A k \in Kinds : Live(k)' = {} /\ DOMAIN rounds'[k] = DOMAIN rounds[k]
  BY <1>1 DEF Live
<1>7. EvidenceInv' /\ TypeFitsStage' /\ PopulationApprovedBehindEvidence' /\ OneReplacementRound'
  BY <1>0, <1>2, <1>6 DEF EvidenceInv, TypeFitsStage, PopulationApprovedBehindEvidence, OneReplacementRound
<1>8. Onwards
  BY <1>0, <1>1, <1>2, <1>6 DEF Onwards, Deleted
<1> QED BY <1>5, <1>7, <1>8 DEF RoundsInv

\* The rest of the audit, and what its admins do to it.
LEMMA EnvironmentStep ==
  ASSUME StoreTypeOK, RoundsInv, Environment
  PROVE  StoreTypeOK' /\ RoundsInv' /\ Onwards
<1>1. UNCHANGED <<ctl, rounds, byHand, crossed>>
  BY DEF Environment, OtherControls, UpdateAudit, DeleteAudit
<1>2. audit' \in AuditStatuses /\ others' \in BOOLEAN
  BY DEF Environment, OtherControls, UpdateAudit, DeleteAudit, recomputeAuditStatus, StoreTypeOK, AuditStatuses
<1>3. StoreTypeOK'
  BY <1>1, <1>2 DEF StoreTypeOK
<1>4. \A l \in Kinds : DOMAIN rounds'[l] = DOMAIN rounds[l] /\ Live(l)' = Live(l)
  BY <1>1 DEF Live
<1> QED BY <1>1, <1>3, <1>4, RoundsForward

-----------------------------------------------------------------------------
(* The requests.                                                              *)

\* What a request relies on survives a step that only goes on, unless the request
\* has an override open and the step moves the control.
LEMMA StaysOK ==
  ASSUME Onwards, NEW q, RequestOK(q), q.pc = "cascade" => ctl' = ctl
  PROVE  RequestOK(q)'
<1>1. ASSUME q.pc = "replace"
      PROVE  q.round \in DOMAIN rounds'["population"]
             /\ (~byHand' => rounds'["population"][q.round] # "PENDING")
  BY <1>1 DEF Onwards, RequestOK
<1>2. ASSUME q.to = "POPULATION_COMPLETE"
      PROVE  /\ q.pc \notin {"replace", "insert"}
             /\ q.pc = "mark" => q.kind = "population" /\ q.mark = "APPROVED"
             /\ q.pc = "status" /\ ~byHand' /\ ctl'.status # Deleted => PopulationApproved'
  BY <1>2 DEF Onwards, RequestOK
<1>3. ASSUME q.pc = "cascade"
      PROVE  /\ ctl'.status # Deleted
             /\ q.to \in ControlStatuses
             /\ q.cascade["evidence"].to # "PENDING"
  BY <1>3 DEF RequestOK
<1>4. q.pc \in {"check", "override"} => q.to \in ControlStatuses /\ q.from \in ControlStatuses
  BY DEF RequestOK
<1> QED BY <1>1, <1>2, <1>3, <1>4 DEF RequestOK

\* One request steps to `next`.
LEMMA RequestSteps ==
  ASSUME TypeOK, RequestInv, Onwards, NEW r \in Requests, NEW next \in ReqStates,
         req' = [req EXCEPT ![r] = next], RequestOK(next)',
         \A s \in Requests \ {r} : At(s, "cascade") => ctl' = ctl /\ next.pc # "cascade"
  PROVE  RequestInv' /\ req' \in [Requests -> ReqStates]
<1>1. req \in [Requests -> ReqStates]
  BY DEF TypeOK
<1>2. req' \in [Requests -> ReqStates] /\ req'[r] = next /\ \A s \in Requests \ {r} : req'[s] = req[s]
  BY <1>1
<1>3. ASSUME NEW s \in Requests PROVE RequestOK(req[s])'
  <2>1. PICK q : q = req'[s]
    OBVIOUS
  <2>2. RequestOK(q)'
    <3>1. CASE s = r
      BY <1>2, <2>1, <3>1
    <3>2. CASE s # r
      <4>1. q = req[s] /\ RequestOK(req[s])
        BY <1>2, <2>1, <3>2 DEF RequestInv
      <4>2. RequestOK(q)
        BY <4>1
      <4>3. q.pc = "cascade" => ctl' = ctl
        BY <4>1, <3>2 DEF At
      <4> QED BY <4>2, <4>3, StaysOK
    <3> QED BY <3>1, <3>2
  <2> QED BY <2>1, <2>2
<1>4. ASSUME NEW s \in Requests, NEW t \in Requests, At(s, "cascade")', At(t, "cascade")' PROVE s = t
  <2>1. CASE s # r /\ t # r
    BY <1>2, <1>4, <2>1 DEF RequestInv, At
  <2>2. CASE s = r /\ t # r
    BY <1>2, <1>4, <2>2 DEF At
  <2>3. CASE s # r /\ t = r
    BY <1>2, <1>4, <2>3 DEF At
  <2> QED BY <2>1, <2>2, <2>3
<1> QED BY <1>2, <1>3, <1>4 DEF RequestInv

\* No request steps.
LEMMA RequestsStand ==
  ASSUME TypeOK, RequestInv, Onwards, UNCHANGED req, Locked => ctl' = ctl
  PROVE  RequestInv' /\ req' \in [Requests -> ReqStates]
<1>1. req \in [Requests -> ReqStates]
  BY DEF TypeOK
<1>2. ASSUME NEW s \in Requests PROVE RequestOK(req[s])'
  <2>1. PICK q : q = req[s]
    OBVIOUS
  <2>2. RequestOK(q) /\ (q.pc = "cascade" => ctl' = ctl)
    BY <2>1 DEF RequestInv, Locked, At
  <2> QED BY <2>1, <2>2, StaysOK
<1> QED BY <1>1, <1>2 DEF RequestInv, At

\* What a request holds, written out.
Held(pc, kind, round, mark, to) ==
  [pc |-> pc, kind |-> kind, round |-> round, mark |-> mark, to |-> to, from |-> None,
   cascade |-> NoCascade]

LEMMA Holding ==
  ASSUME NEW pc \in PCs, NEW kind \in Kinds, NEW round \in Nat,
         NEW mark \in RoundStatuses \cup {None}, NEW to \in ControlStatuses \cup {None}
  PROVE  Held(pc, kind, round, mark, to) \in ReqStates
BY DEF Held, ReqStates, NoCascade, Untouched

\* The ways in which the requests write it: one that is about to move the control ...
LEMMA MovingHeld ==
  ASSUME NEW pc, NEW to
  PROVE  Moving(pc, to) = Held(pc, "evidence", 0, None, to)
<1>1. Idle = Held("idle", "evidence", 0, None, None)
  BY DEF Idle, Held
<1>2. [Held("idle", "evidence", 0, None, None) EXCEPT !.pc = pc] = Held(pc, "evidence", 0, None, None)
  BY DEF Held
<1>3. [Held(pc, "evidence", 0, None, None) EXCEPT !.to = to] = Held(pc, "evidence", 0, None, to)
  BY DEF Held
<1> QED BY <1>1, <1>2, <1>3 DEF Moving

\* ... and to mark a round of a kind, or a round of its own, ...
LEMMA MarkingHeld ==
  ASSUME NEW pc, NEW kind, NEW round, NEW mark, NEW to
  PROVE  [Moving(pc, to) EXCEPT !.kind = kind, !.round = round, !.mark = mark] = Held(pc, kind, round, mark, to)
<1>1. [Held(pc, "evidence", 0, None, to) EXCEPT !.kind = kind] = Held(pc, kind, 0, None, to)
  BY DEF Held
<1>2. [Held(pc, kind, 0, None, to) EXCEPT !.round = round] = Held(pc, kind, round, None, to)
  BY DEF Held
<1>3. [Held(pc, kind, round, None, to) EXCEPT !.mark = mark] = Held(pc, kind, round, mark, to)
  BY DEF Held
<1> QED BY <1>1, <1>2, <1>3, MovingHeld

LEMMA SubmittingHeld ==
  ASSUME NEW pc, NEW mark, NEW to
  PROVE  [Moving(pc, to) EXCEPT !.mark = mark] = Held(pc, "evidence", 0, mark, to)
<1>1. [Held(pc, "evidence", 0, None, to) EXCEPT !.mark = mark] = Held(pc, "evidence", 0, mark, to)
  BY DEF Held
<1> QED BY <1>1, MovingHeld

\* ... or about to delete something.
LEMMA DeletingHeld ==
  ASSUME NEW pc, NEW round
  PROVE  /\ [Idle EXCEPT !.pc = pc] = Held(pc, "evidence", 0, None, None)
         /\ [Idle EXCEPT !.pc = pc, !.round = round] = Held(pc, "evidence", round, None, None)
<1>1. Idle = Held("idle", "evidence", 0, None, None)
  BY DEF Idle, Held
<1>2. [Held("idle", "evidence", 0, None, None) EXCEPT !.pc = pc] = Held(pc, "evidence", 0, None, None)
  BY DEF Held
<1>3. [Held(pc, "evidence", 0, None, None) EXCEPT !.round = round] = Held(pc, "evidence", round, None, None)
  BY DEF Held
<1> QED BY <1>1, <1>2, <1>3

\* A request that holds nothing relies on nothing.
LEMMA IdleOK == Idle \in ReqStates /\ RequestOK(Idle) /\ RequestOK(Idle)' /\ Idle.pc # "cascade"
BY DEF Idle, ReqStates, RequestOK, None, NoCascade, Untouched, PCs, Kinds

\* A request begins: it reads, and nothing is written.
LEMMA Begun ==
  ASSUME IInv, NEW r \in Requests, NEW op, NEW next \in ReqStates, Begin(r, op, next),
         RequestOK(next), next.pc = "cascade" => ~Locked
  PROVE  IInv'
<1>1. UNCHANGED storeVars /\ UNCHANGED <<byHand, crossed>> /\ UNCHANGED ops /\ req' = [req EXCEPT ![r] = next]
  BY DEF Begin
<1>2. StoreTypeOK' /\ RoundsInv' /\ Onwards
  BY <1>1, NothingWritten DEF IInv, TypeOK
<1>3. UNCHANGED ctl
  BY <1>1 DEF storeVars
<1>4. RequestOK(next)'
  BY <1>2, <1>3, StaysOK
<1>5. \A s \in Requests \ {r} : At(s, "cascade") => ctl' = ctl /\ next.pc # "cascade"
  BY <1>3 DEF Locked
<1>6. RequestInv' /\ req' \in [Requests -> ReqStates]
  BY <1>1, <1>2, <1>4, <1>5, RequestSteps DEF IInv
<1> QED BY <1>1, <1>2, <1>6 DEF IInv, TypeOK

\* A request goes on to its next call.
LEMMA Continued ==
  ASSUME IInv, NEW r \in Requests, NEW next \in ReqStates, Continue(r, next),
         StoreTypeOK', RoundsInv', Onwards, RequestOK(next)', next.pc = "cascade" => ~Locked,
         Locked => ctl' = ctl
  PROVE  IInv'
<1>1. UNCHANGED <<byHand, crossed>> /\ UNCHANGED ops /\ req' = [req EXCEPT ![r] = next]
  BY DEF Continue
<1>2. \A s \in Requests \ {r} : At(s, "cascade") => ctl' = ctl /\ next.pc # "cascade"
  BY DEF Locked
<1>3. RequestInv' /\ req' \in [Requests -> ReqStates]
  BY <1>1, <1>2, RequestSteps DEF IInv
<1> QED BY <1>1, <1>3 DEF IInv, TypeOK

\* No request steps: the audit's admins, and whoever works on its other controls.
LEMMA Stood ==
  ASSUME IInv, UNCHANGED <<req, ops>>, StoreTypeOK', RoundsInv', Onwards,
         byHand' \in BOOLEAN, crossed' \in BOOLEAN,
         Locked => ctl' = ctl
  PROVE  IInv'
<1>1. RequestInv' /\ req' \in [Requests -> ReqStates]
  BY RequestsStand DEF IInv
<1> QED BY <1>1 DEF IInv, TypeOK

-----------------------------------------------------------------------------
(* The requests that begin.                                                   *)

\* The statuses that the requests carry.
LEMMA Names ==
  /\ PopulationStages \subseteq ControlStatuses
  /\ {"POPULATION_COMPLETE", "AWAITING_SAMPLE", "SUBMITTED_SAMPLE", "EVIDENCE_PENDING",
      "EVIDENCE_INTERNAL_REVIEW", "EVIDENCE_UNDER_VALIDATION", "EVIDENCE_NEED_CLARIFICATION",
      "COMPLETE", "POPULATION_PENDING", "POPULATION_INTERNAL_REVIEW", "POPULATION_UNDER_VALIDATION",
      "POPULATION_NEED_CLARIFICATION"} \subseteq ControlStatuses
  /\ {"COMPLIANCE_REJECTED", "AUDITOR_REJECTED", "PENDING", "SUBMITTED", "COMPLIANCE_APPROVED",
      "APPROVED"} \subseteq RoundStatuses
  /\ Kinds = {"population", "evidence"}
BY DEF ControlStatuses, PopulationStages, RoundStatuses, Rejected, Kinds

\* A decision on the latest round.
LEMMA DecideStep ==
  ASSUME IInv, NEW r \in Requests, NEW op, NEW kind \in Kinds, NEW required, NEW mark \in RoundStatuses,
         NEW to \in ControlStatuses, decide(r, op, kind, required, mark, to),
         to = "POPULATION_COMPLETE" => kind = "population" /\ mark = "APPROVED"
  PROVE  IInv'
<1>1. PICK next : next = Held("mark", kind, Latest(kind), mark, to)
  OBVIOUS
<1>2. Begin(r, op, next)
  <2>1. next = [Moving("mark", to) EXCEPT !.kind = kind, !.round = Latest(kind), !.mark = mark]
    BY <1>1, MarkingHeld
  <2> QED BY <2>1 DEF decide, Begin
<1>3. Latest(kind) \in Nat
  BY LatestRound DEF IInv, TypeOK
<1>4. next \in ReqStates
  BY <1>1, <1>3, Holding DEF PCs
<1>5. RequestOK(next) /\ next.pc # "cascade"
  BY <1>1 DEF RequestOK, Held
<1> QED BY <1>2, <1>4, <1>5, Begun

LEMMA ReviewStep ==
  ASSUME IInv, NEW r \in Requests,
         \/ ReviewPopulation(r) \/ ValidatePopulation(r) \/ ReviewEvidence(r) \/ ValidateEvidence(r)
  PROVE  IInv'
<1>1. CASE ReviewPopulation(r)
  BY <1>1, Names, DecideStep DEF ReviewPopulation
<1>2. CASE ValidatePopulation(r)
  BY <1>2, Names, DecideStep DEF ValidatePopulation
<1>3. CASE ReviewEvidence(r)
  BY <1>3, Names, DecideStep DEF ReviewEvidence
<1>4. CASE ValidateEvidence(r)
  BY <1>4, Names, DecideStep DEF ValidateEvidence
<1> QED BY <1>1, <1>2, <1>3, <1>4

\* A submission of the population: a rejected round that it is to replace is none
\* that is open.
LEMMA SubmitPopulationStep ==
  ASSUME IInv, NEW r \in Requests, SubmitPopulation(r)
  PROVE  IInv'
<1> DEFINE latest == Latest("population")
<1>1. PICK pc : pc = IF rounds["population"][latest] \in Rejected THEN "replace" ELSE "mark"
  OBVIOUS
<1>2. PICK next : next = Held(pc, "population", latest, "SUBMITTED", "POPULATION_INTERNAL_REVIEW")
  OBVIOUS
<1>3. Begin(r, "SubmitPopulation", next)
  <2>1. next = [Moving(pc, "POPULATION_INTERNAL_REVIEW")
                  EXCEPT !.kind = "population", !.round = latest, !.mark = "SUBMITTED"]
    BY <1>2, MarkingHeld
  <2> QED BY <1>1, <2>1 DEF SubmitPopulation, Begin
<1>4. latest \in Nat /\ latest \in DOMAIN rounds["population"]
  BY Names, LatestRound DEF IInv, TypeOK, SubmitPopulation, ActivePopulation
<1>5. pc \in PCs \ {"check", "override", "cascade"} /\ (pc = "replace" => rounds["population"][latest] # "PENDING")
  BY <1>1 DEF PCs, Rejected
<1>6. next \in ReqStates
  BY <1>2, <1>4, <1>5, Names, Holding
<1>7. RequestOK(next) /\ next.pc # "cascade"
  BY <1>2, <1>4, <1>5 DEF RequestOK, Held
<1> QED BY <1>3, <1>6, <1>7, Begun

\* The other requests of the teams begin without a claim on the rounds.
LEMMA ReadStep ==
  ASSUME IInv, NEW r \in Requests,
         \/ SubmitSample(r) \/ RequestSampleTime(r) \/ SubmitEvidence(r) \/ WithdrawEvidence(r)
         \/ DeleteEvidenceRound(r) \/ DeleteEvidenceFile(r)
  PROVE  IInv'
<1>1. ASSUME NEW op, NEW pc \in PCs \ {"replace", "check", "override", "cascade"}, NEW round \in Nat,
             NEW mark \in RoundStatuses \cup {None},
             NEW to \in (ControlStatuses \cup {None}) \ {"POPULATION_COMPLETE"},
             Begin(r, op, Held(pc, "evidence", round, mark, to))
      PROVE  IInv'
  <2>1. PICK next : next = Held(pc, "evidence", round, mark, to)
    OBVIOUS
  <2>2. next \in ReqStates
    BY <2>1, Names, Holding
  <2>3. RequestOK(next) /\ next.pc # "cascade"
    BY <2>1 DEF RequestOK, Held
  <2> QED BY <1>1, <2>1, <2>2, <2>3, Begun
<1>2. PICK round : round = Latest("evidence")
  OBVIOUS
<1>3. round \in Nat
  BY <1>2, Names, LatestRound DEF IInv, TypeOK
<1>4. /\ {"status", "insert", "remove", "reconcile"} \subseteq PCs \ {"replace", "check", "override", "cascade"}
      /\ None \in (ControlStatuses \cup {None}) \ {"POPULATION_COMPLETE"}
  BY DEF PCs, None
<1>5. CASE SubmitSample(r)
  <2>1. Begin(r, "SubmitSample", Held("status", "evidence", 0, None, "SUBMITTED_SAMPLE"))
    BY <1>5, MovingHeld DEF SubmitSample
  <2> QED BY <1>1, <1>4, <2>1, Names
<1>6. CASE RequestSampleTime(r)
  <2>1. Begin(r, "RequestSampleTime", Held("status", "evidence", 0, None, "AWAITING_SAMPLE"))
    BY <1>6, MovingHeld DEF RequestSampleTime
  <2> QED BY <1>1, <1>4, <2>1, Names
<1>7. CASE SubmitEvidence(r)
  <2>1. Begin(r, "SubmitEvidence", Held("insert", "evidence", 0, "SUBMITTED", "EVIDENCE_INTERNAL_REVIEW"))
    <3>1. [Moving("insert", "EVIDENCE_INTERNAL_REVIEW") EXCEPT !.mark = "SUBMITTED"]
            = Held("insert", "evidence", 0, "SUBMITTED", "EVIDENCE_INTERNAL_REVIEW")
      BY SubmittingHeld
    <3> QED BY <1>7, <3>1 DEF SubmitEvidence
  <2> QED BY <1>1, <1>4, <2>1, Names
<1>8. CASE WithdrawEvidence(r)
  <2>1. Begin(r, "WithdrawEvidence", Held("status", "evidence", 0, None, "EVIDENCE_PENDING"))
    BY <1>8, MovingHeld DEF WithdrawEvidence
  <2> QED BY <1>1, <1>4, <2>1, Names
<1>9. CASE DeleteEvidenceRound(r)
  <2>1. Begin(r, "DeleteEvidenceRound", Held("remove", "evidence", round, None, None))
    <3>1. Held("remove", "evidence", round, None, None) = [Idle EXCEPT !.pc = "remove", !.round = round]
      BY DeletingHeld
    <3> QED BY <1>2, <1>9, <3>1 DEF DeleteEvidenceRound, Begin
  <2> QED BY <1>1, <1>3, <1>4, <2>1
<1>10. CASE DeleteEvidenceFile(r)
  <2>1. Begin(r, "DeleteEvidenceFile", Held("reconcile", "evidence", 0, None, None))
    BY <1>10, DeletingHeld DEF DeleteEvidenceFile
  <2> QED BY <1>1, <1>4, <2>1
<1> QED BY <1>5, <1>6, <1>7, <1>8, <1>9, <1>10

\* The cascade that an override reads.
LEMMA CascadeRead ==
  ASSUME StoreTypeOK, NEW to \in ControlStatuses
  PROVE  /\ Cascade(to) \in [Kinds -> [id : Nat, to : RoundStatuses \cup {Untouched}]]
         /\ Cascade(to)["evidence"].to # "PENDING"
<1>1. \A k \in Kinds : Latest(k) \in Nat
  BY LatestRound
<1>2. \A k \in Kinds : \A target \in RoundStatuses \cup {Untouched} :
        demotion(k, Latest(k), target) \in {target, Untouched}
  BY DEF demotion
<1>3. Untouched # "PENDING"
  BY DEF Untouched
<1> QED BY <1>1, <1>2, <1>3, Targets, Names DEF Cascade

\* An override is decided on what the entity reads.
LEMMA BeginOverrideStep ==
  ASSUME IInv, NEW r \in Requests, BeginOverride(r)
  PROVE  IInv'
<1>1. PICK pc \in {"check", "override"} : pc = IF audit = "REMOVED" THEN "check" ELSE "override"
  OBVIOUS
<1>2. PICK from : from = ctl.status
  OBVIOUS
<1>3. PICK to \in ControlStatuses : Begin(r, "OverrideControlStatus", [Moving(pc, to) EXCEPT !.from = from])
  BY <1>1, <1>2 DEF BeginOverride
<1>4. PICK next : next = [pc |-> pc, kind |-> "evidence", round |-> 0, mark |-> None, to |-> to,
                          from |-> from, cascade |-> NoCascade]
  OBVIOUS
<1>5. Begin(r, "OverrideControlStatus", next)
  <2>1. next = [Moving(pc, to) EXCEPT !.from = from]
    BY <1>4, MovingHeld DEF Held
  <2> QED BY <1>3, <2>1 DEF Begin
<1>6. from \in ControlStatuses
  BY <1>2 DEF BeginOverride, IInv, TypeOK, StoreTypeOK
<1>7. next \in ReqStates
  BY <1>4, <1>6, Names DEF ReqStates, PCs, NoCascade, Untouched
<1>8. RequestOK(next) /\ next.pc # "cascade"
  BY <1>4, <1>6 DEF RequestOK
<1> QED BY <1>5, <1>7, <1>8, Begun

-----------------------------------------------------------------------------
(* The requests that go on.                                                   *)

\* What the request r holds between two calls.
LEMMA HeldBy ==
  ASSUME IInv, NEW r \in Requests
  PROVE  req[r] \in ReqStates /\ RequestOK(req[r])
BY DEF IInv, TypeOK, RequestInv

\* A fresh round takes the place of a rejected one, if that is still the latest.
LEMMA CreateRoundStep ==
  ASSUME IInv, NEW r \in Requests, CreateRound(r)
  PROVE  IInv'
<1>1. PICK q : q = req[r]
  OBVIOUS
<1>2. q \in ReqStates /\ RequestOK(q) /\ q.pc = "replace" /\ ~Locked
  BY <1>1, HeldBy DEF CreateRound, At
<1>3. /\ Latest("population") = q.round /\ InsertRound("population", "PENDING")
      /\ UNCHANGED <<byHand, crossed>>
  BY <1>1 DEF CreateRound, createReplacementRound, Continue
<1>4. /\ q.round \in DOMAIN rounds["population"] /\ (~byHand => rounds["population"][q.round] # "PENDING")
      /\ q.to # "POPULATION_COMPLETE"
  BY <1>2 DEF RequestOK
<1>5. Latest("population") # 0
  <2>1. DOMAIN rounds["population"] = 1..Len(rounds["population"])
    BY Names, LenProperties DEF IInv, TypeOK, StoreTypeOK
  <2> QED BY <1>3, <1>4, <2>1
<1>6. StoreTypeOK' /\ RoundsInv' /\ Onwards
  BY <1>3, <1>4, <1>5, Names, InsertRoundStep DEF IInv, TypeOK
<1>7. PICK n : n = Len(rounds["population"]) + 1
  OBVIOUS
<1>8. n \in Nat
  BY <1>7, Names, LenProperties DEF IInv, TypeOK, StoreTypeOK
<1>9. PICK next : next = [q EXCEPT !.pc = "mark", !.round = n]
  OBVIOUS
<1>10. Continue(r, next)
  BY <1>1, <1>7, <1>9 DEF CreateRound, Continue
<1>11. next \in ReqStates /\ next.pc = "mark" /\ next.to = q.to
  BY <1>2, <1>8, <1>9 DEF ReqStates, PCs
<1>12. RequestOK(next)'
  BY <1>4, <1>11 DEF RequestOK
<1>13. next.pc # "cascade"
  BY <1>11
<1> QED BY <1>2, <1>6, <1>10, <1>11, <1>12, <1>13, Continued

\* A round is marked: the population is completed by those alone that approve one.
LEMMA MarkRoundStep ==
  ASSUME IInv, NEW r \in Requests, MarkRound(r)
  PROVE  IInv'
<1>1. PICK q : q = req[r]
  OBVIOUS
<1>2. q \in ReqStates /\ RequestOK(q) /\ q.pc = "mark"
  BY <1>1, HeldBy DEF MarkRound, At
<1>3. UpdateRound(q.kind, q.round, q.mark) /\ Continue(r, Moving("status", q.to))
  BY <1>1 DEF MarkRound, Continue, UpdateRound
<1>4. PICK k : k = q.kind
  OBVIOUS
<1>5. PICK i : i = q.round
  OBVIOUS
<1>6. PICK to : to = q.mark
  OBVIOUS
<1>7. UpdateRound(k, i, to) /\ k \in Kinds /\ UNCHANGED <<byHand, crossed>> /\ UNCHANGED ctl
  BY <1>2, <1>3, <1>4, <1>5, <1>6 DEF ReqStates, Continue, UpdateRound
<1>8. StoreTypeOK' /\ RoundsInv' /\ Onwards
  BY <1>7, UpdateRoundStep DEF IInv, TypeOK
<1>9. PICK next : next = Moving("status", q.to)
  OBVIOUS
<1>10. next = Held("status", "evidence", 0, None, q.to) /\ Continue(r, next)
  BY <1>3, <1>9, MovingHeld DEF Continue
<1>11. next \in ReqStates
  <2>1. q.to \in ControlStatuses \cup {None} /\ "status" \in PCs
    BY <1>2 DEF ReqStates, PCs
  <2> QED BY <1>10, <2>1, Names, Holding
<1>12. q.to = "POPULATION_COMPLETE" => PopulationApproved'
  <2>1. SUFFICES ASSUME q.to = "POPULATION_COMPLETE" PROVE PopulationApproved'
    OBVIOUS
  <2>2. k = "population" /\ to = "APPROVED"
    BY <1>2, <1>4, <1>6, <2>1 DEF RequestOK
  <2>3. i \in Live("population") /\ rounds' = [rounds EXCEPT !["population"][i] = "APPROVED"]
    BY <1>7, <2>2 DEF UpdateRound
  <2>4. /\ \A j \in DOMAIN rounds["population"] :
             rounds'["population"][j] = IF j = i THEN "APPROVED" ELSE rounds["population"][j]
    BY <2>3, Names, RoundWritten DEF Live, IInv, TypeOK
  <2>5. i \in Live("population")'
    BY <1>7, <2>3, Names, RoundMarked DEF IInv, TypeOK
  <2> QED BY <2>3, <2>4, <2>5 DEF PopulationApproved, Live
<1>13. RequestOK(next)' /\ next.pc # "cascade"
  BY <1>10, <1>12 DEF RequestOK, Held
<1> QED BY <1>7, <1>8, <1>10, <1>11, <1>13, Continued

\* The control is moved.
LEMMA UpdateStatusStep ==
  ASSUME IInv, NEW r \in Requests, UpdateStatus(r)
  PROVE  IInv'
<1>1. PICK q : q = req[r]
  OBVIOUS
<1>2. RequestOK(q) /\ q.pc = "status" /\ ~Locked
  BY <1>1, HeldBy DEF UpdateStatus, At
<1>3. PICK to : to = q.to
  OBVIOUS
<1>4. UpdateControl(to) /\ Continue(r, Idle) /\ UNCHANGED <<byHand, crossed>>
  BY <1>1, <1>3 DEF UpdateStatus, End, Continue, UpdateControl, Admitted
<1>5. to = "POPULATION_COMPLETE" /\ ~byHand' => PopulationApproved
  BY <1>2, <1>3, <1>4 DEF RequestOK, UpdateControl, Admitted
<1>6. StoreTypeOK' /\ RoundsInv' /\ Onwards
  BY <1>4, <1>5, UpdateControlStep DEF IInv, TypeOK
<1> QED BY <1>2, <1>4, <1>6, IdleOK, Continued

\* The row of a submission of evidence.
LEMMA SubmitStep ==
  ASSUME IInv, NEW r \in Requests, Submit(r)
  PROVE  IInv'
<1>1. PICK q : q = req[r]
  OBVIOUS
<1>2. q \in ReqStates /\ RequestOK(q) /\ q.pc = "insert" /\ ~Locked
  BY <1>1, HeldBy DEF Submit, At
<1>3. InsertRound("evidence", "SUBMITTED") /\ UNCHANGED <<byHand, crossed>>
  BY DEF Submit, Continue
<1>4. StoreTypeOK' /\ RoundsInv' /\ Onwards
  BY <1>3, Names, InsertRoundStep DEF IInv, TypeOK
<1>5. PICK n : n = Len(rounds["evidence"]) + 1
  OBVIOUS
<1>6. n \in Nat
  BY <1>5, Names, LenProperties DEF IInv, TypeOK, StoreTypeOK
<1>7. PICK next : next = [q EXCEPT !.pc = "status", !.round = n]
  OBVIOUS
<1>8. Continue(r, next)
  BY <1>1, <1>5, <1>7 DEF Submit, Continue
<1>9. next \in ReqStates /\ next.pc = "status" /\ next.to = q.to /\ q.to # "POPULATION_COMPLETE"
  BY <1>2, <1>6, <1>7 DEF ReqStates, PCs, RequestOK
<1>10. RequestOK(next)' /\ next.pc # "cascade"
  BY <1>9 DEF RequestOK
<1> QED BY <1>2, <1>4, <1>8, <1>9, <1>10, Continued

\* A request that goes to discard its round, or ends, after a call that wrote nothing.
LEMMA NoCallStep ==
  ASSUME IInv, NEW r \in Requests, TransitionRefused(r) \/ CallFails(r) \/ ReconcileAfterDelete(r)
  PROVE  IInv'
<1>1. UNCHANGED storeVars /\ UNCHANGED <<byHand, crossed>>
  BY DEF TransitionRefused, CallFails, ReconcileAfterDelete, Goto, End, Continue
<1>2. StoreTypeOK' /\ RoundsInv' /\ Onwards /\ UNCHANGED ctl
  BY <1>1, NothingWritten DEF IInv, TypeOK, storeVars
<1>3. ASSUME NEW next \in ReqStates, Continue(r, next), RequestOK(next)', next.pc # "cascade"
      PROVE  IInv'
  BY <1>2, <1>3, Continued
<1>4. CASE End(r)
  BY <1>3, <1>4, IdleOK DEF End
<1>5. CASE Goto(r, "discard")
  <2>1. PICK q : q = req[r]
    OBVIOUS
  <2>2. PICK next : next = [q EXCEPT !.pc = "discard"]
    OBVIOUS
  <2>3. Continue(r, next)
    BY <1>5, <2>1, <2>2 DEF Goto, Continue
  <2>4. next \in ReqStates /\ next.pc = "discard"
    BY <2>1, <2>2, HeldBy DEF ReqStates, PCs
  <2>5. RequestOK(next)'
    BY <2>4 DEF RequestOK
  <2>6. next.pc # "cascade"
    BY <2>4
  <2> QED BY <1>3, <2>3, <2>4, <2>5, <2>6
<1>6. CASE Continue(r, Moving("status", "EVIDENCE_PENDING"))
  <2>1. PICK next : next = Held("status", "evidence", 0, None, "EVIDENCE_PENDING")
    OBVIOUS
  <2>2. Continue(r, next)
    BY <1>6, <2>1, MovingHeld
  <2>3. next \in ReqStates
    BY <2>1, Names, Holding DEF PCs
  <2>4. RequestOK(next)' /\ next.pc # "cascade"
    BY <2>1 DEF RequestOK, Held
  <2> QED BY <1>3, <2>2, <2>3, <2>4
<1> QED BY <1>4, <1>5, <1>6 DEF TransitionRefused, CallFails, ReconcileAfterDelete

\* The override goes on, or its audit has been removed.
LEMMA CheckAuditStep ==
  ASSUME IInv, NEW r \in Requests, CheckAudit(r)
  PROVE  IInv'
<1>1. UNCHANGED storeVars /\ UNCHANGED <<byHand, crossed>>
  BY DEF CheckAudit, Goto, End, Continue
<1>2. StoreTypeOK' /\ RoundsInv' /\ Onwards /\ UNCHANGED ctl
  BY <1>1, NothingWritten DEF IInv, TypeOK, storeVars
<1>3. CASE End(r)
  BY <1>2, <1>3, IdleOK, Continued DEF End
<1>4. CASE Goto(r, "override")
  <2>1. PICK q : q = req[r]
    OBVIOUS
  <2>2. q \in ReqStates /\ RequestOK(q) /\ q.pc = "check"
    BY <2>1, HeldBy DEF CheckAudit, At
  <2>3. PICK next : next = [q EXCEPT !.pc = "override"]
    OBVIOUS
  <2>4. Continue(r, next)
    BY <1>4, <2>1, <2>3 DEF Goto, Continue
  <2>5. next \in ReqStates /\ next.pc = "override" /\ next.to = q.to /\ next.from = q.from
    BY <2>2, <2>3 DEF ReqStates, PCs
  <2>6. RequestOK(next)' /\ next.pc # "cascade"
    BY <2>2, <2>5 DEF RequestOK
  <2> QED BY <1>2, <2>4, <2>5, <2>6, Continued
<1> QED BY <1>3, <1>4 DEF CheckAudit

\* The override opens its transaction, and locks the control, if that has the
\* status it expects.
LEMMA WriteOverrideStep ==
  ASSUME IInv, NEW r \in Requests, WriteOverride(r)
  PROVE  IInv'
<1>1. UNCHANGED storeVars /\ UNCHANGED <<byHand, crossed>>
  BY DEF WriteOverride, End, Continue
<1>2. StoreTypeOK' /\ RoundsInv' /\ Onwards /\ UNCHANGED ctl
  BY <1>1, NothingWritten DEF IInv, TypeOK, storeVars
<1>3. PICK q : q = req[r]
  OBVIOUS
<1>4. q \in ReqStates /\ RequestOK(q) /\ q.pc = "override" /\ ~Locked
  BY <1>3, HeldBy DEF WriteOverride, At
<1>5. PICK to : to = q.to
  OBVIOUS
<1>6. to \in ControlStatuses /\ (ctl.status = q.from => ctl.status # Deleted)
  BY <1>4, <1>5, DeletedIsNone DEF RequestOK
<1>7. CASE End(r)
  BY <1>2, <1>7, IdleOK, Continued DEF End
<1>8. CASE ctl.status = q.from /\ Continue(r, [Moving("cascade", to) EXCEPT !.cascade = Cascade(to)])
  <2>1. PICK cascade : cascade = Cascade(to)
    OBVIOUS
  <2>2. PICK next : next = [pc |-> "cascade", kind |-> "evidence", round |-> 0, mark |-> None, to |-> to,
                            from |-> None, cascade |-> cascade]
    OBVIOUS
  <2>3. Continue(r, next)
    <3>1. next = [Moving("cascade", to) EXCEPT !.cascade = Cascade(to)]
      BY <2>1, <2>2, MovingHeld DEF Held
    <3> QED BY <1>8, <3>1 DEF Continue
  <2>4. /\ cascade \in [Kinds -> [id : Nat, to : RoundStatuses \cup {Untouched}]]
        /\ cascade["evidence"].to # "PENDING"
    BY <1>6, <2>1, CascadeRead DEF IInv, TypeOK
  <2>5. next \in ReqStates
    BY <1>6, <2>2, <2>4, Names DEF ReqStates, PCs
  <2>6. RequestOK(next)'
    BY <1>2, <1>6, <1>8, <2>2, <2>4 DEF RequestOK
  <2> QED BY <1>2, <1>4, <2>3, <2>5, <2>6, Continued
<1> QED BY <1>3, <1>5, <1>7, <1>8 DEF WriteOverride

\* An evidence round is deleted: after a refused submission, or by its owner.
LEMMA DeleteRoundStep ==
  ASSUME IInv, NEW r \in Requests, DiscardRound(r) \/ RemoveRound(r)
  PROVE  IInv'
<1>1. PICK i : i = req[r].round
  OBVIOUS
<1>2. DeleteEvidence(i) /\ UNCHANGED <<byHand, crossed>> /\ UNCHANGED ctl
  BY <1>1 DEF DiscardRound, RemoveRound, DeleteEvidence, Continue, End
<1>3. StoreTypeOK' /\ RoundsInv' /\ Onwards
  BY <1>2, DeleteEvidenceStep DEF IInv, TypeOK
<1>4. CASE DiscardRound(r)
  BY <1>2, <1>3, <1>4, IdleOK, Continued DEF DiscardRound, End
<1>5. CASE RemoveRound(r)
  <2>1. PICK next : next = Held("reconcile", "evidence", 0, None, None)
    OBVIOUS
  <2>2. Continue(r, next)
    BY <1>5, <2>1, DeletingHeld DEF RemoveRound
  <2>3. next \in ReqStates
    BY <2>1, Names, Holding DEF PCs
  <2>4. RequestOK(next)' /\ next.pc # "cascade"
    BY <2>1 DEF RequestOK, Held, None
  <2> QED BY <1>2, <1>3, <2>2, <2>3, <2>4, Continued
<1> QED BY <1>4, <1>5

\* An override commits: no other request has one open.
LEMMA CommitOverrideStep ==
  ASSUME IInv, NEW r \in Requests, CommitOverride(r)
  PROVE  IInv'
<1>1. PICK q : q = req[r]
  OBVIOUS
<1>2. q \in ReqStates /\ RequestOK(q) /\ q.pc = "cascade"
  BY <1>1, HeldBy DEF CommitOverride, At
<1>3. PICK to : to = q.to
  OBVIOUS
<1>4. PICK cascade : cascade = q.cascade
  OBVIOUS
<1>5. OverrideControlStatus(to, cascade)
  BY <1>1, <1>3, <1>4 DEF CommitOverride, OverrideControlStatus, cascaded, recomputeAuditStatus
<1>6. /\ to \in ControlStatuses /\ cascade \in [Kinds -> [id : Nat, to : RoundStatuses \cup {Untouched}]]
      /\ ctl.status # Deleted
      /\ cascade["evidence"].to # "PENDING"
  BY <1>2, <1>3, <1>4 DEF ReqStates, RequestOK
<1>7. /\ byHand' = TRUE /\ UNCHANGED ops /\ req' = [req EXCEPT ![r] = Idle]
      /\ crossed' = (crossed \/ ~isValidOverrideTransition(ctl.type, ctl.status, to))
      /\ crossed' \in BOOLEAN
  BY <1>1, <1>3 DEF CommitOverride
<1>8. StoreTypeOK' /\ RoundsInv' /\ Onwards
  BY <1>5, <1>6, <1>7, OverrideStep DEF IInv, TypeOK
<1>9. \A s \in Requests \ {r} : At(s, "cascade") => ctl' = ctl /\ Idle.pc # "cascade"
  BY <1>1, <1>2 DEF IInv, RequestInv, At
<1>10. RequestInv' /\ req' \in [Requests -> ReqStates]
  BY <1>7, <1>8, <1>9, IdleOK, RequestSteps DEF IInv
<1> QED BY <1>7, <1>8, <1>10 DEF IInv, TypeOK

-----------------------------------------------------------------------------
(* The administration.                                                        *)

LEMMA AdminStep ==
  ASSUME IInv, UpdateControlStatus \/ SetRequirementType \/ Delete \/ Environment
  PROVE  IInv'
<1>1. CASE UpdateControlStatus
  <2>1. PICK to \in ControlStatuses : UpdateControl(to)
    BY <1>1 DEF UpdateControlStatus
  <2>2. byHand' = TRUE /\ UNCHANGED <<req, crossed, ops>> /\ ~Locked
    BY <1>1 DEF UpdateControlStatus
  <2>3. StoreTypeOK' /\ RoundsInv' /\ Onwards
    BY <2>1, <2>2, UpdateControlStep DEF IInv, TypeOK
  <2> QED BY <2>2, <2>3, Stood DEF IInv, TypeOK
<1>2. CASE SetRequirementType
  <2>1. PICK type \in Types : ChangeRequirementType(type)
    BY <1>2 DEF SetRequirementType
  <2>2. UNCHANGED <<byHand, crossed>> /\ UNCHANGED <<req, ops>> /\ ~Locked
    BY <1>2 DEF SetRequirementType
  <2>3. StoreTypeOK' /\ RoundsInv' /\ Onwards
    BY <2>1, <2>2, ChangeTypeStep DEF IInv, TypeOK
  <2> QED BY <2>2, <2>3, Stood DEF IInv, TypeOK
<1>3. CASE Delete
  <2>1. DeleteControl /\ UNCHANGED <<byHand, crossed>> /\ UNCHANGED <<req, ops>> /\ ~Locked
    BY <1>3 DEF Delete
  <2>2. StoreTypeOK' /\ RoundsInv' /\ Onwards
    BY <2>1, DeleteControlStep DEF IInv, TypeOK
  <2> QED BY <2>1, <2>2, Stood DEF IInv, TypeOK
<1>4. CASE Environment
  <2>1. UNCHANGED <<byHand, crossed>> /\ UNCHANGED <<req, ops>> /\ UNCHANGED ctl
    BY <1>4 DEF Environment, OtherControls, UpdateAudit, DeleteAudit
  <2>2. StoreTypeOK' /\ RoundsInv' /\ Onwards
    BY <1>4, EnvironmentStep DEF IInv, TypeOK
  <2> QED BY <2>1, <2>2, Stood DEF IInv, TypeOK
<1> QED BY <1>1, <1>2, <1>3, <1>4

-----------------------------------------------------------------------------
(* The theorems.                                                              *)

LEMMA InitInv == Init => IInv
<1> SUFFICES ASSUME Init PROVE IInv
  OBVIOUS
<1>1. PICK type \in Types : CreateControl(type)
  BY DEF Init
<1>2. /\ ctl = [status |-> InitialStatus(type), type |-> type] /\ audit = "ACTIVE" /\ others \in BOOLEAN
      /\ rounds = [k \in Kinds |-> IF k = "population" /\ type = "OE" THEN <<"PENDING">> ELSE <<>>]
  BY <1>1 DEF CreateControl
<1>3. InitialStatus(type) \in ControlStatuses /\ "PENDING" \in RoundStatuses
  BY Names DEF InitialStatus
<1>4. rounds["evidence"] = <<>> /\ rounds["population"] = IF type = "OE" THEN <<"PENDING">> ELSE <<>>
  BY <1>2, Names
<1>5. rounds \in [Kinds -> Lists]
  <2>1. <<>> \in Lists /\ <<"PENDING">> \in Lists
    BY <1>3 DEF Lists
  <2> QED BY <1>2, <2>1
<1>6. StoreTypeOK
  BY <1>2, <1>3, <1>5 DEF StoreTypeOK, Lists, AuditStatuses
<1>7. TypeOK
  BY <1>6, IdleOK DEF TypeOK, Init
<1>8. RequestInv
  <2>1. \A r \in Requests : req[r] = Idle
    BY DEF Init
  <2> QED BY <2>1, IdleOK DEF RequestInv, At
<1>9. Live("evidence") = {} /\ Live("population") = IF type = "OE" THEN {1} ELSE {}
  <2>1. "PENDING" # Deleted
    BY DEF Deleted
  <2> QED BY <1>4, <2>1 DEF Live
<1>10. EvidenceInv
  BY <1>9 DEF EvidenceInv
<1>11. TypeFitsStage
  <2>1. controlStatusRank["EVIDENCE_PENDING"] >= designControlFloorRank
    BY Ranks, Names DEF designControlFloorRank
  <2> QED BY <1>2, <1>9, <2>1 DEF TypeFitsStage, InitialStatus
<1>12. PopulationApprovedBehindEvidence
  BY <1>2 DEF PopulationApprovedBehindEvidence, InitialStatus, PopulationStages
<1>13. OneReplacementRound
  BY <1>6, <1>9, Names, LatestRound DEF OneReplacementRound
<1> QED BY <1>7, <1>8, <1>10, <1>11, <1>12, <1>13 DEF IInv, RoundsInv

LEMMA StepInv == IInv /\ [Next]_vars => IInv'
<1> SUFFICES ASSUME IInv, [Next]_vars PROVE IInv'
  OBVIOUS
<1>1. CASE UNCHANGED vars
  <2>1. UNCHANGED storeVars /\ UNCHANGED <<byHand, crossed, req, ops>> /\ UNCHANGED ctl
    BY <1>1 DEF vars, storeVars
  <2>2. StoreTypeOK' /\ RoundsInv' /\ Onwards
    BY <2>1, NothingWritten DEF IInv, TypeOK
  <2> QED BY <2>1, <2>2, Stood DEF IInv, TypeOK
<1>2. ASSUME NEW r \in Requests, Step(r) PROVE IInv'
  BY <1>2, SubmitPopulationStep, CreateRoundStep, MarkRoundStep, UpdateStatusStep, ReviewStep, ReadStep,
     SubmitStep, NoCallStep, DeleteRoundStep, BeginOverrideStep, CheckAuditStep, WriteOverrideStep,
     CommitOverrideStep DEF Step
<1>3. CASE UpdateControlStatus \/ SetRequirementType \/ Delete \/ Environment
  BY <1>3, AdminStep
<1> QED BY <1>1, <1>2, <1>3 DEF Next

\* The invariant holds throughout.
THEOREM Invariance == Spec => []IInv
BY InitInv, StepInv, PTL DEF Spec

\* Every reachable state has its type.
THEOREM TypeCorrect == Spec => []TypeOK
<1>1. IInv => TypeOK
  BY DEF IInv
<1> QED BY <1>1, Invariance, PTL

\* OE controls have a population and DESIGN controls none, through overrides and type
\* changes; and no DESIGN control stands before its evidence but by an override that
\* its change of type has crossed.
THEOREM StageFitsType == Spec => []TypeFitsStage
<1>1. IInv => TypeFitsStage
  BY DEF IInv, RoundsInv
<1> QED BY <1>1, Invariance, PTL

\* No OE control reaches its sample or its evidence without an approved population,
\* unless an admin moved it.
THEOREM EvidenceRestsOnPopulation == Spec => []PopulationApprovedBehindEvidence
<1>1. IInv => PopulationApprovedBehindEvidence
  BY DEF IInv, RoundsInv
<1> QED BY <1>1, Invariance, PTL

\* Any number of resubmissions at the same time replace a rejected round once.
THEOREM ReplacedOnce == Spec => []OneReplacementRound
<1>1. IInv => OneReplacementRound
  BY DEF IInv, RoundsInv
<1> QED BY <1>1, Invariance, PTL

-----------------------------------------------------------------------------
(* The action properties.                                                     *)

\* Every step that moves the control recomputes the audit's status.
LEMMA Recomputed ==
  ASSUME StoreTypeOK, NEW to, audit' = recomputeAuditStatus(to, others), others' = others, ctl'.status = to,
         audit' \in {"ACTIVE", "COMPLETED"}
  PROVE  audit' = "COMPLETED" <=> ctl'.status \in {"COMPLETE", Deleted} /\ ~others'
BY DEF recomputeAuditStatus, StoreTypeOK, AuditStatuses

\* The steps that move the control.
LEMMA Moves ==
  ASSUME TypeOK, [Next]_vars, ctl' # ctl
  PROVE  \/ \E r \in Requests : UpdateStatus(r) \/ CommitOverride(r)
         \/ UpdateControlStatus \/ SetRequirementType \/ Delete
<1>1. ~UNCHANGED vars
  BY DEF vars
<1>2. ~Environment
  BY DEF Environment, OtherControls, UpdateAudit, DeleteAudit
<1>3. ASSUME NEW r \in Requests, NEW op, NEW next, Begin(r, op, next) PROVE FALSE
  BY <1>3 DEF Begin, storeVars
<1>4. ASSUME NEW r \in Requests, Step(r) PROVE UpdateStatus(r) \/ CommitOverride(r)
  <2>1. ~(ReviewPopulation(r) \/ ValidatePopulation(r) \/ ReviewEvidence(r) \/ ValidateEvidence(r))
    BY DEF ReviewPopulation, ValidatePopulation, ReviewEvidence, ValidateEvidence, decide, Begin, storeVars
  <2>2. ~(\/ SubmitPopulation(r) \/ SubmitSample(r) \/ RequestSampleTime(r) \/ SubmitEvidence(r)
          \/ WithdrawEvidence(r) \/ DeleteEvidenceRound(r) \/ DeleteEvidenceFile(r) \/ BeginOverride(r))
    BY DEF SubmitPopulation, SubmitSample, RequestSampleTime, SubmitEvidence, WithdrawEvidence,
           DeleteEvidenceRound, DeleteEvidenceFile, BeginOverride, Begin, storeVars
  <2>3. ~(CreateRound(r) \/ MarkRound(r) \/ Submit(r) \/ DiscardRound(r) \/ RemoveRound(r))
    BY DEF CreateRound, createReplacementRound, InsertRound, MarkRound, UpdateRound, Submit, DiscardRound,
           RemoveRound, DeleteEvidence
  <2>4. ~(\/ TransitionRefused(r) \/ ReconcileAfterDelete(r) \/ CallFails(r)
          \/ CheckAudit(r) \/ WriteOverride(r))
    BY DEF TransitionRefused, ReconcileAfterDelete, CallFails, CheckAudit, WriteOverride, storeVars
  <2> QED BY <1>4, <2>1, <2>2, <2>3, <2>4 DEF Step
<1> QED BY <1>1, <1>2, <1>4 DEF Next

\* The audit follows its controls, whoever moves this one.
THEOREM AuditFollows == Spec => AuditFollowsControls
<1> DEFINE Follows == ctl'.status # ctl.status /\ audit' \in {"ACTIVE", "COMPLETED"} =>
                        (audit' = "COMPLETED" <=> ctl'.status \in {"COMPLETE", Deleted} /\ ~others')
<1>1. TypeOK /\ [Next]_vars => [Follows]_vars
  <2> SUFFICES ASSUME TypeOK, [Next]_vars, ctl'.status # ctl.status, audit' \in {"ACTIVE", "COMPLETED"}
               PROVE  audit' = "COMPLETED" <=> ctl'.status \in {"COMPLETE", Deleted} /\ ~others'
    OBVIOUS
  <2>1. StoreTypeOK /\ ctl' # ctl
    BY DEF TypeOK
  <2>2. ASSUME NEW r \in Requests, UpdateStatus(r)
        PROVE  audit' = "COMPLETED" <=> ctl'.status \in {"COMPLETE", Deleted} /\ ~others'
    <3>1. PICK to : to = req[r].to
      OBVIOUS
    <3>2. /\ ctl' = [ctl EXCEPT !.status = to] /\ others' = others
          /\ audit' = recomputeAuditStatus(to, others)
      BY <2>2, <3>1 DEF UpdateStatus, UpdateControl
    <3> QED BY <2>1, <3>2, Recomputed DEF StoreTypeOK
  <2>3. ASSUME NEW r \in Requests, CommitOverride(r)
        PROVE  audit' = "COMPLETED" <=> ctl'.status \in {"COMPLETE", Deleted} /\ ~others'
    <3>1. PICK to : to = req[r].to
      OBVIOUS
    <3>2. /\ ctl' = [ctl EXCEPT !.status = to] /\ others' = others
          /\ audit' = recomputeAuditStatus(to, others)
      BY <2>3, <3>1 DEF CommitOverride, OverrideControlStatus
    <3> QED BY <2>1, <3>2, Recomputed DEF StoreTypeOK
  <2>4. CASE UpdateControlStatus
    <3>1. PICK to \in ControlStatuses : UpdateControl(to)
      BY <2>4 DEF UpdateControlStatus
    <3>2. /\ ctl'.status = to /\ others' = others
          /\ audit' = recomputeAuditStatus(to, others)
      BY <2>1, <3>1 DEF UpdateControl, StoreTypeOK
    <3> QED BY <2>1, <3>2, Recomputed
  <2>5. CASE SetRequirementType
    <3>1. PICK type \in Types : ChangeRequirementType(type)
      BY <2>5 DEF SetRequirementType
    <3>2. /\ ctl'.status = InitialStatus(type) /\ others' = others
          /\ audit' = recomputeAuditStatus(InitialStatus(type), others)
      BY <3>1 DEF ChangeRequirementType
    <3> QED BY <2>1, <3>2, Recomputed
  <2>6. CASE Delete
    <3>1. /\ ctl'.status = Deleted /\ others' = others
          /\ audit' = recomputeAuditStatus(Deleted, others)
      BY <2>1, <2>6 DEF Delete, DeleteControl, StoreTypeOK
    <3> QED BY <2>1, <3>1, Recomputed
  <2> QED BY <2>1, <2>2, <2>3, <2>4, <2>5, <2>6, Moves
<1> QED BY <1>1, TypeCorrect, PTL DEF Spec, AuditFollowsControls

\* What the cascade of an override writes, if the rounds are as it read them: the
\* latest round of each kind gets a status of the target's rank, or keeps a lower one.
LEMMA Demoted ==
  ASSUME StoreTypeOK, NEW to \in ControlStatuses, NEW cascade, cascade = Cascade(to),
         OverrideControlStatus(to, cascade), NEW k \in Kinds, Live(k) # {},
         NEW target, target = IF k = "population" THEN overridePopulationTarget[to] ELSE overrideEvidenceTarget[to],
         target # Untouched
  PROVE  LET last == Latest(k)' IN
         /\ last = Latest(k) /\ last \in Live(k)' /\ rounds[k][last] \in RoundStatuses
         /\ rounds'[k][last] = IF roundStatusRank[target] < roundStatusRank[rounds[k][last]]
                               THEN target ELSE rounds[k][last]
<1>1. /\ cascade \in [Kinds -> [id : Nat, to : RoundStatuses \cup {Untouched}]]
      /\ rounds' = cascaded(cascade)
  BY CascadeRead DEF OverrideControlStatus
<1>2. PICK last : last = Latest(k)
  OBVIOUS
<1>3. last \in Live(k) /\ last # 0 /\ last \in DOMAIN rounds[k] /\ rounds[k][last] \in RoundStatuses
  BY <1>2, LatestRound
<1>4. /\ Live(k)' = Live(k) /\ Latest(k)' = last
      /\ rounds'[k][last] = IF cascade[k].to # Untouched /\ cascade[k].id \in Live(k) /\ last = cascade[k].id
                            THEN cascade[k].to ELSE rounds[k][last]
  BY <1>1, <1>2, <1>3, CascadedRounds
<1>5. cascade[k].id = last /\ cascade[k].to = demotion(k, last, target)
  BY <1>2 DEF Cascade
<1>6. rounds'[k][last] = IF roundStatusRank[target] < roundStatusRank[rounds[k][last]]
                         THEN target ELSE rounds[k][last]
  BY <1>3, <1>4, <1>5 DEF demotion
<1> QED BY <1>2, <1>3, <1>4, <1>6

\* The rounds' ranks: below a submission are those that the team works on.
LEMMA RoundRanks ==
  /\ roundStatusRank \in [RoundStatuses -> Nat]
  /\ \A s \in RoundStatuses : roundStatusRank[s] = 0 <=> s \in Rejected \cup {"PENDING"}
  /\ Rejected \cup {"PENDING"} \subseteq OpenToTeam /\ Rejected \subseteq RoundStatuses
BY DEF roundStatusRank, RoundStatuses, Rejected, OpenToTeam

\* An override back to the population leaves the team a round, and one back before
\* the review of the evidence leaves no evidence round open.
LEMMA Taken ==
  ASSUME StoreTypeOK, RoundsInv, NEW to \in ControlStatuses, NEW cascade, cascade = Cascade(to),
         OverrideControlStatus(to, cascade), ctl.status # Deleted,
         isValidOverrideTransition(ctl.type, ctl.status, to)
  PROVE  /\ to \in {"POPULATION_PENDING", "POPULATION_NEED_CLARIFICATION"} => ActivePopulation'
         /\ controlStatusRank[to] < controlStatusRank["EVIDENCE_INTERNAL_REVIEW"] =>
              Latest("evidence") = 0 \/ rounds["evidence"][Latest("evidence")]' \in Rejected
<1>1. ASSUME to \in {"POPULATION_PENDING", "POPULATION_NEED_CLARIFICATION"} PROVE ActivePopulation'
  <2>1. PICK target : target = overridePopulationTarget[to]
    OBVIOUS
  <2>2. target \in {"PENDING", "AUDITOR_REJECTED"} /\ target \in Rejected \cup {"PENDING"} /\ target # Untouched
    BY <1>1, <2>1 DEF overridePopulationTarget, Rejected, Untouched
  <2>3. ctl.type # "DESIGN"
    <3>1. to \in PopulationStages
      BY <1>1 DEF PopulationStages
    <3> QED BY <3>1, Ranks DEF isValidOverrideTransition
  <2>4. Live("population") # {}
    BY <2>3 DEF StoreTypeOK, Types, RoundsInv, TypeFitsStage
  <2>5. LET last == Latest("population")' IN
        /\ last = Latest("population") /\ last \in Live("population")'
        /\ rounds["population"][last] \in RoundStatuses
        /\ rounds'["population"][last] =
             IF roundStatusRank[target] < roundStatusRank[rounds["population"][last]]
             THEN target ELSE rounds["population"][last]
    BY <2>1, <2>2, <2>4, Names, Demoted
  <2>6. roundStatusRank[target] = 0
    BY <2>2, Names, RoundRanks
  <2>7. rounds'["population"][Latest("population")'] \in OpenToTeam
    <3>1. PICK was : was = rounds["population"][Latest("population")']
      OBVIOUS
    <3>2. was \in RoundStatuses /\ roundStatusRank[was] \in Nat
      BY <2>5, <3>1, RoundRanks
    <3>3. ~(0 < roundStatusRank[was]) => was \in OpenToTeam
      BY <3>2, RoundRanks
    <3>4. target \in OpenToTeam
      BY <2>2, RoundRanks
    <3> QED BY <2>5, <2>6, <3>1, <3>3, <3>4
  <2>8. Latest("population") # 0
    BY <2>4, Names, LatestRound
  <2> QED BY <2>5, <2>7, <2>8 DEF ActivePopulation
<1>2. ASSUME controlStatusRank[to] < controlStatusRank["EVIDENCE_INTERNAL_REVIEW"], Latest("evidence") # 0
      PROVE  rounds["evidence"][Latest("evidence")]' \in Rejected
  <2>1. PICK target : target = overrideEvidenceTarget[to]
    OBVIOUS
  <2>2. target \in Rejected /\ target # Untouched
    <3>1. to \notin {"EVIDENCE_INTERNAL_REVIEW", "EVIDENCE_UNDER_VALIDATION", "COMPLETE"}
      BY <1>2, Ranks
    <3> QED BY <2>1, <3>1 DEF overrideEvidenceTarget, Rejected, Untouched, ControlStatuses, PopulationStages
  <2>3. Live("evidence") # {}
    BY <1>2, Names, LatestRound
  <2>4. LET last == Latest("evidence")' IN
        /\ last = Latest("evidence") /\ last \in Live("evidence")'
        /\ rounds["evidence"][last] \in RoundStatuses
        /\ rounds'["evidence"][last] =
             IF roundStatusRank[target] < roundStatusRank[rounds["evidence"][last]]
             THEN target ELSE rounds["evidence"][last]
    BY <2>1, <2>2, <2>3, Names, Demoted
  <2>5. roundStatusRank[target] = 0
    BY <2>2, Names, RoundRanks
  <2>6. rounds["evidence"][Latest("evidence")] # "PENDING"
    BY <2>3, Names, LatestRound DEF RoundsInv, EvidenceInv
  <2> QED BY <2>2, <2>4, <2>5, <2>6, RoundRanks
<1> QED BY <1>1, <1>2

\* An override that the control's type still allows takes the rounds along.
THEOREM CascadesTaken == Spec => OverrideCascades
<1> DEFINE Takes ==
      \A r \in Requests :
        At(r, "cascade") /\ ctl' # ctl /\ StillFits(r) =>
          /\ ctl'.status \in {"POPULATION_PENDING", "POPULATION_NEED_CLARIFICATION"} => ActivePopulation'
          /\ controlStatusRank[ctl'.status] < controlStatusRank["EVIDENCE_INTERNAL_REVIEW"] =>
               Latest("evidence") = 0 \/ rounds["evidence"][Latest("evidence")]' \in Rejected
<1>1. IInv /\ [Next]_vars => [Takes]_vars
  <2> SUFFICES ASSUME IInv, [Next]_vars, NEW r \in Requests,
                      At(r, "cascade"), ctl' # ctl, StillFits(r)
               PROVE  /\ ctl'.status \in {"POPULATION_PENDING", "POPULATION_NEED_CLARIFICATION"} => ActivePopulation'
                      /\ controlStatusRank[ctl'.status] < controlStatusRank["EVIDENCE_INTERNAL_REVIEW"] =>
                           Latest("evidence") = 0 \/ rounds["evidence"][Latest("evidence")]' \in Rejected
    OBVIOUS
  <2>1. Locked
    BY DEF Locked
  <2>2. PICK s \in Requests : CommitOverride(s)
    <3>1. ~UpdateControlStatus /\ ~SetRequirementType /\ ~Delete
      BY <2>1 DEF UpdateControlStatus, SetRequirementType, Delete
    <3>2. \A s \in Requests : ~UpdateStatus(s)
      BY <2>1 DEF UpdateStatus
    <3> QED BY <3>1, <3>2, Moves DEF IInv
  <2>3. s = r
    BY <2>2 DEF CommitOverride, IInv, RequestInv
  <2>4. PICK q : q = req[r]
    OBVIOUS
  <2>5. RequestOK(q) /\ q.pc = "cascade"
    BY <2>4, HeldBy DEF At
  <2>6. PICK to : to = q.to
    OBVIOUS
  <2>7. PICK cascade : cascade = q.cascade
    OBVIOUS
  <2>8. /\ to \in ControlStatuses /\ ctl.status # Deleted
        /\ isValidOverrideTransition(ctl.type, ctl.status, to)
    BY <2>4, <2>5, <2>6 DEF RequestOK, StillFits
  <2>9. cascade = Cascade(to)
    BY <2>4, <2>6, <2>7 DEF StillFits
  <2>10. OverrideControlStatus(to, cascade)
    BY <2>2, <2>3, <2>4, <2>6, <2>7 DEF CommitOverride, OverrideControlStatus, cascaded, recomputeAuditStatus
  <2>11. ctl'.status = to
    BY <2>10 DEF OverrideControlStatus, IInv, TypeOK, StoreTypeOK
  <2> QED BY <2>8, <2>9, <2>10, <2>11, Taken DEF IInv, TypeOK
<1> QED BY <1>1, Invariance, PTL DEF Spec, OverrideCascades

=============================================================================
