--------------------------- MODULE Migration_proofs ---------------------------
(* Theorems about Migration, for any sheets, any length of pages, and any      *)
(* mixes of what happens beside the runs.                                      *)
EXTENDS Migration, FiniteSetTheorems, SequenceTheorems, TLAPS

-----------------------------------------------------------------------------
(* The inductive invariant.                                                    *)

\* Pages hold what the count promises, unless risks are created within a second of each
\* other, or between the count and the page.
PagesExact == "Ties" \notin ops /\ "Overlap" \notin ops
USE DEF PagesExact

Writing == {"assess", "walk", "list", "suppress", "grant", "plan"}

\* What the run has found out of a row and its risk.
Known(r) == run.progress[r].stage # "None"

IdOf(r) == run.progress[r].id

\* The rows whose risk the run has looked for, and whose turn to be written is yet to come.
Ahead ==
  {r \in Rows \ run.rejected :
     \/ run.pc = "resume" /\ r < run.row
     \/ run.pc \in {"row", "create"} /\ r >= run.row
     \/ run.pc \in Writing /\ r > run.row}

\* A risk of the row as the verification wants it, and such a risk of every row.
Migrated(r) == \E i \in DOMAIN risks : risks[i].key = sheet[r].key /\ verifyRow(sheet[r], risks[i])

SheetIn == \A r \in Rows : Migrated(r)

AllGrants == UNION {Range(sheet[r].grants) : r \in Rows}

PlaceInv ==
  /\ run.pc \notin {"idle", "search", "page", "recheck", "repage"} => run.row \in Rows
  /\ run.pc \in {"search", "page"} => run.rejected = {} /\ \A r \in Rows : run.progress[r] = NotFound
  /\ run.pc = "resume" => \A r \in Rows : r >= run.row => r \notin run.rejected /\ run.progress[r] = NotFound
  /\ Range(run.todo) \subseteq AllGrants

OneEach == \A i, j \in DOMAIN risks : i # j /\ risks[i].key = risks[j].key => risks[i].key = NoKey

\* Each row has one risk, which is one of the run's own.
RisksInv ==
  /\ WrittenOnce
  /\ \A i \in DOMAIN risks : risks[i].key # NoKey => risks[i].marker
  /\ PagesExact => (\A i \in DOMAIN risks : ~risks[i].tied) /\ OneEach

\* What a search has seen: since then a title may have changed, to that of no row.
FoundInv ==
  /\ \A f \in run.found :
       /\ f.id \in DOMAIN risks
       /\ f.key # NoKey => risks[f.id].key \in {f.key, NoKey}
       /\ settled /\ f.key # NoKey => /\ f.key = risks[f.id].key
                                      /\ PagesExact => f.status = risks[f.id].status
  /\ \A f, g \in run.found : f.id = g.id /\ f.key # NoKey /\ g.key # NoKey => f.key = g.key

Seen(i) == \E f \in run.found : f.id = i /\ f.key = risks[i].key

\* A search has seen the newest risks, as many as its offset says; in the end all of them.
SeenInv ==
  PagesExact =>
    /\ run.pc = "page" => run.total = Len(risks)
    /\ run.pc \in {"search", "page"} =>
         \A i \in DOMAIN risks : risks[i].key # NoKey /\ i > Len(risks) - run.offset => Seen(i)
    /\ run.pc = "resume" => \A i \in DOMAIN risks : risks[i].key # NoKey => Seen(i)

\* Of a row ahead: it has no risk, or the one the run knows, and no other row has that.
RowInv ==
  /\ \A r \in Ahead :
       /\ r \notin rejectDuplicateKeys
       /\ ~Known(r) => /\ run.progress[r] = NotFound
                       /\ PagesExact => ~settled /\ \A i \in DOMAIN risks : risks[i].key # sheet[r].key
       /\ Known(r) => /\ IdOf(r) \in DOMAIN risks
                      /\ run.progress[r].assessed <=> risks[IdOf(r)].assessed > 0
                      /\ settled => /\ risks[IdOf(r)].key = sheet[r].key
                                    /\ PagesExact => run.progress[r].stage = "Complete"
                      /\ run.pc = "resume" => \E f \in run.found : f.id = IdOf(r) /\ f.key = sheet[r].key
  /\ \A r, s \in Ahead : r # s /\ Known(r) /\ Known(s) => IdOf(r) # IdOf(s)

\* Of the row being written.
HereInv ==
  /\ run.pc = "create" => run.row \in Ahead /\ ~Known(run.row)
  /\ run.pc \in Writing =>
       /\ run.row \notin rejectDuplicateKeys
       /\ Here.id \in DOMAIN risks
       /\ settled => ~PagesExact /\ risks[Here.id].key = Row.key
       /\ \A s \in Ahead : Known(s) => IdOf(s) # Here.id
  /\ run.pc \in {"list", "suppress"} => wantsSuppressingEscalation(Row)
  /\ run.pc = "assess" => risks[Here.id].assessed = 0
  /\ run.pc = "suppress" => risks[Here.id].open = 0

\* After a clean run, and as far as the verification has come, rows have been migrated.
SettledInv ==
  /\ settled => SheetIn
  /\ run.pc = "verify" /\ run.calm /\ ~run.mismatch /\ run.rejected = {} => \A r \in Rows : r < run.row => Migrated(r)

IInv == TypeOK /\ PlaceInv /\ RisksInv /\ FoundInv /\ SeenInv /\ RowInv /\ HereInv /\ SettledInv

-----------------------------------------------------------------------------
(* Facts about the operators.                                                  *)

LEMMA TheSheet ==
  ASSUME sheet \in Sheets
  PROVE  /\ Len(sheet) \in Nat \ {0} /\ Rows = 1..Len(sheet)
         /\ \A r \in Rows : sheet[r] \in SheetRows /\ sheet[r].key # NoKey /\ sheet[r].key \in Titles
<1>1. sheet # <<>> /\ sheet \in Seq(SheetRows)
  BY MigrationAssumption
<1>2. Len(sheet) \in Nat /\ Rows = 1..Len(sheet) /\ Len(sheet) # 0
  BY <1>1, LenProperties, EmptySeq DEF Rows
<1>3. \A r \in Rows : sheet[r] \in SheetRows
  BY <1>1, <1>2, ElementOfSeq
<1> QED BY <1>2, <1>3 DEF SheetRows

\* The grants a row asks for are among those of the sheet.
LEMMA GrantsOfRow ==
  ASSUME sheet \in Sheets, NEW r \in Rows
  PROVE  expectedGrants(sheet[r]) \in Seq(STRING) /\ Range(expectedGrants(sheet[r])) \subseteq AllGrants
<1>1. sheet[r].grants \in Seq(STRING)
  BY TheSheet DEF SheetRows
<1>2. <<>> \in Seq(STRING) /\ Range(<<>>) = {}
  BY EmptySeq DEF Range
<1>3. Range(sheet[r].grants) \subseteq AllGrants
  BY DEF AllGrants
<1> QED BY <1>1, <1>2, <1>3 DEF expectedGrants

\* What is left of a list.
LEMMA TailOf ==
  ASSUME NEW s \in Seq(STRING), s # <<>>
  PROVE  Head(s) \in Range(s) /\ Tail(s) \in Seq(STRING) /\ Range(Tail(s)) \subseteq Range(s)
<1>1. Len(s) \in Nat /\ Len(s) # 0 /\ DOMAIN s = 1..Len(s)
  BY EmptySeq, LenProperties
<1>2. Head(s) = s[1] /\ Tail(s) \in Seq(STRING) /\ Len(Tail(s)) = Len(s) - 1 /\ DOMAIN Tail(s) = 1..(Len(s) - 1)
  BY HeadTailProperties, LenProperties
<1>3. \A i \in 1..(Len(s) - 1) : Tail(s)[i] = s[i + 1]
  BY HeadTailProperties
<1>4. \A i \in DOMAIN Tail(s) : i + 1 \in DOMAIN s
  BY <1>1, <1>2
<1> QED BY <1>1, <1>2, <1>3, <1>4 DEF Range

\* The next hop is one of the path.
LEMMA NextHop ==
  ASSUME NEW current, NEW target, HopsLeft(current, target) # {}
  PROVE  Path[Min(HopsLeft(current, target))] \in Statuses
<1>1. PICK S : S = HopsLeft(current, target)
  OBVIOUS
<1>2. S \subseteq 2..6 /\ S # {}
  BY <1>1 DEF HopsLeft, Path
<1>3. \E x \in S : \A y \in S : x <= y
  <2>1. \A y \in S : y = 2 \/ y = 3 \/ y = 4 \/ y = 5 \/ y = 6
    BY <1>2
  <2>2. CASE 2 \in S
    BY <2>1, <2>2
  <2>3. CASE 2 \notin S /\ 3 \in S
    BY <2>1, <2>3
  <2>4. CASE 2 \notin S /\ 3 \notin S /\ 4 \in S
    BY <2>1, <2>4
  <2>5. CASE 2 \notin S /\ 3 \notin S /\ 4 \notin S /\ 5 \in S
    BY <2>1, <2>5
  <2>6. CASE 2 \notin S /\ 3 \notin S /\ 4 \notin S /\ 5 \notin S
    <3>1. \A y \in S : y = 6
      BY <2>1, <2>6
    <3>2. PICK x \in S : TRUE
      BY <1>2
    <3> QED BY <3>1, <3>2
  <2> QED BY <2>2, <2>3, <2>4, <2>5, <2>6
<1>4. Min(S) \in 2..6
  BY <1>2, <1>3 DEF Min
<1>5. \A h \in 2..6 : Path[h] \in Statuses
  BY DEF Path, Statuses, OwnerStages, ClosurePath, InRemediation, Terminal
<1> QED BY <1>1, <1>4, <1>5

\* A run that has not begun.
LEMMA IdleIs ==
  ASSUME sheet \in Sheets
  PROVE  /\ Idle \in Runs
         /\ Idle.pc = "idle" /\ Idle.row = NoRow /\ Idle.found = {} /\ Idle.offset = 0 /\ Idle.todo = <<>>
         /\ Idle.rejected = {} /\ Idle.mismatch = FALSE /\ Idle.calm = TRUE
         /\ \A r \in Rows : Idle.progress[r] = NotFound
<1>1. NotFound \in Progresses
  BY DEF NotFound, Progresses
<1>2. <<>> \in Seq(STRING)
  BY EmptySeq
<1>3. [r \in Rows |-> NotFound] \in [Rows -> Progresses]
  BY <1>1
<1> QED BY <1>2, <1>3 DEF Idle, Runs, Phases, NoRow

-----------------------------------------------------------------------------
(* What becomes of a run, field by field.                                      *)

\* A run as TypeOK has it, with its row one of the sheet.
LEMMA AdvanceIs ==
  ASSUME TypeOK, NEW state \in Runs, state.row \in Rows, NEW phase \in Phases, NEW then \in Phases,
         NEW new, new = Advance(state, phase, then)
  PROVE  /\ new \in Runs /\ new.row \in Rows
         /\ new.pc = IF state.row = Len(sheet) THEN then ELSE phase
         /\ new.row = IF state.row = Len(sheet) THEN 1 ELSE state.row + 1
         /\ new.found = state.found /\ new.offset = state.offset /\ new.progress = state.progress
         /\ new.todo = state.todo /\ new.rejected = state.rejected
         /\ new.mismatch = state.mismatch /\ new.calm = state.calm
<1>1. Len(sheet) \in Nat \ {0} /\ Rows = 1..Len(sheet)
  BY TheSheet DEF TypeOK
<1>2. state.row + 1 \in Rows \/ state.row = Len(sheet)
  BY <1>1
<1>3. 1 \in Rows
  BY <1>1
<1>4. Rows \subseteq Nat
  BY <1>1
<1> QED BY <1>2, <1>3, <1>4 DEF Advance, Runs

LEMMA DoneIs ==
  ASSUME TypeOK, NEW state \in Runs, state.row \in Rows, NEW new, new = Done(state)
  PROVE  /\ new \in Runs /\ new.row \in Rows
         /\ new.pc = IF state.row = Len(sheet) THEN "recheck" ELSE "row"
         /\ new.row = IF state.row = Len(sheet) THEN 1 ELSE state.row + 1
         /\ new.found = state.found /\ new.offset = state.offset
         /\ new.progress = [state.progress EXCEPT ![state.row] = NotFound]
         /\ new.todo = <<>> /\ new.rejected = state.rejected
         /\ new.mismatch = state.mismatch /\ new.calm = state.calm
<1> DEFINE mid == [state EXCEPT !.progress[state.row] = NotFound, !.todo = <<>>]
<1>1. NotFound \in Progresses
  BY DEF NotFound, Progresses
<1>2. <<>> \in Seq(STRING)
  BY EmptySeq
<1>3. mid \in Runs /\ mid.row = state.row /\ mid.pc = state.pc /\ mid.found = state.found /\ mid.offset = state.offset
      /\ mid.progress = [state.progress EXCEPT ![state.row] = NotFound] /\ mid.todo = <<>>
      /\ mid.rejected = state.rejected /\ mid.mismatch = state.mismatch /\ mid.calm = state.calm
  BY <1>1, <1>2 DEF Runs
<1>4. "row" \in Phases /\ "recheck" \in Phases
  BY DEF Phases
<1>5. new = Advance(mid, "row", "recheck")
  BY DEF Done
<1>6. PICK m : m = mid
  OBVIOUS
<1> HIDE DEF mid
<1>7. m \in Runs /\ m.row \in Rows /\ new = Advance(m, "row", "recheck")
  BY <1>3, <1>5, <1>6
<1>8. /\ new \in Runs /\ new.row \in Rows
      /\ new.pc = IF m.row = Len(sheet) THEN "recheck" ELSE "row"
      /\ new.row = IF m.row = Len(sheet) THEN 1 ELSE m.row + 1
      /\ new.found = m.found /\ new.offset = m.offset /\ new.progress = m.progress
      /\ new.todo = m.todo /\ new.rejected = m.rejected
      /\ new.mismatch = m.mismatch /\ new.calm = m.calm
  BY SMTT(30), <1>4, <1>7, AdvanceIs
<1> QED BY <1>3, <1>6, <1>8

\* Nothing of the run is left but its history.
AtRest ==
  /\ run'.pc \in {"idle", "search"} /\ run'.found = {} /\ run'.offset = 0 /\ run'.todo = <<>>
  /\ run'.rejected = {} /\ \A r \in Rows : run'.progress[r] = NotFound

\* A row is left, for the next or for the search that verifies.
Leaves ==
  /\ run.row \in Rows /\ run'.row \in Rows
  /\ run'.pc = IF run.row = Len(sheet) THEN "recheck" ELSE "row"
  /\ run'.row = IF run.row = Len(sheet) THEN 1 ELSE run.row + 1
  /\ run'.found = run.found /\ run'.offset = run.offset
  /\ run'.progress = [run.progress EXCEPT ![run.row] = NotFound]
  /\ run'.todo = <<>> /\ run'.rejected \in {run.rejected, run.rejected \cup {run.row}}
  /\ run'.mismatch = run.mismatch /\ run'.calm = run.calm

\* The run stays at its row, with p found out of it.
Stays(p) ==
  /\ run'.row = run.row /\ run'.found = run.found /\ run'.offset = run.offset
  /\ run'.progress = [run.progress EXCEPT ![run.row] = p]
  /\ run'.rejected = run.rejected /\ run'.mismatch = run.mismatch /\ run'.calm = run.calm

LEMMA StartDoes ==
  ASSUME TypeOK, Start
  PROVE  run' \in Runs /\ AtRest
BY IdleIs DEF TypeOK, Start, AtRest, Runs, Phases

LEMMA IdleDoes ==
  ASSUME TypeOK, run' = Idle
  PROVE  run' \in Runs /\ AtRest
BY IdleIs DEF TypeOK, AtRest

LEMMA CountDoes ==
  ASSUME TypeOK, CountRisks
  PROVE  /\ run' \in Runs /\ run'.total = Len(risks)
         /\ \/ run.pc = "search" /\ run'.pc = "page"
            \/ run.pc = "recheck" /\ run'.pc = "repage"
         /\ run'.row = run.row /\ run'.found = run.found /\ run'.offset = run.offset
         /\ run'.progress = run.progress /\ run'.todo = run.todo /\ run'.rejected = run.rejected
         /\ run'.mismatch = run.mismatch /\ run'.calm = run.calm
<1>1. Len(risks) \in Nat
  BY LenProperties DEF TypeOK
<1> QED BY <1>1 DEF CountRisks, TypeOK, Runs, Phases

LEMMA SearchDoes ==
  ASSUME TypeOK, NEW count \in {"search", "recheck"}, NEW then \in {"resume", "verify"},
         SearchPage(count, then)
  PROVE  \E page \in PageOf(run.offset, PageLimit) :
           LET found  == run.found \cup Found(page, run.offset)
               offset == run.offset + Cardinality(page)
               last   == page = {} \/ offset >= run.total
           IN /\ run' \in Runs /\ run'.found = found
              /\ run'.offset = IF last THEN 0 ELSE offset
              /\ run'.pc = IF last THEN then ELSE count
              /\ run'.row = IF last THEN 1 ELSE run.row
              /\ run'.progress = run.progress /\ run'.todo = run.todo /\ run'.rejected = run.rejected
              /\ run'.mismatch = run.mismatch /\ run'.calm = run.calm
<1>1. PICK page \in PageOf(run.offset, PageLimit) :
        LET found  == run.found \cup Found(page, run.offset)
            offset == run.offset + Cardinality(page)
        IN run' = IF page = {} \/ offset >= run.total
                  THEN [run EXCEPT !.found = found, !.offset = 0, !.total = 0, !.pc = then, !.row = 1]
                  ELSE [run EXCEPT !.found = found, !.offset = offset, !.total = 0, !.pc = count]
  BY DEF SearchPage
<1>2. page \subseteq DOMAIN risks
  BY DEF PageOf
<1>3. Len(risks) \in Nat /\ DOMAIN risks = 1..Len(risks) /\ \A i \in DOMAIN risks : risks[i] \in Risks
  BY LenProperties, ElementOfSeq DEF TypeOK
<1>4. Cardinality(page) \in Nat
  <2>1. Len(risks) \in Int /\ 1 \in Int
    BY <1>3
  <2>2. IsFiniteSet(1..Len(risks))
    BY <2>1, FS_Interval
  <2>3. IsFiniteSet(page)
    BY <2>2, <1>2, <1>3, FS_Subset
  <2> QED BY <2>3, FS_CardinalityType
<1>5. run.offset \in Nat
  BY DEF TypeOK, Runs
<1>6. Found(page, run.offset) \subseteq Sightings
  <2>1. \A i \in page : i \in Nat /\ risks[i].key \in Titles /\ risks[i].status \in Statuses
    BY <1>2, <1>3 DEF Risks
  <2> QED BY <2>1, <1>5 DEF Found, Sightings
<1>7. run.found \cup Found(page, run.offset) \in SUBSET Sightings
  BY <1>6 DEF TypeOK, Runs
<1>8. run.offset + Cardinality(page) \in Nat
  BY <1>4, <1>5
<1> DEFINE found == run.found \cup Found(page, run.offset)
           offset == run.offset + Cardinality(page)
<1>9. found \in SUBSET Sightings /\ offset \in Nat
  BY <1>7, <1>8
<1>10. run' = IF page = {} \/ offset >= run.total
              THEN [run EXCEPT !.found = found, !.offset = 0, !.total = 0, !.pc = then, !.row = 1]
              ELSE [run EXCEPT !.found = found, !.offset = offset, !.total = 0, !.pc = count]
  BY <1>1
<1> HIDE DEF found, offset
<1>11. LET last == page = {} \/ offset >= run.total
       IN /\ run' \in Runs /\ run'.found = found
          /\ run'.offset = IF last THEN 0 ELSE offset
          /\ run'.pc = IF last THEN then ELSE count
          /\ run'.row = IF last THEN 1 ELSE run.row
          /\ run'.progress = run.progress /\ run'.todo = run.todo /\ run'.rejected = run.rejected
          /\ run'.mismatch = run.mismatch /\ run'.calm = run.calm
  BY <1>9, <1>10 DEF TypeOK, Runs, Phases
<1> QED BY <1>11 DEF found, offset

\* A risk's sighting as progress of a row.
LEMMA ProgressIs ==
  ASSUME TypeOK, NEW r \in Rows, NEW f \in Sightings, f.id \in DOMAIN risks
  PROVE  /\ Progress(r, f) \in Progresses /\ Progress(r, f).id = f.id /\ Progress(r, f).status = f.status
         /\ Progress(r, f).stage = IF StepsDone(sheet[r], f.status, risks[f.id]) THEN "Complete" ELSE "Partial"
         /\ Progress(r, f).assessed <=> risks[f.id].assessed > 0
<1>1. risks[f.id] \in Risks
  BY ElementOfSeq, LenProperties DEF TypeOK
<1>2. risks[f.id].assessed \in Nat
  BY <1>1 DEF Risks
<1>3. HasAssessment(risks[f.id]) \in BOOLEAN /\ (HasAssessment(risks[f.id]) <=> risks[f.id].assessed > 0)
  BY <1>2 DEF HasAssessment
<1>4. f.id \in Nat /\ f.status \in Statuses
  BY DEF Sightings
<1> QED BY <1>3, <1>4 DEF Progress, Progresses

\* The row was looked up, and was not found to be anybody's, or to be that of p.
Looks(p) ==
  /\ run'.pc = IF run.row = Len(sheet) THEN "row" ELSE "resume"
  /\ run'.row = IF run.row = Len(sheet) THEN 1 ELSE run.row + 1
  /\ run'.found = IF run.row = Len(sheet) THEN {} ELSE run.found
  /\ run'.progress = [run.progress EXCEPT ![run.row] = p]
  /\ run'.offset = run.offset /\ run'.todo = run.todo
  /\ run'.mismatch = run.mismatch /\ run'.calm = run.calm

Ends(m) == IF run.row = Len(sheet) THEN [m EXCEPT !.found = {}] ELSE m

LEMMA LooksOn ==
  ASSUME TypeOK, run.row \in Rows, NEW m \in Runs, m.row = run.row,
         m.found = run.found, m.offset = run.offset, m.todo = run.todo,
         m.mismatch = run.mismatch, m.calm = run.calm,
         NEW p, m.progress = [run.progress EXCEPT ![run.row] = p],
         run' = Advance(Ends(m), "resume", "row")
  PROVE  run' \in Runs /\ run'.row \in Rows /\ Looks(p) /\ run'.rejected = m.rejected
<1>1. PICK e : e = Ends(m)
  OBVIOUS
<1>2. /\ e \in Runs /\ e.row = m.row /\ e.found = IF run.row = Len(sheet) THEN {} ELSE m.found
      /\ e.offset = m.offset /\ e.todo = m.todo /\ e.progress = m.progress /\ e.rejected = m.rejected
      /\ e.mismatch = m.mismatch /\ e.calm = m.calm
  BY <1>1 DEF Ends, Runs
<1>3. PICK n : n = run'
  OBVIOUS
<1>4. e \in Runs /\ e.row \in Rows /\ n = Advance(e, "resume", "row") /\ "resume" \in Phases /\ "row" \in Phases
  BY <1>1, <1>2, <1>3 DEF Phases
<1>5. /\ n \in Runs /\ n.row \in Rows
      /\ n.pc = IF e.row = Len(sheet) THEN "row" ELSE "resume"
      /\ n.row = IF e.row = Len(sheet) THEN 1 ELSE e.row + 1
      /\ n.found = e.found /\ n.offset = e.offset /\ n.progress = e.progress
      /\ n.todo = e.todo /\ n.rejected = e.rejected
      /\ n.mismatch = e.mismatch /\ n.calm = e.calm
  BY SMTT(30), <1>4, AdvanceIs
<1> QED BY <1>2, <1>3, <1>5 DEF Looks

LEMMA ResumeDoes ==
  ASSUME TypeOK, PlaceInv, FoundInv, Resume
  PROVE  /\ run.row \in Rows /\ run'.row \in Rows /\ run' \in Runs
         /\ \/ /\ Looks(run.progress[run.row])
               /\ run'.rejected = run.rejected \cup {run.row}
            \/ /\ run.row \notin rejectDuplicateKeys /\ Matches(run.row) = {}
               /\ Looks(run.progress[run.row])
               /\ run'.rejected = run.rejected
            \/ /\ run.row \notin rejectDuplicateKeys
               /\ \E f \in Matches(run.row) : Looks(Progress(run.row, f))
               /\ run'.rejected = run.rejected
<1>1. run.row \in Rows
  BY DEF PlaceInv, Resume
<1>2. run \in Runs /\ run.progress \in [Rows -> Progresses] /\ run.rejected \in SUBSET Rows
  BY DEF TypeOK, Runs
<1>3. run.progress = [run.progress EXCEPT ![run.row] = run.progress[run.row]]
  BY <1>2
<1>4. CASE run.row \in rejectDuplicateKeys \/ Ambiguous(run.row)
  <2>1. PICK m : m = [run EXCEPT !.rejected = @ \cup {run.row}]
    OBVIOUS
  <2>2. m \in Runs /\ m.row = run.row /\ m.found = run.found /\ m.offset = run.offset /\ m.todo = run.todo
        /\ m.mismatch = run.mismatch /\ m.calm = run.calm /\ m.progress = run.progress
        /\ m.rejected = run.rejected \cup {run.row}
    BY <1>1, <1>2, <2>1 DEF Runs
  <2>3. run' = Advance(Ends(m), "resume", "row")
    BY <1>4, <2>1 DEF Resume, Ends
  <2>4. PICK p : p = run.progress[run.row]
    OBVIOUS
  <2>5. m.progress = [run.progress EXCEPT ![run.row] = p]
    BY <2>2, <2>4, <1>3
  <2>6. run' \in Runs /\ run'.row \in Rows /\ Looks(p) /\ run'.rejected = m.rejected
    BY <1>1, <2>2, <2>3, <2>5, LooksOn
  <2> QED BY <1>1, <2>2, <2>4, <2>6
<1>5. CASE ~(run.row \in rejectDuplicateKeys \/ Ambiguous(run.row)) /\ Matches(run.row) = {}
  <2>1. PICK m : m = run
    OBVIOUS
  <2>3. run' = Advance(Ends(m), "resume", "row")
    BY <1>5, <2>1 DEF Resume, Ends
  <2>4. PICK p : p = run.progress[run.row]
    OBVIOUS
  <2>5. m.progress = [run.progress EXCEPT ![run.row] = p]
    BY <2>1, <2>4, <1>3
  <2>6. run' \in Runs /\ run'.row \in Rows /\ Looks(p) /\ run'.rejected = m.rejected
    BY <1>1, <1>2, <2>1, <2>3, <2>5, LooksOn
  <2> QED BY <1>1, <1>5, <2>1, <2>4, <2>6
<1>6. CASE ~(run.row \in rejectDuplicateKeys \/ Ambiguous(run.row)) /\ Matches(run.row) # {}
  <2>1. PICK f : f = Match(run.row)
    OBVIOUS
  <2>2. f \in Matches(run.row)
    BY <1>6, <2>1 DEF Match
  <2>3. f \in Sightings /\ f.id \in DOMAIN risks
    BY <2>2 DEF Matches, FoundInv, TypeOK, Runs
  <2>4. PICK p : p = Progress(run.row, f)
    OBVIOUS
  <2>5. PICK r : r = run.row
    OBVIOUS
  <2>6. p \in Progresses
    BY <1>1, <2>3, <2>4, <2>5, ProgressIs
  <2>7. PICK m : m = [run EXCEPT !.progress[run.row] = p]
    OBVIOUS
  <2>8. m \in Runs /\ m.row = run.row /\ m.found = run.found /\ m.offset = run.offset /\ m.todo = run.todo
        /\ m.mismatch = run.mismatch /\ m.calm = run.calm /\ m.progress = [run.progress EXCEPT ![run.row] = p]
        /\ m.rejected = run.rejected
    BY <1>1, <1>2, <2>6, <2>7 DEF Runs
  <2>9. run' = Advance(Ends(m), "resume", "row")
    BY <1>6, <2>1, <2>4, <2>7 DEF Resume, Ends
  <2>10. run' \in Runs /\ run'.row \in Rows /\ Looks(p) /\ run'.rejected = m.rejected
    BY <1>1, <2>8, <2>9, LooksOn
  <2> QED BY <1>1, <1>6, <2>2, <2>4, <2>8, <2>10
<1> QED BY <1>4, <1>5, <1>6

LEMMA AfterCreateIs ==
  ASSUME TypeOK, run.row \in Rows, NEW p \in Progresses, run' = AfterCreate(p)
  PROVE  /\ run' \in Runs /\ run'.row \in Rows /\ Stays(p) /\ run'.todo = run.todo
         /\ run'.pc = IF Row.residual /\ ~p.assessed THEN "assess" ELSE "walk"
BY DEF AfterCreate, TypeOK, Runs, Phases, Stays

LEMMA DoneDoes ==
  ASSUME TypeOK, PlaceInv, run.row \in Rows,
         \/ run' = Done(run)
         \/ run' = Rejected(run.row)
  PROVE  run' \in Runs /\ Leaves
<1>1. PICK n : n = run'
  OBVIOUS
<1>2. run \in Runs /\ run.rejected \in SUBSET Rows
  BY DEF TypeOK, Runs
<1>3. CASE run' = Done(run)
  <2>1. PICK m : m = run
    OBVIOUS
  <2>2. m \in Runs /\ m.row \in Rows /\ n = Done(m)
    BY <1>1, <1>2, <1>3, <2>1
  <2>3. /\ n \in Runs /\ n.row \in Rows
        /\ n.pc = IF m.row = Len(sheet) THEN "recheck" ELSE "row"
        /\ n.row = IF m.row = Len(sheet) THEN 1 ELSE m.row + 1
        /\ n.found = m.found /\ n.offset = m.offset
        /\ n.progress = [m.progress EXCEPT ![m.row] = NotFound]
        /\ n.todo = <<>> /\ n.rejected = m.rejected
        /\ n.mismatch = m.mismatch /\ n.calm = m.calm
    BY <2>2, DoneIs
  <2> QED BY <1>1, <2>1, <2>3 DEF Leaves
<1>4. CASE run' = Rejected(run.row)
  <2>1. PICK m : m = [run EXCEPT !.rejected = @ \cup {run.row}]
    OBVIOUS
  <2>2. m \in Runs /\ m.row = run.row /\ m.found = run.found /\ m.offset = run.offset /\ m.progress = run.progress
        /\ m.rejected = run.rejected \cup {run.row} /\ m.mismatch = run.mismatch /\ m.calm = run.calm
    BY <1>2, <2>1 DEF Runs
  <2>3. m.row \in Rows /\ n = Done(m)
    BY <1>1, <1>4, <2>1, <2>2 DEF Rejected
  <2>4. /\ n \in Runs /\ n.row \in Rows
        /\ n.pc = IF m.row = Len(sheet) THEN "recheck" ELSE "row"
        /\ n.row = IF m.row = Len(sheet) THEN 1 ELSE m.row + 1
        /\ n.found = m.found /\ n.offset = m.offset
        /\ n.progress = [m.progress EXCEPT ![m.row] = NotFound]
        /\ n.todo = <<>> /\ n.rejected = m.rejected
        /\ n.mismatch = m.mismatch /\ n.calm = m.calm
    BY <2>2, <2>3, DoneIs
  <2> QED BY <1>1, <2>2, <2>4 DEF Leaves
<1> QED BY <1>3, <1>4

LEMMA MigrateRowDoes ==
  ASSUME TypeOK, PlaceInv, MigrateRow
  PROVE  /\ run.row \in Rows /\ run' \in Runs
         /\ \/ Leaves
            \/ /\ run.row \notin run.rejected /\ Here.stage = "None"
               /\ Stays(Here) /\ run'.pc = "create" /\ run'.todo = run.todo
            \/ /\ run.row \notin run.rejected /\ Here.stage = "Partial"
               /\ Stays(Here) /\ run'.pc = (IF Row.residual /\ ~Here.assessed THEN "assess" ELSE "walk")
               /\ run'.todo = run.todo
<1>1. run.row \in Rows
  BY DEF PlaceInv, MigrateRow
<1>2. run \in Runs /\ run.progress \in [Rows -> Progresses]
  BY DEF TypeOK, Runs
<1>3. Here \in Progresses /\ run.progress = [run.progress EXCEPT ![run.row] = Here]
  BY <1>1, <1>2 DEF Here
<1>4. CASE run.row \in run.rejected \/ Here.stage = "Complete"
  BY <1>1, <1>4, DoneDoes DEF MigrateRow
<1>5. CASE ~(run.row \in run.rejected \/ Here.stage = "Complete") /\ Here.stage = "None"
  <2>1. run' = [run EXCEPT !.pc = "create"]
    BY <1>5 DEF MigrateRow
  <2> QED BY <1>1, <1>2, <1>3, <1>5, <2>1 DEF Runs, Phases, Stays
<1>6. CASE ~(run.row \in run.rejected \/ Here.stage = "Complete") /\ Here.stage # "None"
  <2>1. PICK p : p = Here
    OBVIOUS
  <2>2. run' = AfterCreate(p) /\ p \in Progresses
    BY <1>3, <1>6, <2>1 DEF MigrateRow
  <2>3. /\ run' \in Runs /\ run'.row \in Rows /\ Stays(p) /\ run'.todo = run.todo
        /\ run'.pc = IF Row.residual /\ ~p.assessed THEN "assess" ELSE "walk"
    BY <1>1, <2>2, AfterCreateIs
  <2>4. Here.stage = "Partial"
    BY <1>3, <1>6 DEF Progresses
  <2> QED BY <1>1, <1>6, <2>1, <2>3, <2>4
<1> QED BY <1>4, <1>5, <1>6

-----------------------------------------------------------------------------
(* What becomes of the risks.                                                  *)

LEMMA RisksAre ==
  ASSUME TypeOK
  PROVE  /\ Len(risks) \in Nat /\ DOMAIN risks = 1..Len(risks)
         /\ \A i \in DOMAIN risks : risks[i] \in Risks
BY LenProperties, ElementOfSeq DEF TypeOK

\* One risk is written.
Touched(id, q) ==
  /\ risks' \in Seq(Risks) /\ Len(risks') = Len(risks) /\ DOMAIN risks' = DOMAIN risks
  /\ \A i \in DOMAIN risks : risks'[i] = IF i = id THEN q ELSE risks[i]

LEMMA Touches ==
  ASSUME TypeOK, NEW id \in DOMAIN risks, NEW q \in Risks, risks' = [risks EXCEPT ![id] = q]
  PROVE  Touched(id, q)
<1>1. Len(risks) \in Nat /\ DOMAIN risks = 1..Len(risks) /\ \A i \in DOMAIN risks : risks[i] \in Risks
  BY RisksAre
<1>2. DOMAIN risks' = DOMAIN risks /\ \A i \in DOMAIN risks : risks'[i] = IF i = id THEN q ELSE risks[i]
  OBVIOUS
<1>3. PICK s : s = risks'
  OBVIOUS
<1>4. s \in [1..Len(risks) -> Risks]
  BY <1>1, <1>3
<1>5. PICK n \in Nat : n = Len(risks)
  BY <1>1
<1>6. s \in Seq(Risks) /\ Len(s) = n
  BY <1>4, <1>5, SeqDef, LenProperties
<1> QED BY <1>2, <1>3, <1>5, <1>6 DEF Touched

\* One risk is raised.
Grown(q) ==
  /\ risks' \in Seq(Risks) /\ Len(risks') = Len(risks) + 1 /\ DOMAIN risks' = 1..(Len(risks) + 1)
  /\ risks'[Len(risks) + 1] = q /\ \A i \in DOMAIN risks : risks'[i] = risks[i]

LEMMA Grows ==
  ASSUME TypeOK, NEW q \in Risks, risks' = Append(risks, q)
  PROVE  Grown(q)
<1>1. risks \in Seq(Risks) /\ Len(risks) \in Nat /\ DOMAIN risks = 1..Len(risks)
  BY RisksAre DEF TypeOK
<1>2. PICK s : s = risks
  OBVIOUS
<1>3. Append(s, q) \in Seq(Risks) /\ Len(Append(s, q)) = Len(s) + 1 /\ Append(s, q)[Len(s) + 1] = q
      /\ \A i \in 1..Len(s) : Append(s, q)[i] = s[i]
  BY <1>1, <1>2, AppendProperties
<1>4. DOMAIN Append(s, q) = 1..(Len(s) + 1)
  BY <1>3, LenProperties
<1> QED BY <1>1, <1>2, <1>3, <1>4 DEF Grown

LEMMA NewRisks ==
  ASSUME TypeOK, NEW key \in Titles, NEW marker \in BOOLEAN, NEW due \in BOOLEAN, NEW q \in NewRisk(key, marker, due)
  PROVE  /\ q \in Risks /\ q.key = key /\ q.marker = marker /\ q.assessed = 0 /\ q.open = 0
         /\ PagesExact => ~q.tied
<1>1. PagesExact => "Ties" \notin ops
  BY DEF TypeOK, PagesExact
<1>2. "PENDING_RISK_OWNER_APPROVAL" \in Statuses
  BY DEF Statuses, OwnerStages
<1> DEFINE born(t) == [key |-> key, marker |-> marker, status |-> "PENDING_RISK_OWNER_APPROVAL", due |-> due,
                       tied |-> t, assessed |-> 0, open |-> 0, escalated |-> FALSE, planDone |-> FALSE]
<1>3. PICK t \in IF "Ties" \in ops /\ risks # <<>> THEN BOOLEAN ELSE {FALSE} : q = born(t)
  BY Zenon DEF NewRisk
<1>4. t \in BOOLEAN /\ ("Ties" \notin ops => t = FALSE)
  BY <1>3
<1>5. q \in Risks
  BY <1>2, <1>3, <1>4 DEF Risks
<1>6. q.key = key /\ q.marker = marker /\ q.assessed = 0 /\ q.open = 0 /\ q.tied = t
  BY <1>3
<1> QED BY <1>1, <1>4, <1>5, <1>6

-----------------------------------------------------------------------------
(* What stays of the invariant.                                                *)

\* Titles change to that of no row, if at all; assessments are written, not taken away.
Worked ==
  /\ DOMAIN risks \subseteq DOMAIN risks'
  /\ \A i \in DOMAIN risks : risks'[i].key \in {risks[i].key, NoKey}

LEMMA FoundStay ==
  ASSUME TypeOK, FoundInv, run'.found \subseteq run.found, Worked, UNCHANGED ops,
         settled' => settled /\ \A i \in DOMAIN risks : /\ risks'[i].key = risks[i].key
                                                        /\ PagesExact => risks'[i].status = risks[i].status
  PROVE  FoundInv'
BY DEF FoundInv, Worked

\* Nothing is found out of a row that has not been looked up before.
LEMMA RowsStay ==
  ASSUME TypeOK, RowInv, UNCHANGED <<sheet, ops>>, DOMAIN risks \subseteq DOMAIN risks',
         settled' => settled /\ \A i \in DOMAIN risks : risks'[i].key = risks[i].key,
         run'.pc = "resume" => run.pc = "resume" /\ run'.found = run.found,
         \A r \in Ahead' : r \in Ahead /\ run'.progress[r] = run.progress[r],
         \A r \in Ahead' : Known(r) => (risks'[IdOf(r)].assessed > 0 <=> risks[IdOf(r)].assessed > 0),
         \A r \in Ahead' : ~Known(r) /\ PagesExact => \A i \in DOMAIN risks' : risks'[i].key # sheet[r].key
  PROVE  RowInv'
<1>1. rejectDuplicateKeys' = rejectDuplicateKeys
  BY DEF rejectDuplicateKeys, Rows
<1>2. \A r \in Ahead' : (Known(r)' <=> Known(r)) /\ IdOf(r)' = IdOf(r)
  BY DEF Known, IdOf
<1>3. ASSUME NEW r \in Ahead'
      PROVE  /\ r \notin rejectDuplicateKeys'
             /\ ~Known(r)' => /\ run'.progress[r] = NotFound
                              /\ PagesExact => ~settled' /\ \A i \in DOMAIN risks' : risks'[i].key # sheet'[r].key
             /\ Known(r)' => /\ IdOf(r)' \in DOMAIN risks'
                             /\ run'.progress[r].assessed <=> risks'[IdOf(r)'].assessed > 0
                             /\ settled' => /\ risks'[IdOf(r)'].key = sheet'[r].key
                                            /\ PagesExact => run'.progress[r].stage = "Complete"
                             /\ run'.pc = "resume" => \E f \in run'.found : f.id = IdOf(r)' /\ f.key = sheet'[r].key
  <2>1. r \in Ahead /\ run'.progress[r] = run.progress[r]
    OBVIOUS
  <2>2. CASE Known(r)
    <3>1. /\ r \notin rejectDuplicateKeys /\ IdOf(r) \in DOMAIN risks
          /\ run.progress[r].assessed <=> risks[IdOf(r)].assessed > 0
          /\ settled => /\ risks[IdOf(r)].key = sheet[r].key
                        /\ PagesExact => run.progress[r].stage = "Complete"
          /\ run.pc = "resume" => \E f \in run.found : f.id = IdOf(r) /\ f.key = sheet[r].key
      BY <2>1, <2>2 DEF RowInv
    <3>2. risks'[IdOf(r)].assessed > 0 <=> risks[IdOf(r)].assessed > 0
      BY <2>2
    <3>3. run'.progress[r].assessed <=> risks'[IdOf(r)'].assessed > 0
      BY <1>2, <2>1, <3>1, <3>2
    <3>4. run'.pc = "resume" => \E f \in run'.found : f.id = IdOf(r)' /\ f.key = sheet'[r].key
      BY <1>2, <3>1
    <3>5. settled' => risks'[IdOf(r)'].key = sheet'[r].key
      BY <1>2, <2>1, <3>1
    <3> QED BY <1>1, <1>2, <2>1, <2>2, <3>1, <3>3, <3>4, <3>5
  <2>3. CASE ~Known(r)
    <3>1. r \notin rejectDuplicateKeys /\ run.progress[r] = NotFound /\ (PagesExact => ~settled)
      BY <2>1, <2>3 DEF RowInv
    <3> QED BY <1>1, <1>2, <2>1, <2>3, <3>1
  <2> QED BY <2>2, <2>3
<1>4. ASSUME NEW r \in Ahead', NEW s \in Ahead', r # s, Known(r)', Known(s)'
      PROVE  IdOf(r)' # IdOf(s)'
  BY <1>2, <1>4 DEF RowInv
<1> QED BY <1>3, <1>4 DEF RowInv

LEMMA TypeStays ==
  ASSUME TypeOK, UNCHANGED <<sheet, ops>>, run' \in Runs, risks' \in Seq(Risks), granted' \subseteq AllGrants,
         settled' \in BOOLEAN, acts' \in 0..MaxActs
  PROVE  TypeOK'
<1>1. Runs' = Runs
  BY DEF Runs, Rows
<1>2. AllGrants' = AllGrants
  BY DEF AllGrants, Rows
<1> QED BY <1>1, <1>2 DEF TypeOK, AllGrants, Rows

\* A row that was migrated is so still if risks and grants are only added.
LEMMA MigratedStays ==
  ASSUME UNCHANGED sheet, granted \subseteq granted', \A i \in DOMAIN risks : i \in DOMAIN risks' /\ risks'[i] = risks[i]
  PROVE  \A r \in Rows : r \in Rows' /\ (Migrated(r) => Migrated(r)')
<1>1. \A r \in Rows, i \in DOMAIN risks : verifyRow(sheet[r], risks[i]) => verifyRow(sheet[r], risks[i])'
  BY DEF verifyRow, ChildrenDone, expectedGrants, HasAssessment, wantsSuppressingEscalation
<1> QED BY <1>1 DEF Migrated, Rows

\* A step of the writing: on to the next row, or to the row's next call.
Turn ==
  /\ run.row \in Rows /\ run'.row \in Rows /\ run.pc \in {"row", "create"} \cup Writing
  /\ \/ Leaves
     \/ run.pc = "row" /\ run'.pc = "create" /\ Stays(Here)
     \/ run'.pc \in Writing /\ \E p \in Progresses : Stays(p)

LEMMA TurnIs ==
  ASSUME TypeOK, UNCHANGED sheet, Turn
  PROVE  /\ run'.pc \in {"row", "create", "recheck"} \cup Writing
         /\ run'.found = run.found /\ run'.rejected \in {run.rejected, run.rejected \cup {run.row}}
         /\ \A r \in Ahead' : r \in Ahead /\ run'.progress[r] = run.progress[r]
         /\ run'.pc \in Writing => run.row \notin Ahead' /\ run'.row = run.row
         /\ run'.pc = "create" => Ahead' = Ahead /\ run'.row = run.row
<1>1. Len(sheet) \in Nat \ {0} /\ Rows = 1..Len(sheet) /\ Rows' = Rows
  BY TheSheet DEF TypeOK, Rows
<1>2. run.row \in Rows /\ run.progress \in [Rows -> Progresses]
  BY DEF Turn, TypeOK, Runs
<1>3. CASE Leaves
  <2>1. \A r \in Ahead' : r > run.row
    BY <1>1, <1>2, <1>3 DEF Leaves, Ahead, Writing
  <2>2. \A r \in Rows : r # run.row => run'.progress[r] = run.progress[r]
    BY <1>2, <1>3 DEF Leaves
  <2>3. \A r \in Ahead' : r \in Rows /\ r \notin run.rejected
    BY <1>1, <1>3 DEF Leaves, Ahead
  <2>4. \A r \in Rows : r > run.row => r >= run.row /\ r # run.row
    BY <1>1, <1>2
  <2>5. \A r \in Ahead' : r \in Ahead
    BY <2>1, <2>3, <2>4, <1>1, <1>2 DEF Ahead, Turn
  <2>6. run'.pc \notin Writing /\ run'.pc \in {"row", "recheck"}
    BY <1>3 DEF Leaves, Writing
  <2> QED BY <1>3, <2>1, <2>2, <2>3, <2>4, <2>5, <2>6 DEF Leaves
<1>4. CASE run.pc = "row" /\ run'.pc = "create" /\ Stays(Here)
  <2>1. run'.progress = run.progress
    BY <1>2, <1>4 DEF Stays, Here
  <2>2. Ahead' = Ahead
    BY <1>1, <1>4 DEF Ahead, Stays, Writing
  <2> QED BY <1>4, <2>1, <2>2 DEF Stays, Writing
<1>5. CASE run'.pc \in Writing /\ \E p \in Progresses : Stays(p)
  <2>1. PICK p \in Progresses : Stays(p)
    BY <1>5
  <2>2. \A r \in Ahead' : r > run.row /\ r \in Rows /\ r \notin run.rejected
    BY <1>1, <1>2, <1>5, <2>1 DEF Ahead, Stays, Writing
  <2>3. \A r \in Rows : r > run.row => r >= run.row /\ r # run.row
    BY <1>1, <1>2
  <2>4. \A r \in Rows : r # run.row => run'.progress[r] = run.progress[r]
    BY <1>2, <2>1 DEF Stays
  <2>5. \A r \in Ahead' : r \in Ahead
    BY <2>2, <2>3, <1>1, <1>2 DEF Ahead, Turn
  <2>6. ~(run.row > run.row)
    BY <1>1, <1>2
  <2> QED BY <1>5, <2>1, <2>2, <2>3, <2>4, <2>5, <2>6 DEF Stays, Writing
<1> QED BY <1>3, <1>4, <1>5 DEF Turn

\* What a step of the writing leaves as it is: all but the row itself.
LEMMA TurnKeeps ==
  ASSUME IInv, Turn, UNCHANGED <<sheet, settled, ops>>, Worked, Range(run'.todo) \subseteq AllGrants,
         PagesExact /\ settled => UNCHANGED risks,
         settled => SheetIn' /\ \A i \in DOMAIN risks : risks'[i].key = risks[i].key,
         \A r \in Ahead' : Known(r) => (risks'[IdOf(r)].assessed > 0 <=> risks[IdOf(r)].assessed > 0),
         \A r \in Ahead' : ~Known(r) /\ PagesExact => \A i \in DOMAIN risks' : risks'[i].key # sheet[r].key
  PROVE  PlaceInv' /\ FoundInv' /\ SeenInv' /\ RowInv' /\ SettledInv'
<1>1. /\ run'.pc \in {"row", "create", "recheck"} \cup Writing
      /\ run'.found = run.found /\ run'.rejected \in {run.rejected, run.rejected \cup {run.row}}
      /\ \A r \in Ahead' : r \in Ahead /\ run'.progress[r] = run.progress[r]
  BY TurnIs DEF IInv
<1>2. run'.pc \notin {"idle", "search", "page", "resume", "verify"}
  BY <1>1 DEF Writing
<1>3. PlaceInv'
  <2>1. Rows' = Rows /\ AllGrants' = AllGrants
    BY DEF Rows, AllGrants
  <2>2. run'.row \in Rows
    BY DEF Turn
  <2> QED BY <1>2, <2>1, <2>2 DEF PlaceInv
<1>4. FoundInv'
  BY <1>1, FoundStay DEF IInv
<1>5. SeenInv'
  BY <1>2 DEF SeenInv
<1>6. RowInv'
  BY <1>1, <1>2, RowsStay DEF IInv, Worked
<1>7. SettledInv'
  BY <1>2 DEF SettledInv
<1> QED BY <1>3, <1>4, <1>5, <1>6, <1>7

LEMMA MigrateRowKeeps ==
  ASSUME IInv, MigrateRow
  PROVE  IInv'
<1>1. UNCHANGED <<risks, granted, settled, acts, ops, sheet>> /\ run.pc = "row"
  BY DEF MigrateRow
<1>2. /\ run.row \in Rows /\ run' \in Runs
      /\ \/ Leaves
         \/ /\ run.row \notin run.rejected /\ Here.stage = "None"
            /\ Stays(Here) /\ run'.pc = "create" /\ run'.todo = run.todo
         \/ /\ run.row \notin run.rejected /\ Here.stage = "Partial"
            /\ Stays(Here) /\ run'.pc = (IF Row.residual /\ ~Here.assessed THEN "assess" ELSE "walk")
            /\ run'.todo = run.todo
  BY MigrateRowDoes DEF IInv
<1>3. Here \in Progresses
  BY <1>2 DEF IInv, TypeOK, Runs, Here
<1>4. Turn
  BY <1>1, <1>2, <1>3 DEF Turn, Stays, Leaves, Writing
<1>5. TypeOK'
  BY <1>1, <1>2, TypeStays DEF IInv, TypeOK, AllGrants
<1>6. RisksInv'
  BY <1>1 DEF IInv, RisksInv, WrittenOnce, OneEach
<1>7. /\ \A r \in Ahead' : r \in Ahead /\ run'.progress[r] = run.progress[r]
      /\ run'.pc \in Writing => run.row \notin Ahead' /\ run'.row = run.row
      /\ run'.pc = "create" => Ahead' = Ahead /\ run'.row = run.row
  BY <1>1, <1>4, TurnIs DEF IInv
<1>8. PlaceInv' /\ FoundInv' /\ SeenInv' /\ RowInv' /\ SettledInv'
  <2>1. Worked
    BY <1>1 DEF Worked
  <2>2. Range(run'.todo) \subseteq AllGrants
    BY <1>2, EmptySeq DEF IInv, PlaceInv, Leaves, Range
  <2>3. \A r \in Ahead' : ~Known(r) /\ PagesExact => \A i \in DOMAIN risks' : risks'[i].key # sheet[r].key
    BY <1>1, <1>7 DEF IInv, RowInv
  <2>4. settled => SheetIn'
    BY <1>1, MigratedStays DEF IInv, SettledInv, SheetIn, Rows
  <2> QED BY <1>1, <1>4, <2>1, <2>2, <2>3, <2>4, TurnKeeps
<1>9. HereInv'
  <2>1. CASE Leaves
    <3>1. run'.pc \notin {"create"} \cup Writing
      BY <2>1 DEF Leaves, Writing
    <3> QED BY <3>1 DEF HereInv, Writing
  <2>2. CASE /\ run.row \notin run.rejected /\ Here.stage = "None"
             /\ Stays(Here) /\ run'.pc = "create"
    <3>1. run.row \in Ahead
      BY <1>1, <1>2, <2>2, TheSheet DEF Ahead, IInv, TypeOK
    <3>2. run'.row \in Ahead' /\ run'.progress[run'.row] = run.progress[run.row]
      BY <1>7, <2>2, <3>1
    <3>3. run'.progress[run'.row].stage = "None"
      BY <2>2, <3>2 DEF Here
    <3> QED BY <2>2, <3>2, <3>3 DEF HereInv, Writing, Known
  <2>3. CASE /\ run.row \notin run.rejected /\ Here.stage = "Partial"
             /\ Stays(Here) /\ run'.pc = (IF Row.residual /\ ~Here.assessed THEN "assess" ELSE "walk")
    <3>1. run.row \in Ahead /\ Known(run.row)
      BY <1>1, <1>2, <2>3, TheSheet DEF Ahead, IInv, TypeOK, Known, Here
    <3>2. run'.row = run.row /\ Here' = Here /\ run.row \notin Ahead' /\ run'.pc \in {"assess", "walk"}
      BY <1>2, <1>7, <2>3 DEF Stays, Here, Writing, IInv, TypeOK, Runs
    <3>3. /\ run.row \notin rejectDuplicateKeys' /\ Here.id \in DOMAIN risks
          /\ settled => ~PagesExact /\ risks[Here.id].key = Row.key
      BY <1>1, <2>3, <3>1 DEF IInv, RowInv, IdOf, Here, Row, rejectDuplicateKeys, Rows
    <3>4. \A s \in Ahead' : Known(s)' => IdOf(s)' # Here'.id
      <4>1. \A s \in Ahead' : s \in Ahead /\ s # run.row /\ (Known(s)' <=> Known(s)) /\ IdOf(s)' = IdOf(s)
        BY <1>7, <3>2 DEF Known, IdOf
      <4>2. Here'.id = IdOf(run.row)
        BY <3>2 DEF Here, IdOf
      <4> QED BY <3>1, <4>1, <4>2 DEF IInv, RowInv
    <3>5. run'.pc = "assess" => risks[Here.id].assessed = 0
      <4>1. Here.id \in DOMAIN risks /\ (Here.assessed <=> risks[Here.id].assessed > 0)
        BY <3>1 DEF IInv, RowInv, IdOf, Here
      <4>2. risks[Here.id].assessed \in Nat
        BY <4>1, RisksAre DEF IInv, Risks
      <4> QED BY <2>3, <4>1, <4>2
    <3>6. Row' = Row
      BY <1>1, <3>2 DEF Row
    <3> QED BY <1>1, <3>2, <3>3, <3>4, <3>5, <3>6 DEF HereInv
  <2> QED BY <1>2, <2>1, <2>2, <2>3
<1> QED BY <1>5, <1>6, <1>8, <1>9 DEF IInv

\* At most the risk of the row that is being written has been written.
Written ==
  /\ UNCHANGED <<sheet, settled, ops>>
  /\ DOMAIN risks' = DOMAIN risks /\ \A i \in DOMAIN risks : risks'[i].key = risks[i].key
  /\ \A i \in DOMAIN risks : i # Here.id => risks'[i] = risks[i]

LEMMA WritingKeeps ==
  ASSUME IInv, Written, run.pc \in Writing, run' \in Runs, Turn, Range(run'.todo) \subseteq AllGrants,
         settled => SheetIn'
  PROVE  PlaceInv' /\ FoundInv' /\ SeenInv' /\ RowInv' /\ SettledInv'
<1>1. /\ PagesExact => ~settled
      /\ \A s \in Ahead : Known(s) => IdOf(s) # Here.id
  BY DEF IInv, HereInv
<1>2. \A r \in Ahead' : r \in Ahead
  BY TurnIs DEF IInv, Written
<1>3. \A r \in Ahead' : Known(r) => (risks'[IdOf(r)].assessed > 0 <=> risks[IdOf(r)].assessed > 0)
  BY <1>1, <1>2 DEF Written, IInv, RowInv
<1>4. \A r \in Ahead' : ~Known(r) /\ PagesExact => \A i \in DOMAIN risks' : risks'[i].key # sheet[r].key
  BY <1>2 DEF Written, IInv, RowInv
<1>5. Worked
  BY DEF Worked, Written
<1>6. settled => \A i \in DOMAIN risks : risks'[i].key = risks[i].key
  BY DEF Written
<1> QED BY <1>1, <1>3, <1>4, <1>5, <1>6, TurnKeeps DEF Written

\* The run goes on to the row's next call.
LEMMA WriteOn ==
  ASSUME IInv, Written, run.pc \in Writing, run'.pc \in Writing, run' \in Runs, NEW p \in Progresses, Stays(p),
         p.id = Here.id, Range(run'.todo) \subseteq AllGrants, settled => SheetIn',
         run'.pc = "assess" => risks'[Here.id].assessed = 0, run'.pc = "suppress" => risks'[Here.id].open = 0,
         run'.pc \in {"list", "suppress"} => wantsSuppressingEscalation(Row)
  PROVE  PlaceInv' /\ FoundInv' /\ SeenInv' /\ RowInv' /\ SettledInv' /\ HereInv'
<1>1. run.row \in Rows /\ run.progress \in [Rows -> Progresses]
  BY DEF IInv, PlaceInv, Writing, TypeOK, Runs
<1>2. Turn
  BY <1>1 DEF Turn, Stays
<1>3. PlaceInv' /\ FoundInv' /\ SeenInv' /\ RowInv' /\ SettledInv'
  BY <1>2, WritingKeeps
<1>4. Here'.id = Here.id
  BY <1>1 DEF Here, Stays
<1>5. \A s \in Ahead' : s \in Ahead /\ run'.progress[s] = run.progress[s]
  BY <1>2, TurnIs DEF IInv, Written
<1>6. \A s \in Ahead' : Known(s)' => IdOf(s)' # Here.id
  BY <1>5 DEF IInv, HereInv, Known, IdOf
<1>7. /\ run.row \notin rejectDuplicateKeys' /\ Here.id \in DOMAIN risks'
      /\ settled' => ~PagesExact /\ risks'[Here.id].key = Row.key
  BY DEF IInv, HereInv, Written, rejectDuplicateKeys, Rows
<1>8. run'.pc # "create"
  BY DEF Writing
<1>9. Row' = Row /\ run'.row = run.row /\ UNCHANGED ops
  BY DEF Row, Stays, Written
<1> QED BY <1>3, <1>4, <1>6, <1>7, <1>8, <1>9 DEF HereInv

\* The row was left.
LEMMA WriteLast ==
  ASSUME IInv, Written, run.pc \in Writing, Leaves, run' \in Runs, settled => SheetIn'
  PROVE  PlaceInv' /\ FoundInv' /\ SeenInv' /\ RowInv' /\ SettledInv' /\ HereInv'
<1>1. Turn
  BY DEF Turn, Leaves
<1>2. Range(run'.todo) \subseteq AllGrants
  BY EmptySeq DEF Leaves, Range
<1>3. run'.pc \notin {"create"} \cup Writing
  BY DEF Leaves, Writing
<1>4. HereInv'
  BY <1>3 DEF HereInv, Writing
<1> QED BY <1>1, <1>2, <1>4, WritingKeeps

LEMMA TouchedRisks ==
  ASSUME IInv, NEW id \in DOMAIN risks, NEW q \in Risks, Touched(id, q), q.key = risks[id].key,
         q.marker = risks[id].marker, q.tied = risks[id].tied, q.assessed <= 1, q.open <= 1, UNCHANGED ops
  PROVE  RisksInv'
<1>1. /\ DOMAIN risks' = DOMAIN risks
      /\ \A i \in DOMAIN risks : /\ risks'[i].key = risks[i].key /\ risks'[i].marker = risks[i].marker
                                 /\ risks'[i].tied = risks[i].tied
                                 /\ risks'[i].assessed <= 1 /\ risks'[i].open <= 1
  BY DEF Touched, IInv, RisksInv, WrittenOnce
<1> QED BY <1>1 DEF IInv, RisksInv, WrittenOnce, OneEach

\* The row's risk is written.
LEMMA TouchesHere ==
  ASSUME IInv, run.pc \in Writing, UNCHANGED <<granted, sheet, settled, ops, acts>>, NEW q \in Risks,
         risks' = [risks EXCEPT ![Here.id] = q], q.key = risks[Here.id].key,
         q.marker = risks[Here.id].marker, q.tied = risks[Here.id].tied, q.assessed <= 1, q.open <= 1
  PROVE  /\ Written /\ RisksInv' /\ risks'[Here.id] = q
         /\ run' \in Runs => TypeOK'
         /\ settled /\ (verifyRow(Row, risks[Here.id]) => verifyRow(Row, q)) => SheetIn'
<1>1. PICK id : id = Here.id
  OBVIOUS
<1>2. id \in DOMAIN risks
  BY <1>1 DEF IInv, HereInv
<1>3. Touched(id, q)
  BY <1>1, <1>2, Touches DEF IInv
<1>4. RisksInv'
  BY <1>1, <1>2, <1>3, TouchedRisks
<1>5. Written /\ risks'[Here.id] = q
  BY <1>1, <1>2, <1>3 DEF Written, Touched
<1>6. run' \in Runs => TypeOK'
  BY <1>3, TypeStays DEF Touched, IInv, TypeOK, AllGrants
<1>7. ASSUME settled, verifyRow(Row, risks[id]) => verifyRow(Row, q), NEW r \in Rows
      PROVE  Migrated(r)'
  <2>1. PICK i \in DOMAIN risks : risks[i].key = sheet[r].key /\ verifyRow(sheet[r], risks[i])
    BY <1>7 DEF IInv, SettledInv, SheetIn, Migrated
  <2>2. CASE i # id
    <3>1. i \in DOMAIN risks' /\ risks'[i] = risks[i]
      BY <1>3, <2>2 DEF Touched
    <3>2. risks'[i].key = sheet'[r].key /\ verifyRow(sheet[r], risks[i])'
      BY <2>1, <3>1 DEF verifyRow, ChildrenDone, expectedGrants, HasAssessment, wantsSuppressingEscalation
    <3> QED BY <3>1, <3>2 DEF Migrated
  <2>3. CASE i = id
    <3>1. risks[id].key = Row.key /\ run.row \in Rows /\ run.row \notin rejectDuplicateKeys
      BY <1>1, <1>7 DEF IInv, HereInv, PlaceInv, Writing
    <3>2. r = run.row
      BY <2>1, <2>3, <3>1 DEF rejectDuplicateKeys, Row
    <3>3. verifyRow(sheet[r], q) /\ sheet[r] = Row
      BY <1>7, <2>1, <2>3, <3>2 DEF Row
    <3>4. i \in DOMAIN risks' /\ risks'[i] = q
      BY <1>3, <2>3 DEF Touched
    <3>5. risks'[i].key = sheet'[r].key /\ verifyRow(sheet[r], risks[i])'
      BY <3>3, <3>4 DEF verifyRow, ChildrenDone, expectedGrants, HasAssessment, wantsSuppressingEscalation
    <3> QED BY <3>4, <3>5 DEF Migrated
  <2> QED BY <2>2, <2>3
<1>8. settled /\ (verifyRow(Row, risks[Here.id]) => verifyRow(Row, q)) => SheetIn'
  BY <1>1, <1>7 DEF SheetIn, Rows
<1> QED BY <1>4, <1>5, <1>6, <1>8

\* A step of the writing at which the row's risk and its grants stay as they are.
LEMMA WritesNothing ==
  ASSUME IInv, UNCHANGED <<risks, granted, sheet, settled, ops, acts>>, run' \in Runs
  PROVE  Written /\ RisksInv' /\ TypeOK' /\ (settled => SheetIn')
<1>1. RisksInv'
  BY DEF IInv, RisksInv, WrittenOnce, OneEach
<1>2. TypeOK'
  BY TypeStays DEF IInv, TypeOK, AllGrants
<1>3. settled => SheetIn'
  BY MigratedStays DEF IInv, SettledInv, SheetIn, Rows
<1> QED BY <1>1, <1>2, <1>3 DEF Written

\* Of the row that is being written, and its risk.
LEMMA HereIs ==
  ASSUME IInv, run.pc \in Writing
  PROVE  /\ run.row \in Rows /\ Row = sheet[run.row] /\ Row \in SheetRows /\ Here \in Progresses
         /\ run.progress = [run.progress EXCEPT ![run.row] = Here]
         /\ Here.id \in DOMAIN risks /\ risks[Here.id] \in Risks
         /\ risks[Here.id].assessed <= 1 /\ risks[Here.id].open <= 1
<1>1. run.row \in Rows
  BY DEF IInv, PlaceInv, Writing
<1>2. Here.id \in DOMAIN risks
  BY DEF IInv, HereInv
<1> QED BY <1>1, <1>2, RisksAre, TheSheet DEF IInv, TypeOK, Runs, Here, Row, RisksInv, WrittenOnce

LEMMA CreateAssessmentKeeps ==
  ASSUME IInv, CreateAssessment
  PROVE  IInv'
<1>1. run.pc = "assess" /\ run' = [run EXCEPT !.pc = "walk"] /\ UNCHANGED <<granted, settled, acts, ops, sheet>>
  BY DEF CreateAssessment
<1>2. run.pc \in Writing
  BY <1>1 DEF Writing
<1>3. PICK p : p = Here
  OBVIOUS
<1>4. run' \in Runs /\ Stays(p) /\ run'.pc = "walk" /\ run'.todo = run.todo
  BY <1>1, <1>2, <1>3, HereIs DEF IInv, TypeOK, Runs, Phases, Stays
<1>5. PICK q : q = [risks[Here.id] EXCEPT !.assessed = @ + 1]
  OBVIOUS
<1>6. risks' = [risks EXCEPT ![Here.id] = q]
  BY <1>5 DEF CreateAssessment
<1>7. /\ q \in Risks /\ q.key = risks[Here.id].key /\ q.marker = risks[Here.id].marker
      /\ q.tied = risks[Here.id].tied /\ q.assessed <= 1 /\ q.open <= 1
  <2>1. risks[Here.id].assessed = 0
    BY <1>1 DEF IInv, HereInv
  <2> QED BY <1>2, <1>5, <2>1, HereIs DEF Risks
<1>8. verifyRow(Row, risks[Here.id]) => verifyRow(Row, q)
  BY <1>2, <1>5, HereIs DEF Risks, verifyRow, ChildrenDone, HasAssessment
<1>9. Written /\ RisksInv' /\ TypeOK' /\ (settled => SheetIn')
  BY <1>1, <1>2, <1>4, <1>6, <1>7, <1>8, TouchesHere
<1>10. PlaceInv' /\ FoundInv' /\ SeenInv' /\ RowInv' /\ SettledInv' /\ HereInv'
  <2>1. run'.pc \in Writing /\ Range(run'.todo) \subseteq AllGrants
    BY <1>4 DEF Writing, IInv, PlaceInv
  <2> QED BY <1>2, <1>3, <1>4, <1>9, <2>1, WriteOn, HereIs
<1> QED BY <1>9, <1>10 DEF IInv

LEMMA ListEscalationsKeeps ==
  ASSUME IInv, ListEscalations
  PROVE  IInv'
<1>1. /\ run.pc = "list" /\ UNCHANGED <<risks, granted, settled, acts, ops, sheet>>
      /\ run' = [run EXCEPT !.pc = IF risks[Here.id].open > 0 THEN "grant" ELSE "suppress"]
  BY DEF ListEscalations
<1>2. run.pc \in Writing
  BY <1>1 DEF Writing
<1>3. PICK p : p = Here
  OBVIOUS
<1>4. run' \in Runs /\ Stays(p) /\ run'.pc \in {"grant", "suppress"} /\ run'.todo = run.todo
  BY <1>1, <1>2, <1>3, HereIs DEF IInv, TypeOK, Runs, Phases, Stays
<1>5. run'.pc = "suppress" => risks'[Here.id].open = 0
  BY <1>1, <1>2, HereIs DEF Risks, IInv, TypeOK, Runs
<1>6. Written /\ RisksInv' /\ TypeOK' /\ (settled => SheetIn')
  BY <1>1, <1>4, WritesNothing
<1>7. PlaceInv' /\ FoundInv' /\ SeenInv' /\ RowInv' /\ SettledInv' /\ HereInv'
  <2>1. run'.pc \in Writing /\ Range(run'.todo) \subseteq AllGrants /\ run'.pc # "assess"
        /\ wantsSuppressingEscalation(Row)
    BY <1>1, <1>4 DEF Writing, IInv, PlaceInv, HereInv
  <2> QED BY <1>2, <1>3, <1>4, <1>5, <1>6, <2>1, WriteOn, HereIs
<1> QED BY <1>6, <1>7 DEF IInv

LEMMA CreateEscalationKeeps ==
  ASSUME IInv, CreateEscalation
  PROVE  IInv'
<1>1. run.pc = "suppress" /\ run' = [run EXCEPT !.pc = "grant"] /\ UNCHANGED <<granted, settled, acts, ops, sheet>>
  BY DEF CreateEscalation
<1>2. run.pc \in Writing
  BY <1>1 DEF Writing
<1>3. PICK p : p = Here
  OBVIOUS
<1>4. run' \in Runs /\ Stays(p) /\ run'.pc = "grant" /\ run'.todo = run.todo
  BY <1>1, <1>2, <1>3, HereIs DEF IInv, TypeOK, Runs, Phases, Stays
<1>5. PICK q : q = [risks[Here.id] EXCEPT !.open = @ + 1]
  OBVIOUS
<1>6. risks' = [risks EXCEPT ![Here.id] = q]
  BY <1>5 DEF CreateEscalation
<1>7. /\ q \in Risks /\ q.key = risks[Here.id].key /\ q.marker = risks[Here.id].marker
      /\ q.tied = risks[Here.id].tied /\ q.assessed <= 1 /\ q.open <= 1
  <2>1. risks[Here.id].open = 0
    BY <1>1 DEF IInv, HereInv
  <2> QED BY <1>2, <1>5, <2>1, HereIs DEF Risks
<1>8. verifyRow(Row, risks[Here.id]) => verifyRow(Row, q)
  BY <1>1 DEF IInv, HereInv, verifyRow
<1>9. Written /\ RisksInv' /\ TypeOK' /\ (settled => SheetIn')
  BY <1>1, <1>2, <1>4, <1>6, <1>7, <1>8, TouchesHere
<1>10. PlaceInv' /\ FoundInv' /\ SeenInv' /\ RowInv' /\ SettledInv' /\ HereInv'
  <2>1. run'.pc \in Writing /\ Range(run'.todo) \subseteq AllGrants
    BY <1>4 DEF Writing, IInv, PlaceInv
  <2> QED BY <1>2, <1>3, <1>4, <1>9, <2>1, WriteOn, HereIs
<1> QED BY <1>9, <1>10 DEF IInv

LEMMA PatchActionPlanKeeps ==
  ASSUME IInv, PatchActionPlan
  PROVE  IInv'
<1>1. run.pc = "plan" /\ run' = Done(run) /\ UNCHANGED <<granted, settled, acts, ops, sheet>>
  BY DEF PatchActionPlan
<1>2. run.pc \in Writing
  BY <1>1 DEF Writing
<1>3. run' \in Runs /\ Leaves
  BY <1>1, <1>2, HereIs, DoneDoes DEF IInv
<1>4. PICK q : q = [risks[Here.id] EXCEPT !.planDone = TRUE]
  OBVIOUS
<1>5. risks' = [risks EXCEPT ![Here.id] = q]
  BY <1>4 DEF PatchActionPlan
<1>6. /\ q \in Risks /\ q.key = risks[Here.id].key /\ q.marker = risks[Here.id].marker
      /\ q.tied = risks[Here.id].tied /\ q.assessed <= 1 /\ q.open <= 1
  BY <1>2, <1>4, HereIs DEF Risks
<1>7. verifyRow(Row, risks[Here.id]) => verifyRow(Row, q)
  BY <1>2, <1>4, HereIs DEF Risks, verifyRow, ChildrenDone, HasAssessment
<1>8. Written /\ RisksInv' /\ TypeOK' /\ (settled => SheetIn')
  BY <1>1, <1>2, <1>3, <1>5, <1>6, <1>7, TouchesHere
<1>9. PlaceInv' /\ FoundInv' /\ SeenInv' /\ RowInv' /\ SettledInv' /\ HereInv'
  BY <1>2, <1>3, <1>8, WriteLast
<1> QED BY <1>8, <1>9 DEF IInv

LEMMA CreateGrantKeeps ==
  ASSUME IInv, CreateGrant
  PROVE  IInv'
<1>1. run.pc = "grant" /\ UNCHANGED <<risks, settled, acts, ops, sheet>>
  BY DEF CreateGrant
<1>2. run.pc \in Writing
  BY <1>1 DEF Writing
<1>3. CASE run.todo = <<>>
  <2>1. run' = Done(run) /\ UNCHANGED granted
    BY <1>3 DEF CreateGrant
  <2>2. run' \in Runs /\ Leaves
    BY <2>1, <1>2, HereIs, DoneDoes DEF IInv
  <2>3. Written /\ RisksInv' /\ TypeOK' /\ (settled => SheetIn')
    BY <1>1, <2>1, <2>2, WritesNothing
  <2>4. PlaceInv' /\ FoundInv' /\ SeenInv' /\ RowInv' /\ SettledInv' /\ HereInv'
    BY <1>2, <2>2, <2>3, WriteLast
  <2> QED BY <2>3, <2>4 DEF IInv
<1>4. CASE run.todo # <<>>
  <2>1. granted' = granted \cup {Head(run.todo)} /\ run' = [run EXCEPT !.todo = Tail(@)]
    BY <1>4 DEF CreateGrant
  <2>2. PICK s : s = run.todo
    OBVIOUS
  <2>3. s \in Seq(STRING) /\ s # <<>> /\ Range(s) \subseteq AllGrants
    BY <2>2, <1>4 DEF IInv, TypeOK, Runs, PlaceInv
  <2>4. Head(s) \in Range(s) /\ Tail(s) \in Seq(STRING) /\ Range(Tail(s)) \subseteq Range(s)
    BY <2>3, TailOf
  <2>5. PICK p : p = Here
    OBVIOUS
  <2>6. run' \in Runs /\ Stays(p) /\ run'.pc = "grant" /\ run'.todo = Tail(s)
    BY <1>1, <1>2, <2>1, <2>2, <2>4, <2>5, HereIs DEF IInv, TypeOK, Runs, Stays
  <2>7. granted' \subseteq AllGrants
    BY <2>1, <2>2, <2>3, <2>4 DEF IInv, TypeOK, AllGrants
  <2>8. TypeOK'
    BY <1>1, <2>6, <2>7, TypeStays DEF IInv, TypeOK
  <2>9. RisksInv' /\ Written
    BY <1>1 DEF IInv, RisksInv, WrittenOnce, OneEach, Written
  <2>10. settled => SheetIn'
    BY <1>1, <2>1, MigratedStays DEF IInv, SettledInv, SheetIn, Rows
  <2>11. PlaceInv' /\ FoundInv' /\ SeenInv' /\ RowInv' /\ SettledInv' /\ HereInv'
    <3>1. run'.pc \in Writing /\ Range(run'.todo) \subseteq AllGrants
      BY <2>3, <2>4, <2>6 DEF Writing
    <3> QED BY <1>2, <2>5, <2>6, <2>9, <2>10, <3>1, WriteOn, HereIs
  <2> QED BY <2>8, <2>9, <2>11 DEF IInv
<1> QED BY <1>3, <1>4

\* A run that begins, or that has stopped anywhere, knows nothing.
LEMMA AtRestKeeps ==
  ASSUME IInv, AtRest, run' \in Runs, UNCHANGED <<sheet, risks, granted, ops>>,
         settled' \in BOOLEAN, acts' \in 0..MaxActs,
         settled' => SheetIn
  PROVE  IInv'
<1>1. Rows' = Rows
  BY DEF Rows
<1>2. TypeOK'
  BY TypeStays DEF IInv, TypeOK, AllGrants
<1>3. PlaceInv'
  <2>1. Range(<<>>) = {}
    BY EmptySeq DEF Range
  <2> QED BY <1>1, <2>1 DEF AtRest, PlaceInv
<1>4. RisksInv'
  BY DEF IInv, RisksInv, WrittenOnce, OneEach
<1>5. FoundInv'
  BY DEF AtRest, FoundInv
<1>6. SeenInv'
  BY RisksAre DEF AtRest, SeenInv, IInv
<1>7. Ahead' = {}
  BY DEF AtRest, Ahead, Writing
<1>8. RowInv'
  BY <1>7 DEF RowInv
<1>9. HereInv'
  BY DEF AtRest, HereInv, Writing
<1>10. SettledInv'
  BY <1>1, MigratedStays DEF AtRest, SettledInv, SheetIn
<1> QED BY <1>2, <1>3, <1>4, <1>5, <1>6, <1>8, <1>9, <1>10 DEF IInv

LEMMA StartKeeps ==
  ASSUME IInv, Start
  PROVE  IInv'
BY StartDoes, AtRestKeeps DEF IInv, Start, TypeOK, SettledInv

LEMMA CrashKeeps ==
  ASSUME IInv, Crash
  PROVE  IInv'
<1>1. acts' \in 0..MaxActs
  BY MigrationAssumption DEF IInv, TypeOK, Crash
<1> QED BY <1>1, IdleDoes, AtRestKeeps DEF IInv, Crash, TypeOK, SettledInv

LEMMA PatchRiskKeeps ==
  ASSUME IInv, PatchRisk
  PROVE  IInv'
<1>1. run.pc = "walk" /\ UNCHANGED <<granted, settled, acts, ops, sheet>>
  BY DEF PatchRisk
<1>2. run.pc \in Writing
  BY <1>1 DEF Writing
<1>3. PICK hops : hops = HopsLeft(Here.status, Row.target)
  OBVIOUS
<1>4. PICK hop : hop = Path[Min(hops)]
  OBVIOUS
<1>5. IF hops = {} THEN run' = Walked /\ UNCHANGED risks
      ELSE IF ~isValidRiskTransition(Here.status, hop) THEN run' = Rejected(run.row) /\ UNCHANGED risks
      ELSE IF PatchAccepted(Here.id, Here.status)
      THEN /\ risks' = [risks EXCEPT ![Here.id].status = hop]
           /\ run' = [run EXCEPT !.progress[run.row].status = hop]
      ELSE run' = Idle /\ UNCHANGED risks
  BY <1>3, <1>4 DEF PatchRisk
<1>6. CASE hops = {}
  <2>1. run' = Walked /\ UNCHANGED risks
    BY <1>5, <1>6
  <2>2. PICK p : p = Here
    OBVIOUS
  <2>3. PICK todo : todo = expectedGrants(Row)
    OBVIOUS
  <2>4. PICK r \in Rows : r = run.row
    BY <1>2, HereIs
  <2>5. todo \in Seq(STRING) /\ Range(todo) \subseteq AllGrants
    <3>1. expectedGrants(sheet[r]) \in Seq(STRING) /\ Range(expectedGrants(sheet[r])) \subseteq AllGrants
      BY GrantsOfRow DEF IInv, TypeOK
    <3> QED BY <2>3, <2>4, <3>1 DEF Row
  <2>6. run' \in Runs /\ Stays(p) /\ run'.pc \in {"plan", "list", "grant"} /\ run'.todo = todo
    BY <1>1, <1>2, <2>1, <2>2, <2>3, <2>5, HereIs DEF IInv, TypeOK, Runs, Phases, Stays, Walked
  <2>7. Written /\ RisksInv' /\ TypeOK' /\ (settled => SheetIn')
    BY <1>1, <2>1, <2>6, WritesNothing
  <2>8. PlaceInv' /\ FoundInv' /\ SeenInv' /\ RowInv' /\ SettledInv' /\ HereInv'
    <3>1. run'.pc \in Writing /\ Range(run'.todo) \subseteq AllGrants /\ run'.pc \notin {"assess", "suppress"}
      BY <2>5, <2>6 DEF Writing
    <3>2. run'.pc = "list" => wantsSuppressingEscalation(Row)
      BY <2>1 DEF Walked, IInv, TypeOK, Runs
    <3> QED BY <1>2, <2>2, <2>6, <2>7, <3>1, <3>2, WriteOn, HereIs
  <2> QED BY <2>7, <2>8 DEF IInv
<1>7. CASE hops # {} /\ ~isValidRiskTransition(Here.status, hop)
  <2>1. run' = Rejected(run.row) /\ UNCHANGED risks
    BY <1>5, <1>7
  <2>2. run' \in Runs /\ Leaves
    BY <2>1, <1>2, HereIs, DoneDoes DEF IInv
  <2>3. Written /\ RisksInv' /\ TypeOK' /\ (settled => SheetIn')
    BY <1>1, <2>1, <2>2, WritesNothing
  <2>4. PlaceInv' /\ FoundInv' /\ SeenInv' /\ RowInv' /\ SettledInv' /\ HereInv'
    BY <1>2, <2>2, <2>3, WriteLast
  <2> QED BY <2>3, <2>4 DEF IInv
<1>8. CASE hops # {} /\ isValidRiskTransition(Here.status, hop) /\ PatchAccepted(Here.id, Here.status)
  <2>1. risks' = [risks EXCEPT ![Here.id].status = hop] /\ run' = [run EXCEPT !.progress[run.row].status = hop]
    BY <1>5, <1>8
  <2>2. hop \in Statuses
    <3>1. PICK c : c = Here.status
      OBVIOUS
    <3>2. PICK t : t = Row.target
      OBVIOUS
    <3> QED BY <1>3, <1>4, <1>8, <3>1, <3>2, NextHop
  <2>3. PICK p : p = [Here EXCEPT !.status = hop]
    OBVIOUS
  <2>4. p \in Progresses /\ p.id = Here.id
    BY <1>2, <2>2, <2>3, HereIs DEF Progresses
  <2>5. run' = [run EXCEPT !.progress[run.row] = p]
    BY <2>1, <2>3 DEF Here
  <2>6. run' \in Runs /\ Stays(p) /\ run'.pc = "walk" /\ run'.todo = run.todo
    BY <1>1, <1>2, <2>4, <2>5, HereIs DEF IInv, TypeOK, Runs, Stays
  <2>7. PICK q : q = [risks[Here.id] EXCEPT !.status = hop]
    OBVIOUS
  <2>8. risks' = [risks EXCEPT ![Here.id] = q]
    BY <2>1, <2>7
  <2>9. /\ q \in Risks /\ q.key = risks[Here.id].key /\ q.marker = risks[Here.id].marker
        /\ q.tied = risks[Here.id].tied /\ q.assessed <= 1 /\ q.open <= 1
    BY <1>2, <2>2, <2>7, HereIs DEF Risks
  <2>10. ~verifyRow(Row, risks[Here.id])
    BY <1>3, <1>8 DEF PatchAccepted, HopsLeft, verifyRow
  <2>11. Written /\ RisksInv' /\ TypeOK' /\ (settled => SheetIn')
    BY <1>1, <1>2, <2>6, <2>8, <2>9, <2>10, TouchesHere
  <2>12. PlaceInv' /\ FoundInv' /\ SeenInv' /\ RowInv' /\ SettledInv' /\ HereInv'
    <3>1. run'.pc \in Writing /\ Range(run'.todo) \subseteq AllGrants
      BY <2>6 DEF Writing, IInv, PlaceInv
    <3> QED BY <1>2, <2>4, <2>6, <2>11, <3>1, WriteOn
  <2> QED BY <2>11, <2>12 DEF IInv
<1>9. CASE hops # {} /\ isValidRiskTransition(Here.status, hop) /\ ~PatchAccepted(Here.id, Here.status)
  <2>1. run' = Idle /\ UNCHANGED risks
    BY <1>5, <1>9
  <2> QED BY <1>1, <2>1, IdleDoes, AtRestKeeps DEF IInv, TypeOK, SettledInv
<1> QED BY <1>6, <1>7, <1>8, <1>9

LEMMA CreateRiskKeeps ==
  ASSUME IInv, CreateRisk
  PROVE  IInv'
<1>1. run.pc = "create" /\ UNCHANGED <<granted, settled, acts, ops, sheet>>
  BY DEF CreateRisk
<1>2. /\ run.row \in Ahead /\ ~Known(run.row) /\ run.row \in Rows /\ Row \in SheetRows
      /\ run.row \notin rejectDuplicateKeys /\ Here = NotFound
      /\ PagesExact => ~settled /\ \A i \in DOMAIN risks : risks[i].key # Row.key
  <2>1. run.row \in Ahead /\ ~Known(run.row) /\ run.row \in Rows
    BY <1>1 DEF IInv, HereInv, Ahead
  <2> QED BY <2>1, TheSheet DEF IInv, RowInv, TypeOK, Row, Here
<1>3. PICK key, due : key = Row.key /\ due = Row.overdue
  OBVIOUS
<1>4. key \in Titles /\ due \in BOOLEAN /\ TRUE \in BOOLEAN
  BY <1>2, <1>3 DEF SheetRows
<1>5. PICK q \in NewRisk(key, TRUE, due) : risks' = Append(risks, q)
  BY <1>3 DEF CreateRisk
<1>6. q \in Risks /\ q.key = key /\ q.marker = TRUE /\ q.assessed = 0 /\ q.open = 0 /\ (PagesExact => ~q.tied)
  BY <1>4, <1>5, NewRisks DEF IInv
<1>7. Grown(q)
  BY <1>5, <1>6, Grows DEF IInv
<1>8. PICK n : n = Len(risks) + 1
  OBVIOUS
<1>9. /\ DOMAIN risks = 1..Len(risks) /\ Len(risks) \in Nat /\ n \in Nat /\ n \notin DOMAIN risks
      /\ DOMAIN risks' = DOMAIN risks \cup {n} /\ risks'[n] = q /\ \A i \in DOMAIN risks : risks'[i] = risks[i]
  BY <1>7, <1>8, RisksAre DEF Grown, IInv
<1>10. PICK p : p = [Here EXCEPT !.id = Len(risks) + 1, !.status = "PENDING_RISK_OWNER_APPROVAL"]
  OBVIOUS
<1>11. p \in Progresses /\ p.id = n /\ ~p.assessed
  <2>1. "PENDING_RISK_OWNER_APPROVAL" \in Statuses
    BY DEF Statuses, OwnerStages
  <2> QED BY <1>2, <1>8, <1>9, <1>10, <2>1 DEF NotFound, Progresses
<1>12. run' = AfterCreate(p)
  BY <1>10 DEF CreateRisk
<1>13. /\ run' \in Runs /\ run'.row \in Rows /\ Stays(p) /\ run'.todo = run.todo
       /\ run'.pc = IF Row.residual /\ ~p.assessed THEN "assess" ELSE "walk"
  BY <1>2, <1>11, <1>12, AfterCreateIs DEF IInv
<1>14. run'.pc \in {"assess", "walk"} /\ run'.pc \in Writing
  BY <1>13 DEF Writing
<1>15. Turn
  BY <1>1, <1>2, <1>11, <1>13, <1>14 DEF Turn
<1>16. /\ \A r \in Ahead' : r \in Ahead /\ run'.progress[r] = run.progress[r]
       /\ run.row \notin Ahead'
  BY <1>1, <1>14, <1>15, TurnIs DEF IInv
<1>17. TypeOK'
  BY <1>1, <1>7, <1>13, TypeStays DEF IInv, TypeOK, AllGrants, Grown
<1>18. RisksInv'
  <2>1. WrittenOnce'
    BY <1>6, <1>9 DEF IInv, RisksInv, WrittenOnce
  <2>2. \A i \in DOMAIN risks' : risks'[i].key # NoKey => risks'[i].marker
    BY <1>6, <1>9 DEF IInv, RisksInv
  <2>3. ASSUME PagesExact
        PROVE  (\A i \in DOMAIN risks' : ~risks'[i].tied) /\ OneEach'
    <3>1. \A i \in DOMAIN risks' : ~risks'[i].tied
      BY <1>6, <1>9, <2>3 DEF IInv, RisksInv
    <3>2. \A i \in DOMAIN risks : risks'[i].key # q.key
      BY <1>2, <1>3, <1>6, <1>9, <2>3
    <3>3. OneEach'
      BY <1>9, <2>3, <3>2 DEF IInv, RisksInv, OneEach
    <3> QED BY <3>1, <3>3
  <2> QED BY <1>1, <2>1, <2>2, <2>3 DEF RisksInv
<1>19. PlaceInv' /\ FoundInv' /\ SeenInv' /\ RowInv' /\ SettledInv'
  <2>1. Worked
    BY <1>9 DEF Worked
  <2>2. Range(run'.todo) \subseteq AllGrants
    BY <1>13 DEF IInv, PlaceInv
  <2>3. \A r \in Ahead' : Known(r) => (risks'[IdOf(r)].assessed > 0 <=> risks[IdOf(r)].assessed > 0)
    BY <1>9, <1>16 DEF IInv, RowInv
  <2>4. ASSUME NEW r \in Ahead', ~Known(r), PagesExact
        PROVE  \A i \in DOMAIN risks' : risks'[i].key # sheet[r].key
    <3>1. \A i \in DOMAIN risks : risks[i].key # sheet[r].key
      BY <1>16, <2>4 DEF IInv, RowInv
    <3>2. r \in Rows /\ r # run.row
      BY <1>16 DEF Ahead
    <3>3. sheet[r].key # Row.key
      BY <1>2, <3>2 DEF rejectDuplicateKeys, Row
    <3> QED BY <1>3, <1>6, <1>9, <3>1, <3>3
  <2>5. settled => SheetIn' /\ \A i \in DOMAIN risks : risks'[i].key = risks[i].key
    BY <1>1, <1>9, MigratedStays DEF IInv, SettledInv, SheetIn, Rows
  <2> QED BY <1>1, <1>2, <1>15, <2>1, <2>2, <2>3, <2>4, <2>5, TurnKeeps
<1>20. HereInv'
  <2>1. Here'.id = n
    BY <1>2, <1>11, <1>13 DEF Here, Stays, IInv, TypeOK, Runs
  <2>2. \A s \in Ahead' : Known(s)' => IdOf(s)' # n
    BY <1>9, <1>16 DEF IInv, RowInv, Known, IdOf
  <2>3. Row' = Row /\ run'.row \notin rejectDuplicateKeys'
    BY <1>1, <1>2, <1>13 DEF Row, Stays, rejectDuplicateKeys, Rows
  <2> QED BY <1>1, <1>2, <1>3, <1>6, <1>9, <1>14, <2>1, <2>2, <2>3 DEF HereInv
<1> QED BY <1>17, <1>18, <1>19, <1>20 DEF IInv

\* After a clean run, a row's only risk is found as the run before left it.
LEMMA FoundMigrated ==
  ASSUME IInv, PagesExact, settled, NEW r \in Rows, NEW f \in Matches(r)
  PROVE  StepsDone(sheet[r], f.status, risks[f.id])
<1>1. f \in run.found /\ f.key = sheet[r].key /\ sheet[r].key # NoKey /\ sheet[r] \in SheetRows
  BY TheSheet DEF Matches, IInv, TypeOK
<1>2. f.id \in DOMAIN risks /\ f.key = risks[f.id].key /\ f.status = risks[f.id].status
  <2>1. FoundInv /\ f.key # NoKey
    BY <1>1 DEF IInv
  <2>2. /\ f.id \in DOMAIN risks
        /\ settled /\ f.key # NoKey => /\ f.key = risks[f.id].key
                                       /\ PagesExact => f.status = risks[f.id].status
    BY <1>1, <2>1 DEF FoundInv
  <2> QED BY <2>1, <2>2
<1>3. PICK i \in DOMAIN risks : risks[i].key = sheet[r].key /\ verifyRow(sheet[r], risks[i])
  BY DEF IInv, SettledInv, SheetIn, Migrated
<1>4. i = f.id
  BY <1>1, <1>2, <1>3 DEF IInv, RisksInv, OneEach
<1>5. statusAtLeast(sheet[r].target, sheet[r].target)
  <2>1. Path[3] = "APPROVED" /\ Path[6] = "CLOSED" /\ 3 \in DOMAIN Path /\ 6 \in DOMAIN Path
    BY DEF Path
  <2>2. sheet[r].target = "APPROVED" \/ sheet[r].target = "CLOSED"
    BY <1>1 DEF SheetRows
  <2>3. \E k \in DOMAIN Path : Path[k] = sheet[r].target /\ k >= k
    BY <2>1, <2>2
  <2> QED BY <2>3 DEF statusAtLeast
<1> QED BY <1>2, <1>3, <1>4, <1>5 DEF StepsDone, verifyRow

LEMMA ResumeKeeps ==
  ASSUME IInv, Resume
  PROVE  IInv'
<1>1. run.pc = "resume" /\ UNCHANGED <<risks, granted, settled, acts, ops, sheet>>
  BY DEF Resume
<1>2. /\ run.row \in Rows /\ run'.row \in Rows /\ run' \in Runs
      /\ \/ /\ Looks(run.progress[run.row])
            /\ run'.rejected = run.rejected \cup {run.row}
         \/ /\ run.row \notin rejectDuplicateKeys /\ Matches(run.row) = {}
            /\ Looks(run.progress[run.row])
            /\ run'.rejected = run.rejected
         \/ /\ run.row \notin rejectDuplicateKeys
            /\ \E f \in Matches(run.row) : Looks(Progress(run.row, f))
            /\ run'.rejected = run.rejected
  BY ResumeDoes DEF IInv
<1>3. PICK p : Looks(p)
        /\ \/ run'.rejected = run.rejected \cup {run.row}
           \/ /\ run.row \notin rejectDuplicateKeys /\ Matches(run.row) = {}
              /\ p = run.progress[run.row] /\ run'.rejected = run.rejected
           \/ /\ run.row \notin rejectDuplicateKeys
              /\ \E f \in Matches(run.row) : p = Progress(run.row, f)
              /\ run'.rejected = run.rejected
  BY <1>2
<1>4. /\ Len(sheet) \in Nat \ {0} /\ Rows = 1..Len(sheet) /\ Rows' = Rows
      /\ run.progress \in [Rows -> Progresses] /\ run.progress[run.row] = NotFound /\ run.row \notin run.rejected
  BY <1>1, <1>2, TheSheet DEF IInv, TypeOK, Runs, Rows, PlaceInv
<1>5. /\ run'.pc \in {"row", "resume"} /\ (run'.pc = "resume" => run'.found = run.found /\ run'.row = run.row + 1)
      /\ run'.found \subseteq run.found
  BY <1>3 DEF Looks
<1>6. /\ run'.progress[run.row] = p
      /\ \A r \in Rows : r # run.row => run'.progress[r] = run.progress[r]
      /\ run'.rejected \in {run.rejected, run.rejected \cup {run.row}}
  BY <1>2, <1>3, <1>4 DEF Looks
<1>7. \A r \in Ahead' : r \in Rows /\ r \notin run'.rejected /\ (r # run.row => r \in Ahead)
  <2>1. \A r \in Ahead' : r \in Rows /\ r \notin run'.rejected /\ r \notin run.rejected
    BY <1>4, <1>6 DEF Ahead
  <2>2. CASE run.row = Len(sheet)
    <3>1. \A r \in Rows : r # run.row => r < run.row
      BY <1>4, <2>2
    <3> QED BY <1>1, <2>1, <3>1 DEF Ahead
  <2>3. CASE run.row # Len(sheet)
    <3>1. \A r \in Ahead' : r < run.row + 1
      BY <1>3, <2>3 DEF Ahead, Looks, Writing
    <3>2. \A r \in Rows : r < run.row + 1 /\ r # run.row => r < run.row
      BY <1>2, <1>4
    <3> QED BY <1>1, <2>1, <3>1, <3>2 DEF Ahead
  <2> QED BY <2>2, <2>3
<1>8. TypeOK'
  BY <1>1, <1>2, TypeStays DEF IInv, TypeOK, AllGrants
<1>9. PlaceInv'
  <2>1. run'.pc = "resume" => \A r \in Rows : r >= run'.row => r \notin run'.rejected /\ run'.progress[r] = NotFound
    <3>1. \A r \in Rows : r >= run.row + 1 => r >= run.row /\ r # run.row
      BY <1>2, <1>4
    <3> QED BY <1>1, <1>5, <1>6, <3>1 DEF IInv, PlaceInv
  <2>2. Range(run'.todo) \subseteq AllGrants'
    BY <1>1, <1>3 DEF Looks, IInv, PlaceInv, AllGrants, Rows
  <2> QED BY <1>2, <1>4, <1>5, <2>1, <2>2 DEF PlaceInv
<1>10. RisksInv'
  BY <1>1 DEF IInv, RisksInv, WrittenOnce, OneEach
<1>11. FoundInv'
  <2>1. Worked
    BY <1>1 DEF Worked
  <2> QED BY <1>1, <1>5, <2>1, FoundStay DEF IInv
<1>12. SeenInv'
  BY <1>1, <1>5 DEF IInv, SeenInv, Seen
<1>13. HereInv'
  BY <1>5 DEF HereInv, Writing
<1>14. SettledInv'
  BY <1>1, <1>5, MigratedStays DEF IInv, SettledInv, SheetIn, Rows
<1>15. CASE run.row \in run'.rejected
  <2>1. \A r \in Ahead' : r \in Ahead /\ run'.progress[r] = run.progress[r]
    BY <1>6, <1>7, <1>15
  <2>2. \A r \in Ahead' : ~Known(r) /\ PagesExact => \A i \in DOMAIN risks' : risks'[i].key # sheet[r].key
    BY <1>1, <2>1 DEF IInv, RowInv
  <2>3. RowInv'
    BY <1>1, <1>5, <2>1, <2>2, RowsStay DEF IInv
  <2> QED BY <1>8, <1>9, <1>10, <1>11, <1>12, <1>13, <1>14, <2>3 DEF IInv
<1>16. CASE run.row \notin run'.rejected
  <2>1. run.row \notin rejectDuplicateKeys /\ run'.rejected = run.rejected
        /\ \/ Matches(run.row) = {} /\ p = NotFound
           \/ \E f \in Matches(run.row) : p = Progress(run.row, f)
    BY <1>3, <1>4, <1>16
  <2> PICK here \in Rows : here = run.row
    BY <1>2
  <2> DEFINE Good(r) ==
        /\ r \notin rejectDuplicateKeys
        /\ ~Known(r)' => /\ run'.progress[r] = NotFound
                         /\ PagesExact => ~settled /\ \A i \in DOMAIN risks : risks[i].key # sheet[r].key
        /\ Known(r)' => /\ IdOf(r)' \in DOMAIN risks
                        /\ run'.progress[r].assessed <=> risks[IdOf(r)'].assessed > 0
                        /\ settled => /\ risks[IdOf(r)'].key = sheet[r].key
                                      /\ PagesExact => run'.progress[r].stage = "Complete"
                        /\ \E f \in run.found : f.id = IdOf(r)' /\ f.key = sheet[r].key
  <2>2. \A r \in Ahead' : r # here => (Known(r)' <=> Known(r)) /\ IdOf(r)' = IdOf(r) /\ r \in Ahead
    BY <1>6, <1>7 DEF Known, IdOf
  <2>3. \A r \in Ahead' : r # here => Good(r)
    BY <1>1, <1>6, <1>7, <2>2 DEF IInv, RowInv
  <2>4. Good(here)
    <3>1. CASE Matches(run.row) = {} /\ p = NotFound
      <4>1. ~Known(here)' /\ run'.progress[here] = NotFound
        BY <1>6, <3>1 DEF Known, NotFound
      <4>2. ASSUME PagesExact, NEW i \in DOMAIN risks, risks[i].key = sheet[run.row].key
            PROVE  FALSE
        <5>1. risks[i].key # NoKey
          BY <1>2, <4>2, TheSheet DEF IInv, TypeOK
        <5>2. Seen(i)
          BY <1>1, <4>2, <5>1 DEF IInv, SeenInv
        <5> QED BY <3>1, <4>2, <5>2 DEF Seen, Matches
      <4>3. PagesExact => ~settled
        BY <1>2, <4>2 DEF IInv, SettledInv, SheetIn, Migrated
      <4> QED BY <2>1, <4>1, <4>2, <4>3
    <3>2. CASE \E f \in Matches(run.row) : p = Progress(run.row, f)
      <4>1. PICK f \in Matches(run.row) : p = Progress(run.row, f)
        BY <3>2
      <4>2. PICK r \in Rows : r = run.row
        BY <1>2
      <4>3. f \in Sightings /\ f.id \in DOMAIN risks /\ f \in run.found /\ f.key = sheet[r].key
        BY <4>1, <4>2 DEF Matches, IInv, FoundInv, TypeOK, Runs
      <4>4. /\ p.id = f.id /\ p.stage = IF StepsDone(sheet[r], f.status, risks[f.id]) THEN "Complete" ELSE "Partial"
            /\ p.assessed <=> risks[f.id].assessed > 0
        BY <4>1, <4>2, <4>3, ProgressIs DEF IInv
      <4>5. PagesExact /\ settled => p.stage = "Complete"
        BY <4>1, <4>2, <4>4, FoundMigrated
      <4>6. Known(here)' /\ IdOf(here)' = f.id
        BY <1>6, <4>4 DEF Known, IdOf
      <4>7. settled => risks[f.id].key = sheet[r].key
        <5>1. FoundInv /\ f.key # NoKey
          BY <4>3, TheSheet DEF IInv, TypeOK
        <5>2. settled /\ f.key # NoKey => f.key = risks[f.id].key
          BY <4>3, <5>1 DEF FoundInv
        <5> QED BY <4>3, <5>1, <5>2
      <4> QED BY <1>6, <2>1, <4>2, <4>3, <4>4, <4>5, <4>6, <4>7
    <3> QED BY <2>1, <3>1, <3>2
  <2>5. \A r \in Ahead' : Good(r)
    BY <2>3, <2>4
  <2>6. ASSUME NEW r \in Ahead', NEW s \in Ahead', r # s, Known(r)', Known(s)'
        PROVE  IdOf(r)' # IdOf(s)'
    <3>1. r \in Rows /\ s \in Rows /\ r \notin rejectDuplicateKeys
      BY <1>7, <2>5
    <3>2. PICK f \in run.found : f.id = IdOf(r)' /\ f.key = sheet[r].key
      BY <2>5, <2>6
    <3>3. PICK g \in run.found : g.id = IdOf(s)' /\ g.key = sheet[s].key
      BY <2>5, <2>6
    <3>4. sheet[r].key # NoKey /\ sheet[s].key # NoKey /\ sheet[r].key # sheet[s].key
      BY <2>6, <3>1, TheSheet DEF rejectDuplicateKeys, IInv, TypeOK
    <3> QED BY <3>2, <3>3, <3>4 DEF IInv, FoundInv
  <2>7. rejectDuplicateKeys' = rejectDuplicateKeys
    BY <1>1 DEF rejectDuplicateKeys, Rows
  <2>8. RowInv'
    BY <1>1, <1>5, <2>5, <2>6, <2>7 DEF RowInv
  <2> QED BY <1>8, <1>9, <1>10, <1>11, <1>12, <1>13, <1>14, <2>8 DEF IInv
<1> QED BY <1>15, <1>16

-----------------------------------------------------------------------------
(* Searching: pages are exact.                                                 *)

LEMMA SizeOf ==
  ASSUME NEW n \in Nat, NEW S, S \subseteq 1..n
  PROVE  IsFiniteSet(S) /\ Cardinality(S) \in Nat
<1>1. IsFiniteSet(1..n)
  BY FS_Interval
<1>2. IsFiniteSet(S)
  BY <1>1, FS_Subset
<1> QED BY <1>2, FS_CardinalityType

\* What lies above i is not more than n - i.
LEMMA SizeAbove ==
  ASSUME NEW n \in Nat, NEW i \in 1..n, NEW S, S \subseteq 1..n, \A x \in S : x > i
  PROVE  Cardinality(S) <= n - i
<1>1. S \subseteq (i + 1)..n
  OBVIOUS
<1>2. IsFiniteSet((i + 1)..n) /\ Cardinality((i + 1)..n) = n - i
  BY FS_Interval
<1> QED BY <1>1, <1>2, FS_Subset

\* What holds all from i on is not less than n - i + 1.
LEMMA SizeFrom ==
  ASSUME NEW n \in Nat, NEW i \in 1..n, NEW S, S \subseteq 1..n, i..n \subseteq S
  PROVE  Cardinality(S) >= n - i + 1
<1>1. IsFiniteSet(S) /\ Cardinality(S) \in Nat
  BY SizeOf
<1>2. IsFiniteSet(i..n) /\ Cardinality(i..n) = n - i + 1
  BY FS_Interval
<1>3. Cardinality(i..n) <= Cardinality(S)
  BY <1>1, FS_Subset
<1> QED BY <1>1, <1>2, <1>3

\* The newest risks of the registers, page after page: what the pages so far have not
\* held is older than what they have.
LEMMA Paging ==
  ASSUME TypeOK, \A i \in DOMAIN risks : ~risks[i].tied, NEW o \in Nat, NEW page \in PageOf(o, PageLimit)
  PROVE  \A i \in DOMAIN risks :
           IF page = {} THEN i > Len(risks) - o
           ELSE i > Len(risks) - (o + Cardinality(page)) => i \in page \/ i > Len(risks) - o
<1>1. PICK n \in Nat : n = Len(risks) /\ DOMAIN risks = 1..n
  BY RisksAre
<1>2. page \subseteq 1..n /\ Cardinality(page) = Min({PageLimit, n - o})
  BY <1>1 DEF PageOf
<1>3. PICK before \in SUBSET (1..n \ page) :
        /\ Cardinality(before) = o
        /\ \A b \in before, p \in page : b > p \/ SameSecond(b, p)
        /\ \A p \in page, a \in 1..n \ (before \cup page) : p > a \/ SameSecond(p, a)
  BY <1>1 DEF PageOf
<1>4. \A i, j \in 1..n : SameSecond(i, j) => j <= i
  <2>1. ASSUME NEW i \in 1..n, NEW j \in 1..n, SameSecond(i, j), i < j
        PROVE  FALSE
    <3>1. risks[j].tied
      BY <1>1, <2>1 DEF SameSecond
    <3> QED BY <1>1, <3>1
  <2> QED BY <2>1
<1>5. \A b \in before, p \in page : b > p
  <2>1. ASSUME NEW b \in before, NEW p \in page
        PROVE  b > p
    <3>1. b \in 1..n /\ p \in 1..n /\ b # p
      BY <1>2
    <3>2. b > p \/ p <= b
      BY <1>3, <1>4, <3>1
    <3> QED BY <3>1, <3>2
  <2> QED BY <2>1
<1>6. \A p \in page, a \in 1..n \ (before \cup page) : p > a
  <2>1. ASSUME NEW p \in page, NEW a \in 1..n \ (before \cup page)
        PROVE  p > a
    <3>1. a \in 1..n /\ p \in 1..n /\ a # p
      BY <1>2
    <3>2. p > a \/ a <= p
      BY <1>3, <1>4, <3>1
    <3> QED BY <3>1, <3>2
  <2> QED BY <2>1
<1>7. CASE page = {}
  <2>1. Cardinality({}) = 0
    BY FS_EmptySet
  <2>2. Min({PageLimit, n - o}) = 0
    BY <1>2, <1>7, <2>1
  <2>3. PageLimit \in Nat \ {0} /\ n - o \in Int
    BY MigrationAssumption
  <2>4. \E x \in {PageLimit, n - o} : \A y \in {PageLimit, n - o} : x <= y
    BY <2>3
  <2>5. Min({PageLimit, n - o}) \in {PageLimit, n - o}
    BY <2>4 DEF Min
  <2>6. n - o = 0
    BY <2>2, <2>3, <2>5
  <2> QED BY <1>1, <1>7, <2>6
<1>8. CASE page # {}
  <2> DEFINE U == before \cup page
  <2>1. PICK p \in page : TRUE
    BY <1>8
  <2>2. p \in 1..n
    BY <1>2, <2>1
  <2>3. before \cap page = {} /\ U \subseteq 1..n
    BY <1>2
  <2>4. Cardinality(U) = o + Cardinality(page) /\ Cardinality(page) \in Nat /\ Cardinality(U) \in Nat
    <3>1. IsFiniteSet(before) /\ IsFiniteSet(page) /\ Cardinality(page) \in Nat
      BY <1>2, SizeOf
    <3>2. Cardinality(before \cap page) = 0
      BY <2>3, FS_EmptySet
    <3>3. Cardinality(before \cup page) = Cardinality(before) + Cardinality(page) - Cardinality(before \cap page)
      BY <3>1, FS_Union
    <3> QED BY <1>3, <3>1, <3>2, <3>3
  <2>5. \A x \in U, a \in 1..n \ U : x > a
    <3>1. ASSUME NEW x \in before, NEW a \in 1..n \ U
          PROVE  x > a
      <4>1. x > p /\ p > a /\ x \in 1..n /\ a \in 1..n
        BY <1>5, <1>6, <2>1, <3>1
      <4> QED BY <2>2, <4>1
    <3> QED BY <1>6, <3>1
  <2>6. ASSUME NEW i \in 1..n, i > n - (o + Cardinality(page))
        PROVE  i \in page \/ i > n - o
    <3>1. i \in U
      <4>1. SUFFICES ASSUME i \notin U
                     PROVE  FALSE
        OBVIOUS
      <4>2. \A x \in U : x > i
        BY <2>5, <4>1
      <4>3. Cardinality(U) <= n - i
        BY <2>3, <4>2, SizeAbove
      <4> QED BY <2>4, <2>6, <4>3
    <3>2. ASSUME i \in before
          PROVE  i > n - o
      <4>1. ASSUME NEW x \in i..n
            PROVE  x \in before
        <5>1. x \in 1..n /\ x >= i
          OBVIOUS
        <5>2. x \in U
          BY <2>5, <3>1, <5>1
        <5>3. x \notin page
          BY <1>5, <3>2, <5>1
        <5> QED BY <5>2, <5>3
      <4>2. before \subseteq 1..n /\ i..n \subseteq before
        BY <4>1
      <4>3. Cardinality(before) >= n - i + 1
        BY <4>2, SizeFrom
      <4> QED BY <1>3, <4>3
    <3> QED BY <3>1, <3>2
  <2> QED BY <1>1, <1>8, <2>6
<1> QED BY <1>7, <1>8

\* What a page adds to what was seen.
LEMMA FoundGrows ==
  ASSUME IInv, NEW page, page \subseteq DOMAIN risks, NEW o, UNCHANGED <<risks, settled, ops>>,
         run'.found = run.found \cup Found(page, o)
  PROVE  /\ FoundInv'
         /\ \A i \in page : risks[i].key # NoKey => Seen(i)'
         /\ \A i \in DOMAIN risks : Seen(i) => Seen(i)'
<1>1. \A f \in Found(page, o) : f.id \in page /\ f.key = risks[f.id].key /\ f.status = risks[f.id].status
  BY DEF Found
<1>2. \A f \in run'.found :
        /\ f.id \in DOMAIN risks
        /\ f.key # NoKey => risks[f.id].key \in {f.key, NoKey}
        /\ settled /\ f.key # NoKey => /\ f.key = risks[f.id].key
                                       /\ PagesExact => f.status = risks[f.id].status
  BY <1>1 DEF IInv, FoundInv
<1>3. \A f, g \in run'.found : f.id = g.id /\ f.key # NoKey /\ g.key # NoKey => f.key = g.key
  <2>1. \A f \in Found(page, o), g \in run.found : f.id = g.id /\ f.key # NoKey /\ g.key # NoKey => f.key = g.key
    BY <1>1 DEF IInv, FoundInv
  <2>2. \A f, g \in Found(page, o) : f.id = g.id => f.key = g.key
    BY <1>1
  <2> QED BY <2>1, <2>2 DEF IInv, FoundInv
<1>4. ASSUME NEW i \in page, risks[i].key # NoKey
      PROVE  Seen(i)'
  <2>1. risks[i].marker
    BY <1>4 DEF IInv, RisksInv
  <2>2. PICK f : f = [page |-> o, id |-> i, key |-> risks[i].key, status |-> risks[i].status]
    OBVIOUS
  <2>3. f \in Found(page, o)
    BY <2>1, <2>2 DEF Found
  <2>4. f.id = i /\ f.key = risks[i].key
    BY <2>2
  <2> QED BY <2>3, <2>4 DEF Seen
<1>5. \A i \in DOMAIN risks : Seen(i) => Seen(i)'
  BY DEF Seen
<1> QED BY <1>2, <1>3, <1>4, <1>5 DEF FoundInv

\* The risks were counted, for the next page.
LEMMA CountRisksKeeps ==
  ASSUME IInv, CountRisks
  PROVE  IInv'
<1>1. UNCHANGED <<risks, granted, settled, acts, ops, sheet>>
  BY DEF CountRisks
<1>2. /\ run' \in Runs /\ run'.total = Len(risks)
      /\ \/ run.pc = "search" /\ run'.pc = "page"
         \/ run.pc = "recheck" /\ run'.pc = "repage"
      /\ run'.row = run.row /\ run'.found = run.found /\ run'.offset = run.offset
      /\ run'.progress = run.progress /\ run'.todo = run.todo /\ run'.rejected = run.rejected
      /\ run'.mismatch = run.mismatch /\ run'.calm = run.calm
  BY CountDoes DEF IInv
<1>3. Rows' = Rows /\ AllGrants' = AllGrants
  BY <1>1 DEF Rows, AllGrants
<1>4. TypeOK'
  BY <1>1, <1>2, TypeStays DEF IInv, TypeOK, AllGrants
<1>5. PlaceInv'
  BY <1>2, <1>3 DEF IInv, PlaceInv
<1>6. RisksInv' /\ FoundInv'
  BY <1>1, <1>2 DEF IInv, RisksInv, WrittenOnce, OneEach, FoundInv
<1>7. SeenInv'
  BY <1>1, <1>2 DEF IInv, SeenInv, Seen
<1>8. Ahead' = {}
  BY <1>2 DEF Ahead, Writing
<1>9. RowInv' /\ HereInv'
  BY <1>2, <1>8 DEF RowInv, HereInv, Writing
<1>10. SettledInv'
  BY <1>1, <1>2, <1>3, MigratedStays DEF IInv, SettledInv, SheetIn
<1> QED BY <1>4, <1>5, <1>6, <1>7, <1>9, <1>10 DEF IInv

\* A page was read, of the search on resume or of the one that verifies.
LEMMA SearchPageKeeps ==
  ASSUME IInv, NEW count, NEW then,
         \/ run.pc = "page" /\ count = "search" /\ then = "resume"
         \/ run.pc = "repage" /\ count = "recheck" /\ then = "verify",
         SearchPage(count, then)
  PROVE  IInv'
<1>1. UNCHANGED <<risks, granted, settled, acts, ops, sheet>> /\ then \in {"resume", "verify"}
      /\ run.pc \in {"page", "repage"} /\ count \in {"search", "recheck"}
  BY DEF SearchPage
<1>2. PICK page \in PageOf(run.offset, PageLimit) :
        LET found  == run.found \cup Found(page, run.offset)
            offset == run.offset + Cardinality(page)
            last   == page = {} \/ offset >= run.total
        IN /\ run' \in Runs /\ run'.found = found
           /\ run'.offset = IF last THEN 0 ELSE offset
           /\ run'.pc = IF last THEN then ELSE count
           /\ run'.row = IF last THEN 1 ELSE run.row
           /\ run'.progress = run.progress /\ run'.todo = run.todo /\ run'.rejected = run.rejected
           /\ run'.mismatch = run.mismatch /\ run'.calm = run.calm
  BY <1>1, SearchDoes DEF IInv
<1>3. PICK o \in Nat : o = run.offset
  BY DEF IInv, TypeOK, Runs
<1>4. PICK last \in BOOLEAN : last <=> (page = {} \/ o + Cardinality(page) >= run.total)
  OBVIOUS
<1>5. /\ run' \in Runs /\ run'.found = run.found \cup Found(page, o)
      /\ run'.offset = IF last THEN 0 ELSE o + Cardinality(page)
      /\ run'.pc = IF last THEN then ELSE count
      /\ run'.row = IF last THEN 1 ELSE run.row
      /\ run'.progress = run.progress /\ run'.todo = run.todo /\ run'.rejected = run.rejected
      /\ run'.mismatch = run.mismatch /\ run'.calm = run.calm
  BY <1>2, <1>3, <1>4
<1>6. page \subseteq DOMAIN risks /\ page \in PageOf(o, PageLimit)
  BY <1>3 DEF PageOf
<1>7. /\ FoundInv'
      /\ \A i \in page : risks[i].key # NoKey => Seen(i)'
      /\ \A i \in DOMAIN risks : Seen(i) => Seen(i)'
  BY <1>1, <1>5, <1>6, FoundGrows
<1>8. TypeOK'
  BY <1>1, <1>5, TypeStays DEF IInv, TypeOK, AllGrants
<1>9. Rows' = Rows /\ AllGrants' = AllGrants /\ 1 \in Rows /\ \A r \in Rows : ~(r < 1)
  BY <1>1, TheSheet DEF IInv, TypeOK, Rows, AllGrants
<1>10. PlaceInv'
  BY <1>1, <1>5, <1>9 DEF IInv, PlaceInv
<1>11. RisksInv'
  BY <1>1 DEF IInv, RisksInv, WrittenOnce, OneEach
<1>12. SeenInv'
  <2>1. CASE run.pc = "repage"
    BY <1>5, <2>1 DEF SeenInv
  <2>2. CASE run.pc = "page"
    <3>1. ASSUME PagesExact, NEW i \in DOMAIN risks, risks[i].key # NoKey, last \/ i > Len(risks) - (o + Cardinality(page))
          PROVE  Seen(i)'
      <4>1. IF page = {} THEN i > Len(risks) - o
            ELSE i > Len(risks) - (o + Cardinality(page)) => i \in page \/ i > Len(risks) - o
        BY SMTT(30), <1>6, <3>1, Paging DEF IInv, RisksInv
      <4>2. PICK n \in Nat : n = Len(risks)
        BY RisksAre DEF IInv
      <4>3. PICK c \in Nat : c = Cardinality(page)
        BY <1>6, <4>2, RisksAre, SizeOf DEF IInv
      <4>4. i \in 1..n
        BY <3>1, <4>2, RisksAre DEF IInv
      <4>5. page = {} \/ i > n - (o + c)
        BY <1>4, <2>2, <3>1, <4>2, <4>3, <4>4 DEF IInv, SeenInv
      <4>6. i \in page \/ i > Len(risks) - o
        BY <4>1, <4>2, <4>3, <4>5
      <4>7. i > Len(risks) - run.offset => Seen(i)
        BY <1>3, <2>2, <3>1 DEF IInv, SeenInv
      <4> QED BY <1>3, <1>7, <3>1, <4>6, <4>7
    <3> QED BY <1>1, <1>5, <2>2, <3>1 DEF SeenInv
  <2> QED BY <1>1, <2>1, <2>2
<1>13. Ahead' = {}
  BY <1>1, <1>5, <1>9 DEF Ahead, Writing
<1>14. RowInv' /\ HereInv'
  BY <1>1, <1>5, <1>13 DEF RowInv, HereInv, Writing
<1>15. SettledInv'
  BY <1>1, <1>5, <1>9, MigratedStays DEF IInv, SettledInv, SheetIn
<1> QED BY <1>7, <1>8, <1>10, <1>11, <1>12, <1>14, <1>15 DEF IInv

LEMMA SearchKeeps ==
  ASSUME IInv, CountRisks \/ Search \/ Recheck
  PROVE  IInv'
BY CountRisksKeeps, SearchPageKeeps DEF Search, Recheck

-----------------------------------------------------------------------------
(* Verifying.                                                                  *)

RowOk ==
  IF run.row \in run.rejected THEN Matches(run.row) = {}
  ELSE Matches(run.row) # {} /\ ~Ambiguous(run.row) /\ verifyRow(Row, risks[Match(run.row).id])

\* A row that is verified is in the entity.
LEMMA OkIsMigrated ==
  ASSUME IInv, NEW r \in Rows, r = run.row, run.rejected = {}, RowOk
  PROVE  Migrated(r)
<1>1. PICK f : f = Match(r)
  OBVIOUS
<1>2. f \in Matches(r) /\ verifyRow(sheet[r], risks[f.id])
  BY <1>1 DEF RowOk, Match, Row
<1>3. f.id \in DOMAIN risks
  BY <1>2 DEF Matches, IInv, FoundInv
<1> QED BY <1>2, <1>3 DEF Migrated, verifyRow

LEMMA VerifyRowKeeps ==
  ASSUME IInv, VerifyRow
  PROVE  IInv'
<1>1. run.pc = "verify" /\ UNCHANGED <<risks, granted, acts, ops, sheet>>
  BY DEF VerifyRow
<1>2. PICK bad \in BOOLEAN : bad = (run.mismatch \/ ~RowOk)
  OBVIOUS
<1>3. PICK m : m = [run EXCEPT !.mismatch = bad]
  OBVIOUS
<1>4. IF run.row = Len(sheet)
      THEN run' = Idle /\ settled' = (run.calm /\ (settled \/ (m.rejected = {} /\ ~m.mismatch)))
      ELSE run' = Advance(m, "verify", "idle") /\ UNCHANGED settled
  BY <1>2, <1>3 DEF VerifyRow, RowOk, Row
<1>5. /\ run.row \in Rows /\ Len(sheet) \in Nat \ {0} /\ Rows = 1..Len(sheet) /\ Rows' = Rows
      /\ run \in Runs /\ run.mismatch \in BOOLEAN /\ run.calm \in BOOLEAN /\ settled \in BOOLEAN
  BY <1>1, TheSheet DEF IInv, PlaceInv, TypeOK, Runs, Rows
<1>6. /\ m \in Runs /\ m.row = run.row /\ m.found = run.found /\ m.offset = run.offset
      /\ m.progress = run.progress /\ m.todo = run.todo /\ m.rejected = run.rejected
      /\ m.mismatch = bad /\ m.calm = run.calm
  BY <1>3, <1>5 DEF Runs
<1>7. ASSUME run.calm, ~bad, run.rejected = {}
      PROVE  \A r \in Rows : r <= run.row => Migrated(r)
  <2>1. ~run.mismatch /\ RowOk
    BY <1>2, <1>7
  <2>2. PICK here \in Rows : here = run.row
    BY <1>5
  <2>3. Migrated(here)
    BY <1>7, <2>1, <2>2, OkIsMigrated
  <2>4. \A r \in Rows : r < run.row => Migrated(r)
    BY <1>1, <1>7, <2>1 DEF IInv, SettledInv
  <2>5. \A r \in Rows : r <= run.row => r < run.row \/ r = here
    BY <1>5, <2>2
  <2> QED BY <2>3, <2>4, <2>5
<1>8. CASE run.row = Len(sheet)
  <2>1. run' = Idle /\ settled' = (run.calm /\ (settled \/ (run.rejected = {} /\ ~bad)))
    BY <1>4, <1>6, <1>8
  <2>2. settled' \in BOOLEAN
    BY <2>1
  <2>3. settled' => SheetIn
    <3>1. ASSUME settled'
          PROVE  SheetIn
      <4>1. CASE settled
        BY <4>1 DEF IInv, SettledInv
      <4>2. CASE ~settled
        <5>1. run.calm /\ ~bad /\ run.rejected = {}
          BY <2>1, <3>1, <4>2
        <5>2. \A r \in Rows : r <= run.row
          BY <1>5, <1>8
        <5> QED BY <1>7, <5>1, <5>2 DEF SheetIn
      <4> QED BY <4>1, <4>2
    <3> QED BY <3>1
  <2>4. run' \in Runs /\ AtRest
    BY <2>1, IdleDoes DEF IInv
  <2>5. acts' \in 0..MaxActs
    BY <1>1 DEF IInv, TypeOK
  <2> QED BY <1>1, <2>2, <2>3, <2>4, <2>5, AtRestKeeps
<1>9. CASE run.row # Len(sheet)
  <2>1. PICK n : n = run'
    OBVIOUS
  <2>2. n = Advance(m, "verify", "idle") /\ UNCHANGED settled /\ "verify" \in Phases /\ "idle" \in Phases /\ m.row \in Rows
    BY <1>4, <1>5, <1>6, <1>9, <2>1 DEF Phases
  <2>3. /\ n \in Runs /\ n.row \in Rows
        /\ n.pc = IF m.row = Len(sheet) THEN "idle" ELSE "verify"
        /\ n.row = IF m.row = Len(sheet) THEN 1 ELSE m.row + 1
        /\ n.found = m.found /\ n.offset = m.offset /\ n.progress = m.progress
        /\ n.todo = m.todo /\ n.rejected = m.rejected
        /\ n.mismatch = m.mismatch /\ n.calm = m.calm
    BY <1>6, <2>2, AdvanceIs DEF IInv
  <2>4. /\ run' \in Runs /\ run'.row \in Rows /\ run'.pc = "verify" /\ run'.row = run.row + 1
        /\ run'.found = run.found /\ run'.todo = run.todo /\ run'.rejected = run.rejected
        /\ run'.mismatch = bad /\ run'.calm = run.calm
    BY <1>6, <1>9, <2>1, <2>3
  <2>5. TypeOK'
    BY <1>1, <2>2, <2>4, TypeStays DEF IInv, TypeOK, AllGrants
  <2>6. PlaceInv'
    BY <1>1, <1>5, <2>4 DEF IInv, PlaceInv, AllGrants, Rows
  <2>7. RisksInv' /\ FoundInv'
    BY <1>1, <2>2, <2>4 DEF IInv, RisksInv, WrittenOnce, OneEach, FoundInv
  <2>8. Ahead' = {}
    BY <2>4 DEF Ahead, Writing
  <2>9. SeenInv' /\ RowInv' /\ HereInv'
    BY <2>4, <2>8 DEF SeenInv, RowInv, HereInv, Writing
  <2>10. SettledInv'
    <3>1. settled' => SheetIn'
      BY <1>1, <1>5, <2>2, MigratedStays DEF IInv, SettledInv, SheetIn
    <3>2. \A r \in Rows : r < run.row + 1 => r <= run.row
      BY <1>5
    <3>3. run.calm /\ ~bad /\ run.rejected = {} => \A r \in Rows : r < run.row + 1 => Migrated(r)'
      BY <1>1, <1>7, <3>2, MigratedStays
    <3> QED BY <1>5, <2>4, <3>1, <3>3 DEF SettledInv
  <2> QED BY <2>5, <2>6, <2>7, <2>9, <2>10 DEF IInv
<1> QED BY <1>8, <1>9

-----------------------------------------------------------------------------
(* What happens beside the runs.                                               *)

\* Whatever users and the nightly job do with the risks, and with the grants.
LEMMA ActKeeps ==
  ASSUME IInv, NEW what, Act(what), risks' \in Seq(Risks), DOMAIN risks' = DOMAIN risks, granted' \subseteq granted,
         Len(risks') = Len(risks),
         \A j \in DOMAIN risks : /\ risks'[j].key \in {risks[j].key, NoKey}
                                 /\ risks'[j].marker = risks[j].marker /\ risks'[j].tied = risks[j].tied
                                 /\ risks'[j].assessed = risks[j].assessed
                                 /\ risks'[j].open \in {0, risks[j].open}
  PROVE  IInv'
<1>1. /\ settled' = FALSE /\ UNCHANGED <<ops, sheet>> /\ run' = [run EXCEPT !.calm = FALSE]
      /\ acts' = acts + 1 /\ acts < MaxActs
  BY DEF Act
<1>2. /\ run' \in Runs /\ run'.pc = run.pc /\ run'.row = run.row /\ run'.found = run.found
      /\ run'.offset = run.offset /\ run'.total = run.total /\ run'.progress = run.progress
      /\ run'.todo = run.todo /\ run'.rejected = run.rejected /\ run'.mismatch = run.mismatch
      /\ run'.calm = FALSE
  BY <1>1 DEF IInv, TypeOK, Runs
<1>3. TypeOK'
  <2>1. acts' \in 0..MaxActs
    BY <1>1, MigrationAssumption DEF IInv, TypeOK
  <2>2. settled' \in BOOLEAN /\ granted' \subseteq AllGrants
    BY <1>1 DEF IInv, TypeOK, AllGrants
  <2> QED BY <1>1, <1>2, <2>1, <2>2, TypeStays DEF IInv
<1>4. Rows' = Rows /\ AllGrants' = AllGrants /\ rejectDuplicateKeys' = rejectDuplicateKeys
  BY <1>1 DEF Rows, AllGrants, rejectDuplicateKeys
<1>5. PlaceInv'
  BY <1>2, <1>4 DEF IInv, PlaceInv
<1>6. RisksInv'
  <2>1. WrittenOnce'
    BY DEF IInv, RisksInv, WrittenOnce
  <2>2. \A i \in DOMAIN risks' : risks'[i].key # NoKey => risks'[i].marker
    BY DEF IInv, RisksInv
  <2>3. PagesExact => (\A i \in DOMAIN risks' : ~risks'[i].tied) /\ OneEach'
    BY DEF IInv, RisksInv, OneEach
  <2> QED BY <1>1, <2>1, <2>2, <2>3 DEF RisksInv
<1>7. FoundInv'
  <2>1. Worked
    BY DEF Worked
  <2> QED BY <1>1, <1>2, <2>1, FoundStay DEF IInv
<1>8. SeenInv'
  <2>1. \A i \in DOMAIN risks : risks'[i].key # NoKey => risks[i].key # NoKey /\ (Seen(i) => Seen(i)')
    BY <1>2 DEF Seen
  <2> QED BY <1>1, <1>2, <2>1 DEF IInv, SeenInv
<1>9. Ahead' = Ahead
  BY <1>2, <1>4 DEF Ahead
<1>10. RowInv'
  <2>1. \A r \in Ahead' : Known(r) => (risks'[IdOf(r)].assessed > 0 <=> risks[IdOf(r)].assessed > 0)
    BY <1>9 DEF IInv, RowInv
  <2>2. \A r \in Ahead' : ~Known(r) /\ PagesExact => \A i \in DOMAIN risks' : risks'[i].key # sheet[r].key
    <3>1. \A r \in Ahead : sheet[r].key # NoKey
      BY TheSheet DEF IInv, TypeOK, Ahead
    <3> QED BY <1>9, <3>1 DEF IInv, RowInv
  <2> QED BY <1>1, <1>2, <1>9, <2>1, <2>2, RowsStay DEF IInv
<1>11. HereInv'
  <2>1. Here' = Here /\ \A s \in Ahead : (Known(s)' <=> Known(s)) /\ IdOf(s)' = IdOf(s)
    BY <1>2 DEF Here, Known, IdOf
  <2>2. run'.pc = "create" => run'.row \in Ahead' /\ run'.progress[run'.row].stage = "None"
    BY <1>2, <1>9 DEF IInv, HereInv, Known
  <2>3. run'.pc \in Writing => /\ run'.row \notin rejectDuplicateKeys'
                               /\ Here'.id \in DOMAIN risks'
                               /\ \A s \in Ahead' : Known(s)' => IdOf(s)' # Here'.id
    BY <1>1, <1>2, <1>4, <1>9, <2>1 DEF IInv, HereInv
  <2>4. run'.pc = "assess" => risks'[Here'.id].assessed = 0
    BY <1>2, <2>1 DEF IInv, HereInv, Writing
  <2>5. run'.pc = "suppress" => risks'[Here'.id].open = 0
    BY <1>2, <2>1 DEF IInv, HereInv, Writing
  <2>6. run'.pc \in {"list", "suppress"} => wantsSuppressingEscalation(Row)'
    BY <1>1, <1>2 DEF IInv, HereInv, Row, wantsSuppressingEscalation
  <2> QED BY <1>1, <2>2, <2>3, <2>4, <2>5, <2>6 DEF HereInv, Known
<1>12. SettledInv'
  BY <1>1, <1>2 DEF SettledInv
<1> QED BY <1>3, <1>5, <1>6, <1>7, <1>8, <1>10, <1>11, <1>12 DEF IInv

\* A risk was worked on.
LEMMA WorkedOn ==
  ASSUME IInv, NEW what, Act(what), NEW i \in DOMAIN risks, NEW q \in Risks, risks' = [risks EXCEPT ![i] = q],
         UNCHANGED granted, q.key \in {risks[i].key, NoKey}, q.marker = risks[i].marker, q.tied = risks[i].tied,
         q.assessed = risks[i].assessed, q.open \in {0, risks[i].open}
  PROVE  IInv'
<1>1. Touched(i, q)
  BY Touches DEF IInv
<1>2. risks' \in Seq(Risks) /\ DOMAIN risks' = DOMAIN risks /\ Len(risks') = Len(risks)
  BY <1>1 DEF Touched
<1>3. \A j \in DOMAIN risks : /\ risks'[j].key \in {risks[j].key, NoKey}
                              /\ risks'[j].marker = risks[j].marker /\ risks'[j].tied = risks[j].tied
                              /\ risks'[j].assessed = risks[j].assessed
                              /\ risks'[j].open \in {0, risks[j].open}
  BY <1>1 DEF Touched
<1> QED BY <1>2, <1>3, ActKeeps

LEMMA EscalateOverdueKeeps ==
  ASSUME IInv, NEW i \in DOMAIN risks, EscalateOverdue(i)
  PROVE  IInv'
<1>1. Act("Job") /\ UNCHANGED granted
  BY DEF EscalateOverdue
<1>2. PICK q : q = [risks[i] EXCEPT !.status = "ESCALATED", !.escalated = TRUE]
  OBVIOUS
<1>3. risks' = [risks EXCEPT ![i] = q]
  BY <1>2 DEF EscalateOverdue
<1>4. risks[i] \in Risks /\ "ESCALATED" \in Statuses
  BY RisksAre DEF IInv, Statuses, InRemediation
<1>5. /\ q \in Risks /\ q.key = risks[i].key /\ q.marker = risks[i].marker /\ q.tied = risks[i].tied
      /\ q.assessed = risks[i].assessed /\ q.open = risks[i].open
  BY <1>2, <1>4 DEF Risks
<1> QED BY <1>1, <1>3, <1>5, WorkedOn

LEMMA DecideKeeps ==
  ASSUME IInv, NEW i \in DOMAIN risks, Decide(i)
  PROVE  IInv'
<1>1. Act("Users") /\ UNCHANGED granted
  BY DEF Decide
<1>2. PICK to \in Statuses : risks' = [risks EXCEPT ![i].status = to]
  BY DEF Decide
<1>3. PICK q : q = [risks[i] EXCEPT !.status = to]
  OBVIOUS
<1>4. risks' = [risks EXCEPT ![i] = q]
  BY <1>2, <1>3
<1>5. risks[i] \in Risks
  BY RisksAre DEF IInv
<1>6. /\ q \in Risks /\ q.key = risks[i].key /\ q.marker = risks[i].marker /\ q.tied = risks[i].tied
      /\ q.assessed = risks[i].assessed /\ q.open = risks[i].open
  BY <1>3, <1>5 DEF Risks
<1> QED BY <1>1, <1>4, <1>6, WorkedOn

LEMMA SubmitKeeps ==
  ASSUME IInv, NEW i \in DOMAIN risks, Submit(i)
  PROVE  IInv'
<1>1. Act("Users") /\ UNCHANGED granted
  BY DEF Submit
<1>2. PICK resolved \in BOOLEAN :
        risks' = [risks EXCEPT ![i].status = "PENDING_OWNER_COMPLETION_APPROVAL",
                               ![i].open = IF resolved THEN 0 ELSE @,
                               ![i].escalated = @ /\ ~resolved]
  BY DEF Submit
<1>3. PICK open : open = IF resolved THEN 0 ELSE risks[i].open
  OBVIOUS
<1>4. PICK escalated : escalated = (risks[i].escalated /\ ~resolved)
  OBVIOUS
<1>5. escalated \in BOOLEAN
  BY <1>4
<1>6. PICK q : q = [risks[i] EXCEPT !.status = "PENDING_OWNER_COMPLETION_APPROVAL", !.open = open,
                                    !.escalated = escalated]
  OBVIOUS
<1>7. risks' = [risks EXCEPT ![i] = q]
  BY <1>2, <1>3, <1>4, <1>6
<1>8. risks[i] \in Risks /\ "PENDING_OWNER_COMPLETION_APPROVAL" \in Statuses
  BY RisksAre DEF IInv, Statuses, ClosurePath
<1>9. open \in Nat /\ open \in {0, risks[i].open}
  BY <1>3, <1>8 DEF Risks
<1>10. /\ q \in Risks /\ q.key = risks[i].key /\ q.marker = risks[i].marker /\ q.tied = risks[i].tied
       /\ q.assessed = risks[i].assessed /\ q.open = open
  BY <1>5, <1>6, <1>8, <1>9 DEF Risks
<1> QED BY <1>1, <1>7, <1>9, <1>10, WorkedOn

LEMMA RetitleKeeps ==
  ASSUME IInv, NEW i \in DOMAIN risks, Retitle(i)
  PROVE  IInv'
<1>1. Act("Retitle") /\ UNCHANGED granted
  BY DEF Retitle
<1>2. PICK q : q = [risks[i] EXCEPT !.key = NoKey]
  OBVIOUS
<1>3. risks' = [risks EXCEPT ![i] = q]
  BY <1>2 DEF Retitle
<1>4. risks[i] \in Risks /\ NoKey \in Titles
  BY RisksAre DEF IInv, Titles
<1>5. /\ q \in Risks /\ q.key = NoKey /\ q.marker = risks[i].marker /\ q.tied = risks[i].tied
      /\ q.assessed = risks[i].assessed /\ q.open = risks[i].open
  BY <1>2, <1>4 DEF Risks
<1> QED BY <1>1, <1>3, <1>5, WorkedOn

LEMMA RevokeGrantKeeps ==
  ASSUME IInv, RevokeGrant
  PROVE  IInv'
<1>1. Act("Revoke") /\ UNCHANGED risks /\ granted' \subseteq granted
  BY DEF RevokeGrant
<1> QED BY <1>1, ActKeeps DEF IInv, TypeOK

LEMMA RaiseRiskKeeps ==
  ASSUME IInv, RaiseRisk
  PROVE  IInv'
<1>1. UNCHANGED <<granted, run, settled, ops, sheet>> /\ acts' = acts + 1 /\ acts < MaxActs
  BY DEF RaiseRisk
<1>2. PICK key : key = NoKey
  OBVIOUS
<1>3. key \in Titles
  BY <1>2 DEF Titles
<1>4. PICK q \in NewRisk(key, FALSE, FALSE) : risks' = Append(risks, q)
  BY <1>2 DEF RaiseRisk
<1>5. q \in Risks /\ q.key = NoKey /\ q.assessed = 0 /\ q.open = 0 /\ (PagesExact => ~q.tied)
  BY <1>2, <1>3, <1>4, NewRisks DEF IInv
<1>6. Grown(q)
  BY <1>4, <1>5, Grows DEF IInv
<1>7. PICK n : n = Len(risks) + 1
  OBVIOUS
<1>8. /\ DOMAIN risks = 1..Len(risks) /\ Len(risks) \in Nat /\ n \in Nat /\ n \notin DOMAIN risks
      /\ DOMAIN risks' = DOMAIN risks \cup {n} /\ risks'[n] = q /\ \A i \in DOMAIN risks : risks'[i] = risks[i]
      /\ Len(risks') = Len(risks) + 1
  BY <1>6, <1>7, RisksAre DEF Grown, IInv
<1>9. TypeOK'
  <2>1. acts' \in 0..MaxActs
    BY <1>1, MigrationAssumption DEF IInv, TypeOK
  <2> QED BY <1>1, <1>6, <2>1, TypeStays DEF Grown, IInv, TypeOK, AllGrants
<1>10. PlaceInv'
  BY <1>1 DEF IInv, PlaceInv, AllGrants, Rows
<1>11. RisksInv'
  <2>1. WrittenOnce'
    BY <1>5, <1>8 DEF IInv, RisksInv, WrittenOnce
  <2>2. \A i \in DOMAIN risks' : risks'[i].key # NoKey => risks'[i].marker
    BY <1>5, <1>8 DEF IInv, RisksInv
  <2>3. PagesExact => (\A i \in DOMAIN risks' : ~risks'[i].tied) /\ OneEach'
    BY <1>5, <1>8 DEF IInv, RisksInv, OneEach
  <2> QED BY <1>1, <2>1, <2>2, <2>3 DEF RisksInv
<1>12. FoundInv'
  <2>1. Worked
    BY <1>8 DEF Worked
  <2> QED BY <1>1, <1>8, <2>1, FoundStay DEF IInv
<1>13. SeenInv'
  <2>1. \A i \in DOMAIN risks : Seen(i) => Seen(i)'
    BY <1>1, <1>8 DEF Seen
  <2>2. \A i \in DOMAIN risks' : risks'[i].key # NoKey => i \in DOMAIN risks /\ risks[i].key # NoKey
    BY <1>5, <1>8
  <2>3. \A i \in DOMAIN risks : i > Len(risks') - run.offset => i > Len(risks) - run.offset
    BY <1>8 DEF IInv, TypeOK, Runs
  <2>4. PagesExact => run.pc # "page"
    BY DEF RaiseRisk, PagesExact, IInv, TypeOK
  <2> QED BY <1>1, <2>1, <2>2, <2>3, <2>4 DEF IInv, SeenInv
<1>14. Ahead' = Ahead /\ Here' = Here
  BY <1>1 DEF Ahead, Rows, Here
<1>15. RowInv'
  <2>1. \A r \in Ahead' : Known(r) => (risks'[IdOf(r)].assessed > 0 <=> risks[IdOf(r)].assessed > 0)
    BY <1>8, <1>14 DEF IInv, RowInv
  <2>2. \A r \in Ahead' : ~Known(r) /\ PagesExact => \A i \in DOMAIN risks' : risks'[i].key # sheet[r].key
    <3>1. \A r \in Ahead : sheet[r].key # NoKey
      BY TheSheet DEF IInv, TypeOK, Ahead
    <3> QED BY <1>5, <1>8, <1>14, <3>1 DEF IInv, RowInv
  <2> QED BY <1>1, <1>8, <1>14, <2>1, <2>2, RowsStay DEF IInv
<1>16. HereInv'
  <2>1. \A s : (Known(s)' <=> Known(s)) /\ IdOf(s)' = IdOf(s)
    BY <1>1 DEF Known, IdOf
  <2>2. run'.pc = "create" => run'.row \in Ahead' /\ run'.progress[run'.row].stage = "None"
    BY <1>1, <1>14 DEF IInv, HereInv, Known
  <2>3. run'.pc \in Writing => /\ run'.row \notin rejectDuplicateKeys'
                               /\ Here'.id \in DOMAIN risks'
                               /\ settled' => ~PagesExact /\ risks'[Here'.id].key = Row'.key
                               /\ \A s \in Ahead' : Known(s)' => IdOf(s)' # Here'.id
    BY <1>1, <1>8, <1>14, <2>1 DEF IInv, HereInv, Row, rejectDuplicateKeys, Rows
  <2>4. run'.pc = "assess" => risks'[Here'.id].assessed = 0
    BY <1>1, <1>8, <1>14 DEF IInv, HereInv, Writing
  <2>5. run'.pc = "suppress" => risks'[Here'.id].open = 0
    BY <1>1, <1>8, <1>14 DEF IInv, HereInv, Writing
  <2>6. run'.pc \in {"list", "suppress"} => wantsSuppressingEscalation(Row)'
    BY <1>1 DEF IInv, HereInv, Row, wantsSuppressingEscalation
  <2> QED BY <1>1, <2>2, <2>3, <2>4, <2>5, <2>6 DEF HereInv, Known
<1>17. SettledInv'
  BY <1>1, <1>8, MigratedStays DEF IInv, SettledInv, SheetIn, Rows
<1> QED BY <1>9, <1>10, <1>11, <1>12, <1>13, <1>15, <1>16, <1>17 DEF IInv

-----------------------------------------------------------------------------
(* The theorems.                                                               *)

LEMMA InitInv == Init => IInv
<1> SUFFICES ASSUME Init
             PROVE  IInv
  OBVIOUS
<1>1. sheet \in Sheets /\ risks = <<>> /\ granted = {} /\ run = Idle /\ settled = FALSE /\ acts = 0 /\ ops \in Mixes
  BY DEF Init
<1>2. /\ Idle \in Runs
      /\ Idle.pc = "idle" /\ Idle.row = NoRow /\ Idle.found = {} /\ Idle.offset = 0 /\ Idle.todo = <<>>
      /\ Idle.rejected = {} /\ Idle.mismatch = FALSE /\ Idle.calm = TRUE
      /\ \A r \in Rows : Idle.progress[r] = NotFound
  BY <1>1, IdleIs
<1>3. <<>> \in Seq(Risks) /\ Len(<<>>) = 0 /\ DOMAIN <<>> = {} /\ Range(<<>>) = {}
  <2>1. DOMAIN <<>> = {}
    OBVIOUS
  <2> QED BY EmptySeq, <2>1 DEF Range
<1>4. TypeOK
  <2>1. risks \in Seq(Risks) /\ granted \subseteq AllGrants /\ run \in Runs
    BY <1>1, <1>2, <1>3
  <2>2. settled \in BOOLEAN
    BY <1>1
  <2>3. acts \in 0..MaxActs
    BY <1>1, MigrationAssumption
  <2> QED BY <1>1, <2>1, <2>2, <2>3 DEF TypeOK, AllGrants
<1>5. PlaceInv /\ FoundInv /\ SeenInv
  BY <1>1, <1>2, <1>3 DEF PlaceInv, FoundInv, SeenInv
<1>6. RisksInv
  BY <1>1, <1>3 DEF RisksInv, WrittenOnce, OneEach
<1>7. Ahead = {}
  BY <1>1, <1>2 DEF Ahead, Writing
<1>8. RowInv /\ HereInv /\ SettledInv
  BY <1>1, <1>2, <1>7 DEF RowInv, HereInv, SettledInv, Writing
<1> QED BY <1>4, <1>5, <1>6, <1>8 DEF IInv

LEMMA StepInv == IInv /\ [Next]_vars => IInv'
<1> SUFFICES ASSUME IInv, [Next]_vars
             PROVE  IInv'
  OBVIOUS
<1>1. CASE RunStep
  BY <1>1, StartKeeps, SearchKeeps, ResumeKeeps, MigrateRowKeeps, CreateRiskKeeps, CreateAssessmentKeeps,
     PatchRiskKeeps, ListEscalationsKeeps, CreateEscalationKeeps, CreateGrantKeeps, PatchActionPlanKeeps,
     VerifyRowKeeps DEF RunStep
<1>2. CASE Crash
  BY <1>2, CrashKeeps
<1>3. CASE \E i \in DOMAIN risks : EscalateOverdue(i) \/ Decide(i) \/ Submit(i) \/ Retitle(i)
  BY <1>3, EscalateOverdueKeeps, DecideKeeps, SubmitKeeps, RetitleKeeps
<1>4. CASE RevokeGrant
  BY <1>4, RevokeGrantKeeps
<1>5. CASE RaiseRisk
  BY <1>5, RaiseRiskKeeps
<1>6. CASE UNCHANGED vars
  <2>1. UNCHANGED <<sheet, risks, granted, run, settled, acts, ops>>
    BY <1>6 DEF vars
  <2>2. TypeOK'
    BY <2>1 DEF IInv, TypeOK, Runs, Rows
  <2>3. PlaceInv' /\ RisksInv' /\ FoundInv' /\ SeenInv'
    BY <2>1 DEF IInv, PlaceInv, AllGrants, Rows, RisksInv, WrittenOnce, OneEach, FoundInv, SeenInv, Seen
  <2>4. Ahead' = Ahead /\ Here' = Here /\ rejectDuplicateKeys' = rejectDuplicateKeys
        /\ \A r : (Known(r)' <=> Known(r)) /\ IdOf(r)' = IdOf(r)
    BY <2>1 DEF Ahead, Rows, Here, rejectDuplicateKeys, Known, IdOf
  <2>5. RowInv' /\ HereInv'
    BY <2>1, <2>4 DEF IInv, RowInv, HereInv, Row, wantsSuppressingEscalation
  <2>6. SettledInv'
    BY <2>1, MigratedStays DEF IInv, SettledInv, SheetIn, Rows
  <2> QED BY <2>2, <2>3, <2>5, <2>6 DEF IInv
<1> QED BY <1>1, <1>2, <1>3, <1>4, <1>5, <1>6 DEF Next

\* Risks are never created within a second of each other.
NoTies == \A mix \in Mixes : "Ties" \notin mix

LEMMA ExactPages ==
  ASSUME NoTies, TypeOK
  PROVE  Without({"Overlap"}) => PagesExact
BY DEF NoTies, TypeOK, Without

\* Whatever happens beside the runs, and wherever they are killed, what a run believes of
\* the rows that are still ahead of it is true of the entity.
THEOREM Invariance == Spec => []IInv
BY InitInv, StepInv, PTL DEF Spec

\* Every field of the run, the risks and the grants keeps its type.
THEOREM TypeCorrect == Spec => []TypeOK
<1>1. IInv => TypeOK
  BY DEF IInv
<1> QED BY <1>1, Invariance, PTL

\* Neither the residual assessment nor the escalation that keeps the nightly job away is
\* written twice, however often runs are killed and started again, and even if the pages of
\* their searches overlap.
THEOREM NothingTwice == Spec => []WrittenOnce
<1>1. IInv => WrittenOnce
  BY DEF IInv, RisksInv
<1> QED BY <1>1, Invariance, PTL

\* Where no two risks are of one second, no run creates a risk for a row that has one, as
\* long as none is raised between the count and a page of its search: of each natural key
\* there is one risk.
THEOREM NoSecondRisk ==
  ASSUME NoTies
  PROVE  Spec => []OneRiskPerRow
<1>1. IInv => OneRiskPerRow
  BY ExactPages DEF IInv, RisksInv, OneEach, OneRiskPerRow
<1> QED BY <1>1, Invariance, PTL

\* What a run with exit code 0 has left behind is the whole sheet, until somebody works on
\* it: whatever the pages of searches leave out, then and later.
THEOREM ExitCodeIsTrue == Spec => []CleanRunMeansMigrated
<1>1. IInv => CleanRunMeansMigrated
  <2> SUFFICES ASSUME IInv, settled, NEW r \in Rows
               PROVE  \E i \in DOMAIN risks :
                        /\ risks[i].key = sheet[r].key /\ risks[i].status = sheet[r].target
                        /\ sheet[r].residual => risks[i].assessed = 1
                        /\ sheet[r].target = "CLOSED" => risks[i].planDone
                        /\ wantsSuppressingEscalation(sheet[r]) => risks[i].open = 1
                        /\ Range(expectedGrants(sheet[r])) \subseteq granted
    BY DEF CleanRunMeansMigrated
  <2>1. PICK i \in DOMAIN risks : risks[i].key = sheet[r].key /\ verifyRow(sheet[r], risks[i])
    BY DEF IInv, SettledInv, SheetIn, Migrated
  <2>2. risks[i].assessed \in Nat /\ risks[i].open \in Nat
    BY RisksAre DEF IInv, Risks
  <2>3. risks[i].assessed <= 1 /\ risks[i].open <= 1
    BY DEF IInv, RisksInv, WrittenOnce
  <2> QED BY <2>1, <2>2, <2>3 DEF verifyRow, ChildrenDone, HasAssessment
<1> QED BY <1>1, Invariance, PTL

\* Where no two risks are of one second, a run after one that ended with exit code 0 writes
\* nothing, as long as no risk is raised between the count and a page of its search.
THEOREM SecondRunWritesNothing ==
  ASSUME NoTies
  PROVE  Spec => RerunChangesNothing
<1>1. IInv /\ [Next]_vars => [Without({"Overlap"}) /\ settled /\ RunStep => UNCHANGED entityVars]_vars
  <2> SUFFICES ASSUME IInv, settled, RunStep, Without({"Overlap"})
               PROVE  UNCHANGED entityVars
    OBVIOUS
  <2>1. run.pc # "create" /\ run.pc \notin Writing
    BY ExactPages DEF IInv, HereInv, RowInv
  <2>2. ~CreateRisk /\ ~CreateAssessment /\ ~PatchRisk /\ ~ListEscalations /\ ~CreateEscalation
        /\ ~CreateGrant /\ ~PatchActionPlan
    BY <2>1 DEF CreateRisk, CreateAssessment, PatchRisk, ListEscalations, CreateEscalation, CreateGrant,
                PatchActionPlan, Writing
  <2>3. Start \/ CountRisks \/ Search \/ Resume \/ MigrateRow \/ Recheck \/ VerifyRow
    BY <2>2 DEF RunStep
  <2> QED BY <2>3 DEF Start, CountRisks, Search, SearchPage, Resume, MigrateRow, Recheck, VerifyRow, entityVars
<1> QED BY <1>1, Invariance, PTL DEF Spec, RerunChangesNothing

\* The entity's table leads nowhere from a status that is final.
LEMMA NoWayOut ==
  ASSUME NEW from \in Terminal, NEW to
  PROVE  /\ <<from, to>> \notin allowedRiskTransitions
         /\ isValidRiskTransition(from, to) => to = from
BY DEF Terminal, allowedRiskTransitions, isValidRiskTransition

\* A risk that users have closed or cancelled, while a run went on that had seen it before,
\* stays as it is: no hop of a run starts from there.
THEOREM FinalStays == Spec => TerminalIsFinal
<1>1. IInv /\ [Next]_vars => [\A i \in DOMAIN risks : risks[i].status \in Terminal =>
                                risks'[i].status = risks[i].status]_vars
  <2> SUFFICES ASSUME IInv, Next, NEW i \in DOMAIN risks, risks[i].status \in Terminal
               PROVE  risks'[i].status = risks[i].status
    OBVIOUS
  <2>1. risks[i].status # "APPROVED"
    BY DEF Terminal
  <2>2. PICK from \in Terminal : from = risks[i].status
    OBVIOUS
  <2>3. CASE RunStep
    <3>1. CASE CreateRisk
      BY <3>1, RisksAre DEF CreateRisk, IInv
    <3>2. CASE PatchRisk
      <4>1. CASE UNCHANGED risks
        BY <4>1
      <4>2. CASE ~UNCHANGED risks
        <5>1. PICK hop : hop = Path[Min(HopsLeft(Here.status, Row.target))]
          OBVIOUS
        <5>2. /\ risks' = [risks EXCEPT ![Here.id].status = hop] /\ isValidRiskTransition(Here.status, hop)
              /\ risks[Here.id].status = Here.status
          BY <3>2, <4>2, <5>1 DEF PatchRisk, PatchAccepted
        <5>3. Here.id = i => hop = from
          BY <2>2, <5>2, NoWayOut
        <5> QED BY <2>2, <5>2, <5>3
      <4> QED BY <4>1, <4>2
    <3>3. CASE CreateAssessment
      BY <3>3 DEF CreateAssessment
    <3>4. CASE CreateEscalation
      BY <3>4 DEF CreateEscalation
    <3>5. CASE PatchActionPlan
      BY SMTT(30), <3>5 DEF PatchActionPlan
    <3>6. CASE \/ Start \/ CountRisks \/ Search \/ Resume \/ MigrateRow \/ ListEscalations
               \/ CreateGrant \/ Recheck \/ VerifyRow
      BY <3>6 DEF Start, CountRisks, Search, SearchPage, Resume, MigrateRow, ListEscalations, CreateGrant,
                  Recheck, VerifyRow
    <3> QED BY <2>3, <3>1, <3>2, <3>3, <3>4, <3>5, <3>6 DEF RunStep
  <2>4. CASE \E j \in DOMAIN risks : EscalateOverdue(j) \/ Decide(j) \/ Submit(j) \/ Retitle(j)
    <3>1. PICK j \in DOMAIN risks : EscalateOverdue(j) \/ Decide(j) \/ Submit(j) \/ Retitle(j)
      BY <2>4
    <3>2. CASE EscalateOverdue(j)
      BY <2>1, <3>2 DEF EscalateOverdue
    <3>3. CASE Decide(j)
      <4>1. PICK to : <<risks[j].status, to>> \in allowedRiskTransitions /\ risks' = [risks EXCEPT ![j].status = to]
        BY <3>3 DEF Decide
      <4>2. j # i
        BY <2>2, <4>1, NoWayOut
      <4> QED BY <4>1, <4>2
    <3>4. CASE Submit(j)
      BY <2>1, <3>4 DEF Submit
    <3>5. CASE Retitle(j)
      BY <3>5 DEF Retitle
    <3> QED BY <3>1, <3>2, <3>3, <3>4, <3>5
  <2>5. CASE Crash \/ RevokeGrant
    BY <2>5 DEF Crash, RevokeGrant
  <2>6. CASE RaiseRisk
    BY <2>6, RisksAre DEF RaiseRisk, IInv
  <2> QED BY <2>3, <2>4, <2>5, <2>6 DEF Next
<1> QED BY <1>1, Invariance, PTL DEF Spec, TerminalIsFinal

=============================================================================
