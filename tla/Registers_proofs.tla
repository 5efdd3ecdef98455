-------------------------- MODULE Registers_proofs --------------------------
(* Theorems about Registers, for any numbers of registers, values, risks,     *)
(* codes and transactions, and any mixes.                                     *)
EXTENDS Registers, TLAPS

USE RegistersAssumption

-----------------------------------------------------------------------------
(* The inductive invariant: what a transaction has read is still so, because  *)
(* of the locks it holds; and what the counters know of the codes issued.     *)

\* A row locked FOR UPDATE is locked by nobody else.
Exclusion ==
  \A t, u \in Txs : t # u => exclusive[t] \cap (shared[u] \cup exclusive[u]) = {}

Checked(t, values) == \A v \in values \ tx[t].unchecked : v \in shared[t] /\ status[v] = "ACTIVE"

Creating(t) ==
  tx[t].op = "create" =>
    LET g == tx[t].register IN
    /\ g \in Registers /\ g \in shared[t]
    /\ tx[t].template = template[g]
    /\ tx[t].code = code[g] /\ code[g] # None
    /\ Fits(template[g], tx[t].values, tx[t].refs)
    /\ Checked(t, tx[t].values)

Editing(t) ==
  tx[t].op = "edit" =>
    LET k == tx[t].risk IN
    /\ k \in Risks /\ k \in exclusive[t] /\ Exists(k)
    /\ MayBecome(template[risk[k].register], risk[k], tx[t].values, tx[t].refs)
    /\ Checked(t, tx[t].values \ risk[k].values)

Held == \A t \in Txs : Creating(t) /\ Editing(t)

\* The codes in use tell registers, and stored customers, apart.
Distinct ==
  /\ \A g, h \in Registers : code[g] = code[h] /\ code[g] # None => g = h
  /\ \A c, d \in Customers :
       status[c] \in Stored /\ status[d] \in Stored /\ code[c] = code[d] => c = d
  /\ \A c \in Customers : status[c] \in Stored => code[c] # None
  /\ \A k \in Risks : Exists(k) => code[risk[k].register] # None

\* Counters keep their customers, and every code issued was counted by one of them.
Counted ==
  /\ \A row \in DOMAIN last : row[2] # None => status[row[2]] \in Stored
  /\ "Codes" \notin ops =>
       \A q \in issued : \E row \in DOMAIN last :
         /\ code[row[1]] # None
         /\ q[1] = code[row[1]] /\ q[2] = CodeOf(row[2]) /\ q[3] <= last[row]

IInv == TypeOK /\ Exclusion /\ Held /\ RisksFitRegister /\ Distinct /\ Counted

-----------------------------------------------------------------------------
(* Facts about the operators.                                                 *)

\* A change that a template admits takes a risk that fits to one that fits.
LEMMA MayBecomeFits ==
  ASSUME NEW tm, NEW old, NEW values, NEW refs,
         Fits(tm, old.values, old.refs), MayBecome(tm, old, values, refs)
  PROVE  Fits(tm, values, refs)
BY DEF Fits, MayBecome

LEMMA ExistsType ==
  ASSUME TypeOK, NEW k \in Risks, Exists(k)
  PROVE  risk[k] \in RiskRows /\ risk[k].register \in Registers
BY DEF TypeOK, Exists, NoRisk, RiskRows

\* The customer of a creation on Managed Services is one of its values.
LEMMA CustomerOfType ==
  ASSUME NEW values \in SUBSET Values
  PROVE  /\ CustomerOf(values) \in Customers \cup {None}
         /\ CustomerOf(values) # None => CustomerOf(values) \in values
BY DEF CustomerOf, OfKind, Customers

\* A transaction keeps what it has read as long as its locks are respected.
LEMMA Untouched ==
  ASSUME TypeOK, Held, NEW u \in Txs,
         tx'[u] = tx[u], shared[u] \subseteq shared'[u], exclusive[u] \subseteq exclusive'[u],
         \A g \in Registers \cap shared[u] : code[g] # None => code'[g] = code[g],
         \A g \in Registers \cap shared[u] : code[g] # None => template'[g] = template[g],
         \A v \in Values \cap shared[u] : status'[v] = status[v],
         \A k \in Risks : Exists(k) => template'[risk[k].register] = template[risk[k].register],
         tx[u].op = "edit" => risk'[tx[u].risk] = risk[tx[u].risk]
  PROVE  Creating(u)' /\ Editing(u)'
<1>1. tx[u] \in Transactions
  BY DEF TypeOK
<1>2. tx[u].values \subseteq Values
  BY <1>1 DEF Transactions
<1>3. ASSUME tx[u].op = "create" PROVE Creating(u)'
  <2>1. Creating(u)
    BY DEF Held
  <2>2. Checked(u, tx[u].values)'
    BY <1>2, <1>3, <2>1 DEF Creating, Checked
  <2> QED
    BY <1>3, <2>1, <2>2 DEF Creating
<1>4. ASSUME tx[u].op = "edit" PROVE Editing(u)'
  <2>1. Editing(u)
    BY DEF Held
  <2>2. Checked(u, tx[u].values \ risk[tx[u].risk].values)'
    BY <1>2, <1>4, <2>1 DEF Editing, Checked
  <2> QED
    BY <1>4, <2>1, <2>2 DEF Editing, Exists
<1> QED
  BY <1>3, <1>4 DEF Creating, Editing

-----------------------------------------------------------------------------
(* Types.                                                                     *)

LEMMA InitType == Init => TypeOK
BY DEF Init, TypeOK, Stored, Idle, Transactions, Templates, NoRisk, Rows

LEMMA BeginCreateType ==
  ASSUME IInv, NEW t \in Txs, NEW g \in Registers, NEW values \in Offers, NEW refs \in BOOLEAN,
         BeginCreate(t, g, values, refs)
  PROVE  TypeOK'
<1>1. Creation(g, values, refs) \in Transactions
  BY DEF IInv, TypeOK, Creation, Transactions, Offers
<1>2. /\ tx' = [tx EXCEPT ![t] = Creation(g, values, refs)] /\ requests' = requests + 1 /\ ops' = ops
      /\ shared' = [shared EXCEPT ![t] = @ \cup {g}] /\ exclusive' = exclusive /\ UNCHANGED tables
  BY DEF BeginCreate, Begin, Share
<1> QED
  BY <1>1, <1>2 DEF IInv, TypeOK, tables, Rows

LEMMA BeginEditType ==
  ASSUME IInv, NEW t \in Txs, NEW k \in Risks, NEW values \in Offers, NEW refs \in BOOLEAN,
         BeginEdit(t, k, values, refs)
  PROVE  TypeOK'
<1> DEFINE g == risk[k].register
           next == [op |-> "edit", register |-> g, risk |-> k, values |-> values, refs |-> refs,
                    unchecked |-> values \ risk[k].values, template |-> template[g], code |-> None]
           read == IF values # risk[k].values \/ refs THEN {g} ELSE {}
<1>1. g \in Registers
  BY ExistsType DEF IInv, BeginEdit
<1>2. next \in Transactions
  BY <1>1 DEF IInv, TypeOK, Transactions, Offers
<1>3. /\ tx' = [tx EXCEPT ![t] = next] /\ requests' = requests + 1 /\ ops' = ops
      /\ shared' = [shared EXCEPT ![t] = @ \cup read]
      /\ exclusive' = [exclusive EXCEPT ![t] = @ \cup {k}] /\ UNCHANGED tables
  BY DEF BeginEdit, Begin, Share, Lock
<1>4. read \subseteq Rows /\ {k} \subseteq Rows
  BY <1>1 DEF Rows
<1> HIDE DEF next, read, g
<1> QED
  BY <1>2, <1>3, <1>4 DEF IInv, TypeOK, tables

\* Where a transaction ends, it leaves nothing behind.
LEMMA EndsType ==
  ASSUME TypeOK, NEW t \in Txs, Ends(t)
  PROVE  /\ tx' \in [Txs -> Transactions]
         /\ shared' \in [Txs -> SUBSET Rows] /\ exclusive' \in [Txs -> SUBSET Rows]
         /\ requests' \in Nat /\ ops' \in Mixes
<1>1. Idle \in Transactions
  BY DEF Idle, Transactions, Templates
<1> QED
  BY <1>1 DEF Ends, TypeOK, bounds

LEMMA requireActiveType ==
  ASSUME IInv, NEW t \in Txs, requireActive(t)
  PROVE  TypeOK'
<1> DEFINE values == Turn(tx[t].unchecked)
<1>1. UNCHANGED tables
  BY DEF requireActive
<1>2. CASE Ends(t)
  BY <1>1, <1>2, EndsType DEF IInv, TypeOK, tables
<1>3. CASE /\ tx' = [tx EXCEPT ![t].unchecked = @ \ values]
           /\ Share(t, values) /\ UNCHANGED <<exclusive, bounds>>
  <2>1. tx[t] \in Transactions
    BY DEF IInv, TypeOK
  <2>2. values \subseteq Values
    BY <2>1 DEF Turn, Transactions
  <2>3. [tx[t] EXCEPT !.unchecked = @ \ values] \in Transactions
    BY <2>1 DEF Transactions
  <2> QED
    BY <1>1, <1>3, <2>2, <2>3 DEF IInv, TypeOK, tables, bounds, Share, Rows
<1> QED
  BY <1>2, <1>3 DEF requireActive

\* The counter of a creation.
LEMMA CounterOfType ==
  ASSUME TypeOK, Held, NEW t \in Txs, tx[t].op = "create"
  PROVE  /\ CounterOf(t) \in Counters
         /\ CounterOf(t)[1] = tx[t].register
         /\ CounterOf(t)[2] # None => CounterOf(t)[2] \in tx[t].values
<1>1. tx[t] \in Transactions
  BY DEF TypeOK
<1>2. tx[t].register \in Registers
  BY DEF Held, Creating
<1>3. tx[t].values \in SUBSET Values
  BY <1>1 DEF Transactions
<1> QED
  BY <1>2, <1>3, CustomerOfType DEF CounterOf, Counters

LEMMA EnsureSequenceType ==
  ASSUME IInv, NEW t \in Txs, EnsureSequence(t)
  PROVE  TypeOK'
<1>1. CounterOf(t) \in Rows
  BY CounterOfType DEF IInv, EnsureSequence, Rows
<1>2. UNCHANGED <<tables, tx, bounds>>
  BY DEF EnsureSequence
<1>3. \/ shared' = [shared EXCEPT ![t] = @ \cup {CounterOf(t)}] /\ exclusive' = exclusive
      \/ exclusive' = [exclusive EXCEPT ![t] = @ \cup {CounterOf(t)}] /\ shared' = shared
  BY DEF EnsureSequence, Share, Lock
<1> QED
  BY <1>1, <1>2, <1>3 DEF IInv, TypeOK, tables, bounds

\* What a creation writes.
LEMMA FinishCreateWrites ==
  ASSUME IInv, NEW t \in Txs, FinishCreate(t), ~UNCHANGED tables
  PROVE  LET row      == CounterOf(t)
             number   == LastOf(row) + 1
             riskCode == <<tx[t].code, CodeOf(row[2]), number>>
         IN  /\ row \in Counters /\ row[1] = tx[t].register
             /\ row[2] # None => status[row[2]] = "ACTIVE"
             /\ number \in Nat /\ riskCode \in RiskCodes
             /\ \A v \in tx[t].values : status[v] = "ACTIVE"
             /\ \E k \in Risks :
                  /\ ~Exists(k)
                  /\ [register |-> tx[t].register, values |-> tx[t].values,
                      refs |-> tx[t].refs, code |-> riskCode] \in RiskRows
                  /\ risk' = [risk EXCEPT ![k] = [register |-> tx[t].register, values |-> tx[t].values,
                                                  refs |-> tx[t].refs, code |-> riskCode]]
             /\ last' = [r \in DOMAIN last \cup {row} |-> IF r = row THEN number ELSE last[r]]
             /\ issued' = issued \cup {riskCode}
             /\ UNCHANGED <<template, code, status>>
<1> DEFINE row      == CounterOf(t)
           number   == LastOf(row) + 1
           riskCode == <<tx[t].code, CodeOf(row[2]), number>>
           new      == [register |-> tx[t].register, values |-> tx[t].values,
                        refs |-> tx[t].refs, code |-> riskCode]
<1>1. tx[t] \in Transactions /\ tx[t].op = "create" /\ tx[t].unchecked = {} /\ Creating(t)
  BY DEF IInv, TypeOK, Held, FinishCreate
<1>2. /\ row \in Counters /\ row[1] = tx[t].register
      /\ row[2] # None => row[2] \in tx[t].values
  BY <1>1, CounterOfType DEF IInv
<1>3. \A v \in tx[t].values : status[v] = "ACTIVE"
  BY <1>1 DEF Creating, Checked
<1>4. number \in Nat
  BY <1>2 DEF IInv, TypeOK, LastOf
<1>5. tx[t].code \in Codes
  BY <1>1 DEF Creating, Transactions
<1>6. CodeOf(row[2]) \in Codes \cup {None}
  BY <1>2 DEF CodeOf, Counters, IInv, TypeOK
<1>7. riskCode \in RiskCodes
  BY <1>4, <1>5, <1>6 DEF RiskCodes
<1>8. tx[t].register \in Registers /\ tx[t].values \in SUBSET Values /\ tx[t].refs \in BOOLEAN
  BY <1>1 DEF Creating, Transactions
<1> HIDE DEF riskCode
<1>9. new \in RiskRows
  BY <1>7, <1>8 DEF RiskRows
<1>10. ~CodeTaken(riskCode)
  BY DEF FinishCreate, riskCode
<1>11. PICK k \in Risks :
         /\ ~Exists(k)
         /\ risk' = [risk EXCEPT ![k] = new]
         /\ last' = [r \in DOMAIN last \cup {row} |-> IF r = row THEN number ELSE last[r]]
         /\ issued' = issued \cup {riskCode}
         /\ UNCHANGED <<template, code, status>>
  BY <1>10 DEF FinishCreate, riskCode
<1> QED
  BY <1>2, <1>3, <1>4, <1>7, <1>9, <1>11 DEF riskCode

LEMMA FinishCreateType ==
  ASSUME IInv, NEW t \in Txs, FinishCreate(t)
  PROVE  TypeOK'
<1>1. Ends(t)
  BY DEF FinishCreate
<1>2. CASE UNCHANGED tables
  BY <1>1, <1>2, EndsType DEF IInv, TypeOK, tables
<1>3. CASE ~UNCHANGED tables
  <2> DEFINE row      == CounterOf(t)
             number   == LastOf(row) + 1
             riskCode == <<tx[t].code, CodeOf(row[2]), number>>
  <2>1. /\ row \in Counters /\ number \in Nat /\ riskCode \in RiskCodes
        /\ last' = [r \in DOMAIN last \cup {row} |-> IF r = row THEN number ELSE last[r]]
        /\ issued' = issued \cup {riskCode}
        /\ UNCHANGED <<template, code, status>>
    BY <1>3, FinishCreateWrites
  <2>2. PICK k \in Risks :
          /\ [register |-> tx[t].register, values |-> tx[t].values,
              refs |-> tx[t].refs, code |-> riskCode] \in RiskRows
          /\ risk' = [risk EXCEPT ![k] = [register |-> tx[t].register, values |-> tx[t].values,
                                          refs |-> tx[t].refs, code |-> riskCode]]
    BY <1>3, FinishCreateWrites
  <2>3. \A v \in tx[t].values : status[v] = "ACTIVE"
    BY <1>3, FinishCreateWrites
  <2> HIDE DEF riskCode, number, row
  <2>4. risk' \in [Risks -> RiskRows \cup {NoRisk}]
    BY <2>2 DEF IInv, TypeOK
  <2>5. \A j \in Risks : \A v \in risk'[j].values : status'[v] \in Stored
    BY <2>1, <2>2, <2>3 DEF IInv, TypeOK, Stored
  <2>6. DOMAIN last' \subseteq Counters /\ \A r \in DOMAIN last' : last'[r] \in Nat
    BY <2>1 DEF IInv, TypeOK
  <2>7. issued' \subseteq RiskCodes
    BY <2>1 DEF IInv, TypeOK
  <2> QED
    BY <1>1, <2>1, <2>4, <2>5, <2>6, <2>7, EndsType DEF IInv, TypeOK
<1> QED
  BY <1>2, <1>3

LEMMA FinishEditType ==
  ASSUME IInv, NEW t \in Txs, FinishEdit(t)
  PROVE  TypeOK'
<1> DEFINE k == tx[t].risk
<1>1. tx[t] \in Transactions /\ tx[t].op = "edit" /\ tx[t].unchecked = {} /\ Editing(t)
  BY DEF IInv, TypeOK, Held, FinishEdit
<1>2. k \in Risks /\ risk[k] \in RiskRows
  BY <1>1, ExistsType DEF Editing, IInv
<1>3. \A v \in tx[t].values : status[v] \in Stored
  <2>1. \A v \in tx[t].values \ risk[k].values : status[v] = "ACTIVE"
    BY <1>1 DEF Editing, Checked
  <2> QED
    BY <1>2, <2>1 DEF IInv, TypeOK, Stored
<1>4. /\ risk' = [risk EXCEPT ![k].values = tx[t].values, ![k].refs = tx[t].refs]
      /\ UNCHANGED <<template, code, status, last, issued>> /\ Ends(t)
  BY DEF FinishEdit
<1>5. risk'[k].values = tx[t].values /\ risk'[k] \in RiskRows
  BY <1>1, <1>2, <1>4 DEF RiskRows, Transactions, IInv, TypeOK
<1>6. \A j \in Risks : j # k => risk'[j] = risk[j]
  BY <1>4 DEF IInv, TypeOK
<1>7. risk' \in [Risks -> RiskRows \cup {NoRisk}]
  BY <1>4, <1>5, <1>6 DEF IInv, TypeOK
<1>8. \A j \in Risks : \A v \in risk'[j].values : status'[v] \in Stored
  BY <1>3, <1>4, <1>5, <1>6 DEF IInv, TypeOK
<1> QED
  BY <1>4, <1>7, <1>8, EndsType DEF IInv, TypeOK

LEMMA RequestType ==
  ASSUME IInv, NEW t \in Txs, Request(t)
  PROVE  TypeOK'
<1>1. CASE Rollback(t)
  BY <1>1, EndsType DEF Rollback, IInv, TypeOK, tables
<1> QED
  BY <1>1, BeginCreateType, BeginEditType, requireActiveType, EnsureSequenceType,
     FinishCreateType, FinishEditType DEF Request

\* The edits beside the transactions leave them, and their locks, alone.
LEMMA Aside ==
  ASSUME IInv, Administration
  PROVE  /\ tx' = tx /\ shared' = shared /\ exclusive' = exclusive
         /\ requests' \in Nat /\ ops' = ops
<1>1. \E op \in AllOps : Change(op)
  <2>1. ASSUME NEW g \in Registers, NEW tm \in Templates,
               UpdateTemplate(g, tm) \/ \E new \in Codes : CreateRiskTeam(g, new, tm)
        PROVE  Change("Template") \/ Change("Codes")
    BY <2>1 DEF UpdateTemplate, CreateRiskTeam
  <2>2. ASSUME NEW g \in Registers, NEW new \in Codes, RecodeRegister(g, new)
        PROVE  Change("Codes")
    BY <2>2 DEF RecodeRegister
  <2>3. ASSUME NEW v \in Values,
               SwitchStatus(v) \/ DeleteRiskLookup(v) \/ \E new \in Codes : CreateRiskLookup(v, new)
        PROVE  Change("Status") \/ Change("Lookups")
    BY <2>3 DEF SwitchStatus, DeleteRiskLookup, CreateRiskLookup
  <2>4. ASSUME NEW c \in Customers, NEW new \in Codes, RecodeCustomer(c, new)
        PROVE  Change("Lookups")
    BY <2>4 DEF RecodeCustomer
  <2>5. ASSUME NEW gone \in SUBSET Risks, RollbackImport(gone)
        PROVE  Change("Rollback")
    BY <2>5 DEF RollbackImport
  <2> QED
    BY <2>1, <2>2, <2>3, <2>4, <2>5 DEF Administration, AllOps
<1> QED
  BY <1>1 DEF Change, locks, IInv, TypeOK

LEMMA AdministrationType ==
  ASSUME IInv, Administration
  PROVE  TypeOK'
<1>1. /\ tx' = tx /\ shared' = shared /\ exclusive' = exclusive
      /\ requests' \in Nat /\ ops' = ops
  BY Aside
<1>2. ASSUME NEW g \in Registers, NEW tm \in Templates, UpdateTemplate(g, tm)
      PROVE  TypeOK'
  BY <1>1, <1>2 DEF UpdateTemplate, IInv, TypeOK
<1>3. ASSUME NEW g \in Registers, NEW tm \in Templates, NEW new \in Codes, CreateRiskTeam(g, new, tm)
      PROVE  TypeOK'
  BY <1>1, <1>3 DEF CreateRiskTeam, IInv, TypeOK
<1>4. ASSUME NEW g \in Registers, NEW new \in Codes, RecodeRegister(g, new)
      PROVE  TypeOK'
  BY <1>1, <1>4 DEF RecodeRegister, IInv, TypeOK
<1>5. ASSUME NEW v \in Values, SwitchStatus(v)
      PROVE  TypeOK'
  <2>1. PICK s \in Stored : status' = [status EXCEPT ![v] = s]
    BY <1>5 DEF SwitchStatus, Stored
  <2>2. UNCHANGED <<template, code, last, risk, issued>>
    BY <1>5 DEF SwitchStatus
  <2>3. status' \in [Values -> Stored \cup {"new", "deleted"}]
    BY <2>1 DEF IInv, TypeOK
  <2>4. \A k \in Risks : \A u \in risk[k].values : status'[u] \in Stored
    BY <2>1 DEF IInv, TypeOK
  <2> QED
    BY <1>1, <2>2, <2>3, <2>4 DEF IInv, TypeOK
<1>6. ASSUME NEW v \in Values, DeleteRiskLookup(v)
      PROVE  TypeOK'
  BY <1>1, <1>6 DEF DeleteRiskLookup, inUse, IInv, TypeOK
<1>7. ASSUME NEW v \in Values, NEW new \in Codes, CreateRiskLookup(v, new)
      PROVE  TypeOK'
  <2>1. code' \in [Registers \cup Customers -> Codes \cup {None}]
    BY <1>7 DEF CreateRiskLookup, IInv, TypeOK
  <2> QED
    BY <1>1, <1>7, <2>1 DEF CreateRiskLookup, IInv, TypeOK, Stored
<1>8. ASSUME NEW c \in Customers, NEW new \in Codes, RecodeCustomer(c, new)
      PROVE  TypeOK'
  BY <1>1, <1>8 DEF RecodeCustomer, IInv, TypeOK
<1>9. ASSUME NEW gone \in SUBSET Risks, RollbackImport(gone)
      PROVE  TypeOK'
  BY <1>1, <1>9 DEF RollbackImport, IInv, TypeOK, NoRisk
<1> QED
  BY <1>2, <1>3, <1>4, <1>5, <1>6, <1>7, <1>8, <1>9 DEF Administration

-----------------------------------------------------------------------------
(* Locks and what they keep.                                                  *)

\* A transaction that waits for its locks shares none that is exclusive.
LEMMA Granted ==
  ASSUME TypeOK, Exclusion, NEW t \in Txs, NEW R, NEW W, MayShare(t, R), MayWrite(t, W),
         \A u \in Txs : shared'[u] = IF u = t THEN shared[u] \cup R ELSE shared[u],
         \A u \in Txs : exclusive'[u] = IF u = t THEN exclusive[u] \cup W ELSE exclusive[u]
  PROVE  Exclusion'
<1> SUFFICES ASSUME NEW a \in Txs, NEW b \in Txs, a # b
             PROVE  exclusive'[a] \cap (shared'[b] \cup exclusive'[b]) = {}
  BY DEF Exclusion
<1>1. exclusive[a] \cap (shared[b] \cup exclusive[b]) = {}
  BY DEF Exclusion
<1>2. CASE a = t
  <2>1. W \cap (shared[b] \cup exclusive[b]) = {}
    BY <1>2 DEF MayWrite
  <2> QED
    BY <1>1, <1>2, <2>1
<1>3. CASE b = t
  <2>1. R \cap exclusive[a] = {} /\ W \cap exclusive[a] = {}
    BY <1>3 DEF MayShare, MayWrite
  <2> QED
    BY <1>1, <1>3, <2>1
<1> QED
  BY <1>1, <1>2, <1>3

LEMMA EndsExclusion ==
  ASSUME TypeOK, Exclusion, NEW t \in Txs, Ends(t)
  PROVE  Exclusion'
<1>1. \A u \in Txs : shared'[u] \subseteq shared[u] /\ exclusive'[u] \subseteq exclusive[u]
  BY DEF Ends, TypeOK
<1> QED
  BY <1>1 DEF Exclusion

LEMMA RequestExclusion ==
  ASSUME TypeOK, Exclusion, NEW t \in Txs, Request(t)
  PROVE  Exclusion'
<1>1. ASSUME NEW g, NEW values, NEW refs, BeginCreate(t, g, values, refs)
      PROVE  Exclusion'
  <2>1. PICK read : MayShare(t, read) /\ Share(t, read) /\ exclusive' = exclusive
    BY <1>1 DEF BeginCreate
  <2>2. /\ \A u \in Txs : shared'[u] = IF u = t THEN shared[u] \cup read ELSE shared[u]
        /\ \A u \in Txs : exclusive'[u] = IF u = t THEN exclusive[u] \cup {} ELSE exclusive[u]
    BY <2>1 DEF Share, TypeOK
  <2>3. MayWrite(t, {})
    BY DEF MayWrite
  <2> QED
    BY <2>1, <2>2, <2>3, Granted
<1>2. ASSUME NEW k, NEW values, NEW refs, BeginEdit(t, k, values, refs)
      PROVE  Exclusion'
  <2>1. PICK read : MayShare(t, read) /\ MayWrite(t, {k}) /\ Share(t, read) /\ Lock(t, {k})
    BY <1>2 DEF BeginEdit
  <2>2. /\ \A u \in Txs : shared'[u] = IF u = t THEN shared[u] \cup read ELSE shared[u]
        /\ \A u \in Txs : exclusive'[u] = IF u = t THEN exclusive[u] \cup {k} ELSE exclusive[u]
    BY <2>1 DEF Share, Lock, TypeOK
  <2> QED
    BY <2>1, <2>2, Granted
<1>3. ASSUME requireActive(t), ~Ends(t)
      PROVE  Exclusion'
  <2>1. PICK values : MayShare(t, values) /\ Share(t, values) /\ exclusive' = exclusive
    BY <1>3 DEF requireActive
  <2>2. /\ \A u \in Txs : shared'[u] = IF u = t THEN shared[u] \cup values ELSE shared[u]
        /\ \A u \in Txs : exclusive'[u] = IF u = t THEN exclusive[u] \cup {} ELSE exclusive[u]
    BY <2>1 DEF Share, TypeOK
  <2>3. MayWrite(t, {})
    BY DEF MayWrite
  <2> QED
    BY <2>1, <2>2, <2>3, Granted
<1>4. ASSUME EnsureSequence(t)
      PROVE  Exclusion'
  <2> DEFINE row == CounterOf(t)
  <2>1. MayWrite(t, {}) /\ MayShare(t, {})
    BY DEF MayWrite, MayShare
  <2>2. CASE MayShare(t, {row}) /\ Share(t, {row}) /\ exclusive' = exclusive
    <3>1. /\ \A u \in Txs : shared'[u] = IF u = t THEN shared[u] \cup {row} ELSE shared[u]
          /\ \A u \in Txs : exclusive'[u] = IF u = t THEN exclusive[u] \cup {} ELSE exclusive[u]
      BY <2>2 DEF Share, TypeOK
    <3> QED
      BY <2>1, <2>2, <3>1, Granted
  <2>3. CASE MayWrite(t, {row}) /\ Lock(t, {row}) /\ shared' = shared
    <3>1. /\ \A u \in Txs : shared'[u] = IF u = t THEN shared[u] \cup {} ELSE shared[u]
          /\ \A u \in Txs : exclusive'[u] = IF u = t THEN exclusive[u] \cup {row} ELSE exclusive[u]
      BY <2>3 DEF Lock, TypeOK
    <3> QED
      BY <2>1, <2>3, <3>1, Granted
  <2> QED
    BY <1>4, <2>2, <2>3 DEF EnsureSequence
<1>5. Ends(t) => Exclusion'
  BY EndsExclusion
<1> QED
  BY <1>1, <1>2, <1>3, <1>4, <1>5 DEF Request, FinishCreate, FinishEdit, Rollback

\* What the others hold is theirs, whatever a transaction does with its own locks.
LEMMA OthersHeld ==
  ASSUME TypeOK, Held, NEW t \in Txs, NEW transaction,
         tx' = [tx EXCEPT ![t] = transaction],
         \A u \in Txs \ {t} : shared'[u] = shared[u] /\ exclusive'[u] = exclusive[u],
         UNCHANGED <<template, code, status>>,
         \A u \in Txs \ {t} : tx[u].op = "edit" => risk'[tx[u].risk] = risk[tx[u].risk]
  PROVE  \A u \in Txs \ {t} : Creating(u)' /\ Editing(u)'
<1> SUFFICES ASSUME NEW u \in Txs \ {t}
             PROVE  Creating(u)' /\ Editing(u)'
  OBVIOUS
<1>1. tx'[u] = tx[u]
  BY DEF TypeOK
<1> QED
  BY <1>1, Untouched

LEMMA BeginCreateHeld ==
  ASSUME IInv, NEW t \in Txs, NEW g \in Registers, NEW values \in Offers, NEW refs \in BOOLEAN,
         BeginCreate(t, g, values, refs)
  PROVE  Held'
<1>1. /\ tx' = [tx EXCEPT ![t] = Creation(g, values, refs)] /\ UNCHANGED tables
      /\ shared' = [shared EXCEPT ![t] = @ \cup {g}] /\ exclusive' = exclusive
      /\ code[g] # None /\ Fits(template[g], values, refs)
  BY DEF BeginCreate, Begin, Share
<1>2. \A u \in Txs \ {t} : Creating(u)' /\ Editing(u)'
  BY <1>1, OthersHeld DEF IInv, TypeOK, tables
<1>3. tx'[t] = Creation(g, values, refs) /\ g \in shared'[t]
  BY <1>1 DEF IInv, TypeOK
<1>4. Creating(t)' /\ Editing(t)'
  BY <1>1, <1>3 DEF Creating, Editing, Creation, Checked, tables
<1> QED
  BY <1>2, <1>4 DEF Held

LEMMA BeginEditHeld ==
  ASSUME IInv, NEW t \in Txs, NEW k \in Risks, NEW values \in Offers, NEW refs \in BOOLEAN,
         BeginEdit(t, k, values, refs)
  PROVE  Held'
<1> DEFINE next == [op |-> "edit", register |-> risk[k].register, risk |-> k, values |-> values,
                    refs |-> refs, unchecked |-> values \ risk[k].values,
                    template |-> template[risk[k].register], code |-> None]
<1>1. PICK read : /\ tx' = [tx EXCEPT ![t] = next] /\ UNCHANGED tables
                  /\ shared' = [shared EXCEPT ![t] = @ \cup read]
                  /\ exclusive' = [exclusive EXCEPT ![t] = @ \cup {k}]
                  /\ Exists(k) /\ MayBecome(template[risk[k].register], risk[k], values, refs)
  BY DEF BeginEdit, Begin, Share, Lock
<1>2. /\ \A u \in Txs \ {t} : shared'[u] = shared[u] /\ exclusive'[u] = exclusive[u]
      /\ k \in exclusive'[t] /\ tx'[t] = next
  BY <1>1 DEF IInv, TypeOK
<1>3. \A u \in Txs \ {t} : Creating(u)' /\ Editing(u)'
  <2> HIDE DEF next
  <2> QED
    BY <1>1, <1>2, OthersHeld DEF IInv, tables
<1>4. Creating(t)' /\ Editing(t)'
  BY <1>1, <1>2 DEF Creating, Editing, Checked, Exists, tables
<1> QED
  BY <1>3, <1>4 DEF Held

\* A transaction that ends claims nothing any more.
LEMMA EndsHeld ==
  ASSUME TypeOK, Held, NEW t \in Txs, Ends(t), UNCHANGED <<template, code, status>>,
         \A u \in Txs \ {t} : tx[u].op = "edit" => risk'[tx[u].risk] = risk[tx[u].risk]
  PROVE  Held'
<1>1. /\ tx' = [tx EXCEPT ![t] = Idle]
      /\ \A u \in Txs \ {t} : shared'[u] = shared[u] /\ exclusive'[u] = exclusive[u]
  BY DEF Ends, TypeOK
<1>2. \A u \in Txs \ {t} : Creating(u)' /\ Editing(u)'
  BY <1>1, OthersHeld
<1>3. tx'[t] = Idle
  BY <1>1 DEF TypeOK
<1>4. Creating(t)' /\ Editing(t)'
  BY <1>3 DEF Creating, Editing, Idle
<1> QED
  BY <1>2, <1>4 DEF Held

LEMMA requireActiveHeld ==
  ASSUME IInv, NEW t \in Txs, requireActive(t)
  PROVE  Held'
<1> DEFINE values == Turn(tx[t].unchecked)
<1>1. UNCHANGED tables
  BY DEF requireActive
<1>2. CASE Ends(t)
  BY <1>1, <1>2, EndsHeld DEF IInv, tables
<1>3. CASE /\ \A v \in values : status[v] = "ACTIVE"
           /\ tx' = [tx EXCEPT ![t].unchecked = @ \ values]
           /\ Share(t, values) /\ UNCHANGED <<exclusive, bounds>>
  <2> DEFINE next == [tx[t] EXCEPT !.unchecked = @ \ values]
  <2>1. tx[t] \in Transactions
    BY DEF IInv, TypeOK
  <2>2. /\ next.op = tx[t].op /\ next.register = tx[t].register /\ next.risk = tx[t].risk
        /\ next.values = tx[t].values /\ next.refs = tx[t].refs
        /\ next.template = tx[t].template /\ next.code = tx[t].code
        /\ next.unchecked = tx[t].unchecked \ values
    BY <2>1 DEF Transactions
  <2>3. tx' = [tx EXCEPT ![t] = next]
    BY <1>3
  <2> HIDE DEF next, values
  <2>4. /\ shared'[t] = shared[t] \cup values /\ exclusive' = exclusive /\ tx'[t] = next
        /\ \A u \in Txs \ {t} : shared'[u] = shared[u]
    BY <1>3, <2>3 DEF Share, IInv, TypeOK
  <2>5. \A u \in Txs \ {t} : Creating(u)' /\ Editing(u)'
    BY <1>1, <2>3, <2>4, OthersHeld DEF IInv, tables
  <2>6. Creating(t) /\ Editing(t)
    BY DEF IInv, Held
  <2>7. ASSUME NEW some \in SUBSET Values, Checked(t, some)
        PROVE  \A v \in some \ next.unchecked : v \in shared'[t] /\ status'[v] = "ACTIVE"
    BY <1>1, <1>3, <2>2, <2>4, <2>7 DEF Checked, tables
  <2>8. tx[t].values \in SUBSET Values
    BY <2>1 DEF Transactions
  <2>9. Creating(t)'
    BY <1>1, <2>2, <2>4, <2>6, <2>7, <2>8 DEF Creating, Checked, tables
  <2>10. Editing(t)'
    <3> SUFFICES ASSUME tx[t].op = "edit"
                 PROVE  Editing(t)'
      BY <2>2, <2>4 DEF Editing
    <3>1. Checked(t, tx[t].values \ risk[tx[t].risk].values)
      BY <2>6 DEF Editing
    <3>2. (tx[t].values \ risk[tx[t].risk].values) \in SUBSET Values
      BY <2>8
    <3>3. \A v \in (tx[t].values \ risk[tx[t].risk].values) \ next.unchecked :
            v \in shared'[t] /\ status'[v] = "ACTIVE"
      BY <2>7, <3>1, <3>2
    <3>4. Checked(t, tx[t].values \ risk[tx[t].risk].values)'
      BY <1>1, <2>2, <2>4, <3>3 DEF Checked, tables
    <3> QED
      BY <1>1, <2>2, <2>4, <2>6, <3>4 DEF Editing, Exists, tables
  <2> QED
    BY <2>5, <2>9, <2>10 DEF Held
<1> QED
  BY <1>2, <1>3 DEF requireActive

LEMMA EnsureSequenceHeld ==
  ASSUME IInv, NEW t \in Txs, EnsureSequence(t)
  PROVE  Held'
<1>1. UNCHANGED <<tables, tx, bounds>>
  BY DEF EnsureSequence
<1>2. \A u \in Txs : shared[u] \subseteq shared'[u] /\ exclusive[u] \subseteq exclusive'[u]
  BY DEF EnsureSequence, Share, Lock, IInv, TypeOK
<1> QED
  BY <1>1, <1>2, Untouched DEF tables, IInv, Held

LEMMA FinishCreateHeld ==
  ASSUME IInv, NEW t \in Txs, FinishCreate(t)
  PROVE  Held'
<1>1. Ends(t)
  BY DEF FinishCreate
<1>2. CASE UNCHANGED tables
  BY <1>1, <1>2, EndsHeld DEF tables, IInv
<1>3. CASE ~UNCHANGED tables
  <2>1. UNCHANGED <<template, code, status>>
    BY <1>3, FinishCreateWrites
  <2>2. PICK k \in Risks : ~Exists(k) /\ \E new : risk' = [risk EXCEPT ![k] = new]
    BY <1>3, FinishCreateWrites
  <2>3. \A u \in Txs \ {t} : tx[u].op = "edit" => risk'[tx[u].risk] = risk[tx[u].risk]
    <3> SUFFICES ASSUME NEW u \in Txs \ {t}, tx[u].op = "edit"
                 PROVE  risk'[tx[u].risk] = risk[tx[u].risk]
      OBVIOUS
    <3>1. tx[u].risk \in Risks /\ Exists(tx[u].risk)
      BY DEF IInv, Held, Editing
    <3> QED
      BY <2>2, <3>1 DEF IInv, TypeOK
  <2> QED
    BY <1>1, <2>1, <2>3, EndsHeld DEF IInv
<1> QED
  BY <1>2, <1>3

LEMMA FinishEditHeld ==
  ASSUME IInv, NEW t \in Txs, FinishEdit(t)
  PROVE  Held'
<1> DEFINE k == tx[t].risk
<1>1. /\ risk' = [risk EXCEPT ![k].values = tx[t].values, ![k].refs = tx[t].refs]
      /\ UNCHANGED <<template, code, status, last, issued>> /\ Ends(t)
  BY DEF FinishEdit
<1>2. k \in exclusive[t]
  BY DEF FinishEdit, IInv, Held, Editing
<1>3. ASSUME NEW u \in Txs \ {t}, tx[u].op = "edit"
      PROVE  risk'[tx[u].risk] = risk[tx[u].risk]
  <2>1. tx[u].risk \in exclusive[u] /\ tx[u].risk \in Risks
    BY <1>3 DEF IInv, Held, Editing
  <2>2. tx[u].risk # k
    BY <1>2, <2>1 DEF IInv, Exclusion
  <2> QED
    BY <1>1, <2>1, <2>2 DEF IInv, TypeOK
<1> QED
  BY <1>1, <1>3, EndsHeld DEF IInv

LEMMA RequestHeld ==
  ASSUME IInv, NEW t \in Txs, Request(t)
  PROVE  Held'
<1>1. CASE Rollback(t)
  BY <1>1, EndsHeld DEF Rollback, tables, IInv
<1> QED
  BY <1>1, BeginCreateHeld, BeginEditHeld, requireActiveHeld, EnsureSequenceHeld,
     FinishCreateHeld, FinishEditHeld DEF Request

-----------------------------------------------------------------------------
(* What the transactions do to the tables.                                    *)

\* Only the last step of a creation or an edit writes to the tables.
LEMMA RequestWrites ==
  ASSUME NEW t \in Txs, Request(t)
  PROVE  UNCHANGED tables \/ FinishCreate(t) \/ FinishEdit(t)
BY DEF Request, BeginCreate, BeginEdit, Begin, requireActive, EnsureSequence, Rollback

LEMMA RequestOps ==
  ASSUME NEW t \in Txs, Request(t)
  PROVE  ops' = ops
BY DEF Request, BeginCreate, BeginEdit, Begin, requireActive, EnsureSequence, FinishCreate,
       FinishEdit, Rollback, Ends, bounds

\* What an edit writes.
LEMMA FinishEditWrites ==
  ASSUME IInv, NEW t \in Txs, FinishEdit(t)
  PROVE  LET k == tx[t].risk
         IN  /\ k \in Risks /\ Exists(k)
             /\ MayBecome(template[risk[k].register], risk[k], tx[t].values, tx[t].refs)
             /\ \A v \in tx[t].values \ risk[k].values : status[v] = "ACTIVE"
             /\ risk'[k].register = risk[k].register
             /\ risk'[k].values = tx[t].values /\ risk'[k].refs = tx[t].refs
             /\ \A j \in Risks : j # k => risk'[j] = risk[j]
             /\ UNCHANGED <<template, code, status, last, issued>>
<1> DEFINE k == tx[t].risk
<1>1. /\ risk' = [risk EXCEPT ![k].values = tx[t].values, ![k].refs = tx[t].refs]
      /\ UNCHANGED <<template, code, status, last, issued>>
      /\ tx[t].op = "edit" /\ tx[t].unchecked = {} /\ Editing(t)
  BY DEF FinishEdit, IInv, Held
<1>2. /\ k \in Risks /\ Exists(k)
      /\ MayBecome(template[risk[k].register], risk[k], tx[t].values, tx[t].refs)
      /\ \A v \in tx[t].values \ risk[k].values : status[v] = "ACTIVE"
  BY <1>1 DEF Editing, Checked
<1>3. risk[k] \in RiskRows
  BY <1>2, ExistsType DEF IInv
<1>4. /\ risk'[k].register = risk[k].register
      /\ risk'[k].values = tx[t].values /\ risk'[k].refs = tx[t].refs
  BY <1>1, <1>2, <1>3 DEF IInv, TypeOK, RiskRows
<1>5. \A j \in Risks : j # k => risk'[j] = risk[j]
  BY <1>1 DEF IInv, TypeOK
<1> QED
  BY <1>1, <1>2, <1>4, <1>5

LEMMA FinishCreateInv ==
  ASSUME IInv, NEW t \in Txs, FinishCreate(t), ~UNCHANGED tables
  PROVE  (RisksFitRegister /\ Distinct /\ Counted)'
<1> DEFINE row      == CounterOf(t)
           number   == LastOf(row) + 1
           riskCode == <<tx[t].code, CodeOf(row[2]), number>>
           new      == [register |-> tx[t].register, values |-> tx[t].values,
                        refs |-> tx[t].refs, code |-> riskCode]
<1>1. /\ row \in Counters /\ row[1] = tx[t].register
      /\ row[2] # None => status[row[2]] = "ACTIVE"
      /\ number \in Nat
      /\ last' = [r \in DOMAIN last \cup {row} |-> IF r = row THEN number ELSE last[r]]
      /\ issued' = issued \cup {riskCode}
      /\ UNCHANGED <<template, code, status>>
  BY FinishCreateWrites
<1>2. PICK k \in Risks : ~Exists(k) /\ risk' = [risk EXCEPT ![k] = new]
  BY FinishCreateWrites
<1>3. /\ tx[t].register \in Registers /\ tx[t].code = code[tx[t].register] /\ tx[t].code # None
      /\ Fits(template[tx[t].register], tx[t].values, tx[t].refs)
  BY DEF FinishCreate, IInv, Held, Creating
<1>4. /\ risk'[k].register = tx[t].register /\ risk'[k].values = tx[t].values
      /\ risk'[k].refs = tx[t].refs
      /\ \A j \in Risks : j # k => risk'[j] = risk[j]
  BY <1>2 DEF IInv, TypeOK
<1> HIDE DEF row, number, new
<1>5. RisksFitRegister'
  <2> SUFFICES ASSUME NEW j \in Risks, Exists(j)'
               PROVE  Fits(template[risk'[j].register], risk'[j].values, risk'[j].refs)
    BY <1>1 DEF RisksFitRegister, Fits, OfKind
  <2>1. CASE j = k
    BY <1>3, <1>4, <2>1
  <2>2. CASE j # k
    BY <1>4, <2>2 DEF IInv, RisksFitRegister, Exists
  <2> QED
    BY <2>1, <2>2
<1>6. Distinct'
  BY <1>1, <1>3, <1>4 DEF IInv, Distinct, Exists
<1>7. Counted'
  <2>1. \A r \in DOMAIN last' : r[2] # None => status'[r[2]] \in Stored
    BY <1>1 DEF IInv, Counted, Stored
  <2>2. ASSUME "Codes" \notin ops, NEW q \in issued'
        PROVE  \E r \in DOMAIN last' :
                 /\ code[r[1]] # None
                 /\ q[1] = code[r[1]] /\ q[2] = CodeOf(r[2]) /\ q[3] <= last'[r]
    <3>1. CASE q = riskCode
      <4>1. row \in DOMAIN last' /\ last'[row] = number
        BY <1>1
      <4> QED
        BY <1>1, <1>3, <3>1, <4>1
    <3>2. CASE q \in issued
      <4>1. PICK r \in DOMAIN last :
              /\ code[r[1]] # None
              /\ q[1] = code[r[1]] /\ q[2] = CodeOf(r[2]) /\ q[3] <= last[r]
        BY <2>2, <3>2 DEF IInv, Counted
      <4>2. q \in RiskCodes /\ q[3] \in Nat /\ last[r] \in Nat
        BY <3>2 DEF IInv, TypeOK, RiskCodes
      <4>3. r \in DOMAIN last' /\ last'[r] \in Nat /\ last[r] <= last'[r]
        BY <1>1, <4>2 DEF number, LastOf
      <4>4. q[3] <= last'[r]
        BY <4>1, <4>2, <4>3
      <4> QED
        BY <4>1, <4>3, <4>4
    <3> QED
      BY <1>1, <2>2, <3>1, <3>2
  <2>3. ops' = ops
    BY DEF FinishCreate, Ends, bounds
  <2> QED
    BY <1>1, <2>1, <2>2, <2>3 DEF Counted, CodeOf
<1> QED
  BY <1>5, <1>6, <1>7

LEMMA FinishEditInv ==
  ASSUME IInv, NEW t \in Txs, FinishEdit(t)
  PROVE  (RisksFitRegister /\ Distinct /\ Counted)'
<1> DEFINE k == tx[t].risk
<1>1. /\ k \in Risks /\ Exists(k)
      /\ MayBecome(template[risk[k].register], risk[k], tx[t].values, tx[t].refs)
      /\ risk'[k].register = risk[k].register
      /\ risk'[k].values = tx[t].values /\ risk'[k].refs = tx[t].refs
      /\ \A j \in Risks : j # k => risk'[j] = risk[j]
      /\ UNCHANGED <<template, code, status, last, issued>>
  BY FinishEditWrites
<1>2. Fits(template[risk[k].register], tx[t].values, tx[t].refs)
  BY <1>1, MayBecomeFits DEF IInv, RisksFitRegister
<1>3. RisksFitRegister'
  <2> SUFFICES ASSUME NEW j \in Risks, Exists(j)'
               PROVE  Fits(template[risk'[j].register], risk'[j].values, risk'[j].refs)
    BY <1>1 DEF RisksFitRegister, Fits, OfKind
  <2>1. CASE j = k
    BY <1>1, <1>2, <2>1
  <2>2. CASE j # k
    BY <1>1, <2>2 DEF IInv, RisksFitRegister, Exists
  <2> QED
    BY <2>1, <2>2
<1>4. Distinct'
  BY <1>1 DEF IInv, Distinct, Exists
<1>5. ops' = ops
  BY DEF FinishEdit, Ends, bounds
<1>6. Counted'
  BY <1>1, <1>5 DEF IInv, Counted, CodeOf
<1> QED
  BY <1>3, <1>4, <1>6

LEMMA RequestInv ==
  ASSUME IInv, NEW t \in Txs, Request(t)
  PROVE  IInv'
<1>1. TypeOK' /\ Exclusion' /\ Held'
  BY RequestType, RequestExclusion, RequestHeld DEF IInv
<1>2. CASE UNCHANGED tables
  <2>1. ops' = ops
    BY RequestOps
  <2>2. (RisksFitRegister /\ Distinct /\ Counted)'
    BY <1>2, <2>1
       DEF IInv, RisksFitRegister, Distinct, Counted, Exists, CodeOf, tables
  <2> QED
    BY <1>1, <2>2 DEF IInv
<1> QED
  BY <1>1, <1>2, RequestWrites, FinishCreateInv, FinishEditInv DEF IInv

-----------------------------------------------------------------------------
(* What the edits beside them do.                                             *)

\* They leave the transactions what they have read, if they keep off the locked rows.
LEMMA AsideHeld ==
  ASSUME TypeOK, Held, tx' = tx, shared' = shared, exclusive' = exclusive,
         \A u \in Txs, g \in Registers : g \in shared[u] /\ code[g] # None =>
           code'[g] = code[g] /\ template'[g] = template[g],
         \A u \in Txs, v \in Values : v \in shared[u] => status'[v] = status[v],
         \A k \in Risks : Exists(k) => template'[risk[k].register] = template[risk[k].register],
         \A u \in Txs, k \in Risks : k \in exclusive[u] => risk'[k] = risk[k]
  PROVE  Held'
<1> SUFFICES ASSUME NEW u \in Txs
             PROVE  Creating(u)' /\ Editing(u)'
  BY DEF Held
<1>1. tx[u].op = "edit" => tx[u].risk \in Risks /\ tx[u].risk \in exclusive[u]
  BY DEF Held, Editing
<1> QED
  BY <1>1, Untouched

\* What the other properties are about, where the risks are left alone.
LEMMA AsideFits ==
  ASSUME RisksFitRegister, risk' = risk,
         \A k \in Risks : Exists(k) => template'[risk[k].register] = template[risk[k].register]
  PROVE  RisksFitRegister'
BY DEF RisksFitRegister, Fits, OfKind, Exists

LEMMA TemplateInv ==
  ASSUME IInv, Administration, NEW g \in Registers, NEW tm \in Templates, UpdateTemplate(g, tm)
  PROVE  (Held /\ RisksFitRegister /\ Distinct /\ Counted)'
<1>1. /\ tx' = tx /\ shared' = shared /\ exclusive' = exclusive /\ ops' = ops
      /\ UNCHANGED <<code, status, last, risk, issued>>
      /\ \A h \in Registers : h # g => template'[h] = template[h]
  BY Aside DEF UpdateTemplate, IInv, TypeOK
<1>2. \A u \in Txs : g \notin shared[u]
  BY DEF UpdateTemplate, Unlocked
<1>3. \A k \in Risks : Exists(k) => template'[risk[k].register] = template[risk[k].register]
  BY <1>1, ExistsType DEF UpdateTemplate, IInv
<1>4. Held'
  BY <1>1, <1>2, <1>3, AsideHeld DEF IInv
<1>5. RisksFitRegister'
  BY <1>1, <1>3, AsideFits DEF IInv
<1>6. Distinct' /\ Counted'
  BY <1>1 DEF IInv, Distinct, Counted, Exists, CodeOf
<1> QED
  BY <1>4, <1>5, <1>6

LEMMA CreateRiskTeamInv ==
  ASSUME IInv, Administration, NEW g \in Registers, NEW new \in Codes, NEW tm \in Templates,
         CreateRiskTeam(g, new, tm)
  PROVE  (Held /\ RisksFitRegister /\ Distinct /\ Counted)'
<1>1. /\ tx' = tx /\ shared' = shared /\ exclusive' = exclusive /\ ops' = ops
      /\ UNCHANGED <<status, last, risk, issued>>
  BY Aside DEF CreateRiskTeam
<1>2. /\ code[g] = None /\ \A h \in Registers : code[h] # new
      /\ \A h \in Registers : h # g => template'[h] = template[h]
      /\ code'[g] = new /\ \A h \in Registers \cup Customers : h # g => code'[h] = code[h]
      /\ "Codes" \in ops /\ new # None
  BY DEF CreateRiskTeam, Change, IInv, TypeOK
<1>3. \A k \in Risks : Exists(k) => risk[k].register # g /\ risk[k].register \in Registers
  BY <1>2, ExistsType DEF IInv, Distinct
<1>4. Held'
  BY <1>1, <1>2, <1>3, AsideHeld DEF IInv
<1>5. RisksFitRegister'
  BY <1>1, <1>2, <1>3, AsideFits DEF IInv
<1>6. \A c \in Customers : code'[c] = code[c]
  BY <1>2 DEF Customers
<1>7. Distinct'
  BY <1>1, <1>2, <1>3, <1>6 DEF IInv, Distinct, Exists
<1>8. Counted'
  BY <1>1, <1>2 DEF IInv, Counted
<1> QED
  BY <1>4, <1>5, <1>7, <1>8

LEMMA RecodeRegisterInv ==
  ASSUME IInv, Administration, NEW g \in Registers, NEW new \in Codes, RecodeRegister(g, new)
  PROVE  (Held /\ RisksFitRegister /\ Distinct /\ Counted)'
<1>1. /\ tx' = tx /\ shared' = shared /\ exclusive' = exclusive /\ ops' = ops
      /\ UNCHANGED <<template, status, last, risk, issued>>
  BY Aside DEF RecodeRegister
<1>2. /\ code[g] # None /\ \A h \in Registers : code[h] # new
      /\ code'[g] = new /\ \A h \in Registers \cup Customers : h # g => code'[h] = code[h]
      /\ "Codes" \in ops /\ new # None
  BY DEF RecodeRegister, Change, IInv, TypeOK
<1>3. \A u \in Txs : g \notin shared[u]
  BY DEF RecodeRegister, Unlocked
<1>4. Held'
  BY <1>1, <1>2, <1>3, AsideHeld DEF IInv
<1>5. RisksFitRegister'
  BY <1>1, AsideFits DEF IInv
<1>6. \A c \in Customers : code'[c] = code[c]
  BY <1>2 DEF Customers
<1>7. \A k \in Risks : Exists(k) => risk[k].register \in Registers
  BY ExistsType DEF IInv
<1>8. Distinct'
  BY <1>1, <1>2, <1>6, <1>7 DEF IInv, Distinct, Exists
<1>9. Counted'
  BY <1>1, <1>2 DEF IInv, Counted
<1> QED
  BY <1>4, <1>5, <1>8, <1>9

\* Edits of values: nothing but their status, and the code of a customer, changes.
LEMMA LookupInv ==
  ASSUME IInv, Administration, NEW v \in Values, Unlocked({v}),
         UNCHANGED <<template, last, risk, issued>>,
         \A w \in Values : w # v => status'[w] = status[w],
         \A row \in Registers \cup Customers : row # v => code'[row] = code[row],
         \A row \in DOMAIN last : row[2] = v =>
           code'[v] = code[v] /\ (status[v] \in Stored => status'[v] \in Stored),
         v \in Customers /\ status'[v] \in Stored =>
           /\ code'[v] # None
           /\ \A d \in Customers \ {v} : status[d] \in Stored => code[d] # code'[v]
  PROVE  (Held /\ RisksFitRegister /\ Distinct /\ Counted)'
<1>1. /\ tx' = tx /\ shared' = shared /\ exclusive' = exclusive /\ ops' = ops
  BY Aside
<1>2. \A g \in Registers : code'[g] = code[g]
  BY DEF Customers
<1>3. Held'
  BY <1>1, <1>2, AsideHeld DEF IInv, Unlocked
<1>4. RisksFitRegister'
  BY AsideFits DEF IInv
<1>5. \A k \in Risks : Exists(k) => risk[k].register \in Registers
  BY ExistsType DEF IInv
<1>6. \A c \in Customers : c \in Values
  BY DEF Customers
<1>7. Distinct'
  <2>1. \A g, h \in Registers : code'[g] = code'[h] /\ code'[g] # None => g = h
    BY <1>2 DEF IInv, Distinct
  <2>2. ASSUME NEW c \in Customers, NEW d \in Customers,
               status'[c] \in Stored, status'[d] \in Stored, code'[c] = code'[d]
        PROVE  c = d
    BY <1>6, <2>2 DEF IInv, Distinct
  <2>3. \A c \in Customers : status'[c] \in Stored => code'[c] # None
    BY <1>6 DEF IInv, Distinct
  <2>4. \A k \in Risks : Exists(k)' => code'[risk'[k].register] # None
    BY <1>2, <1>5 DEF IInv, Distinct, Exists
  <2> QED
    BY <2>1, <2>2, <2>3, <2>4 DEF Distinct
<1>8. \A row \in DOMAIN last : row[1] \in Registers /\ row[2] \in Customers \cup {None}
  BY DEF IInv, TypeOK, Counters
<1>9. \A row \in DOMAIN last : CodeOf(row[2])' = CodeOf(row[2])
  BY <1>8 DEF CodeOf
<1>10. Counted'
  <2>1. \A row \in DOMAIN last' : row[2] # None => status'[row[2]] \in Stored
    BY <1>6, <1>8 DEF IInv, Counted
  <2>2. ASSUME "Codes" \notin ops, NEW q \in issued
        PROVE  \E row \in DOMAIN last' :
                 /\ code'[row[1]] # None
                 /\ q[1] = code'[row[1]] /\ q[2] = CodeOf(row[2])' /\ q[3] <= last'[row]
    BY <1>2, <1>8, <1>9, <2>2 DEF IInv, Counted
  <2> QED
    BY <1>1, <2>1, <2>2 DEF Counted
<1> QED
  BY <1>3, <1>4, <1>7, <1>10

LEMMA SwitchStatusInv ==
  ASSUME IInv, Administration, NEW v \in Values, SwitchStatus(v)
  PROVE  (Held /\ RisksFitRegister /\ Distinct /\ Counted)'
<1>1. PICK s \in Stored : status' = [status EXCEPT ![v] = s]
  BY DEF SwitchStatus, Stored
<1>2. /\ UNCHANGED <<template, code, last, risk, issued>>
      /\ Unlocked({v}) /\ status[v] \in Stored
  BY DEF SwitchStatus
<1>3. /\ \A w \in Values : w # v => status'[w] = status[w]
      /\ status'[v] \in Stored
  BY <1>1 DEF IInv, TypeOK
<1>4. v \in Customers =>
        code[v] # None /\ \A d \in Customers \ {v} : status[d] \in Stored => code[d] # code[v]
  BY <1>2 DEF IInv, Distinct
<1> QED
  BY <1>2, <1>3, <1>4, LookupInv

LEMMA DeleteRiskLookupInv ==
  ASSUME IInv, Administration, NEW v \in Values, DeleteRiskLookup(v)
  PROVE  (Held /\ RisksFitRegister /\ Distinct /\ Counted)'
<1>1. /\ UNCHANGED <<template, code, last, risk, issued>>
      /\ Unlocked({v})
      /\ \A row \in DOMAIN last : row[2] # v
      /\ \A w \in Values : w # v => status'[w] = status[w]
      /\ status'[v] \notin Stored
  BY DEF DeleteRiskLookup, inUse, IInv, TypeOK, Stored
<1> QED
  BY <1>1, LookupInv

LEMMA CreateRiskLookupInv ==
  ASSUME IInv, Administration, NEW v \in Values, NEW new \in Codes, CreateRiskLookup(v, new)
  PROVE  (Held /\ RisksFitRegister /\ Distinct /\ Counted)'
<1>1. /\ UNCHANGED <<template, last, risk, issued>>
      /\ Unlocked({v}) /\ status[v] = "new"
      /\ \A w \in Values : w # v => status'[w] = status[w]
  BY DEF CreateRiskLookup, IInv, TypeOK
<1>2. \A row \in DOMAIN last : row[2] # v
  BY <1>1 DEF IInv, Counted, Stored
<1>3. \A row \in Registers \cup Customers : row # v => code'[row] = code[row]
  BY DEF CreateRiskLookup, IInv, TypeOK
<1>4. v \in Customers =>
        code'[v] # None /\ \A d \in Customers \ {v} : status[d] \in Stored => code[d] # code'[v]
  BY DEF CreateRiskLookup, CodeFree, IInv, TypeOK
<1> QED
  BY <1>1, <1>2, <1>3, <1>4, LookupInv

LEMMA RecodeCustomerInv ==
  ASSUME IInv, Administration, NEW c \in Customers, NEW new \in Codes, RecodeCustomer(c, new)
  PROVE  (Held /\ RisksFitRegister /\ Distinct /\ Counted)'
<1>1. /\ UNCHANGED <<template, status, last, risk, issued>>
      /\ Unlocked({c}) /\ c \in Values
      /\ \A row \in DOMAIN last : row[2] # c
      /\ \A row \in Registers \cup Customers : row # c => code'[row] = code[row]
      /\ code'[c] = new /\ new # None
      /\ \A d \in Customers \ {c} : status[d] \in Stored => code[d] # new
  BY DEF RecodeCustomer, inUse, CodeFree, IInv, TypeOK, Customers
<1> QED
  BY <1>1, LookupInv

LEMMA RollbackImportInv ==
  ASSUME IInv, Administration, NEW gone \in SUBSET Risks, RollbackImport(gone)
  PROVE  (Held /\ RisksFitRegister /\ Distinct /\ Counted)'
<1>1. /\ tx' = tx /\ shared' = shared /\ exclusive' = exclusive /\ ops' = ops
      /\ UNCHANGED <<template, code, status, last, issued>>
      /\ \A k \in Risks : risk'[k] = IF k \in gone THEN NoRisk ELSE risk[k]
  BY Aside DEF RollbackImport
<1>2. \A u \in Txs, k \in Risks : k \in exclusive[u] => k \notin gone
  BY DEF RollbackImport, Unlocked
<1>3. Held'
  BY <1>1, <1>2, AsideHeld DEF IInv
<1>4. \A k \in Risks : Exists(k)' => Exists(k) /\ risk'[k] = risk[k]
  BY <1>1 DEF Exists, NoRisk
<1>5. RisksFitRegister'
  BY <1>1, <1>4 DEF IInv, RisksFitRegister, Fits, OfKind
<1>6. Distinct' /\ Counted'
  BY <1>1, <1>4 DEF IInv, Distinct, Counted, CodeOf
<1> QED
  BY <1>3, <1>5, <1>6

LEMMA AdministrationInv ==
  ASSUME IInv, Administration
  PROVE  IInv'
<1>1. TypeOK'
  BY AdministrationType
<1>2. Exclusion'
  BY Aside DEF IInv, Exclusion
<1>3. (Held /\ RisksFitRegister /\ Distinct /\ Counted)'
  BY TemplateInv, CreateRiskTeamInv, RecodeRegisterInv, SwitchStatusInv, DeleteRiskLookupInv,
     CreateRiskLookupInv, RecodeCustomerInv, RollbackImportInv DEF Administration
<1> QED
  BY <1>1, <1>2, <1>3 DEF IInv

-----------------------------------------------------------------------------
(* The theorems.                                                              *)

LEMMA InitInv == Init => IInv
<1> SUFFICES ASSUME Init
             PROVE  IInv
  OBVIOUS
<1>1. TypeOK
  BY InitType
<1>2. Exclusion /\ Held
  BY DEF Init, Exclusion, Held, Creating, Editing, Idle
<1>3. RisksFitRegister
  BY DEF Init, RisksFitRegister, Exists, NoRisk
<1>4. /\ \A row \in Registers \cup Customers : code[row] = None <=> row \in Fresh
      /\ \A g, h \in Registers \ Fresh : code[g] = code[h] => g = h
      /\ \A c, d \in Customers \ Fresh : code[c] = code[d] => c = d
      /\ \A v \in Values : status[v] = IF v \in Fresh THEN "new" ELSE "ACTIVE"
      /\ \A k \in Risks : ~Exists(k)
  BY DEF Init, Exists, NoRisk
<1>5. \A c \in Customers : status[c] \in Stored => c \notin Fresh
  BY <1>4 DEF Stored, Customers
<1>6. Distinct
  BY <1>4, <1>5 DEF Distinct
<1>7. Counted
  BY DEF Init, Counted
<1> QED
  BY <1>1, <1>2, <1>3, <1>6, <1>7 DEF IInv

LEMMA StepInv == IInv /\ [Next]_vars => IInv'
<1> SUFFICES ASSUME IInv, [Next]_vars
             PROVE  IInv'
  OBVIOUS
<1>1. CASE Administration
  BY <1>1, AdministrationInv
<1>2. ASSUME NEW t \in Txs, Request(t)
      PROVE  IInv'
  BY <1>2, RequestInv
<1>3. CASE UNCHANGED vars
  <2>1. TypeOK' /\ Exclusion'
    BY <1>3 DEF IInv, TypeOK, Exclusion, Exists, vars, tables, locks, bounds
  <2>2. Held'
    BY <1>3 DEF IInv, Held, Creating, Editing, Checked, Exists, vars, tables, locks, bounds
  <2>3. (RisksFitRegister /\ Distinct /\ Counted)'
    BY <1>3 DEF IInv, RisksFitRegister, Distinct, Counted, CodeOf, Exists, vars, tables, locks, bounds
  <2> QED
    BY <2>1, <2>2, <2>3 DEF IInv
<1> QED
  BY <1>1, <1>2, <1>3 DEF Next

\* The locks, what was read under them and what the counters know stay true together.
THEOREM Invariance == Spec => []IInv
BY InitInv, StepInv, PTL DEF Spec

\* Every table, transaction and lock stays within its type.
THEOREM TypeCorrect == Spec => []TypeOK
<1>1. IInv => TypeOK
  BY DEF IInv
<1> QED
  BY <1>1, Invariance, PTL

\* A risk carries the fields of its register's template and no others, however creations,
\* edits, switches of templates and of values overlap.
THEOREM RisksFitHolds == Spec => []RisksFitRegister
<1>1. IInv => RisksFitRegister
  BY DEF IInv
<1> QED
  BY <1>1, Invariance, PTL

\* What the counters know suffices: their next numbers complete codes nobody was given.
LEMMA CountedFree ==
  ASSUME TypeOK, Distinct, Counted
  PROVE  NextCodeFree
<1> SUFFICES ASSUME "Codes" \notin ops, NEW g \in Registers, code[g] # None,
                    NEW c \in {None} \cup {d \in Customers : status[d] \in Stored},
                    <<code[g], CodeOf(c), LastOf(<<g, c>>) + 1>> \in issued
             PROVE  FALSE
  BY DEF NextCodeFree
<1>1. PICK row \in DOMAIN last :
        /\ code[row[1]] # None
        /\ code[g] = code[row[1]] /\ CodeOf(c) = CodeOf(row[2])
        /\ LastOf(<<g, c>>) + 1 <= last[row]
  BY DEF Counted
<1>2. row \in Counters /\ row[1] \in Registers /\ row[2] \in Customers \cup {None}
      /\ row = <<row[1], row[2]>> /\ last[row] \in Nat
  BY DEF TypeOK, Counters
<1>3. row[1] = g
  BY <1>1, <1>2 DEF Distinct
<1>4. row[2] = c
  <2>1. row[2] # None => status[row[2]] \in Stored
    BY DEF Counted
  <2> QED
    BY <1>1, <1>2, <2>1 DEF Distinct, CodeOf
<1>5. LastOf(<<g, c>>) = last[row]
  BY <1>2, <1>3, <1>4 DEF LastOf
<1> QED
  BY <1>1, <1>2, <1>5

\* No counter stands where its next number completes a code given before.
THEOREM NextCodeFreeHolds == Spec => []NextCodeFree
<1>1. IInv => NextCodeFree
  BY CountedFree DEF IInv
<1> QED
  BY <1>1, Invariance, PTL

LEMMA AddsActive ==
  ASSUME IInv, Next, NEW k \in Risks, NEW v \in risk'[k].values \ risk[k].values
  PROVE  status[v] = "ACTIVE"
<1>1. CASE Administration
  <2>1. \/ risk' = risk
        \/ \E gone \in SUBSET Risks : risk' = [j \in Risks |-> IF j \in gone THEN NoRisk ELSE risk[j]]
    BY <1>1 DEF Administration, UpdateTemplate, CreateRiskTeam, RecodeRegister, SwitchStatus,
                DeleteRiskLookup, CreateRiskLookup, RecodeCustomer, RollbackImport
  <2> QED
    BY <2>1 DEF NoRisk
<1>2. ASSUME NEW t \in Txs, FinishCreate(t), ~UNCHANGED tables
      PROVE  status[v] = "ACTIVE"
  <2> DEFINE row == CounterOf(t)
             new == [register |-> tx[t].register, values |-> tx[t].values, refs |-> tx[t].refs,
                     code |-> <<tx[t].code, CodeOf(row[2]), LastOf(row) + 1>>]
  <2>1. PICK j \in Risks : risk' = [risk EXCEPT ![j] = new]
    BY <1>2, FinishCreateWrites
  <2>2. v \in tx[t].values
    <3>1. new.values = tx[t].values
      OBVIOUS
    <3> HIDE DEF new
    <3> QED
      BY <2>1, <3>1 DEF IInv, TypeOK
  <2> QED
    BY <1>2, <2>2, FinishCreateWrites
<1>3. ASSUME NEW t \in Txs, FinishEdit(t)
      PROVE  status[v] = "ACTIVE"
  BY <1>3, FinishEditWrites
<1>4. ASSUME UNCHANGED tables
      PROVE  FALSE
  BY <1>4 DEF tables
<1> QED
  BY <1>1, <1>2, <1>3, <1>4, RequestWrites DEF Next

\* Whatever a risk gets is ACTIVE when it gets it.
THEOREM AddedActiveHolds == Spec => AddedValuesActive
<1>1. IInv /\ [Next]_vars =>
        [\A k \in Risks : \A v \in risk'[k].values \ risk[k].values : status[v] = "ACTIVE"]_vars
  BY AddsActive
<1> QED
  BY <1>1, Invariance, PTL DEF Spec, AddedValuesActive

=============================================================================
