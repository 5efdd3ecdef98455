----------------------------- MODULE Registers -----------------------------
(* The registers of the compliance entity: what a risk carries on each        *)
(* register template, the lookup values it refers to, and the counters its    *)
(* code is numbered by.  Creations and edits of risks are transactions of     *)
(* several statements that hold row locks until they end; whoever edits the   *)
(* registers and the values beside them takes one lock, and is one step.      *)
EXTENDS Naturals

CONSTANTS Registers, Values,     \* registers (risk_team), and the rows of the four lookup tables
          Kind,                  \* the table of each value
          Fresh,                 \* the registers and values that are yet to be added
          Risks,                 \* places for risks
          Codes,                 \* what registers and customers may be called in codes
          Txs,                   \* places for transactions
          MaxRequests,           \* bound on the transactions begun and the edits beside them
          Mixes,                 \* sets of what may happen together
          None                   \* no register, no customer, no risk

Templates == {"STANDARD", "AGGREGATED", "MANAGED_SERVICES"}

Kinds == {"platform", "product", "customer", "deploymentType"}

Customers == {v \in Values : Kind[v] = "customer"}

Counters == Registers \X (Customers \cup {None})

Rows == Registers \cup Values \cup Risks \cup Counters

AllOps == {"Template", "Codes", "Status", "Lookups", "Rollback"}

ASSUME RegistersAssumption ==
  /\ Kind \in [Values -> Kinds] /\ Fresh \subseteq Registers \cup Values
  /\ None \notin Registers \cup Values \cup Risks \cup Codes
  /\ Registers \cap Values = {}
  /\ MaxRequests \in Nat
  /\ Mixes \subseteq SUBSET AllOps

VARIABLES template,   \* risk_team.register_template
          code,       \* risk_team.code and risk_customer.code; None of a register yet to be added
          status,     \* of each value; "new" before it is added, "deleted" after
          last,       \* last_sequence_number of the counters that have a row
          risk,       \* the risks
          issued,     \* history: every code a committed risk was given
          tx,         \* the transactions
          shared,     \* the rows each of them has locked FOR SHARE
          exclusive,  \* and FOR UPDATE
          requests,
          ops         \* what may happen in this behaviour

tables == <<template, code, status, last, risk, issued>>
locks == <<shared, exclusive>>
bounds == <<requests, ops>>
vars == <<tables, tx, locks, bounds>>

\* <<the register's code, the customer's, the number>>
RiskCodes == Codes \X (Codes \cup {None}) \X Nat

\* refs: whether it has compliance references.
RiskRows == [register : Registers, values : SUBSET Values, refs : BOOLEAN, code : RiskCodes]

NoRisk == [register |-> None, values |-> {}, refs |-> FALSE, code |-> None]

Exists(k) == risk[k].register # None

\* values, refs: what the risk will have; unchecked: those not yet found ACTIVE;
\* template, code: as read from the register.
Transactions ==
  [op : {"none", "create", "edit"}, register : Registers \cup {None}, risk : Risks \cup {None},
   values : SUBSET Values, refs : BOOLEAN, unchecked : SUBSET Values,
   template : Templates, code : Codes \cup {None}]

Idle == [op |-> "none", register |-> None, risk |-> None, values |-> {}, refs |-> FALSE,
         unchecked |-> {}, template |-> "STANDARD", code |-> None]

Stored == {"ACTIVE", "INACTIVE"}

TypeOK ==
  /\ template \in [Registers -> Templates]
  /\ code \in [Registers \cup Customers -> Codes \cup {None}]
  /\ status \in [Values -> Stored \cup {"new", "deleted"}]
  /\ DOMAIN last \subseteq Counters /\ \A row \in DOMAIN last : last[row] \in Nat
  /\ risk \in [Risks -> RiskRows \cup {NoRisk}]
  /\ \A k \in Risks : \A v \in risk[k].values : status[v] \in Stored
  /\ issued \subseteq RiskCodes
  /\ tx \in [Txs -> Transactions]
  /\ shared \in [Txs -> SUBSET Rows] /\ exclusive \in [Txs -> SUBSET Rows]
  /\ requests \in Nat /\ ops \in Mixes

Init ==
  /\ template \in {tm \in [Registers -> Templates] : \A g \in Fresh \cap Registers : tm[g] = "STANDARD"}
  /\ code \in [Registers \cup Customers -> Codes \cup {None}]
  /\ \A row \in Registers \cup Customers : code[row] = None <=> row \in Fresh
  /\ \A g, h \in Registers \ Fresh : code[g] = code[h] => g = h
  /\ \A c, d \in Customers \ Fresh : code[c] = code[d] => c = d
  /\ status = [v \in Values |-> IF v \in Fresh THEN "new" ELSE "ACTIVE"]
  /\ last = [row \in {} |-> 0]
  /\ risk = [k \in Risks |-> NoRisk]
  /\ issued = {}
  /\ tx = [t \in Txs |-> Idle]
  /\ shared = [t \in Txs |-> {}] /\ exclusive = [t \in Txs |-> {}]
  /\ requests = 0 /\ ops \in Mixes

-----------------------------------------------------------------------------
(* The row locks of InnoDB.                                                  *)

MayShare(t, rows) == \A u \in Txs \ {t} : rows \cap exclusive[u] = {}

MayWrite(t, rows) == \A u \in Txs \ {t} : rows \cap (shared[u] \cup exclusive[u]) = {}

Unlocked(rows) == \A u \in Txs : rows \cap (shared[u] \cup exclusive[u]) = {}

Share(t, rows) == shared' = [shared EXCEPT ![t] = @ \cup rows]

Lock(t, rows) == exclusive' = [exclusive EXCEPT ![t] = @ \cup rows]

\* Commit or rollback.
Ends(t) ==
  /\ tx' = [tx EXCEPT ![t] = Idle]
  /\ shared' = [shared EXCEPT ![t] = {}] /\ exclusive' = [exclusive EXCEPT ![t] = {}]
  /\ UNCHANGED bounds

-----------------------------------------------------------------------------
(* What a template asks of a risk.                                           *)

OfKind(values, kind) == {v \in values : Kind[v] = kind}

\* The kinds of values a template has, and requires.
Fields(tm) ==
  CASE tm = "STANDARD"         -> {}
    [] tm = "AGGREGATED"       -> {"platform"}
    [] tm = "MANAGED_SERVICES" -> {"customer", "deploymentType", "product"}

\* A risk has one customer and one deployment type, where it has any.
Single(values) ==
  \A kind \in {"customer", "deploymentType"} : \A u, v \in OfKind(values, kind) : u = v

\* What a request may ask for.
Offers == {values \in SUBSET Values : Single(values)}

\* checkTemplateFields
Fits(tm, values, refs) ==
  /\ \A kind \in Kinds : OfKind(values, kind) # {} <=> kind \in Fields(tm)
  /\ refs => tm # "MANAGED_SERVICES"

\* checkTemplateUpdate: what is changed is a field of the template and is not emptied; a
\* risk keeps its customer.
MayBecome(tm, old, values, refs) ==
  /\ \A kind \in Kinds :
       OfKind(values, kind) # OfKind(old.values, kind) =>
         kind \in Fields(tm) \ {"customer"} /\ OfKind(values, kind) # {}
  /\ refs => old.refs \/ tm # "MANAGED_SERVICES"

-----------------------------------------------------------------------------
(* Transactions on risks.                                                    *)

Begin(t, transaction) ==
  /\ tx[t].op = "none" /\ requests < MaxRequests
  /\ requests' = requests + 1
  /\ tx' = [tx EXCEPT ![t] = transaction]
  /\ UNCHANGED <<tables, ops>>

Creation(g, values, refs) ==
  [op |-> "create", register |-> g, risk |-> None, values |-> values, refs |-> refs, unchecked |-> values,
   template |-> template[g], code |-> code[g]]

\* Mutant: the register is read without a lock.
BeginCreate_Unlocked(t, g, values, refs) ==
  /\ code[g] # None
  /\ Fits(template[g], values, refs)
  /\ Begin(t, Creation(g, values, refs))
  /\ UNCHANGED locks

\* CreateRisk reads the register FOR SHARE and checks the fields that were sent.
BeginCreate(t, g, values, refs) ==
  /\ code[g] # None /\ MayShare(t, {g})
  /\ Fits(template[g], values, refs)
  /\ Begin(t, Creation(g, values, refs))
  /\ Share(t, {g}) /\ UNCHANGED exclusive

\* UpdateRisk locks the risk, reads its register FOR SHARE, and checks the change.  One
\* that only takes references away (touchesTemplate) leaves the register alone.
BeginEdit(t, k, values, refs) ==
  LET g    == risk[k].register
      read == IF values # risk[k].values \/ refs THEN {g} ELSE {}
  IN
  /\ Exists(k) /\ <<values, refs>> # <<risk[k].values, risk[k].refs>>
  /\ MayWrite(t, {k}) /\ MayShare(t, read)
  /\ MayBecome(template[g], risk[k], values, refs)
  /\ Begin(t, [op |-> "edit", register |-> g, risk |-> k, values |-> values, refs |-> refs,
               unchecked |-> values \ risk[k].values, template |-> template[g], code |-> None])
  /\ Share(t, read) /\ Lock(t, {k})

\* The tables are asked one after the other.
Rank == [platform |-> 1, product |-> 2, customer |-> 3, deploymentType |-> 4]

Turn(values) == {v \in values : \A u \in values : Rank[Kind[v]] <= Rank[Kind[u]]}

\* Mutant: the values are read without a lock.
requireActive_Unlocked(t) ==
  LET values == Turn(tx[t].unchecked) IN
  /\ tx[t].unchecked # {}
  /\ \/ /\ \A v \in values : status[v] = "ACTIVE"
        /\ tx' = [tx EXCEPT ![t].unchecked = @ \ values]
        /\ UNCHANGED <<locks, bounds>>
     \/ (\E v \in values : status[v] # "ACTIVE") /\ Ends(t)
  /\ UNCHANGED tables

\* The values of the next table, read FOR SHARE, must be ACTIVE.
requireActive(t) ==
  LET values == Turn(tx[t].unchecked) IN
  /\ tx[t].unchecked # {} /\ MayShare(t, values)
  /\ \/ /\ \A v \in values : status[v] = "ACTIVE"
        /\ tx' = [tx EXCEPT ![t].unchecked = @ \ values]
        /\ Share(t, values) /\ UNCHANGED <<exclusive, bounds>>
     \/ (\E v \in values : status[v] # "ACTIVE") /\ Ends(t)
  /\ UNCHANGED tables

CustomerOf(values) ==
  LET customers == OfKind(values, "customer")
  IN IF customers = {} THEN None ELSE CHOOSE c \in customers : TRUE

CounterOf(t) ==
  <<tx[t].register, IF tx[t].template = "MANAGED_SERVICES" THEN CustomerOf(tx[t].values) ELSE None>>

\* INSERT IGNORE: a row that is there is locked FOR SHARE by it, a new one FOR UPDATE.
EnsureSequence(t) ==
  LET row == CounterOf(t) IN
  /\ tx[t].op = "create" /\ tx[t].unchecked = {} /\ row \notin shared[t] \cup exclusive[t]
  /\ IF row \in DOMAIN last
       THEN MayShare(t, {row}) /\ Share(t, {row}) /\ UNCHANGED exclusive
       ELSE MayWrite(t, {row}) /\ Lock(t, {row}) /\ UNCHANGED shared
  /\ UNCHANGED <<tables, tx, bounds>>

LastOf(row) == IF row \in DOMAIN last THEN last[row] ELSE 0

CodeOf(customer) == IF customer = None THEN None ELSE code[customer]

\* Unique key uq_risk_code.
CodeTaken(riskCode) == \E k \in Risks : Exists(k) /\ risk[k].code = riskCode

\* The counter is locked FOR UPDATE and counts on, and the risk is inserted: unless a
\* risk has its code, in which case the counter goes back with the rest.
FinishCreate(t) ==
  LET row      == CounterOf(t)
      number   == LastOf(row) + 1
      riskCode == <<tx[t].code, CodeOf(row[2]), number>>
  IN
  /\ tx[t].op = "create" /\ tx[t].unchecked = {} /\ row \in shared[t] \cup exclusive[t]
  /\ MayWrite(t, {row})
  /\ Ends(t)
  /\ IF CodeTaken(riskCode) THEN UNCHANGED tables
     ELSE \E k \in Risks :
       /\ ~Exists(k)
       /\ risk' = [risk EXCEPT ![k] = [register |-> tx[t].register, values |-> tx[t].values,
                                       refs |-> tx[t].refs, code |-> riskCode]]
       /\ last' = [r \in DOMAIN last \cup {row} |-> IF r = row THEN number ELSE last[r]]
       /\ issued' = issued \cup {riskCode}
       /\ UNCHANGED <<template, code, status>>

FinishEdit(t) ==
  LET k == tx[t].risk IN
  /\ tx[t].op = "edit" /\ tx[t].unchecked = {}
  /\ Ends(t)
  /\ risk' = [risk EXCEPT ![k].values = tx[t].values, ![k].refs = tx[t].refs]
  /\ UNCHANGED <<template, code, status, last, issued>>

\* A statement fails, waits too long or is picked to end a deadlock, or the status
\* expected of the risk is not its status.
Rollback(t) == tx[t].op # "none" /\ Ends(t) /\ UNCHANGED tables

-----------------------------------------------------------------------------
(* The edits beside them.                                                    *)

Change(op) ==
  /\ op \in ops /\ requests < MaxRequests
  /\ requests' = requests + 1
  /\ UNCHANGED <<tx, locks, ops>>

CreateRiskTeam(g, new, tm) ==
  /\ Change("Codes")
  /\ code[g] = None /\ \A h \in Registers : code[h] # new
  /\ code' = [code EXCEPT ![g] = new] /\ template' = [template EXCEPT ![g] = tm]
  /\ UNCHANGED <<status, last, risk, issued>>

\* Its template is fixed once a register has a risk.
UpdateTemplate(g, tm) ==
  /\ Change("Template") /\ Unlocked({g})
  /\ code[g] # None /\ tm # template[g] /\ \A k \in Risks : risk[k].register # g
  /\ template' = [template EXCEPT ![g] = tm]
  /\ UNCHANGED <<code, status, last, risk, issued>>

\* Its code is not.
RecodeRegister(g, new) ==
  /\ Change("Codes") /\ Unlocked({g})
  /\ code[g] # None /\ \A h \in Registers : code[h] # new
  /\ code' = [code EXCEPT ![g] = new]
  /\ UNCHANGED <<template, status, last, risk, issued>>

\* Mutant: only references count.
inUse_References(v) == \E k \in Risks : v \in risk[k].values

\* A risk refers to it, or a code with the customer's was issued.
inUse(v) ==
  \/ \E k \in Risks : v \in risk[k].values
  \/ \E row \in DOMAIN last : row[2] = v

SwitchStatus(v) ==
  /\ Change("Status") /\ Unlocked({v})
  /\ status[v] \in Stored
  /\ status' = [status EXCEPT ![v] = CHOOSE s \in Stored : s # @]
  /\ UNCHANGED <<template, code, last, risk, issued>>

\* Unique key uq_risk_customer_code.
CodeFree(c, new) == \A d \in Customers \ {c} : status[d] \in Stored => code[d] # new

RecodeCustomer(c, new) ==
  /\ Change("Lookups") /\ Unlocked({c})
  /\ status[c] \in Stored /\ ~inUse(c) /\ CodeFree(c, new) /\ new # code[c]
  /\ code' = [code EXCEPT ![c] = new]
  /\ UNCHANGED <<template, status, last, risk, issued>>

\* Mutant: whatever refers to the value.
DeleteRiskLookup_Used(v) ==
  /\ Change("Lookups") /\ Unlocked({v})
  /\ status[v] \in Stored
  /\ status' = [status EXCEPT ![v] = "deleted"]
  /\ UNCHANGED <<template, code, last, risk, issued>>

DeleteRiskLookup(v) ==
  /\ Change("Lookups") /\ Unlocked({v})
  /\ status[v] \in Stored /\ ~inUse(v)
  /\ status' = [status EXCEPT ![v] = "deleted"]
  /\ UNCHANGED <<template, code, last, risk, issued>>

CreateRiskLookup(v, new) ==
  /\ Change("Lookups") /\ Unlocked({v})
  /\ status[v] = "new"
  /\ status' = [status EXCEPT ![v] = "ACTIVE"]
  /\ IF v \in Customers
       THEN CodeFree(v, new) /\ code' = [code EXCEPT ![v] = new]
       ELSE UNCHANGED code
  /\ UNCHANGED <<template, last, risk, issued>>

\* rollback.sql: imported risks of Managed Services go; the counters are left alone.
RollbackImport(gone) ==
  /\ Change("Rollback") /\ Unlocked(gone)
  /\ gone # {} /\ \A k \in gone : Exists(k) /\ OfKind(risk[k].values, "customer") # {}
  /\ risk' = [k \in Risks |-> IF k \in gone THEN NoRisk ELSE risk[k]]
  /\ UNCHANGED <<template, code, status, last, issued>>

-----------------------------------------------------------------------------

Request(t) ==
  \/ /\ tx[t].op = "none" /\ requests < MaxRequests
     /\ \E values \in Offers, refs \in BOOLEAN :
          \/ \E g \in Registers : BeginCreate(t, g, values, refs)
          \/ \E k \in Risks : BeginEdit(t, k, values, refs)
  \/ requireActive(t)
  \/ EnsureSequence(t)
  \/ FinishCreate(t)
  \/ FinishEdit(t)
  \/ Rollback(t)

Administration ==
  \/ \E g \in Registers :
       \/ \E tm \in Templates : UpdateTemplate(g, tm) \/ \E new \in Codes : CreateRiskTeam(g, new, tm)
       \/ \E new \in Codes : RecodeRegister(g, new)
  \/ \E v \in Values :
       \/ SwitchStatus(v)
       \/ DeleteRiskLookup(v)
       \/ \E new \in Codes : CreateRiskLookup(v, new)
  \/ \E c \in Customers, new \in Codes : RecodeCustomer(c, new)
  \/ \E gone \in SUBSET Risks : RollbackImport(gone)

Next == Administration \/ \E t \in Txs : Request(t)

Spec == Init /\ [][Next]_vars

-----------------------------------------------------------------------------
(* Properties.                                                               *)

\* Whatever its register became while the risk was being created or edited, a risk
\* carries the fields of the register's template, each of them, and no others
\* (UpdateRiskTeam's lock against those of CreateRisk and checkTemplateUpdate).
RisksFitRegister ==
  \A k \in Risks : Exists(k) => Fits(template[risk[k].register], risk[k].values, risk[k].refs)

\* A value is ACTIVE at the moment a risk that did not have it gets it, although it
\* was looked at statements earlier (requireActive).
AddedValuesActive ==
  [][\A k \in Risks : \A v \in risk'[k].values \ risk[k].values : status[v] = "ACTIVE"]_vars

\* No counter stands where its next number completes a code that was given before:
\* not after risks were deleted, customers renamed, deleted and added and templates
\* switched.  A register can be given the code another had before, so the behaviours that
\* recode registers are excepted.
NextCodeFree ==
  "Codes" \notin ops =>
    \A g \in {h \in Registers : code[h] # None}, c \in {None} \cup {d \in Customers : status[d] \in Stored} :
      <<code[g], CodeOf(c), LastOf(<<g, c>>) + 1>> \notin issued

=============================================================================
