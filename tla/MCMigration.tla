----------------------------- MODULE MCMigration -----------------------------
(* An instance of Migration for TLC.                                         *)
EXTENDS Migration

MCRow(key, target, overdue, residual, grants) ==
  [key |-> key, target |-> target, overdue |-> overdue, residual |-> residual, grants |-> grants]

\* An overdue risk and a closed one, overdue on its way there; a risk that is not
\* due yet and two rows that cannot be told apart.
MCSheets ==
  {<<MCRow("k1", "APPROVED", TRUE, TRUE, <<"g1", "g2">>), MCRow("k2", "CLOSED", TRUE, TRUE, <<>>),
     MCRow("k3", "APPROVED", FALSE, FALSE, <<"g1">>)>>,
   <<MCRow("k3", "APPROVED", FALSE, FALSE, <<"g1">>),
     MCRow("k4", "CLOSED", FALSE, FALSE, <<>>), MCRow("k4", "CLOSED", FALSE, FALSE, <<>>)>>}

TiesSheets ==
  {<<MCRow("k1", "APPROVED", FALSE, FALSE, <<>>), MCRow("k2", "APPROVED", FALSE, FALSE, <<>>),
     MCRow("k3", "APPROVED", FALSE, FALSE, <<>>)>>}

\* Everything together but what makes pages miss a risk; without whom a row need not
\* land; with the job alone; and with pages that may miss a risk.
MCMixes == {{"Crash", "Job", "Users", "Retitle", "Raise", "Revoke"},
            {"Crash", "Raise", "Revoke"}, {"Crash", "Job", "Raise", "Revoke"},
            {"Crash", "Job", "Users", "Raise", "Overlap", "Revoke"}}

TiesMixes == {{"Ties"}}
=============================================================================
