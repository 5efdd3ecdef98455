-------------------------------- MODULE MCJobs --------------------------------
(* Instances of Jobs for TLC.                                                *)
EXTENDS Jobs

CONSTANTS i1, i2, k1, c1, owner, adm1, adm2, h1, h2, ext

ModuleHubs == <<"audit", "risk">>

JobMixes ==
  {{"Replicas", "risk", "Trigger", "MailFails", "ReleaseFails", "ClaimFails"},
   {"Replicas", "risk", "Crash", "MailLost", "ClaimLost", "ListFails"},
   {"Replicas", "risk", "Edit", "MailFails"},
   {"Replicas", "audit", "CC", "MailFails", "Inactive"},
   {"audit", "CC", "MailFails", "ClaimLost"},
   {"Replicas", "audit", "CC", "Daily", "Trigger", "MailFails", "DigestFails"},
   {"Replicas", "audit", "LookupFails", "CC"},
   {"Replicas", "audit", "Crash"},
   {"Replicas", "audit", "MailFails", "ClaimFails", "ReleaseFails"},
   {"Replicas", "audit", "Edit", "Daily"},
   {"audit", "MailLost", "ListFails", "Trigger"},
   {"sync", "Outage", "Trigger"},
   {"sync", "Outage", "Inactive"},
   {"sync", "Outage", "Edit"},
   {"sync", "Edit", "Assign"},
   {"sync", "LookupFails", "ListFails", "WriteFails"},
   {"sync", "Crash"},
   {"Replicas", "sync", "Console"},
   {"sync", "Console"},
   {"sync", "Console", "Inactive"},
   {"risk", "audit"},
   {"risk", "sync"}}
=============================================================================
