---------------------------- MODULE ReminderClaims ----------------------------
(* The rows of risk_reminder and of the reminders in audit_notification: an   *)
(* INSERT that a unique key lets only one sweep win is the claim to a mail.   *)
EXTENDS Scheduler

VARIABLES claims,  \* the rows
          sent,    \* history: the mails that went out, by the key of their claim
          twice    \* history: those that went out more than once

claimVars == <<claims, sent, twice>>

ClaimsInit == claims = {} /\ sent = {} /\ twice = {}

\* Mutant: no unique key.
Won_NoKey(k) == claims' = claims \cup {k}

Won(k) == k \notin claims /\ claims' = claims \cup {k}

Taken(k) == k \in claims /\ UNCHANGED claims

\* An error, with or without a row behind it.
ClaimFails(k) ==
  \/ "ClaimFails" \in ops /\ UNCHANGED claims
  \/ "ClaimLost" \in ops /\ claims' = claims \cup {k}

\* Mutant: on the sweep's own context, which has just expired.
Release_OnSweepContext(k) == UNCHANGED claims

Release(k) ==
  \/ claims' = claims \ {k}
  \/ "ReleaseFails" \in ops /\ UNCHANGED claims

\* The mail of all of ks goes out.
Mail(ks) == sent' = sent \cup ks /\ twice' = twice \cup (sent \cap ks)

Unsent == UNCHANGED <<sent, twice>>
=============================================================================
