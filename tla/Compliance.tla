----------------------------- MODULE Compliance -----------------------------
(* What the backend keeps about one wallet for the authorities: the log of  *)
(* its transactions, the risk profile and the alerts computed from it, and  *)
(* its KYC submissions, which the wallet, an administrator and the identity *)
(* provider's webhooks change.  Handlers do not await, so one worker serves *)
(* them one after the other; several workers interleave between the moment  *)
(* a handler reads the clock or a status and the moment it writes.          *)
EXTENDS Integers, Sequences, SequencesExt, FiniteSets

CONSTANTS
  Amounts,      \* the amounts of a transaction
  SINGLE_TX_THRESHOLD, CUMULATIVE_THRESHOLD, RAPID_TX_COUNT, RAPID_TX_WINDOW,
  Workers,      \* processes of the backend
  MaxClock, MaxTransactions, MaxSubmissions   \* bounds

ASSUME ComplianceAssumption ==
  Amounts \subseteq Nat /\ CUMULATIVE_THRESHOLD \in Int /\ MaxClock \in Nat

VARIABLES
  clock,        \* time.time(), one more for each handler that reads it
  serving,      \* handlers that have read the clock or the status, not written yet
  transactions, \* the log: [amount, at, risk_flags]
  profile,      \* the wallet's row in risk_profiles, or NoProfile
  open_alerts,  \* the alerts not acknowledged: <<transaction, type>>
  unreviewed,   \* history: transactions recorded since the last review
  applicant,    \* the identity provider knows the wallet
  submissions,  \* kyc_submissions, oldest first: the statuses
  kyc_audit     \* the last action in kyc_audit_log

compliance_vars == <<clock, serving, transactions, profile, open_alerts, unreviewed,
                     applicant, submissions, kyc_audit>>
monitor_vars == <<transactions, profile, open_alerts, unreviewed>>
kyc_vars == <<applicant, submissions, kyc_audit>>

Levels == <<"LOW", "MEDIUM", "HIGH", "CRITICAL">>
NoProfile == [risk_level |-> "LOW", total_volume |-> 0, total_tx_count |-> 0, flags |-> {},
              kyc_status |-> "NONE", last_activity |-> 0, review_required |-> FALSE,
              reviewed_at |-> 0]

ComplianceInit ==
  /\ clock = 0 /\ serving = {}
  /\ transactions = <<>> /\ profile = NoProfile /\ open_alerts = {} /\ unreviewed = 0
  /\ applicant = FALSE /\ submissions = <<>> /\ kyc_audit = "NONE"

\* A worker takes a request: what it reads first is all it knows later.
Begin(handler) ==
  /\ Cardinality(serving) < Workers
  /\ clock < MaxClock
  /\ clock' = clock + 1
  /\ serving' = serving \cup {handler}

End(handler) == handler \in serving /\ serving' = serving \ {handler}

\* A handler that reads and writes in one transaction.
AtOnce == Cardinality(serving) < Workers /\ UNCHANGED <<clock, serving>>

TimePasses == clock < MaxClock /\ clock' = clock + 1
              /\ UNCHANGED <<serving, monitor_vars, kyc_vars>>

-----------------------------------------------------------------------------
(* Transactions and reviews *)

Volume(log) ==
  SumFunctionOnSet([i \in DOMAIN log |-> log[i].amount], DOMAIN log)

\* The wallet has a row: transactions or a KYC link made it.
Known == profile.last_activity > 0

_risk_rank(level) == CHOOSE rank \in DOMAIN Levels : Levels[rank] = level

_calculate_risk_level(flags, cumulative) ==
  IF {"LARGE_SINGLE_TX", "RAPID_TRANSACTIONS"} \subseteq flags THEN "CRITICAL"
  ELSE IF "CUMULATIVE_THRESHOLD" \in flags THEN "HIGH"
  ELSE IF flags # {} \/ 2 * cumulative > SINGLE_TX_THRESHOLD THEN "MEDIUM"
  ELSE "LOW"

\* The log already holds the transaction that is being recorded.
RiskFlags(amount, log, now) ==
  {flag \in {"LARGE_SINGLE_TX", "CUMULATIVE_THRESHOLD", "RAPID_TRANSACTIONS"} :
     CASE flag = "LARGE_SINGLE_TX" -> amount >= SINGLE_TX_THRESHOLD
       [] flag = "CUMULATIVE_THRESHOLD" -> Volume(log) >= CUMULATIVE_THRESHOLD
       [] OTHER -> Cardinality({i \in DOMAIN log : log[i].at > now - RAPID_TX_WINDOW})
                     >= RAPID_TX_COUNT}

\* Mutant of Updated: only a transaction with a flag counts as activity.
UpdatedIfFlagged(flags, log, now) ==
  LET found == _calculate_risk_level(flags, Volume(log))
      level == IF _risk_rank(found) < _risk_rank(profile.risk_level)
               THEN profile.risk_level ELSE found
  IN [profile EXCEPT !.risk_level = level, !.total_volume = Volume(log),
        !.total_tx_count = @ + 1, !.flags = @ \cup flags,
        !.last_activity = IF flags = {} /\ Known THEN @ ELSE now,
        !.review_required = @ \/ level \in {"HIGH", "CRITICAL"}]

\* The row after a transaction, new or not: the level never goes down.
Updated(flags, log, now) ==
  LET found == _calculate_risk_level(flags, Volume(log))
      level == IF _risk_rank(found) < _risk_rank(profile.risk_level)
               THEN profile.risk_level ELSE found
  IN [profile EXCEPT !.risk_level = level, !.total_volume = Volume(log),
        !.total_tx_count = @ + 1, !.flags = @ \cup flags, !.last_activity = now,
        !.review_required = @ \/ level \in {"HIGH", "CRITICAL"}]

\* POST /compliance/record-tx, or the creation of a bounty with a deposit.
ReceiveTransaction(amount) ==
  /\ Len(transactions) < MaxTransactions
  /\ Begin([op |-> "record", at |-> clock + 1, amount |-> amount])
  /\ UNCHANGED <<monitor_vars, kyc_vars>>

\* The rest of record_transaction() is one SQLite transaction.
record_transaction(handler) ==
  LET entry(flags) == [amount |-> handler.amount, at |-> handler.at, risk_flags |-> flags]
      flags == RiskFlags(handler.amount, Append(transactions, entry({})), handler.at)
  IN /\ handler.op = "record" /\ End(handler)
     /\ transactions' = Append(transactions, entry(flags))
     /\ profile' = Updated(flags, transactions', handler.at)
     /\ open_alerts' = open_alerts \cup ({Len(transactions')} \X flags)
     /\ unreviewed' = unreviewed + 1
     /\ UNCHANGED <<clock, kyc_vars>>

acknowledge_alert(alert) ==
  /\ AtOnce
  /\ open_alerts' = open_alerts \ {alert}
  /\ UNCHANGED <<transactions, profile, unreviewed, kyc_vars>>

NeedsReview == profile.review_required /\ profile.reviewed_at < profile.last_activity

\* POST /monitor/reviews/complete: for any wallet with a row.
ReceiveReview ==
  Begin([op |-> "review", at |-> clock + 1]) /\ UNCHANGED <<monitor_vars, kyc_vars>>

mark_reviewed(handler) ==
  /\ handler.op = "review" /\ End(handler)
  /\ profile' = IF Known THEN [profile EXCEPT !.reviewed_at = handler.at] ELSE profile
  /\ unreviewed' = IF Known THEN 0 ELSE unreviewed
  /\ UNCHANGED <<clock, transactions, open_alerts, kyc_vars>>

-----------------------------------------------------------------------------
(* Identity *)

\* get_kyc_status(): the submission that came last.
Status == IF submissions = <<>> THEN "NONE" ELSE Last(submissions)

Record(i, status) ==
  /\ submissions' = [submissions EXCEPT ![i] = status]
  /\ kyc_audit' = status

\* The applicant is created, or found (409).
create_applicant == applicant' = TRUE

\* POST /sumsub/token, unless the provider does not answer.
AccessToken ==
  /\ AtOnce
  /\ Status # "VERIFIED"
  /\ create_applicant
  /\ UNCHANGED <<monitor_vars, submissions, kyc_audit>>

\* Mutant of MaySubmit: only a verified wallet is turned away.
MaySubmitUnlessVerified == Status # "VERIFIED"

MaySubmit ==
  Status \in {"NONE", "REJECTED"}

ReceiveSubmission ==
  /\ MaySubmit
  /\ Len(submissions) < MaxSubmissions
  /\ Begin([op |-> "submit", at |-> clock + 1])
  /\ UNCHANGED <<monitor_vars, kyc_vars>>

submit_kyc(handler) ==
  /\ handler.op = "submit" /\ End(handler)
  /\ submissions' = Append(submissions, "PENDING")
  /\ kyc_audit' = "PENDING"
  /\ UNCHANGED <<clock, monitor_vars, applicant>>

review_kyc(i, approved) ==
  /\ AtOnce
  /\ submissions[i] = "PENDING"
  /\ Record(i, IF approved THEN "VERIFIED" ELSE "REJECTED")
  /\ UNCHANGED <<monitor_vars, applicant>>

\* The profile's link is a transaction of its own, in another database: its
\* failure is logged, a crash before it loses it.  A wallet without a row gets
\* one.  An administrator's decision makes no link.
update_kyc_link(status) ==
  \/ clock < MaxClock /\ clock' = clock + 1
     /\ profile' = [profile EXCEPT !.kyc_status = status,
                      !.last_activity = IF Known THEN @ ELSE clock']
  \/ UNCHANGED <<clock, profile>>

\* What an event of the provider means; applicantCreated and others nothing.
parse_webhook(event) ==
  CASE event = "applicantReviewed GREEN" -> "VERIFIED"
    [] event = "applicantReviewed RED" -> "REJECTED"
    [] event \in {"applicantPending", "applicantOnHold"} -> "PENDING"

\* An event decides, in any order and as often as it is sent, whatever the
\* status is.
sumsub_webhook(event) ==
  /\ Cardinality(serving) < Workers
  /\ applicant
  /\ LET status == parse_webhook(event) IN
       /\ IF submissions = <<>>
          THEN submissions' = <<status>> /\ kyc_audit' = status
          ELSE Record(Len(submissions), status)
       /\ update_kyc_link(status)
  /\ UNCHANGED <<serving, transactions, open_alerts, unreviewed, applicant>>

-----------------------------------------------------------------------------
ComplianceNext ==
  \/ TimePasses
  \/ \E amount \in Amounts : ReceiveTransaction(amount)
  \/ ReceiveReview \/ ReceiveSubmission \/ AccessToken
  \/ \E handler \in serving :
       record_transaction(handler) \/ mark_reviewed(handler) \/ submit_kyc(handler)
  \/ \E alert \in open_alerts : acknowledge_alert(alert)
  \/ \E i \in DOMAIN submissions, approved \in BOOLEAN : review_kyc(i, approved)
  \/ \E event \in {"applicantReviewed GREEN", "applicantReviewed RED", "applicantPending",
                   "applicantOnHold"} : sumsub_webhook(event)

ComplianceSpec == ComplianceInit /\ [][ComplianceNext]_compliance_vars

-----------------------------------------------------------------------------
(* Properties *)

\* A wallet whose recorded volume has reached the threshold, or that once made
\* a large transaction among rapid ones, is in the list of pending reviews as
\* long as something it did has not been reviewed, quiet transactions and KYC
\* results in between or not (record_transaction, get_wallets_needing_review).
HighRiskIsQueued ==
  ( /\ \/ Volume(transactions) >= CUMULATIVE_THRESHOLD
       \/ \E t \in Range(transactions) :
            {"LARGE_SINGLE_TX", "RAPID_TRANSACTIONS"} \subseteq t.risk_flags
    /\ unreviewed > 0 )
  => NeedsReview

\* At most one submission awaits a decision, it is the one the status is read
\* from, and the audit trail ends with the status the wallet has (submit_kyc,
\* "Audit log for every status change").
OneOpenSubmission ==
  /\ \A i \in DOMAIN submissions : submissions[i] = "PENDING" => i = Len(submissions)
  /\ kyc_audit = Status
=============================================================================
