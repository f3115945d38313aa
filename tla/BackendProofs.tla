---------------------------- MODULE BackendProofs ----------------------------
(* Proofs about the backend: that the sanctions screening loses no objection  *)
(* of any of its layers; that a wallet has one open KYC submission at most,   *)
(* and is in the list of reviews as long as something risky is not reviewed,  *)
(* with one worker; that a request makes one bounty at most and that the      *)
(* rubric of a private one is not given out, with any number of processes;    *)
(* that the rows of the index are true, with one process; that the vault      *)
(* holds what the chain says; that no window of time sees more requests       *)
(* admitted than the limit; that the row of a wallet says what its log says.  *)
EXTENDS BountyCreation, SolutionDelivery, Compliance, Screening, RateLimiter, Activity,
        SumTheorems, SequenceTheorems

-----------------------------------------------------------------------------
(* Sanctions screening                                                        *)

\* One wallet, its report and the country, as full_screening() combines them.
LEMMA ScreeningResult ==
  ASSUME NEW a \in Addresses, NEW country \in Countries, NEW report, report = trm[a]
  PROVE  LET result == full_screening(a, country)
             found == Range(report)
         IN ~result.blocked =>
              /\ a \notin Listed
              /\ country # "blocked"
              /\ "sanctioned" \notin found
              /\ "stolen" \in found => "mixer" \in found
              /\ result.edd_required = Doubtful(country, report)
<1> DEFINE wallet == check_wallet(a, report)
           found == Range(report)
           stolenFirst == \E i \in DOMAIN report :
             report[i] = "stolen" /\ \A j \in DOMAIN report : report[j] = "mixer" => i < j
           listed == a \in Listed \/ "sanctioned" \in found \/ stolenFirst
           mixed == "mixer" \in found
           place  == check_jurisdiction(country)
<1>1. \A f : f \in found <=> \E i \in DOMAIN report : report[i] = f
  BY DEF Range
<1>2. "stolen" \in found /\ ~mixed => stolenFirst
  <2>1. SUFFICES ASSUME "stolen" \in found, \A i \in DOMAIN report : report[i] # "mixer"
                 PROVE  stolenFirst
    BY <1>1
  <2>2. PICK i \in DOMAIN report : report[i] = "stolen"
    BY <1>1, <2>1
  <2>3. \A j \in DOMAIN report : report[j] = "mixer" => i < j
    BY <2>1
  <2> QED
    BY <2>2, <2>3
<1>4. wallet = IF listed THEN Critical ELSE IF mixed THEN Enhanced ELSE Passed
  BY DEF check_wallet, _check_trm
<1>5. /\ country = "blocked" => place = Critical
      /\ country = "edd" => place = Enhanced
      /\ country \notin {"blocked", "edd"} => ~place.blocked /\ ~place.edd_required
  BY DEF check_jurisdiction, Countries, Passed, Result
<1>6. /\ Critical.blocked = TRUE /\ Enhanced.blocked = FALSE /\ Enhanced.edd_required = TRUE
      /\ Passed.blocked = FALSE /\ Passed.edd_required = FALSE
  BY DEF Critical, Enhanced, Passed, Result
<1>7. full_screening(a, country)
        = IF wallet.blocked THEN wallet
          ELSE IF place.blocked THEN place
          ELSE IF wallet.edd_required THEN wallet
          ELSE IF place.edd_required THEN place ELSE Passed
  BY DEF full_screening
<1>8. Doubtful(country, report) <=> country = "edd" \/ mixed
  BY DEF Doubtful
<1> HIDE DEF wallet, place, listed, mixed
<1>9. ~full_screening(a, country).blocked => ~listed /\ country # "blocked"
  BY <1>4, <1>5, <1>6, <1>7
<1>10. ASSUME ~listed, country # "blocked"
       PROVE  full_screening(a, country).edd_required = Doubtful(country, report)
  <2>1. CASE mixed
    BY <1>4, <1>5, <1>6, <1>7, <1>8, <1>10, <2>1 DEF Doubtful
  <2>2. CASE ~mixed /\ country = "edd"
    BY <1>4, <1>5, <1>6, <1>7, <1>8, <1>10, <2>2 DEF Doubtful
  <2>3. CASE ~mixed /\ country # "edd"
    BY <1>4, <1>5, <1>6, <1>7, <1>8, <1>10, <2>3 DEF Doubtful
  <2> QED
    BY <2>1, <2>2, <2>3
<1>11. ~listed => a \notin Listed /\ "sanctioned" \notin found
                    /\ ("stolen" \in found => "mixer" \in found)
  BY <1>2 DEF listed, mixed
<1> QED
  BY <1>9, <1>10, <1>11

\* Every step keeps it: what reached a handler was screened with the report of
\* that moment.
LEMMA ScreeningStep ==
  ASSUME NoObjectionIsLost, [ScreeningNext]_screening_vars
  PROVE  NoObjectionIsLost'
<1>1. CASE \E a \in Addresses : TrmChanges(a)
  BY <1>1 DEF TrmChanges, NoObjectionIsLost, Doubtful
<1>2. CASE \E country \in Countries : ReadRequest(country) \/ UnnamedRequest(country)
  <2>1. passed_on'.wallet = Unnamed /\ passed_on'.body = Unnamed
    BY <1>2 DEF ReadRequest, UnnamedRequest, Seen
  <2> QED
    BY <2>1 DEF NoObjectionIsLost
<1>3. ASSUME NEW country \in Countries, NEW request \in ApiRequests,
             ScreenedRequest(request, country)
      PROVE  NoObjectionIsLost'
  <2>1. PICK a, result, report :
          a = ScreenedWallet(request) /\ result = full_screening(a, country) /\ report = trm[a]
    OBVIOUS
  <2>2. a \in Addresses
    BY <1>3, <2>1 DEF ScreenedRequest, ScreenedWallet, ApiRequests
  <2>3. a # Unnamed
          /\ passed_on' = IF result.blocked THEN passed_on
                          ELSE Seen(a, request.body, country, result.edd_required, report)
    BY <1>3, <2>1 DEF ScreenedRequest
  <2>4. CASE result.blocked
    BY <2>3, <2>4 DEF NoObjectionIsLost, Doubtful
  <2>5. CASE ~result.blocked
    <3>1. /\ a \notin Listed /\ country # "blocked" /\ "sanctioned" \notin Range(report)
          /\ "stolen" \in Range(report) => "mixer" \in Range(report)
          /\ result.edd_required = Doubtful(country, report)
      BY <2>1, <2>2, <2>5, ScreeningResult
    <3>2. /\ passed_on'.wallet = a /\ passed_on'.body = request.body
          /\ passed_on'.country = country /\ passed_on'.report = report
          /\ passed_on'.edd_required = result.edd_required
      BY <2>3, <2>5 DEF Seen
    <3> QED
      BY <2>3, <3>1, <3>2 DEF NoObjectionIsLost, Doubtful
  <2> QED
    BY <2>4, <2>5
<1>4. CASE UNCHANGED screening_vars
  BY <1>4 DEF NoObjectionIsLost, Doubtful, screening_vars
<1> QED
  BY <1>1, <1>2, <1>3, <1>4 DEF ScreeningNext

\* No objection of any layer is lost, in whatever order TRM lists its findings
\* and whatever it learns in between, for every list of wallets; nor does a
\* request with a wallet in its body go on unscreened (full_screening,
\* SanctionsMiddleware).
THEOREM NoObjectionIsEverLost == ScreeningSpec => []NoObjectionIsLost
<1>1. ScreeningInit => NoObjectionIsLost
  BY DEF ScreeningInit, NoObjectionIsLost, Seen
<1>2. NoObjectionIsLost /\ [ScreeningNext]_screening_vars => NoObjectionIsLost'
  BY ScreeningStep
<1> QED
  BY <1>1, <1>2, PTL DEF ScreeningSpec

-----------------------------------------------------------------------------
(* The handlers of one worker                                                 *)

Handlers == [op : {"record"}, at : Nat \ {0}, amount : Amounts]
              \cup [op : {"review", "submit"}, at : Nat \ {0}]

\* One worker serves one request at a time.
ServingInv ==
  /\ clock \in Nat
  /\ serving = {} \/ \E h \in Handlers : serving = {h} /\ h.at <= clock

\* With one worker a request is taken when nothing is served, and what it then
\* serves is all there is.
LEMMA OneAtATime ==
  ASSUME Workers = 1, ServingInv
  PROVE  /\ Cardinality(serving) < Workers => serving = {}
         /\ \A h : h \in serving => serving = {h} /\ serving \ {h} = {} /\ h \in Handlers
                                    /\ h.at <= clock
<1>1. \A h : Cardinality({h}) = 1
  BY FS_Singleton
<1> QED
  BY <1>1 DEF ServingInv

\* Every step keeps it.
LEMMA ServingStep ==
  ASSUME Workers = 1, ServingInv, [ComplianceNext]_compliance_vars
  PROVE  ServingInv' /\ clock <= clock'
<1>1. CASE UNCHANGED <<clock, serving>>
  BY <1>1 DEF ServingInv
<1>2. CASE serving' = serving /\ clock' = clock + 1
  <2>1. clock' \in Nat /\ clock <= clock'
    BY <1>2 DEF ServingInv
  <2>2. ASSUME NEW h \in Handlers, h.at <= clock
        PROVE  h.at <= clock'
    <3>1. h.at \in Nat
      BY DEF Handlers
    <3> QED
      BY <1>2, <2>2, <3>1 DEF ServingInv
  <2> QED
    BY <1>2, <2>1, <2>2 DEF ServingInv
<1>3. ASSUME NEW h \in Handlers, h.at = clock + 1, Begin(h)
      PROVE  ServingInv' /\ clock <= clock'
  BY <1>3, OneAtATime DEF Begin, ServingInv
<1>4. ASSUME NEW h, End(h), clock' = clock
      PROVE  ServingInv' /\ clock <= clock'
  BY <1>4, OneAtATime DEF End, ServingInv
<1>5. CASE \E amount \in Amounts : ReceiveTransaction(amount)
  <2>1. PICK amount \in Amounts : ReceiveTransaction(amount)
    BY <1>5
  <2>2. PICK h : h = [op |-> "record", at |-> clock + 1, amount |-> amount]
    OBVIOUS
  <2>3. h \in Handlers /\ h.at = clock + 1
    BY <2>2 DEF Handlers, ServingInv
  <2>4. Begin(h)
    BY <2>1, <2>2 DEF ReceiveTransaction
  <2> QED
    BY <1>3, <2>3, <2>4
<1>6. CASE ReceiveReview
  <2>1. PICK h : h = [op |-> "review", at |-> clock + 1]
    OBVIOUS
  <2>2. h \in Handlers /\ h.at = clock + 1
    BY <2>1 DEF Handlers, ServingInv
  <2>3. Begin(h)
    BY <1>6, <2>1 DEF ReceiveReview
  <2> QED
    BY <1>3, <2>2, <2>3
<1>7. CASE ReceiveSubmission
  <2>1. PICK h : h = [op |-> "submit", at |-> clock + 1]
    OBVIOUS
  <2>2. h \in Handlers /\ h.at = clock + 1
    BY <2>1 DEF Handlers, ServingInv
  <2>3. Begin(h)
    BY <1>7, <2>1 DEF ReceiveSubmission
  <2> QED
    BY <1>3, <2>2, <2>3
<1>8. CASE \E h \in serving : record_transaction(h) \/ mark_reviewed(h) \/ submit_kyc(h)
  BY <1>4, <1>8 DEF record_transaction, mark_reviewed, submit_kyc
<1>9. CASE TimePasses
  BY <1>2, <1>9 DEF TimePasses
<1>10. ASSUME NEW event, sumsub_webhook(event)
       PROVE  ServingInv' /\ clock <= clock'
  <2>1. serving' = serving
    BY <1>10 DEF sumsub_webhook
  <2>2. clock' = clock + 1 \/ clock' = clock
    BY <1>10 DEF sumsub_webhook, update_kyc_link
  <2> QED
    BY <1>1, <1>2, <2>1, <2>2
<1>11. CASE \/ AccessToken
            \/ \E alert \in open_alerts : acknowledge_alert(alert)
            \/ \E i \in DOMAIN submissions, approved \in BOOLEAN : review_kyc(i, approved)
            \/ UNCHANGED compliance_vars
  BY <1>1, <1>11 DEF AccessToken, acknowledge_alert, review_kyc, AtOnce, compliance_vars
<1> QED
  BY <1>5, <1>6, <1>7, <1>8, <1>9, <1>10, <1>11 DEF ComplianceNext

-----------------------------------------------------------------------------
(* The submissions of a wallet                                                *)

\* OneOpenSubmission is not inductive: whoever is about to submit must still
\* find that nothing is open.
Statuses == {"PENDING", "VERIFIED", "REJECTED"}

KycInv ==
  /\ ServingInv
  /\ submissions \in Seq(Statuses)
  /\ \A h \in serving : h.op = "submit" => MaySubmit
  /\ OneOpenSubmission

\* The first event of the provider makes the first submission (sumsub_webhook).
LEMMA OneAppended ==
  ASSUME NEW S, NEW e \in S
  PROVE  Append(<<>>, e) = <<e>>
<1>1. <<>> \in Seq(S)
  OBVIOUS
<1>2. Append(<<>>, e) \in Seq(S) /\ Len(Append(<<>>, e)) = 1 /\ Append(<<>>, e)[1] = e
  BY <1>1
<1>3. <<e>> \in Seq(S) 
  OBVIOUS
<1>4. Len(<<e>>) = 1 /\ <<e>>[1] = e
  OBVIOUS
<1>5. \A i \in 1..Len(<<e>>) : Append(<<>>, e)[i] = <<e>>[i]
  BY <1>2, <1>4
<1> QED
  BY <1>2, <1>3, <1>4, <1>5, SeqEqual

\* The status is that of the last submission (get_kyc_status).
LEMMA StatusIs ==
  ASSUME NEW n \in Nat, submissions \in Seq(Statuses), Len(submissions) = n
  PROVE  /\ n = 0 => Status = "NONE" /\ submissions = <<>>
         /\ n > 0 => Status = submissions[n] /\ submissions # <<>>
         /\ DOMAIN submissions = 1 .. n
BY DEF Status, Last

\* The last submission is decided (_update_submission, review_kyc).
LEMMA DecidedLast ==
  ASSUME KycInv, submissions # <<>>, NEW outcome \in Statuses,
         Record(Len(submissions), outcome)
  PROVE  submissions' \in Seq(Statuses) /\ OneOpenSubmission'
<1>1. PICK n \in Nat : n = Len(submissions)
  BY DEF KycInv
<1>2. /\ n > 0 /\ submissions \in Seq(Statuses) /\ DOMAIN submissions = 1 .. n
      /\ \A i \in 1 .. n : submissions[i] = "PENDING" => i = n
  BY <1>1 DEF KycInv, OneOpenSubmission
<1>3. /\ submissions' \in Seq(Statuses) /\ Len(submissions') = n
      /\ DOMAIN submissions' = 1 .. n
      /\ \A i \in 1 .. n : submissions'[i] = IF i = n THEN outcome ELSE submissions[i]
      /\ kyc_audit' = outcome
  BY <1>1, <1>2 DEF Record
<1>4. Status' = outcome
  BY <1>2, <1>3 DEF Status, Last
<1> QED
  BY <1>1, <1>2, <1>3, <1>4 DEF OneOpenSubmission

\* A submission more, when none is open (submit_kyc, or the first event of the
\* provider).
LEMMA AddedSubmission ==
  ASSUME KycInv, MaySubmit, NEW outcome \in Statuses,
         submissions' = Append(submissions, outcome), kyc_audit' = outcome
  PROVE  submissions' \in Seq(Statuses) /\ OneOpenSubmission'
<1>1. PICK n \in Nat : n = Len(submissions)
  BY DEF KycInv
<1>2. /\ submissions \in Seq(Statuses) /\ DOMAIN submissions = 1 .. n
      /\ \A i \in 1 .. n : submissions[i] = "PENDING" => i = n
  BY <1>1 DEF KycInv, OneOpenSubmission
<1>3. \A i \in 1 .. n : submissions[i] # "PENDING"
  <2>1. n > 0 => submissions[n] # "PENDING"
    BY <1>1, <1>2, StatusIs DEF MaySubmit
  <2> QED
    BY <1>2, <2>1
<1>4. /\ submissions' \in Seq(Statuses) /\ Len(submissions') = n + 1
      /\ DOMAIN submissions' = 1 .. (n + 1) /\ submissions'[n + 1] = outcome
      /\ \A i \in 1 .. n : submissions'[i] = submissions[i]
  BY <1>1, <1>2
<1>5. \A i \in 1 .. (n + 1) : i \in 1 .. n \/ i = n + 1
  OBVIOUS
<1>6. Status' = outcome
  BY <1>4 DEF Status, Last
<1> QED
  BY <1>3, <1>4, <1>5, <1>6 DEF OneOpenSubmission

\* Every step keeps it, as long as one worker serves.
LEMMA KycStep ==
  ASSUME Workers = 1, KycInv, [ComplianceNext]_compliance_vars
  PROVE  KycInv'
<1>1. ServingInv'
  BY ServingStep DEF KycInv
<1>2. CASE UNCHANGED <<submissions, kyc_audit>> /\ serving' \subseteq serving
  <2>1. Status' = Status
    BY <1>2 DEF Status
  <2> QED
    BY <1>1, <1>2, <2>1 DEF KycInv, OneOpenSubmission, MaySubmit
<1>3. ASSUME NEW h, Begin(h), h.op # "submit" \/ MaySubmit,
             UNCHANGED <<submissions, kyc_audit>>
      PROVE  KycInv'
  <2>1. Status' = Status
    BY <1>3 DEF Status
  <2>2. serving' = serving \cup {h}
    BY <1>3 DEF Begin
  <2> QED
    BY <1>1, <1>3, <2>1, <2>2 DEF KycInv, OneOpenSubmission, MaySubmit
<1>4. CASE \E amount \in Amounts : ReceiveTransaction(amount)
  <2>1. PICK amount \in Amounts : ReceiveTransaction(amount)
    BY <1>4
  <2>2. PICK h : h = [op |-> "record", at |-> clock + 1, amount |-> amount]
    OBVIOUS
  <2> QED
    BY <1>3, <2>1, <2>2 DEF ReceiveTransaction, kyc_vars
<1>5. CASE ReceiveReview
  <2>1. PICK h : h = [op |-> "review", at |-> clock + 1]
    OBVIOUS
  <2> QED
    BY <1>3, <1>5, <2>1 DEF ReceiveReview, kyc_vars
<1>6. CASE ReceiveSubmission
  <2>1. PICK h : h = [op |-> "submit", at |-> clock + 1]
    OBVIOUS
  <2> QED
    BY <1>3, <1>6, <2>1 DEF ReceiveSubmission, kyc_vars
<1>7. CASE \E h \in serving : record_transaction(h) \/ mark_reviewed(h)
  BY <1>2, <1>7 DEF record_transaction, mark_reviewed, End, kyc_vars
<1>8. ASSUME NEW h \in serving, submit_kyc(h)
      PROVE  KycInv'
  <2>1. serving' = {} /\ h.op = "submit"
    BY <1>8, OneAtATime DEF submit_kyc, End, KycInv
  <2>2. MaySubmit
    BY <2>1 DEF KycInv
  <2>3. submissions' = Append(submissions, "PENDING") /\ kyc_audit' = "PENDING"
    BY <1>8 DEF submit_kyc
  <2>4. "PENDING" \in Statuses
    BY DEF Statuses
  <2> QED
    BY <1>1, <2>1, <2>2, <2>3, <2>4, AddedSubmission DEF KycInv
<1>9. ASSUME NEW i \in DOMAIN submissions, NEW approved \in BOOLEAN, review_kyc(i, approved)
      PROVE  KycInv'
  <2>1. serving' = {}
    BY <1>9, OneAtATime DEF review_kyc, AtOnce, KycInv
  <2>2. i = Len(submissions) /\ submissions # <<>>
    BY <1>9 DEF review_kyc, KycInv, OneOpenSubmission
  <2>3. PICK outcome \in Statuses : Record(i, outcome)
    BY <1>9 DEF review_kyc, Statuses
  <2> QED
    BY <1>1, <2>1, <2>2, <2>3, DecidedLast DEF KycInv
<1>10. ASSUME NEW event \in {"applicantReviewed GREEN", "applicantReviewed RED",
                             "applicantPending", "applicantOnHold"}, sumsub_webhook(event)
       PROVE  KycInv'
  <2>1. serving' = {}
    BY <1>10, OneAtATime DEF sumsub_webhook, KycInv
  <2>2. PICK outcome \in Statuses : outcome = parse_webhook(event)
    BY DEF parse_webhook, Statuses
  <2>3. CASE submissions = <<>>
    <3>1. submissions' = Append(submissions, outcome) /\ kyc_audit' = outcome
      <4>1. submissions' = <<outcome>> /\ kyc_audit' = outcome
        BY <1>10, <2>2, <2>3 DEF sumsub_webhook
      <4>2. Append(<<>>, outcome) = <<outcome>>
        BY OneAppended
      <4> QED
        BY <2>3, <4>1, <4>2
    <3>2. MaySubmit
      BY <2>3 DEF MaySubmit, Status
    <3> QED
      BY <1>1, <2>1, <3>1, <3>2, AddedSubmission DEF KycInv
  <2>4. CASE submissions # <<>>
    <3>1. Record(Len(submissions), outcome)
      BY <1>10, <2>2, <2>4 DEF sumsub_webhook
    <3> QED
      BY <1>1, <2>1, <2>4, <3>1, DecidedLast DEF KycInv
  <2> QED
    BY <2>3, <2>4
<1>11. CASE \/ AccessToken \/ TimePasses
            \/ \E alert \in open_alerts : acknowledge_alert(alert)
            \/ UNCHANGED compliance_vars
  BY <1>2, <1>11 DEF AccessToken, TimePasses, acknowledge_alert, AtOnce, kyc_vars,
                     compliance_vars
<1> QED
  BY <1>4, <1>5, <1>6, <1>7, <1>8, <1>9, <1>10, <1>11 DEF ComplianceNext

\* With one worker at most one submission awaits a decision, and the audit trail
\* ends with the wallet's status, however requests, decisions and the provider's
\* events come (submit_kyc, review_kyc, sumsub_webhook).
THEOREM OneIsEverOpen == Workers = 1 /\ ComplianceSpec => []OneOpenSubmission
<1>1. ComplianceInit => KycInv
  BY DEF ComplianceInit, KycInv, ServingInv, OneOpenSubmission, Status, Statuses
<1>2. Workers = 1 /\ KycInv /\ [ComplianceNext]_compliance_vars => KycInv'
  BY KycStep
<1>3. KycInv => OneOpenSubmission
  BY DEF KycInv
<1>4. SUFFICES ASSUME Workers = 1
               PROVE  ComplianceSpec => []OneOpenSubmission
  OBVIOUS
<1>5. KycInv /\ [ComplianceNext]_compliance_vars => KycInv'
  BY <1>2, <1>4
<1> QED
  BY <1>1, <1>3, <1>5, PTL DEF ComplianceSpec

-----------------------------------------------------------------------------
(* The reviews of a wallet                                                    *)

AllFlags == {"LARGE_SINGLE_TX", "CUMULATIVE_THRESHOLD", "RAPID_TRANSACTIONS"}
Entries == [amount : Amounts, at : Nat, risk_flags : SUBSET AllFlags]
LevelNames == {"LOW", "MEDIUM", "HIGH", "CRITICAL"}

\* What HighRiskIsQueued calls a risky wallet.
Risky(log) ==
  \/ Volume(log) >= CUMULATIVE_THRESHOLD
  \/ \E t \in Range(log) : {"LARGE_SINGLE_TX", "RAPID_TRANSACTIONS"} \subseteq t.risk_flags

MonitorTypeOK ==
  /\ transactions \in Seq(Entries)
  /\ profile \in [risk_level : LevelNames, total_volume : Int, total_tx_count : Nat,
                  flags : SUBSET AllFlags, kyc_status : Statuses \cup {"NONE"},
                  last_activity : Nat, review_required : BOOLEAN, reviewed_at : Nat]
  /\ unreviewed \in Nat

\* HighRiskIsQueued is not inductive: a wallet stays marked for a review once it
\* is risky, a review is never later than the clock, and none of what is being
\* recorded came before the last one.
MonitorInv ==
  /\ ServingInv
  /\ MonitorTypeOK
  /\ profile.reviewed_at <= clock
  /\ \A h \in serving : h.op = "record" => profile.reviewed_at < h.at
  /\ unreviewed > 0 => transactions # <<>> /\ profile.reviewed_at < profile.last_activity
  /\ transactions # <<>> /\ Risky(transactions) => profile.review_required

\* The levels in their order (_risk_rank).
LEMMA RanksAre ==
  /\ _risk_rank("LOW") = 1 /\ _risk_rank("MEDIUM") = 2
  /\ _risk_rank("HIGH") = 3 /\ _risk_rank("CRITICAL") = 4
BY DEF _risk_rank, Levels

\* The volume of a log is a number, and its flags are no part of it.
LEMMA VolumeIs ==
  ASSUME NEW log \in Seq(Entries)
  PROVE  /\ Volume(log) \in Int
         /\ \A other \in Seq(Entries) :
              Len(other) = Len(log) /\ (\A i \in DOMAIN log : other[i].amount = log[i].amount)
                => Volume(other) = Volume(log)
<1>1. PICK n \in Nat : n = Len(log) /\ DOMAIN log = 1 .. n
  OBVIOUS
<1>2. IsFiniteSet(1 .. n)
  BY FS_Interval
<1>3. \A i \in 1 .. n : log[i].amount \in Nat
  <2>1. \A i \in 1 .. n : log[i] \in Entries
    BY <1>1
  <2> QED
    BY <2>1, ComplianceAssumption DEF Entries
<1> DEFINE w == [i \in 1 .. n |-> log[i].amount]
<1>4. \A i \in 1 .. n : w[i] \in Nat
  BY <1>3
<1>5. Volume(log) = SumFunctionOnSet(w, 1 .. n)
  BY <1>1 DEF Volume
<1>6. SumFunctionOnSet(w, 1 .. n) \in Nat
  <2> HIDE DEF w
  <2> QED
    BY <1>2, <1>4, SumNat
<1>7. ASSUME NEW other \in Seq(Entries), Len(other) = Len(log),
             \A i \in DOMAIN log : other[i].amount = log[i].amount
      PROVE  Volume(other) = Volume(log)
  <2>1. DOMAIN other = 1 .. n
    BY <1>1, <1>7
  <2>2. [i \in DOMAIN other |-> other[i].amount] = w
    BY <1>1, <1>7, <2>1
  <2> QED
    BY <1>5, <2>1, <2>2 DEF Volume
<1> QED
  BY <1>5, <1>6, <1>7

\* What a transaction makes of the row (record_transaction).
LEMMA RecordKeeps ==
  ASSUME MonitorInv, NEW h \in Handlers, h.op = "record", h.at > profile.reviewed_at,
         record_transaction(h)
  PROVE  /\ MonitorTypeOK'
         /\ profile'.reviewed_at = profile.reviewed_at
         /\ profile'.last_activity = h.at /\ transactions' # <<>>
         /\ Risky(transactions') => profile'.review_required
<1> DEFINE entry(f) == [amount |-> h.amount, at |-> h.at, risk_flags |-> f]
<1>1. PICK flags : flags = RiskFlags(h.amount, Append(transactions, entry({})), h.at)
  OBVIOUS
<1>2. flags \in SUBSET AllFlags /\ h.amount \in Amounts /\ h.at \in Nat \ {0}
  BY <1>1 DEF RiskFlags, AllFlags, Handlers
<1>3. PICK log : log = Append(transactions, entry(flags))
  OBVIOUS
<1>4. /\ transactions' = log /\ profile' = Updated(flags, log, h.at)
      /\ unreviewed' = unreviewed + 1
  BY <1>1, <1>3 DEF record_transaction
<1>5. /\ entry({}) \in Entries /\ entry(flags) \in Entries
      /\ entry({}).amount = entry(flags).amount
  BY <1>2 DEF Entries
<1>6. PICK n \in Nat : n = Len(transactions) /\ DOMAIN transactions = 1 .. n
  BY DEF MonitorInv, MonitorTypeOK
<1>7. /\ transactions \in Seq(Entries)
      /\ log \in Seq(Entries) /\ Len(log) = n + 1 /\ DOMAIN log = 1 .. (n + 1) /\ log # <<>>
      /\ log[n + 1] = entry(flags) /\ \A i \in 1 .. n : log[i] = transactions[i]
  <2>1. transactions \in Seq(Entries)
    BY DEF MonitorInv, MonitorTypeOK
  <2> HIDE DEF entry
  <2> QED
    BY <1>3, <1>5, <1>6, <2>1
<1>8. Volume(Append(transactions, entry({}))) = Volume(log) /\ Volume(log) \in Int
  <2>1. PICK other : other = Append(transactions, entry({}))
    OBVIOUS
  <2>2. \A i \in 1 .. (n + 1) : i \in 1 .. n \/ i = n + 1
    BY <1>6
  <2>3. PICK plain \in Entries : plain = entry({})
    BY <1>5
  <2>4. other \in Seq(Entries) /\ Len(other) = n + 1 /\ DOMAIN other = 1 .. (n + 1)
        /\ other[n + 1] = plain /\ \A i \in 1 .. n : other[i] = transactions[i]
    <3> HIDE DEF entry
    <3> QED
      BY <1>6, <1>7, <2>1, <2>3
  <2>5. plain.amount = log[n + 1].amount
    BY <1>5, <1>7, <2>3
  <2> HIDE DEF entry
  <2>6. \A i \in DOMAIN log : other[i].amount = log[i].amount
    BY <1>7, <2>2, <2>4, <2>5
  <2> QED
    BY <1>7, <2>1, <2>4, <2>6, VolumeIs
<1>9. Volume(log) >= CUMULATIVE_THRESHOLD => "CUMULATIVE_THRESHOLD" \in flags
  BY <1>1, <1>8 DEF RiskFlags
<1> HIDE DEF entry
<1>10. PICK found, level :
         /\ found = _calculate_risk_level(flags, Volume(log))
         /\ level = IF _risk_rank(found) < _risk_rank(profile.risk_level)
                    THEN profile.risk_level ELSE found
  OBVIOUS
<1>11. /\ profile.risk_level \in LevelNames /\ found \in LevelNames /\ level \in LevelNames
       /\ profile.review_required \in BOOLEAN
  BY <1>10 DEF MonitorInv, MonitorTypeOK, _calculate_risk_level, LevelNames
<1>12. /\ "CUMULATIVE_THRESHOLD" \in flags => found \in {"HIGH", "CRITICAL"}
       /\ {"LARGE_SINGLE_TX", "RAPID_TRANSACTIONS"} \subseteq flags
            => found \in {"HIGH", "CRITICAL"}
  BY <1>10 DEF _calculate_risk_level
<1>13. found \in {"HIGH", "CRITICAL"} => level \in {"HIGH", "CRITICAL"}
  BY <1>10, <1>11, RanksAre DEF LevelNames
<1>14. /\ profile'.review_required =
            (profile.review_required \/ level \in {"HIGH", "CRITICAL"})
       /\ profile'.reviewed_at = profile.reviewed_at /\ profile'.last_activity = h.at
       /\ profile' \in [risk_level : LevelNames, total_volume : Int, total_tx_count : Nat,
                        flags : SUBSET AllFlags, kyc_status : Statuses \cup {"NONE"},
                        last_activity : Nat, review_required : BOOLEAN, reviewed_at : Nat]
  <2>1. profile' = [profile EXCEPT !.risk_level = level, !.total_volume = Volume(log),
                      !.total_tx_count = @ + 1, !.flags = @ \cup flags, !.last_activity = h.at,
                      !.review_required = @ \/ level \in {"HIGH", "CRITICAL"}]
    BY <1>4, <1>10 DEF Updated
  <2>2. profile \in [risk_level : LevelNames, total_volume : Int, total_tx_count : Nat,
                     flags : SUBSET AllFlags, kyc_status : Statuses \cup {"NONE"},
                     last_activity : Nat, review_required : BOOLEAN, reviewed_at : Nat]
    BY DEF MonitorInv, MonitorTypeOK
  <2>3. PICK required \in BOOLEAN :
          required = (profile.review_required \/ level \in {"HIGH", "CRITICAL"})
    OBVIOUS
  <2>4. PICK count \in Nat, all \in SUBSET AllFlags, volume \in Int :
          /\ count = profile.total_tx_count + 1 /\ all = profile.flags \cup flags
          /\ volume = Volume(log)
    <3>1. profile.total_tx_count + 1 \in Nat /\ profile.flags \cup flags \in SUBSET AllFlags
      BY <1>2, <2>2
    <3> QED
      BY <1>8, <3>1
  <2>5. profile' = [profile EXCEPT !.risk_level = level, !.total_volume = volume,
                      !.total_tx_count = count, !.flags = all, !.last_activity = h.at,
                      !.review_required = required]
    BY <2>1, <2>3, <2>4, Zenon
  <2>6. h.at \in Nat
    BY <1>2
  <2>7. /\ profile'.review_required = required /\ profile'.reviewed_at = profile.reviewed_at
        /\ profile'.last_activity = h.at
    BY <2>2, <2>5
  <2>8. profile' \in [risk_level : LevelNames, total_volume : Int, total_tx_count : Nat,
                      flags : SUBSET AllFlags, kyc_status : Statuses \cup {"NONE"},
                      last_activity : Nat, review_required : BOOLEAN, reviewed_at : Nat]
    BY <1>11, <2>2, <2>4, <2>5, <2>6
  <2> QED
    BY <2>3, <2>7, <2>8
<1>15. MonitorTypeOK'
  BY <1>4, <1>7, <1>14 DEF MonitorInv, MonitorTypeOK
<1>16. ASSUME Risky(log)
       PROVE  profile'.review_required
  <2>1. CASE Volume(log) >= CUMULATIVE_THRESHOLD
    BY <1>9, <1>12, <1>13, <1>14, <2>1
  <2>2. ASSUME NEW i \in DOMAIN log,
               {"LARGE_SINGLE_TX", "RAPID_TRANSACTIONS"} \subseteq log[i].risk_flags
        PROVE  profile'.review_required
    <3>1. CASE i \in 1 .. n
      <4>1. log[i] \in Range(transactions) /\ transactions # <<>>
        BY <1>6, <1>7, <3>1 DEF Range
      <4>2. Risky(transactions)
        BY <2>2, <4>1 DEF Risky
      <4> QED
        BY <1>14, <4>1, <4>2 DEF MonitorInv
    <3>2. CASE i = n + 1
      <4>1. log[i].risk_flags = flags
        BY <1>7, <3>2 DEF entry
      <4> QED
        BY <1>12, <1>13, <1>14, <2>2, <4>1
    <3> QED
      BY <1>6, <1>7, <2>2, <3>1, <3>2
  <2> QED
    BY <1>16, <2>1, <2>2 DEF Risky, Range
<1> QED
  BY <1>4, <1>7, <1>14, <1>15, <1>16

\* Every step keeps it, as long as one worker serves.
LEMMA MonitorStep ==
  ASSUME Workers = 1, MonitorInv, [ComplianceNext]_compliance_vars
  PROVE  MonitorInv'
<1>1. ServingInv' /\ clock <= clock' /\ clock \in Nat /\ clock' \in Nat
  BY ServingStep DEF MonitorInv, ServingInv
<1>2. ASSUME UNCHANGED monitor_vars,
             \A h \in serving' \ serving : h.op = "record" => profile.reviewed_at < h.at
      PROVE  MonitorInv'
  <2>1. MonitorTypeOK' /\ Risky(transactions') = Risky(transactions)
        /\ profile.reviewed_at \in Nat
    BY <1>2 DEF MonitorInv, MonitorTypeOK, monitor_vars
  <2>2. profile'.reviewed_at <= clock'
    BY <1>1, <1>2, <2>1 DEF MonitorInv, monitor_vars
  <2>3. \A h \in serving' : h.op = "record" => profile'.reviewed_at < h.at
    BY <1>2 DEF MonitorInv, monitor_vars
  <2> QED
    BY <1>1, <1>2, <2>1, <2>2, <2>3 DEF MonitorInv, monitor_vars
<1>3. ASSUME NEW h, Begin(h), h.at = clock + 1, UNCHANGED monitor_vars
      PROVE  MonitorInv'
  <2>1. profile.reviewed_at < h.at
    BY <1>1, <1>3 DEF MonitorInv, MonitorTypeOK
  <2> QED
    BY <1>2, <1>3, <2>1 DEF Begin
<1>4. CASE \E amount \in Amounts : ReceiveTransaction(amount)
  <2>1. PICK amount \in Amounts : ReceiveTransaction(amount)
    BY <1>4
  <2>2. PICK h : h = [op |-> "record", at |-> clock + 1, amount |-> amount]
    OBVIOUS
  <2> QED
    BY <1>3, <2>1, <2>2 DEF ReceiveTransaction
<1>5. CASE ReceiveReview
  <2>1. PICK h : h = [op |-> "review", at |-> clock + 1]
    OBVIOUS
  <2> QED
    BY <1>3, <1>5, <2>1 DEF ReceiveReview
<1>6. CASE ReceiveSubmission
  <2>1. PICK h : h = [op |-> "submit", at |-> clock + 1]
    OBVIOUS
  <2> QED
    BY <1>3, <1>6, <2>1 DEF ReceiveSubmission
<1>7. ASSUME NEW h \in serving, record_transaction(h)
      PROVE  MonitorInv'
  <2>1. serving' = {} /\ h.op = "record" /\ h \in Handlers
    BY <1>7, OneAtATime DEF record_transaction, End, MonitorInv, ServingInv
  <2>2. h.at > profile.reviewed_at
    BY <2>1 DEF MonitorInv, MonitorTypeOK, Handlers
  <2>3. /\ MonitorTypeOK' /\ profile'.reviewed_at = profile.reviewed_at
        /\ profile'.last_activity = h.at /\ transactions' # <<>>
        /\ Risky(transactions') => profile'.review_required
    BY <1>7, <2>1, <2>2, RecordKeeps
  <2>4. clock' = clock
    BY <1>7 DEF record_transaction
  <2> QED
    BY <1>1, <2>1, <2>2, <2>3, <2>4 DEF MonitorInv
<1>8. ASSUME NEW h \in serving, mark_reviewed(h)
      PROVE  MonitorInv'
  <2>1. CASE ~Known
    <3>1. UNCHANGED monitor_vars /\ serving' \subseteq serving
      BY <1>8, <2>1 DEF mark_reviewed, End, monitor_vars
    <3> QED
      BY <1>2, <3>1
  <2>2. CASE Known
    <3>1. serving' = {} /\ h.at \in Nat /\ h.at <= clock
      BY <1>8, OneAtATime DEF mark_reviewed, End, MonitorInv, ServingInv, Handlers
    <3>2. /\ unreviewed' = 0 /\ UNCHANGED <<clock, transactions>>
          /\ profile' = [profile EXCEPT !.reviewed_at = h.at]
      BY <1>8, <2>2 DEF mark_reviewed
    <3>3. MonitorTypeOK' /\ profile'.reviewed_at = h.at
          /\ profile'.review_required = profile.review_required
      BY <3>1, <3>2 DEF MonitorInv, MonitorTypeOK
    <3>4. Risky(transactions') = Risky(transactions)
      BY <3>2
    <3> QED
      BY <1>1, <3>1, <3>2, <3>3, <3>4 DEF MonitorInv
  <2> QED
    BY <2>1, <2>2
<1>9. CASE \E h \in serving : submit_kyc(h)
  BY <1>2, <1>9 DEF submit_kyc, End
<1>10. ASSUME NEW event, sumsub_webhook(event),
              event \in {"applicantReviewed GREEN", "applicantReviewed RED",
                         "applicantPending", "applicantOnHold"}
       PROVE  MonitorInv'
  <2>1. serving = {} /\ serving' = {} /\ UNCHANGED <<transactions, unreviewed>>
    BY <1>10, OneAtATime DEF sumsub_webhook, MonitorInv
  <2>2. PICK outcome \in Statuses : outcome = parse_webhook(event)
    BY <1>10 DEF parse_webhook, Statuses
  <2>3. \/ profile' = profile
        \/ profile' = [profile EXCEPT !.kyc_status = outcome,
                         !.last_activity = IF Known THEN @ ELSE clock']
    BY <1>10, <2>2 DEF sumsub_webhook, update_kyc_link
  <2>4. Risky(transactions') = Risky(transactions)
    BY <2>1
  <2>5. CASE profile' = profile
    BY <1>2, <2>1, <2>5, <1>10 DEF monitor_vars, sumsub_webhook
  <2>6. ASSUME NEW last \in Nat, last = IF Known THEN profile.last_activity ELSE clock',
               profile' = [profile EXCEPT !.kyc_status = outcome, !.last_activity = last]
        PROVE  MonitorInv'
    <3>1. /\ MonitorTypeOK' /\ profile'.reviewed_at = profile.reviewed_at
          /\ profile'.last_activity = last
          /\ profile'.review_required = profile.review_required
      BY <2>1, <2>6 DEF MonitorInv, MonitorTypeOK
    <3>2. PICK reviewed \in Nat, active \in Nat :
            reviewed = profile.reviewed_at /\ active = profile.last_activity
      BY DEF MonitorInv, MonitorTypeOK
    <3>3. unreviewed > 0 => reviewed < active
      BY <3>2 DEF MonitorInv
    <3>4. last = active \/ active = 0
      <4>1. Known => last = active
        BY <2>6, <3>2
      <4>2. ~Known => active = 0
        BY <3>2 DEF Known
      <4> QED
        BY <4>1, <4>2
    <3>5. unreviewed > 0 => profile.reviewed_at < last
      BY <3>2, <3>3, <3>4
    <3>6. profile'.reviewed_at <= clock'
      <4>1. reviewed <= clock
        BY <3>2 DEF MonitorInv
      <4>2. reviewed <= clock'
        BY <1>1, <4>1
      <4> QED
        BY <3>1, <3>2, <4>2
    <3> QED
      BY <1>1, <2>1, <2>4, <3>1, <3>5, <3>6 DEF MonitorInv
  <2> QED
    <3>1. PICK last \in Nat : last = IF Known THEN profile.last_activity ELSE clock'
      BY <1>1 DEF MonitorInv, MonitorTypeOK
    <3> QED
      BY <2>3, <2>5, <2>6, <3>1
<1>11. CASE \/ AccessToken \/ TimePasses
            \/ \E alert \in open_alerts : acknowledge_alert(alert)
            \/ \E i \in DOMAIN submissions, approved \in BOOLEAN : review_kyc(i, approved)
            \/ UNCHANGED compliance_vars
  <2>1. UNCHANGED <<serving, transactions, profile, unreviewed>>
    BY <1>11 DEF AccessToken, TimePasses, acknowledge_alert, review_kyc, AtOnce,
                 monitor_vars, compliance_vars
  <2> QED
    BY <1>1, <2>1 DEF MonitorInv, MonitorTypeOK
<1> QED
  BY <1>4, <1>5, <1>6, <1>7, <1>8, <1>9, <1>10, <1>11 DEF ComplianceNext

\* A risky wallet never leaves the list of reviews unreviewed, with one worker
\* (record_transaction, mark_reviewed, update_kyc_link).
THEOREM RiskIsAlwaysQueued == Workers = 1 /\ ComplianceSpec => []HighRiskIsQueued
<1>1. ComplianceInit => MonitorInv
  BY DEF ComplianceInit, MonitorInv, ServingInv, MonitorTypeOK, NoProfile, LevelNames, Statuses
<1>2. MonitorInv => HighRiskIsQueued
  BY DEF MonitorInv, MonitorTypeOK, HighRiskIsQueued, NeedsReview, Risky
<1>3. SUFFICES ASSUME Workers = 1
               PROVE  ComplianceSpec => []HighRiskIsQueued
  OBVIOUS
<1>4. MonitorInv /\ [ComplianceNext]_compliance_vars => MonitorInv'
  BY <1>3, MonitorStep
<1> QED
  BY <1>1, <1>2, <1>4, PTL DEF ComplianceSpec

-----------------------------------------------------------------------------
(* The bounties of a request                                                  *)

Txs == [req : Requests, kind : {"create", "spawn"}, bounty : Nat, attempt : Nat, nonce : Nat]
RequestJobs ==
  [req : Requests, kind : {"create", "spawn"}, attempt : Nat, nonce : Nat, bounty : Nat,
   pc : {"nonce", "send", "wait", "read_id", "read_round", "store", "index"}]

Working(w) == job[w].kind \in {"create", "spawn"}

CreationTypeOK ==
  /\ job = [w \in Processes |-> job[w]]
  /\ \A w \in Processes :
       /\ Working(w) => job[w] \in RequestJobs
       /\ Working(w) \/ job[w] = Idle \/ job[w].kind = "refresh"
  /\ status \in [Requests -> {"new", "working", "done", "failed"}]
  /\ bounties \in Seq(Requests) /\ pool \in Seq(Txs) /\ nonce \in Nat

\* No transaction that would create the request's bounty is pending, none has
\* created it.
NonePending(r) == \A i \in DOMAIN pool : pool[i].kind = "create" => pool[i].req # r
NoneMade(r) == \A b \in DOMAIN bounties : bounties[b] # r
Nothing(r) == NonePending(r) /\ NoneMade(r)

OneAtMost ==
  /\ \A r \in Requests : NonePending(r) \/ NoneMade(r)
  /\ \A b, c \in DOMAIN bounties : bounties[b] = bounties[c] => b = c
  /\ \A i, j \in DOMAIN pool :
       pool[i].kind = "create" /\ pool[j].kind = "create" /\ pool[i].req = pool[j].req => i = j

\* The process has not sent the request's first transaction yet.
ToSend(w, r) ==
  job[w].kind = "create" /\ job[w].req = r /\ job[w].pc \in {"nonce", "send"}

\* AtMostOneBounty is not inductive: nothing may be there for a request that has
\* not sent its transaction yet, and no two processes may serve one request.
CreationInv ==
  /\ CreationTypeOK
  /\ OneAtMost
  /\ \A r \in Requests : status[r] = "new" => Nothing(r)
  /\ \A w \in Processes : Working(w) => status[job[w].req] = "working"
  /\ \A w, v \in Processes : Working(w) /\ Working(v) /\ job[w].req = job[v].req => w = v
  /\ \A w \in Processes, r \in Requests : ToSend(w, r) => Nothing(r)

\* A transaction that the node queues, or that replaces a pending one (_send_tx).
LEMMA QueueKeeps ==
  ASSUME CreationTypeOK, OneAtMost, NEW tx \in Txs, Pooled(tx), UNCHANGED bounties,
         tx.kind = "create" => Nothing(tx.req)
  PROVE  /\ pool' \in Seq(Txs) /\ OneAtMost'
         /\ \A q \in Requests : Nothing(q) /\ (tx.kind = "create" => q # tx.req) => Nothing(q)'
<1>1. PICK n \in Nat : n = Len(pool) /\ DOMAIN pool = 1 .. n
  BY DEF CreationTypeOK
<1>2. PICK k \in Nat, m \in Nat :
        /\ pool' \in Seq(Txs) /\ DOMAIN pool' = 1 .. k
        /\ n <= k /\ m \in 1 .. k /\ pool'[m] = tx
        /\ \A i \in 1 .. k : i # m => i \in 1 .. n /\ pool'[i] = pool[i]
  <2>1. CASE pool' = Append(pool, tx)
    <3>1. /\ pool' \in Seq(Txs) /\ DOMAIN pool' = 1 .. (n + 1) /\ pool'[n + 1] = tx
          /\ \A i \in 1 .. n : pool'[i] = pool[i]
      BY <1>1, <2>1 DEF CreationTypeOK
    <3>2. \A i \in 1 .. (n + 1) : i # n + 1 => i \in 1 .. n
      OBVIOUS
    <3> QED
      BY <3>1, <3>2
  <2>2. ASSUME InPool(tx.nonce), pool' = [pool EXCEPT ![tx.nonce - nonce + 1] = tx]
        PROVE  \E k \in Nat, m \in Nat :
          /\ pool' \in Seq(Txs) /\ DOMAIN pool' = 1 .. k /\ n <= k /\ m \in 1 .. k
          /\ pool'[m] = tx /\ \A i \in 1 .. k : i # m => i \in 1 .. n /\ pool'[i] = pool[i]
    <3>1. PICK m \in 1 .. n : m = tx.nonce - nonce + 1
      <4>1. tx.nonce \in nonce .. nonce + n - 1
        BY <1>1, <2>2 DEF InPool
      <4>2. tx.nonce \in Nat /\ nonce \in Nat
        BY DEF Txs, CreationTypeOK
      <4> QED
        BY <4>1, <4>2
    <3>2. pool' = [pool EXCEPT ![m] = tx]
      BY <2>2, <3>1
    <3>3. /\ pool' \in Seq(Txs) /\ DOMAIN pool' = 1 .. n /\ pool'[m] = tx
          /\ \A i \in 1 .. n : i # m => pool'[i] = pool[i]
      BY <1>1, <3>2 DEF CreationTypeOK
    <3> QED
      BY <3>3
  <2> QED
    BY <2>1, <2>2 DEF Pooled
<1>3. \A q \in Requests :
        NonePending(q) /\ (tx.kind = "create" => q # tx.req) => NonePending(q)'
  BY <1>1, <1>2 DEF NonePending
<1>4. \A q \in Requests : NoneMade(q)' = NoneMade(q)
  BY DEF NoneMade
<1>5. \A i, j \in DOMAIN pool' :
        pool'[i].kind = "create" /\ pool'[j].kind = "create" /\ pool'[i].req = pool'[j].req
          => i = j
  <2> SUFFICES ASSUME NEW i \in 1 .. k, NEW j \in 1 .. k, pool'[i].kind = "create",
                      pool'[j].kind = "create", pool'[i].req = pool'[j].req, i # j
               PROVE  FALSE
    BY <1>2
  <2>1. CASE i # m /\ j # m
    BY <1>1, <1>2, <2>1 DEF OneAtMost
  <2>2. CASE i = m
    <3>1. j \in 1 .. n /\ pool[j].kind = "create" /\ pool[j].req = tx.req /\ tx.kind = "create"
      BY <1>2, <2>2
    <3> QED
      BY <1>1, <3>1 DEF Nothing, NonePending
  <2>3. CASE j = m
    <3>1. i \in 1 .. n /\ pool[i].kind = "create" /\ pool[i].req = tx.req /\ tx.kind = "create"
      BY <1>2, <2>3
    <3> QED
      BY <1>1, <3>1 DEF Nothing, NonePending
  <2> QED
    BY <2>1, <2>2, <2>3
<1>6. \A r \in Requests : NonePending(r)' \/ NoneMade(r)'
  BY <1>3, <1>4 DEF OneAtMost, Nothing
<1> QED
  BY <1>2, <1>3, <1>4, <1>5, <1>6 DEF OneAtMost, Nothing

\* A block takes the oldest transaction: what was pending is then made, or is
\* gone.
LEMMA MineKeeps ==
  ASSUME CreationTypeOK, OneAtMost, Mine
  PROVE  /\ CreationTypeOK' /\ OneAtMost'
         /\ \A q \in Requests : Nothing(q) => Nothing(q)'
<1>1. PICK n \in Nat : n = Len(pool) /\ DOMAIN pool = 1 .. n
  BY DEF CreationTypeOK
<1>2. PICK m \in Nat : m = Len(bounties) /\ DOMAIN bounties = 1 .. m
  BY DEF CreationTypeOK
<1>3. PICK tx : tx = Head(pool)
  OBVIOUS
<1>4. n > 0 /\ tx \in Txs /\ tx = pool[1]
  BY <1>1, <1>3 DEF Mine, CreationTypeOK
<1>5. /\ pool' \in Seq(Txs) /\ DOMAIN pool' = 1 .. (n - 1)
      /\ \A i \in 1 .. (n - 1) : pool'[i] = pool[i + 1] /\ i + 1 \in 1 .. n
  <2>1. pool' = Tail(pool) /\ pool # <<>>
    BY DEF Mine
  <2> QED
    BY <1>1, <1>4, <2>1 DEF CreationTypeOK
<1>6. nonce' \in Nat /\ UNCHANGED <<job, status>>
  BY DEF Mine, CreationTypeOK, backend
<1>7. \/ bounties' = bounties
      \/ tx.kind = "create" /\ bounties' = Append(bounties, tx.req)
  BY <1>3 DEF Mine
<1>8. \A q : NonePending(q) => NonePending(q)'
  BY <1>1, <1>5 DEF NonePending
<1>9. \A i, j \in DOMAIN pool' :
        pool'[i].kind = "create" /\ pool'[j].kind = "create" /\ pool'[i].req = pool'[j].req
          => i = j
  <2> SUFFICES ASSUME NEW i \in 1 .. (n - 1), NEW j \in 1 .. (n - 1),
                      pool'[i].kind = "create", pool'[j].kind = "create",
                      pool'[i].req = pool'[j].req
               PROVE  i = j
    BY <1>5
  <2>1. /\ i + 1 \in DOMAIN pool /\ j + 1 \in DOMAIN pool
        /\ pool'[i] = pool[i + 1] /\ pool'[j] = pool[j + 1]
    BY <1>1, <1>5
  <2>2. i + 1 = j + 1
    BY <2>1 DEF OneAtMost
  <2> QED BY <2>2
<1>10. CASE bounties' = bounties
  <2>1. \A q : NoneMade(q)' = NoneMade(q)
    BY <1>10 DEF NoneMade
  <2> QED
    BY <1>5, <1>6, <1>8, <1>9, <1>10, <2>1 DEF OneAtMost, Nothing, CreationTypeOK, Working
<1>11. CASE tx.kind = "create" /\ bounties' = Append(bounties, tx.req)
  <2>1. tx.req \in Requests
    BY <1>4 DEF Txs
  <2>2. /\ bounties' \in Seq(Requests) /\ DOMAIN bounties' = 1 .. (m + 1)
        /\ bounties'[m + 1] = tx.req /\ \A b \in 1 .. m : bounties'[b] = bounties[b]
    BY <1>2, <1>11, <2>1 DEF CreationTypeOK
  <2>3. \A b \in 1 .. (m + 1) : b # m + 1 => b \in 1 .. m
    OBVIOUS
  <2>4. ~NonePending(tx.req)
    BY <1>1, <1>4, <1>11 DEF NonePending
  <2>5. NoneMade(tx.req)
    BY <2>1, <2>4 DEF OneAtMost
  <2>6. NonePending(tx.req)'
    <3> SUFFICES ASSUME NEW i \in 1 .. (n - 1), pool'[i].kind = "create", pool'[i].req = tx.req
                 PROVE  FALSE
      BY <1>5 DEF NonePending
    <3>1. i + 1 \in DOMAIN pool /\ 1 \in DOMAIN pool /\ i + 1 # 1
      BY <1>1, <1>4, <1>5
    <3> QED
      BY <1>4, <1>5, <1>11, <3>1 DEF OneAtMost
  <2>7. \A q : q # tx.req /\ NoneMade(q) => NoneMade(q)'
    BY <1>2, <2>2, <2>3 DEF NoneMade
  <2>8. \A b, c \in DOMAIN bounties' : bounties'[b] = bounties'[c] => b = c
    <3> SUFFICES ASSUME NEW b \in 1 .. (m + 1), NEW c \in 1 .. (m + 1),
                        bounties'[b] = bounties'[c], b # c
                 PROVE  FALSE
      BY <2>2
    <3>1. CASE b \in 1 .. m /\ c \in 1 .. m
      BY <1>2, <2>2, <3>1 DEF OneAtMost
    <3>2. CASE b = m + 1
      BY <1>2, <2>2, <2>3, <2>5, <3>2 DEF NoneMade
    <3>3. CASE c = m + 1
      BY <1>2, <2>2, <2>3, <2>5, <3>3 DEF NoneMade
    <3> QED
      BY <2>3, <3>1, <3>2, <3>3
  <2>9. \A q \in Requests : Nothing(q) => Nothing(q)'
    BY <1>8, <2>4, <2>7 DEF Nothing
  <2>10. \A r \in Requests : NonePending(r)' \/ NoneMade(r)'
    BY <1>8, <2>6, <2>7 DEF OneAtMost
  <2>11. OneAtMost'
    BY <1>9, <2>8, <2>10 DEF OneAtMost
  <2> QED
    BY <1>5, <1>6, <2>2, <2>9, <2>11 DEF CreationTypeOK, Working
<1> QED
  BY <1>7, <1>10, <1>11

\* A process goes on with its request, whatever the chain does to others.
LEMMA MovesOn ==
  ASSUME CreationInv, NEW w \in Processes, NEW j, Goto(w, j), UNCHANGED status,
         j = Idle \/ j.kind = "refresh" \/ j \in RequestJobs,
         bounties' \in Seq(Requests), pool' \in Seq(Txs), nonce' \in Nat, OneAtMost',
         j.kind \in {"create", "spawn"} => /\ j \in RequestJobs /\ Working(w)
                                           /\ j.req = job[w].req,
         \A r \in Requests :
           j.kind = "create" /\ j.pc \in {"nonce", "send"} /\ j.req = r => Nothing(r)',
         \A q \in Requests : Nothing(q) /\ (Working(w) => q # job[w].req) => Nothing(q)'
  PROVE  CreationInv'
<1>1. /\ job' = [v \in Processes |-> job'[v]] /\ job'[w] = j
      /\ \A v \in Processes : v # w => job'[v] = job[v] /\ Working(v)' = Working(v)
      /\ Working(w)' = (j.kind \in {"create", "spawn"})
  BY DEF Goto, CreationInv, CreationTypeOK, Working
<1>2. CreationTypeOK'
  <2>1. \A v \in Processes : /\ Working(v)' => job'[v] \in RequestJobs
                             /\ Working(v)' \/ job'[v] = Idle \/ job'[v].kind = "refresh"
    <3>1. j \in RequestJobs => j.kind \in {"create", "spawn"}
      BY DEF RequestJobs
    <3> QED
      BY <1>1, <3>1 DEF CreationInv, CreationTypeOK
  <2> QED
    BY <1>1, <2>1 DEF CreationInv, CreationTypeOK
<1>3. \A r \in Requests : status'[r] = "new" => Nothing(r)'
  BY DEF CreationInv
<1>4. \A v \in Processes : Working(v)' => /\ job'[v].req = job[v].req /\ Working(v)
                                          /\ job[v].req \in Requests
  BY <1>1 DEF CreationInv, CreationTypeOK, RequestJobs
<1>5. \A v \in Processes : Working(v)' => status'[job'[v].req] = "working"
  BY <1>4 DEF CreationInv
<1>6. \A v, u \in Processes : Working(v)' /\ Working(u)' /\ job'[v].req = job'[u].req => v = u
  BY <1>4 DEF CreationInv
<1>7. \A v \in Processes, r \in Requests : ToSend(v, r)' => Nothing(r)'
  <2> SUFFICES ASSUME NEW v \in Processes, NEW r \in Requests, ToSend(v, r)'
               PROVE  Nothing(r)'
    OBVIOUS
  <2>1. CASE v = w
    BY <1>1, <2>1 DEF ToSend
  <2>2. CASE v # w
    <3>1. job'[v] = job[v] /\ Working(v) /\ job[v].req = r /\ ToSend(v, r)
      BY <1>1, <2>2 DEF ToSend, Working
    <3>2. Working(w) => r # job[w].req
      BY <2>2, <3>1 DEF CreationInv
    <3> QED
      BY <3>1, <3>2 DEF CreationInv
  <2> QED
    BY <2>1, <2>2
<1> QED
  BY <1>2, <1>3, <1>5, <1>6, <1>7 DEF CreationInv

\* A process is done with its request.
LEMMA IsAnswered ==
  ASSUME CreationInv, NEW w \in Processes, Working(w), NEW outcome \in {"done", "failed"},
         NEW b, Answered(w, outcome, b), bounties' \in Seq(Requests), pool' \in Seq(Txs),
         nonce' \in Nat, OneAtMost',
         \A q \in Requests : Nothing(q) /\ q # job[w].req => Nothing(q)'
  PROVE  CreationInv'
<1>1. /\ job' = [v \in Processes |-> job'[v]] /\ job'[w] = Idle
      /\ \A v \in Processes : v # w => job'[v] = job[v]
  BY DEF Answered, Goto, CreationInv, CreationTypeOK
<1>2. ~Working(w)' /\ \A v \in Processes : v # w => Working(v)' = Working(v)
  BY <1>1 DEF Working, Idle
<1>3. job[w].req \in Requests
  BY DEF CreationInv, CreationTypeOK, RequestJobs
<1>4. /\ status' \in [Requests -> {"new", "working", "done", "failed"}]
      /\ status'[job[w].req] = outcome
      /\ \A r \in Requests : r # job[w].req => status'[r] = status[r]
  BY <1>3 DEF Answered, CreationInv, CreationTypeOK
<1>5. CreationTypeOK'
  BY ZenonT(60), <1>1, <1>2, <1>4 DEF CreationInv, CreationTypeOK
<1>6. \A r \in Requests : status'[r] = "new" => Nothing(r)'
  BY <1>4 DEF CreationInv
<1>7. \A v \in Processes : Working(v)' => /\ job'[v] = job[v] /\ Working(v) /\ v # w
                                          /\ job[v].req \in Requests /\ job[v].req # job[w].req
  BY <1>1, <1>2 DEF CreationInv, CreationTypeOK, RequestJobs
<1>8. \A v \in Processes : Working(v)' => status'[job'[v].req] = "working"
  BY <1>4, <1>7 DEF CreationInv
<1>9. \A v, u \in Processes : Working(v)' /\ Working(u)' /\ job'[v].req = job'[u].req => v = u
  BY <1>7 DEF CreationInv
<1>10. \A v \in Processes, r \in Requests : ToSend(v, r)' => Nothing(r)'
  <2> SUFFICES ASSUME NEW v \in Processes, NEW r \in Requests, ToSend(v, r)'
               PROVE  Nothing(r)'
    OBVIOUS
  <2>1. Working(v)'
    BY DEF ToSend, Working
  <2>2. ToSend(v, r) /\ r # job[w].req
    BY <1>7, <2>1 DEF ToSend
  <2> QED
    BY <2>2 DEF CreationInv
<1> QED
  BY <1>5, <1>6, <1>8, <1>9, <1>10 DEF CreationInv

\* A request that a process takes.
LEMMA IsTaken ==
  ASSUME CreationInv, NEW w \in Processes, NEW r \in Requests, StartCreate(w, r)
  PROVE  CreationInv'
<1>1. /\ UNCHANGED <<bounties, pool, nonce>> /\ status[r] = "new" /\ ~Working(w)
      /\ \A q : Nothing(q)' = Nothing(q) /\ OneAtMost' = OneAtMost
  BY DEF StartCreate, chain, Working, Idle, Nothing, NonePending, NoneMade, OneAtMost
<1>2. ASSUME UNCHANGED job, status' = [status EXCEPT ![r] = "failed"]
      PROVE  CreationInv'
  <2>1. /\ status' \in [Requests -> {"new", "working", "done", "failed"}]
        /\ \A q \in Requests : status'[q] = IF q = r THEN "failed" ELSE status[q]
    BY <1>2 DEF CreationInv, CreationTypeOK
  <2>2. \A v \in Processes : Working(v) => job[v].req \in Requests /\ job[v].req # r
    BY <1>1 DEF CreationInv, CreationTypeOK, RequestJobs
  <2>3. CreationTypeOK'
    BY <1>1, <1>2, <2>1 DEF CreationInv, CreationTypeOK, Working
  <2>4. \A q \in Requests : status'[q] = "new" => Nothing(q)'
    BY <1>1, <2>1 DEF CreationInv
  <2>5. \A v \in Processes : Working(v)' => status'[job'[v].req] = "working"
    BY <1>2, <2>1, <2>2 DEF CreationInv, Working
  <2>6. \A v, u \in Processes :
          Working(v)' /\ Working(u)' /\ job'[v].req = job'[u].req => v = u
    BY <1>2 DEF CreationInv, Working
  <2>7. \A v \in Processes, q \in Requests : ToSend(v, q)' => Nothing(q)'
    BY <1>1, <1>2 DEF CreationInv, ToSend
  <2> QED
    BY <1>1, <2>3, <2>4, <2>5, <2>6, <2>7 DEF CreationInv
<1>3. ASSUME NEW j, j = Job(r, "create", "nonce", 0, 0, 0), Goto(w, j),
             status' = [status EXCEPT ![r] = "working"]
      PROVE  CreationInv'
  <2>1. /\ status' \in [Requests -> {"new", "working", "done", "failed"}]
        /\ \A q \in Requests : status'[q] = IF q = r THEN "working" ELSE status[q]
    BY <1>3 DEF CreationInv, CreationTypeOK
  <2>2. j \in RequestJobs /\ j.req = r /\ j.kind = "create"
    BY <1>3 DEF Job, RequestJobs
  <2>3. /\ job' = [v \in Processes |-> job'[v]] /\ job'[w] = j
        /\ \A v \in Processes : v # w => job'[v] = job[v] /\ Working(v)' = Working(v)
        /\ Working(w)'
    BY <1>3, <2>2 DEF Goto, CreationInv, CreationTypeOK, Working
  <2>4. CreationTypeOK'
    BY <1>1, <2>1, <2>2, <2>3 DEF CreationInv, CreationTypeOK, Working
  <2>5. \A q \in Requests : status'[q] = "new" => Nothing(q)'
    BY <1>1, <2>1 DEF CreationInv
  <2>6. \A v \in Processes : Working(v)' /\ v # w =>
          /\ job'[v] = job[v] /\ Working(v) /\ job[v].req \in Requests /\ job[v].req # r
          /\ status[job[v].req] = "working"
    BY <1>1, <2>3 DEF CreationInv, CreationTypeOK, RequestJobs
  <2>7. \A v \in Processes : Working(v)' => status'[job'[v].req] = "working"
    BY <2>1, <2>2, <2>3, <2>6
  <2>8. \A v, u \in Processes :
          Working(v)' /\ Working(u)' /\ job'[v].req = job'[u].req => v = u
    BY <2>2, <2>3, <2>6 DEF CreationInv
  <2>9. \A v \in Processes, q \in Requests : ToSend(v, q)' => Nothing(q)'
    <3>1. Nothing(r)'
      BY <1>1 DEF CreationInv
    <3> SUFFICES ASSUME NEW v \in Processes, NEW q \in Requests, ToSend(v, q)', v # w
                 PROVE  Nothing(q)'
      BY <2>2, <2>3, <3>1 DEF ToSend
    <3>2. ToSend(v, q)
      BY <2>3 DEF ToSend
    <3> QED
      BY <1>1, <3>2 DEF CreationInv
  <2> QED
    BY <1>1, <2>4, <2>5, <2>7, <2>8, <2>9 DEF CreationInv
<1> QED
  BY <1>2, <1>3 DEF StartCreate

\* What is tried again, or given up, with nothing queued (_send_tx, the error
\* paths of its callers).
LEMMA FailKeeps ==
  ASSUME CreationInv, NEW w \in Processes, Working(w), Fail(w),
         UNCHANGED <<bounties, pool, nonce>>
  PROVE  CreationInv'
<1>1. OneAtMost' /\ \A q : Nothing(q)' = Nothing(q)
  BY DEF CreationInv, OneAtMost, Nothing, NonePending, NoneMade
<1> QED
  BY <1>1, IsAnswered DEF Fail, CreationInv, CreationTypeOK

\* The handler goes on and the chain stays as it is.
LEMMA GoesOn ==
  ASSUME CreationInv, NEW w \in Processes, NEW j, Goto(w, j),
         UNCHANGED <<status, bounties, pool, nonce>>,
         j = Idle \/ j.kind = "refresh" \/ j \in RequestJobs,
         j.kind \in {"create", "spawn"} => /\ j \in RequestJobs /\ Working(w)
                                           /\ j.req = job[w].req,
         j.kind = "create" /\ j.pc \in {"nonce", "send"} => ToSend(w, j.req)
  PROVE  CreationInv'
<1>1. OneAtMost' /\ \A q : Nothing(q)' = Nothing(q)
  BY DEF CreationInv, OneAtMost, Nothing, NonePending, NoneMade
<1>2. \A r \in Requests :
        j.kind = "create" /\ j.pc \in {"nonce", "send"} /\ j.req = r => Nothing(r)'
  BY <1>1 DEF CreationInv
<1> QED
  BY <1>1, <1>2, MovesOn DEF CreationInv, CreationTypeOK

\* A step of a handler that only moves on: it reads from the chain.
LEMMA ReadKeeps ==
  ASSUME CreationInv, NEW w \in Processes,
         ReadNonce(w) \/ Wait(w) \/ ReadId(w) \/ ReadRound(w)
  PROVE  CreationInv'
<1>1. /\ Working(w) /\ job[w] \in RequestJobs /\ UNCHANGED <<bounties, pool, nonce>>
      /\ nonce \in Nat /\ pool \in Seq(Txs) /\ bounties \in Seq(Requests)
  BY DEF ReadNonce, Wait, ReadId, ReadRound, At, Working, chain, CreationInv, CreationTypeOK
<1>2. ASSUME NEW pc \in {"send", "read_id", "read_round", "store"},
             NEW n \in Nat, pc = "send" => job[w].pc = "nonce", UNCHANGED status,
             Goto(w, [job[w] EXCEPT !.nonce = n, !.pc = pc])
      PROVE  CreationInv'
  <2>1. PICK j : j = [job[w] EXCEPT !.nonce = n, !.pc = pc]
    OBVIOUS
  <2>2. j \in RequestJobs /\ j.req = job[w].req /\ j.kind = job[w].kind /\ j.pc = pc
    BY <1>1, <2>1 DEF RequestJobs
  <2>3. j.kind = "create" /\ j.pc \in {"nonce", "send"} => ToSend(w, j.req)
    BY <1>2, <2>2 DEF ToSend
  <2> QED
    BY <1>1, <1>2, <2>1, <2>2, <2>3, GoesOn
<1>3. ASSUME NEW pc \in {"read_id", "read_round", "store"}, UNCHANGED status,
             Goto(w, [job[w] EXCEPT !.pc = pc])
      PROVE  CreationInv'
  <2>1. PICK j : j = [job[w] EXCEPT !.pc = pc]
    OBVIOUS
  <2>2. j \in RequestJobs /\ j.req = job[w].req /\ j.kind = job[w].kind /\ j.pc = pc
    BY SMTT(60), <1>1, <2>1 DEF RequestJobs
  <2> QED
    BY <1>1, <1>3, <2>1, <2>2, GoesOn
<1>4. CASE ReadNonce(w)
  <2>1. PICK n \in nonce .. nonce + Len(pool) :
          Goto(w, [job[w] EXCEPT !.nonce = n, !.pc = "send"])
    BY <1>4 DEF ReadNonce
  <2>2. n \in Nat
    BY <1>1, <2>1
  <2>3. job[w].pc = "nonce" /\ UNCHANGED status
    BY <1>4 DEF ReadNonce, At
  <2> QED
    BY <1>2, <2>1, <2>2, <2>3
<1>5. CASE Wait(w)
  <2>1. \/ Fail(w)
        \/ \E pc \in {"read_id", "read_round", "store"} :
             Goto(w, [job[w] EXCEPT !.pc = pc]) /\ UNCHANGED status
    BY <1>5 DEF Wait, AfterTimeout
  <2> QED
    BY <1>1, <1>3, <2>1, FailKeeps
<1>6. CASE ReadId(w)
  <2>1. PICK j : j = Job(job[w].req, "spawn", "nonce", 0, 0, NewBounty)
    OBVIOUS
  <2>2. NewBounty \in Nat
    BY <1>1 DEF NewBounty
  <2>3. j \in RequestJobs /\ j.req = job[w].req /\ j.kind = "spawn"
    BY <1>1, <2>1, <2>2 DEF Job, RequestJobs
  <2>4. Goto(w, j) /\ UNCHANGED status
    BY <1>6, <2>1 DEF ReadId
  <2> QED
    BY <1>1, <2>3, <2>4, GoesOn
<1>7. CASE ReadRound(w)
  <2>1. \/ Fail(w)
        \/ Goto(w, [job[w] EXCEPT !.pc = "store"]) /\ UNCHANGED status
    BY <1>7 DEF ReadRound
  <2> QED
    BY <1>1, <1>3, <2>1, FailKeeps
<1> QED
  BY <1>4, <1>5, <1>6, <1>7

\* A transaction is sent: queued, refused, or its answer is lost.
LEMMA SendKeeps ==
  ASSUME CreationInv, NEW w \in Processes, Send(w)
  PROVE  CreationInv'
<1>1. PICK r, tx : r = job[w].req /\ tx = Tx(job[w])
  OBVIOUS
<1>2. /\ Working(w) /\ job[w] \in RequestJobs /\ UNCHANGED <<bounties, nonce>>
      /\ r \in Requests /\ tx \in Txs /\ tx.req = r /\ tx.kind = job[w].kind
      /\ nonce \in Nat /\ pool \in Seq(Txs) /\ bounties \in Seq(Requests)
  BY <1>1 DEF Send, At, Working, CreationInv, CreationTypeOK, RequestJobs, Tx, Txs
<1>3. tx.kind = "create" => Nothing(r)
  BY <1>1, <1>2 DEF Send, At, CreationInv, ToSend
<1>4. ASSUME Pooled(tx)
      PROVE  /\ pool' \in Seq(Txs) /\ OneAtMost'
             /\ \A q \in Requests : Nothing(q) /\ q # r => Nothing(q)'
  BY <1>2, <1>3, <1>4, QueueKeeps DEF CreationInv
<1>5. ASSUME Pooled(tx), Goto(w, [job[w] EXCEPT !.pc = "wait"]), UNCHANGED status
      PROVE  CreationInv'
  <2>1. PICK j : j = [job[w] EXCEPT !.pc = "wait"]
    OBVIOUS
  <2>2. j \in RequestJobs /\ j.req = r /\ j.pc = "wait"
    BY <1>1, <1>2, <2>1 DEF RequestJobs
  <2>3. Goto(w, j) /\ bounties' \in Seq(Requests) /\ nonce' \in Nat
    BY <1>2, <1>5, <2>1
  <2>4. \A q \in Requests : Nothing(q) /\ (Working(w) => q # job[w].req) => Nothing(q)'
    BY <1>1, <1>2, <1>4, <1>5
  <2>5. pool' \in Seq(Txs) /\ OneAtMost'
    BY <1>4, <1>5
  <2>6. \A q \in Requests :
          j.kind = "create" /\ j.pc \in {"nonce", "send"} /\ j.req = q => Nothing(q)'
    BY <2>2
  <2> QED
    BY <1>1, <1>2, <1>5, <2>2, <2>3, <2>4, <2>5, <2>6, MovesOn
<1>6. ASSUME Retries(w), UNCHANGED pool
      PROVE  CreationInv'
  <2>1. CASE Fail(w)
    BY <1>2, <1>6, <2>1, FailKeeps
  <2>2. CASE Goto(w, [job[w] EXCEPT !.attempt = @ + 1, !.pc = "nonce"]) /\ UNCHANGED status
    <3>1. PICK j : j = [job[w] EXCEPT !.attempt = @ + 1, !.pc = "nonce"]
      OBVIOUS
    <3>2. j \in RequestJobs /\ j.req = job[w].req /\ j.kind = job[w].kind /\ j.pc = "nonce"
      <4>1. PICK n \in Nat : n = job[w].attempt + 1
        BY <1>2 DEF RequestJobs
      <4>2. j = [job[w] EXCEPT !.attempt = n, !.pc = "nonce"]
        BY <3>1, <4>1
      <4> QED
        BY <1>2, <4>2 DEF RequestJobs
    <3>3. j.kind = "create" => ToSend(w, j.req)
      BY <3>2 DEF ToSend, Send, At
    <3> QED
      BY <1>2, <1>6, <2>2, <3>1, <3>2, <3>3, GoesOn
  <2> QED
    BY <1>6, <2>1, <2>2 DEF Retries
<1>7. ASSUME Pooled(tx), Fail(w)
      PROVE  CreationInv'
  <2>1. bounties' \in Seq(Requests) /\ nonce' \in Nat
    BY <1>2
  <2> QED
    BY <1>1, <1>2, <1>4, <1>7, <2>1, IsAnswered DEF Fail
<1>8. ASSUME UNCHANGED pool, Fail(w)
      PROVE  CreationInv'
  BY <1>2, <1>8, FailKeeps
<1> QED
  BY <1>1, <1>5, <1>6, <1>7, <1>8 DEF Send

\* Every step keeps it, with as many processes as one likes.
LEMMA CreationStep ==
  ASSUME CreationInv, [CreationNext]_creation_vars
  PROVE  CreationInv'
<1>1. ASSUME UNCHANGED <<job, status, bounties, pool, nonce>>
      PROVE  CreationInv'
  <2>1. CreationTypeOK'
    BY <1>1 DEF CreationInv, CreationTypeOK, Working
  <2>2. OneAtMost' /\ \A q : Nothing(q)' = Nothing(q)
    BY <1>1 DEF CreationInv, OneAtMost, Nothing, NonePending, NoneMade
  <2>3. \A w, r : Working(w)' = Working(w) /\ ToSend(w, r)' = ToSend(w, r)
    BY <1>1 DEF Working, ToSend
  <2> QED
    BY <1>1, <2>1, <2>2, <2>3 DEF CreationInv
<1>2. ASSUME NEW w \in Processes, NEW r \in Requests, StartCreate(w, r)
      PROVE  CreationInv'
  BY <1>2, IsTaken
<1>3. ASSUME NEW w \in Processes, ReadNonce(w) \/ Wait(w) \/ ReadId(w) \/ ReadRound(w)
      PROVE  CreationInv'
  BY <1>3, ReadKeeps
<1>4. ASSUME NEW w \in Processes, Send(w)
      PROVE  CreationInv'
  BY <1>4, SendKeeps
<1>5. ASSUME NEW w \in Processes, Store(w)
      PROVE  CreationInv'
  <2>1. Working(w) /\ job[w] \in RequestJobs /\ UNCHANGED <<status, bounties, pool, nonce>>
    BY <1>5 DEF Store, At, Working, chain, CreationInv, CreationTypeOK
  <2>2. PICK j : j = [job[w] EXCEPT !.pc = "index"]
    OBVIOUS
  <2>3. j \in RequestJobs /\ j.req = job[w].req /\ j.pc = "index" /\ Goto(w, j)
    BY <1>5, <2>1, <2>2 DEF RequestJobs, Store
  <2> QED
    BY <2>1, <2>3, GoesOn
<1>6. ASSUME NEW w \in Processes, Index(w)
      PROVE  CreationInv'
  <2>1. Working(w) /\ UNCHANGED <<bounties, pool, nonce>>
    BY <1>6 DEF Index, At, Working, chain
  <2>2. OneAtMost' /\ \A q : Nothing(q)' = Nothing(q)
    BY <2>1 DEF CreationInv, OneAtMost, Nothing, NonePending, NoneMade
  <2>3. Fail(w) \/ Answered(w, "done", job[w].bounty)
    BY <1>6 DEF Index
  <2>4. ASSUME NEW b, Answered(w, "done", b)
        PROVE  CreationInv'
    BY <2>1, <2>2, <2>4, IsAnswered DEF CreationInv, CreationTypeOK
  <2> QED
    BY <2>1, <2>3, <2>4, FailKeeps
<1>7. ASSUME NEW w \in Processes, ReadPhase(w) \/ UpdatePhase(w)
      PROVE  CreationInv'
  <2>1. UNCHANGED <<status, bounties, pool, nonce>>
    BY <1>7 DEF ReadPhase, UpdatePhase, chain
  <2>2. ASSUME NEW j, Goto(w, j), j = Idle \/ j.kind = "refresh"
        PROVE  CreationInv'
    <3>1. j.kind \in {"idle", "refresh"}
      BY <2>2 DEF Idle
    <3> QED
      BY <2>1, <2>2, <3>1, GoesOn
  <2>3. CASE ReadPhase(w)
    <3>1. PICK b : Goto(w, [kind |-> "refresh", bounty |-> b, phase |-> get_round_details(b)])
      BY <2>3 DEF ReadPhase
    <3>2. PICK j : j = [kind |-> "refresh", bounty |-> b, phase |-> get_round_details(b)]
      OBVIOUS
    <3> QED
      BY <2>2, <3>1, <3>2
  <2>4. CASE UpdatePhase(w)
    BY <2>2, <2>4 DEF UpdatePhase
  <2> QED
    BY <1>7, <2>3, <2>4
<1>8. ASSUME NEW w \in Processes, Crash(w)
      PROVE  CreationInv'
  <2>1. UNCHANGED <<bounties, pool, nonce>>
    BY <1>8 DEF Crash, chain
  <2>2. CASE Working(w)
    BY <1>8, <2>1, <2>2, FailKeeps DEF Crash, Working
  <2>3. CASE ~Working(w)
    <3>1. job[w].kind = "refresh"
      BY <1>8, <2>3 DEF Crash, CreationInv, CreationTypeOK
    <3>2. Goto(w, Idle) /\ UNCHANGED status
      BY <1>8, <3>1 DEF Crash
    <3> QED
      BY <2>1, <3>2, GoesOn DEF Idle
  <2> QED
    BY <2>2, <2>3
<1>9. CASE Mine
  <2>1. /\ CreationTypeOK' /\ OneAtMost' /\ \A q \in Requests : Nothing(q) => Nothing(q)'
        /\ UNCHANGED <<job, status>>
    BY <1>9, MineKeeps DEF CreationInv, Mine, backend
  <2>2. \A w, r : Working(w)' = Working(w) /\ ToSend(w, r)' = ToSend(w, r)
    BY <2>1 DEF Working, ToSend
  <2> QED
    BY <2>1, <2>2 DEF CreationInv
<1>10. CASE PhaseMoves \/ UNCHANGED creation_vars
  BY <1>1, <1>10 DEF PhaseMoves, backend, creation_vars, chain
<1> QED
  BY <1>2, <1>3, <1>4, <1>5, <1>6, <1>7, <1>8, <1>9, <1>10 DEF CreationNext, Step

\* Two at most one is none or one.
LEMMA OneElement ==
  ASSUME NEW S, \A x, y \in S : x = y
  PROVE  (S = {} /\ Cardinality(S) = 0) \/ Cardinality(S) = 1
<1>1. CASE S = {}
  BY <1>1, FS_EmptySet
<1>2. ASSUME NEW x \in S
      PROVE  Cardinality(S) = 1
  <2>1. S = {x}
    OBVIOUS
  <2> QED
    BY <2>1, FS_Singleton
<1> QED
  BY <1>1, <1>2

\* At first nothing is served, pending or made.
LEMMA CreationInitially == CreationInit => CreationInv
<1> SUFFICES ASSUME CreationInit
             PROVE  CreationInv
  OBVIOUS
<1>1. \A w \in Processes : job[w] = Idle /\ ~Working(w) /\ \A r : ~ToSend(w, r)
  BY DEF CreationInit, Working, ToSend, Idle
<1>2. OneAtMost /\ \A q : Nothing(q)
  BY DEF CreationInit, OneAtMost, Nothing, NonePending, NoneMade
<1>3. CreationTypeOK
  BY <1>1 DEF CreationInit, CreationTypeOK
<1> QED
  BY <1>1, <1>2, <1>3 DEF CreationInv

\* A request makes at most one bounty, whatever processes share the operator's
\* account, however often a transaction is tried again, replaced, late or lost
\* (_send_tx, create_bounty_and_spawn).
THEOREM OneBountyAtMost == CreationSpec => []AtMostOneBounty
<1>1. CreationInit => CreationInv
  BY CreationInitially
<1>2. CreationInv /\ [CreationNext]_creation_vars => CreationInv'
  BY CreationStep
<1>3. CreationInv => AtMostOneBounty
  <2> SUFFICES ASSUME CreationInv, NEW r \in Requests
               PROVE  Cardinality({b \in DOMAIN bounties : bounties[b] = r})
                        + Cardinality({i \in DOMAIN pool : pool[i].kind = "create"
                                                           /\ pool[i].req = r}) <= 1
    BY DEF AtMostOneBounty
  <2>1. PICK made : made = {b \in DOMAIN bounties : bounties[b] = r}
    OBVIOUS
  <2>2. PICK pending :
          pending = {i \in DOMAIN pool : pool[i].kind = "create" /\ pool[i].req = r}
    OBVIOUS
  <2>3. made = {} \/ pending = {}
    BY <2>1, <2>2 DEF CreationInv, OneAtMost, NonePending, NoneMade
  <2>4. (\A b, c \in made : b = c) /\ (\A i, j \in pending : i = j)
    BY <2>1, <2>2 DEF CreationInv, OneAtMost
  <2>5. /\ (made = {} /\ Cardinality(made) = 0) \/ Cardinality(made) = 1
        /\ (pending = {} /\ Cardinality(pending) = 0) \/ Cardinality(pending) = 1
    BY <2>4, OneElement
  <2>6. Cardinality(made) + Cardinality(pending) <= 1
    <3>1. Cardinality({}) = 0
      BY FS_EmptySet
    <3> QED
      BY <2>3, <2>5, <3>1
  <2> QED
    BY <2>1, <2>2, <2>6
<1> QED
  BY <1>1, <1>2, <1>3, PTL DEF CreationSpec

-----------------------------------------------------------------------------
(* What is stored about a request                                             *)

\* A row as it was written, and the phase it has since.
RowOf(r, p) ==
  [req |-> r, phase |-> p, private |-> r \in PrivateRequests,
   fields |-> Public \cup {"description"}]

\* Every rubric file and every row is what was written for some request, but
\* for the phase of the row: RubricStaysPrivate follows.
StoredInv ==
  /\ \A b \in DOMAIN files : \E r, pinned :
       files[b] = RubricFile(r, pinned) /\ pinned \in upload_rubric(r)
  /\ index = [b \in DOMAIN index |-> index[b]]
  /\ \A b \in DOMAIN index : \E r, p :
       index[b] = RowOf(r, p)

\* Only three steps write (upload_rubric, index_bounty, update_bounty_phase).
LEMMA StoredStep ==
  ASSUME StoredInv, [CreationNext]_creation_vars
  PROVE  StoredInv'
<1>1. CASE UNCHANGED <<files, index>>
  BY <1>1 DEF StoredInv
<1>2. ASSUME NEW w \in Processes, Store(w)
      PROVE  StoredInv'
  <2>1. PICK b, r : b = job[w].bounty /\ r = job[w].req
    OBVIOUS
  <2>2. PICK pinned \in upload_rubric(r) : files' = With(files, b, RubricFile(r, pinned))
    BY <1>2, <2>1 DEF Store
  <2>3. index' = index
    BY <1>2 DEF Store
  <2>4. PICK file : file = RubricFile(r, pinned)
    OBVIOUS
  <2>5. /\ DOMAIN files' = DOMAIN files \cup {b} /\ files'[b] = file
        /\ \A c \in DOMAIN files : c # b => files'[c] = files[c]
    BY <2>2, <2>4 DEF With
  <2>6. ASSUME NEW c \in DOMAIN files'
        PROVE  \E q, pin : files'[c] = RubricFile(q, pin) /\ pin \in upload_rubric(q)
    <3>1. CASE c = b
      BY <2>4, <2>5, <3>1
    <3>2. CASE c # b
      BY <2>5, <2>6, <3>2 DEF StoredInv
    <3> QED
      BY <3>1, <3>2
  <2> QED
    BY <2>3, <2>6 DEF StoredInv
<1>3. ASSUME NEW w \in Processes, Index(w)
      PROVE  StoredInv'
  <2>1. PICK b, r : b = job[w].bounty /\ r = job[w].req
    OBVIOUS
  <2>2. files' = files /\ (index' = index \/ index' = With(index, b, Row(r)))
    BY <1>3, <2>1 DEF Index
  <2>3. CASE index' = With(index, b, Row(r))
    <3>1. PICK row : row = Row(r)
      OBVIOUS
    <3>2. /\ DOMAIN index' = DOMAIN index \cup {b} /\ index'[b] = row
          /\ \A c \in DOMAIN index : c # b => index'[c] = index[c]
          /\ index' = [c \in DOMAIN index' |-> index'[c]]
      BY <2>3, <3>1 DEF With
    <3>3. ASSUME NEW c \in DOMAIN index'
          PROVE  \E q, p : index'[c] = RowOf(q, p)
      <4>1. CASE c = b
        BY <3>1, <3>2, <4>1 DEF Row, RowOf
      <4>2. CASE c # b
        <5>1. c \in DOMAIN index /\ index'[c] = index[c]
          BY <3>2, <3>3, <4>2
        <5> QED
          BY <5>1, Zenon DEF StoredInv
      <4> QED
        BY <4>1, <4>2
    <3> QED
      BY <2>2, <3>2, <3>3 DEF StoredInv
  <2> QED
    BY <1>1, <2>2, <2>3
<1>4. ASSUME NEW w \in Processes, UpdatePhase(w)
      PROVE  StoredInv'
  <2>1. PICK b, p : b = job[w].bounty /\ p = job[w].phase
    OBVIOUS
  <2>2. files' = files /\ index' = [index EXCEPT ![b].phase = p]
    BY <1>4, <2>1 DEF UpdatePhase
  <2>3. /\ DOMAIN index' = DOMAIN index /\ index' = [c \in DOMAIN index' |-> index'[c]]
        /\ \A c \in DOMAIN index :
             index'[c] = IF c = b THEN [index[c] EXCEPT !.phase = p] ELSE index[c]
    BY <2>2 DEF StoredInv
  <2>4. ASSUME NEW c \in DOMAIN index
        PROVE  \E q, s : index'[c] = RowOf(q, s)
    <3>1. PICK r, old : index[c] = RowOf(r, old)
      BY DEF StoredInv
    <3>2. [index[c] EXCEPT !.phase = p] = RowOf(r, p)
      BY SMTT(60), <3>1 DEF RowOf
    <3> QED
      BY <2>3, <3>1, <3>2
  <2> QED
    BY <2>2, <2>3, <2>4 DEF StoredInv
<1>5. CASE \/ \E w \in Processes : \/ ReadNonce(w) \/ Send(w) \/ Wait(w) \/ ReadId(w)
                                   \/ ReadRound(w) \/ Crash(w) \/ ReadPhase(w)
           \/ \E w \in Processes, r \in Requests : StartCreate(w, r)
           \/ Mine \/ PhaseMoves \/ UNCHANGED creation_vars
  BY <1>1, <1>5 DEF ReadNonce, Send, Wait, ReadId, ReadRound, Crash, ReadPhase, StartCreate,
                    Mine, PhaseMoves, backend, creation_vars
<1> QED
  BY <1>2, <1>3, <1>4, <1>5 DEF CreationNext, Step

\* A private request's rubric is never answered or pinned, and the routes that
\* filter do not show its description, whatever is stored and whichever write
\* failed (get_bounty, get_rubric, debug_list, upload_rubric).
THEOREM RubricAlwaysStaysPrivate == CreationSpec => []RubricStaysPrivate
<1>1. CreationInit => StoredInv
  BY DEF CreationInit, StoredInv
<1>2. StoredInv /\ [CreationNext]_creation_vars => StoredInv'
  BY StoredStep
<1>3. StoredInv => RubricStaysPrivate
  <2> SUFFICES ASSUME StoredInv, NEW b \in DOMAIN files \cup DOMAIN index,
                      (IF b \in DOMAIN files THEN files[b].req ELSE index[b].req)
                        \in PrivateRequests
               PROVE  /\ Filtered(b) \cap Confidential = {}
                      /\ "rubric" \notin Served(b)
                      /\ b \in DOMAIN files => ~files[b].ipfs
    BY DEF RubricStaysPrivate
  <2>0. "rubric" \notin ListedRow(b)
    <3>1. CASE b \in DOMAIN index
      <4>1. PICK r, p : index[b] = RowOf(r, p)
        BY <3>1 DEF StoredInv
      <4>2. index[b].fields = Public \cup {"description"}
        BY <4>1 DEF RowOf
      <4> QED
        BY <3>1, <4>2 DEF ListedRow, Public
    <3> QED
      BY <3>1 DEF ListedRow
  <2>3. Filtered(b) \cap Confidential = {} /\ GetRubric(b) = {} =>
          "rubric" \notin Served(b)
    BY <2>0 DEF Served, Confidential
  <2>1. CASE b \in DOMAIN files
    <3>1. PICK r, pinned : files[b] = RubricFile(r, pinned) /\ pinned \in upload_rubric(r)
      BY <2>1 DEF StoredInv
    <3>2. r \in PrivateRequests
      BY <2>1, <3>1 DEF RubricFile
    <3>3. files[b].private /\ files[b].fields = Public /\ ~files[b].ipfs
      <4>1. files[b].private = (r \in PrivateRequests)
        BY <3>1, SMT DEF RubricFile
      <4>2. files[b].private
        BY <3>2, <4>1, Zenon
      <4>3. files[b].ipfs = pinned /\ pinned = FALSE
        BY <3>1, <3>2 DEF RubricFile, upload_rubric
      <4>4. files[b].fields = Public
        BY <3>1, <3>2 DEF RubricFile
      <4> QED
        BY <4>2, <4>3, <4>4, Zenon
    <3>4. GetBounty(b) = Public \ Confidential
      BY <2>1, <3>3 DEF GetBounty
    <3>5. GetRubric(b) = {}
      BY <2>1, <3>3 DEF GetRubric
    <3> QED
      BY <2>3, <3>3, <3>4, <3>5 DEF Filtered, GetByRound, Confidential
  <2>2. CASE b \notin DOMAIN files
    <3>1. PICK r, p : index[b] = RowOf(r, p)
      BY <2>2 DEF StoredInv
    <3>2. r \in PrivateRequests
      BY <2>2, <3>1 DEF RowOf
    <3>3. index[b].private
      <4>1. index[b].private = (r \in PrivateRequests)
        BY <3>1, SMT DEF RowOf
      <4>2. index[b].private <=> r \in PrivateRequests
        BY <4>1, Zenon
      <4> QED
        BY <3>2, <4>2, Zenon
    <3>4. GetBounty(b) = index[b].fields \ Confidential
      BY <2>2, <3>3 DEF GetBounty
    <3>5. GetRubric(b) = {}
      BY <2>2 DEF GetRubric
    <3> QED
      BY <2>2, <2>3, <3>4, <3>5 DEF Filtered, GetByRound
  <2> QED
    BY <2>1, <2>2
<1> QED
  BY <1>1, <1>2, <1>3, PTL DEF CreationSpec

-----------------------------------------------------------------------------
(* Delivery of solutions                                                      *)

SponsorKeys == Keys \cup {WalletKey}
AllKeys == SponsorKeys \cup {NoKey}

RoundStatuses == {"receiving", "scoring", "completed", "submitted", "error"}
ThreadSteps == {"v1", "v2", "submit_v1", "submit_v2", "seal", "clean", "done"}

RoundObjects ==
  [status: RoundStatuses, key: AllKeys, step: ThreadSteps, results: Results \cup {NotYet},
   sealed: SUBSET Agents]

\* The scores an object has for an agent are those on the chain.
OnChain(object, posted, a) ==
  object.results[a] \in Nat /\ object.results[a] = posted[a]

\* A round object, given the scores on the chain: one that is to be submitted
\* has results, one that is to be sealed has those on the chain, and what is
\* sealed is sealed for a key of the sponsor by a thread that scores no more.
SoundObjects(posted) ==
  {object \in RoundObjects :
     /\ object.step \in {"submit_v1", "submit_v2"} => object.results \in Results
     /\ object.step = "seal" => \A a \in Agents : OnChain(object, posted, a)
     /\ object.sealed # {} => object.step \in {"clean", "done"} /\ object.key # NoKey
     /\ \A a \in object.sealed : OnChain(object, posted, a)}

RowMatches(row, posted, a) ==
  row # NoRow => row.score \in Nat /\ row.score = posted[a] /\ row.key \in SponsorKeys

DeliveryInv ==
  /\ sponsor_pubkeys \in AllKeys
  /\ problem \in AllKeys
  /\ row_status \in {"receiving", "scoring"}
  /\ oracle \in Results \cup {NotYet}
  /\ rounds \in Seq(SoundObjects(oracle)) /\ Len(rounds) > 0
  /\ DOMAIN winning_solutions = Agents
  /\ \A a \in Agents : RowMatches(winning_solutions[a], oracle, a)

\* Whatever all objects are, they are after one has changed or was replaced.
LEMMA ChangeKeepsAll ==
  ASSUME NEW S, rounds \in Seq(S), Len(rounds) > 0, NEW object \in S
  PROVE  /\ \A i \in DOMAIN rounds :
              Change(i, object) => rounds' \in Seq(S) /\ Len(rounds') > 0
         /\ Replace(object) => rounds' \in Seq(S) /\ Len(rounds') > 0
<1>0. Len(rounds) \in Nat /\ DOMAIN rounds = 1 .. Len(rounds)
  OBVIOUS
<1>1. ASSUME NEW i \in DOMAIN rounds, Change(i, object)
      PROVE  rounds' \in Seq(S) /\ Len(rounds') > 0
  <2>1. CASE i < Len(rounds) /\ ~InUse(object)
    <3> DEFINE before == SubSeq(rounds, 1, i - 1)
               behind == SubSeq(rounds, i + 1, Len(rounds))
    <3>1. rounds' = before \o behind
      BY <1>1, <2>1 DEF Change, RemoveAt
    <3>2. i \in Nat /\ 1 <= i
      BY <1>0
    <3>3. before \in Seq(S)
      BY <1>0, <2>1, <3>2
    <3>4. behind \in Seq(S) /\ Len(behind) > 0
      BY <1>0, <2>1, <3>2
    <3> HIDE DEF before, behind
    <3> QED
      BY <3>1, <3>3, <3>4
  <2>2. CASE ~(i < Len(rounds) /\ ~InUse(object))
    <3>1. rounds' = [rounds EXCEPT ![i] = object]
      BY <1>1, <2>2 DEF Change
    <3> QED
      BY <3>1
  <2> QED
    BY <2>1, <2>2
<1>2. ASSUME Replace(object)
      PROVE  rounds' \in Seq(S) /\ Len(rounds') > 0
  <2>1. CASE InUse(Current)
    BY <1>2, <2>1 DEF Replace
  <2>2. CASE ~InUse(Current)
    <3>1. rounds' = [rounds EXCEPT ![Len(rounds)] = object]
      BY <1>2, <2>2 DEF Replace
    <3> QED
      BY <3>1
  <2> QED
    BY <2>1, <2>2
<1> QED
  BY <1>1, <1>2

\* What is sound before the scores of the round are on the chain stays so.
LEMMA SoundBeforeStaysSound ==
  ASSUME NEW posted
  PROVE  SoundObjects(NotYet) \subseteq SoundObjects(posted)
<1> SUFFICES ASSUME NEW object \in SoundObjects(NotYet)
             PROVE  object \in SoundObjects(posted)
  OBVIOUS
<1>1. ASSUME NEW a \in Agents PROVE ~OnChain(object, NotYet, a)
  BY DEF OnChain, NotYet
<1>2. object \in RoundObjects /\ object.sealed \subseteq Agents
  BY DEF SoundObjects, RoundObjects
<1> QED
  BY <1>1, <1>2 DEF SoundObjects

\* Objects of a new round, of a trigger or of a recovery.
LEMMA NewObjectIsSound ==
  ASSUME NEW state \in RoundStatuses, NEW key \in AllKeys, NEW step \in {"v1", "v2", "done"},
         NEW posted
  PROVE  Object(state, key, step) \in SoundObjects(posted)
<1> DEFINE o == Object(state, key, step)
<1>1. /\ o.status = state /\ o.key = key /\ o.step = step /\ o.results = NotYet
      /\ o.sealed = {}
  BY DEF Object
<1>2. o \in RoundObjects
  BY DEF Object, RoundObjects, ThreadSteps
<1> HIDE DEF o
<1>3. o \in SoundObjects(posted)
  BY <1>1, <1>2 DEF SoundObjects
<1> QED
  BY <1>3 DEF o

\* One object that nothing has scored, and an empty vault.
LEMMA DeliveryInitially == DeliveryInit => DeliveryInv
<1> SUFFICES ASSUME DeliveryInit PROVE DeliveryInv
  OBVIOUS
<1>1. Object("receiving", NoKey, "v1") \in SoundObjects(oracle)
  BY NewObjectIsSound DEF AllKeys, RoundStatuses
<1>2. rounds \in Seq(SoundObjects(oracle)) /\ Len(rounds) > 0
  BY <1>1 DEF DeliveryInit
<1>3. \A a \in Agents : winning_solutions[a] = NoRow
  BY DEF DeliveryInit
<1> QED
  BY <1>2, <1>3 DEF DeliveryInit, DeliveryInv, AllKeys, SponsorKeys, RowMatches

-----------------------------------------------------------------------------

\* A step that leaves the backend and the chain alone and changes one object
\* to a sound one.
LEMMA ObjectStep ==
  ASSUME DeliveryInv, NEW i \in DOMAIN rounds, NEW object \in SoundObjects(oracle),
         Change(i, object), problem' \in AllKeys,
         UNCHANGED <<sponsor_pubkeys, row_status, oracle, winning_solutions>>
  PROVE  DeliveryInv'
BY ChangeKeepsAll DEF DeliveryInv

\* The fields of a sound object.
LEMMA SoundFields ==
  ASSUME NEW posted, NEW o \in SoundObjects(posted)
  PROVE  /\ o \in RoundObjects
         /\ o.key \in AllKeys /\ o.results \in Results \cup {NotYet} /\ o.sealed \subseteq Agents
BY DEF SoundObjects, RoundObjects

\* A scoring replaces the results of an object that has sealed nothing.
LEMMA ScoredStep ==
  ASSUME DeliveryInv, NEW i \in DOMAIN rounds, Scored(i)
  PROVE  DeliveryInv'
<1>1. PICK o : o = rounds[i]
  OBVIOUS
<1>2. o \in SoundObjects(oracle) /\ o.step \in {"v1", "v2"}
  BY <1>1 DEF DeliveryInv, Scored
<1>3. PICK new, state, step, scores :
        /\ state \in RoundStatuses /\ step \in {"submit_v1", "submit_v2"} /\ scores \in Results
        /\ new = [o EXCEPT !.status = state, !.results = scores, !.step = step]
        /\ Change(i, new)
  BY <1>1 DEF Scored, RoundStatuses
<1>4. o.sealed = {}
  BY <1>2 DEF SoundObjects
<1>5. step \in ThreadSteps /\ o \in RoundObjects
  BY <1>2, <1>3, SoundFields DEF ThreadSteps
<1>6. new \in RoundObjects /\ new.sealed = {} /\ new.results = scores /\ new.step = step
  BY <1>3, <1>4, <1>5 DEF RoundObjects
<1>7. new \in SoundObjects(oracle)
  BY <1>3, <1>6 DEF SoundObjects
<1>8. UNCHANGED <<sponsor_pubkeys, problem, row_status, oracle, winning_solutions>>
  BY DEF Scored
<1>9. problem' \in AllKeys
  BY <1>8 DEF DeliveryInv
<1> QED
  BY <1>3, <1>7, <1>8, <1>9, ObjectStep

\* A thread fails or ends, or the deprecated path starts.
LEMMA ThreadStatusStep ==
  ASSUME DeliveryInv, NEW i \in DOMAIN rounds,
         ScoringFails(i) \/ ForgetProblem(i) \/ (i = Len(rounds) /\ ScoreV1)
  PROVE  DeliveryInv'
<1>1. PICK o : o = rounds[i]
  OBVIOUS
<1>2. o \in SoundObjects(oracle) /\ o \in RoundObjects
  BY <1>1, SoundFields DEF DeliveryInv
<1>3. PICK new \in RoundObjects :
        /\ Change(i, new)
        /\ new.step = "done" \/ (new.step = "v1" /\ o.step = "v1")
        /\ new.key = o.key /\ new.results = o.results /\ new.sealed = o.sealed
  <2>1. CASE ScoringFails(i)
    <3>1. PICK new, state, step :
            /\ state \in RoundStatuses /\ step \in ThreadSteps
            /\ step = "done" /\ Change(i, new)
            /\ new = [o EXCEPT !.status = state, !.step = step]
      <4>1. PICK state, step : state = "error" /\ step = "done"
        OBVIOUS
      <4>2. Change(i, [o EXCEPT !.status = state, !.step = step])
        BY <1>1, <2>1, <4>1 DEF ScoringFails
      <4> QED
        BY <4>1, <4>2 DEF RoundStatuses, ThreadSteps
    <3>2. /\ new \in RoundObjects /\ new.step = step
          /\ new.key = o.key /\ new.results = o.results /\ new.sealed = o.sealed
      BY <1>2, <3>1 DEF RoundObjects
    <3> QED
      BY <3>1, <3>2
  <2>2. CASE ForgetProblem(i)
    <3>1. PICK new, step :
            /\ step \in ThreadSteps /\ step = "done"
            /\ Change(i, new) /\ new = [o EXCEPT !.step = step]
      BY <1>1, <2>2 DEF ForgetProblem, ThreadSteps
    <3>2. /\ new \in RoundObjects /\ new.step = step
          /\ new.key = o.key /\ new.results = o.results /\ new.sealed = o.sealed
      BY <1>2, <3>1 DEF RoundObjects
    <3> QED
      BY <3>1, <3>2
  <2>3. CASE i = Len(rounds) /\ ScoreV1
    <3>1. PICK new, state :
            state \in RoundStatuses /\ Change(i, new) /\ new = [o EXCEPT !.status = state]
      BY <1>1, <2>3 DEF ScoreV1, Current, RoundStatuses
    <3>2. /\ new \in RoundObjects /\ new.step = o.step
          /\ new.key = o.key /\ new.results = o.results /\ new.sealed = o.sealed
      BY <1>2, <3>1 DEF RoundObjects
    <3>3. o.step = "v1"
      BY <1>1, <2>3 DEF ScoreV1, Current
    <3> QED
      BY <3>1, <3>2, <3>3
  <2> QED
    BY <2>1, <2>2, <2>3
<1>6. new \in SoundObjects(oracle)
  BY <1>2, <1>3 DEF SoundObjects, OnChain
<1>7. /\ UNCHANGED <<sponsor_pubkeys, row_status, oracle, winning_solutions>>
      /\ problem' \in AllKeys
  BY DEF ScoringFails, ForgetProblem, ScoreV1, DeliveryInv, AllKeys
<1> QED
  BY <1>3, <1>6, <1>7, ObjectStep

\* Sealing comes when the thread's scores are on the chain.
LEMMA SealStep ==
  ASSUME DeliveryInv, NEW i \in DOMAIN rounds, Seal(i)
  PROVE  DeliveryInv'
<1>1. PICK o : o = rounds[i]
  OBVIOUS
<1>2. o \in SoundObjects(oracle) /\ o \in RoundObjects /\ o.step = "seal"
  BY <1>1, SoundFields DEF DeliveryInv, Seal
<1>3. PICK new, sealed, step :
        /\ sealed \in SUBSET Agents /\ step \in ThreadSteps
        /\ step = "clean" /\ (sealed # {} => o.key # NoKey)
        /\ new = [o EXCEPT !.step = step, !.sealed = sealed]
        /\ Change(i, new)
  <2> DEFINE winners == {a \in Agents : o.results[a] > 0 /\ o.key # NoKey}
  <2>1. PICK failed : Change(i, [o EXCEPT !.step = "clean", !.sealed = winners \ failed])
    BY <1>1 DEF Seal
  <2>2. winners \ failed \in SUBSET Agents /\ (winners \ failed # {} => o.key # NoKey)
    OBVIOUS
  <2> HIDE DEF winners
  <2> QED
    BY <2>1, <2>2 DEF ThreadSteps
<1>5. /\ new \in RoundObjects /\ new.step = "clean" /\ new.results = o.results
      /\ new.key = o.key /\ new.sealed = sealed
  BY <1>2, <1>3 DEF RoundObjects
<1>6. \A a \in Agents : OnChain(o, oracle, a)
  BY <1>2 DEF SoundObjects
<1>7. new \in SoundObjects(oracle)
  BY <1>3, <1>5, <1>6 DEF SoundObjects, OnChain
<1>8. /\ UNCHANGED <<sponsor_pubkeys, row_status, oracle, winning_solutions>>
      /\ problem' \in AllKeys
  BY DEF Seal, DeliveryInv
<1> QED
  BY <1>3, <1>7, <1>8, ObjectStep

\* The scores reach the chain: what was sound without them is, and the thread's
\* own object has them.
LEMMA SubmissionStep ==
  ASSUME DeliveryInv, NEW i \in DOMAIN rounds, Submitted(i) \/ SubmissionFails(i)
  PROVE  DeliveryInv'
<1>0. PICK o : o = rounds[i]
  OBVIOUS
<1>1. /\ UNCHANGED <<sponsor_pubkeys, row_status, problem, winning_solutions>>
      /\ o \in SoundObjects(oracle) /\ o \in RoundObjects
      /\ o.step \in {"submit_v1", "submit_v2"}
  BY <1>0, SoundFields DEF DeliveryInv, Submitted, SubmissionFails, Submitting
<1>2. o.results \in Results /\ o.sealed = {}
  BY <1>1 DEF SoundObjects
<1>3. /\ oracle' = oracle \/ (oracle = NotYet /\ oracle' = o.results)
      /\ oracle' \in Results \cup {NotYet}
  BY <1>0, <1>2 DEF DeliveryInv, Submitted, SubmissionFails
<1>4. SoundObjects(oracle) \subseteq SoundObjects(oracle')
  BY <1>3, SoundBeforeStaysSound
<1>5. PICK new \in SoundObjects(oracle') : Change(i, new)
  <2>1. PICK new, state, step :
          /\ state \in RoundStatuses /\ step \in {"done", "clean", "seal"}
          /\ Change(i, new)
          /\ \/ new = [o EXCEPT !.status = state, !.step = step]
             \/ new = [o EXCEPT !.step = step]
          /\ step = "seal" => oracle' = o.results
    <3>1. CASE Submitted(i)
      <4>1. PICK step : step = Next_step(i, "seal")
        OBVIOUS
      <4>2. step \in {"done", "seal"} /\ oracle' = o.results
        BY <1>0, <3>1, <4>1 DEF Submitted, Next_step
      <4>3. Change(i, [o EXCEPT !.status = "submitted", !.step = step])
        BY <1>0, <3>1, <4>1 DEF Submitted
      <4> QED
        BY <4>2, <4>3 DEF RoundStatuses
    <3>2. CASE SubmissionFails(i)
      <4>1. PICK step : step = Next_step(i, AfterFailure)
        OBVIOUS
      <4>2. step \in {"done", "clean"}
        BY <4>1 DEF Next_step, AfterFailure
      <4>3. Change(i, [o EXCEPT !.step = step])
        BY <1>0, <3>2, <4>1 DEF SubmissionFails
      <4> QED
        BY <4>2, <4>3 DEF RoundStatuses
    <3> QED
      BY <3>1, <3>2
  <2>2. step \in ThreadSteps
    BY <2>1 DEF ThreadSteps
  <2>3. new \in RoundObjects /\ new.sealed = {} /\ new.results = o.results /\ new.step = step
    BY <1>1, <1>2, <2>1, <2>2 DEF RoundObjects
  <2>4. step = "seal" => \A a \in Agents : OnChain(new, oracle', a)
    BY <1>2, <2>1, <2>3, DeliveryAssumption DEF OnChain
  <2>5. new \in SoundObjects(oracle')
    BY <2>1, <2>3, <2>4 DEF SoundObjects
  <2> QED
    BY <2>1, <2>5
<1>6. rounds' \in Seq(SoundObjects(oracle')) /\ Len(rounds') > 0
  <2>1. rounds \in Seq(SoundObjects(oracle')) /\ Len(rounds) > 0
    BY <1>4 DEF DeliveryInv
  <2> QED
    BY <1>5, <2>1, ChangeKeepsAll
<1>7. \A a \in Agents : RowMatches(winning_solutions[a], oracle', a)
  BY <1>3 DEF DeliveryInv, RowMatches, NotYet
<1> QED
  BY <1>1, <1>3, <1>6, <1>7 DEF DeliveryInv

-----------------------------------------------------------------------------

\* Triggers and a recovery bring objects that nothing has scored.
LEMMA RoundsOnlyStep ==
  ASSUME DeliveryInv, RestartScoring \/ TriggerScoring \/ ScoreRound
  PROVE  DeliveryInv'
<1>1. UNCHANGED <<sponsor_pubkeys, oracle, winning_solutions>> /\ problem' \in AllKeys
  BY DEF RestartScoring, TriggerScoring, ScoreRound, DeliveryInv, AllKeys
<1>2. CASE RestartScoring
  <2>1. PICK step \in {"v1", "v2", "done"} : rounds' = <<Object(row_status, NoKey, step)>>
    BY <1>2 DEF RestartScoring
  <2>2. Object(row_status, NoKey, step) \in SoundObjects(oracle)
    BY NewObjectIsSound DEF DeliveryInv, AllKeys, RoundStatuses
  <2>3. rounds' \in Seq(SoundObjects(oracle)) /\ Len(rounds') > 0 /\ row_status' = row_status
    BY <1>2, <2>1, <2>2 DEF RestartScoring
  <2> QED
    BY <1>1, <2>3 DEF DeliveryInv
<1>3. CASE TriggerScoring
  <2>1. PICK sponsor : ScoreRoundV2(IF sponsor = Sponsor THEN sponsor_pubkeys ELSE NoKey)
    BY <1>3 DEF TriggerScoring
  <2>2. PICK key \in AllKeys :
           \/ UNCHANGED <<rounds, row_status>>
           \/ Replace(Object("scoring", key, "v2")) /\ row_status' = "scoring"
    <3> DEFINE given == IF sponsor = Sponsor THEN sponsor_pubkeys ELSE NoKey
    <3>1. given \in AllKeys /\ problem \in AllKeys
      BY DEF DeliveryInv, AllKeys
    <3> QED
      BY <2>1, <3>1 DEF ScoreRoundV2
  <2>3. Object("scoring", key, "v2") \in SoundObjects(oracle)
    BY NewObjectIsSound DEF RoundStatuses
  <2>4. /\ rounds' \in Seq(SoundObjects(oracle)) /\ Len(rounds') > 0
        /\ row_status' \in {"receiving", "scoring"}
    BY <2>2, <2>3, ChangeKeepsAll DEF DeliveryInv
  <2> QED
    BY <1>1, <2>4 DEF DeliveryInv
<1>4. CASE ScoreRound
  <2>1. Object("scoring", NoKey, "v1") \in SoundObjects(oracle)
    BY NewObjectIsSound DEF AllKeys, RoundStatuses
  <2>2. rounds' \in Seq(SoundObjects(oracle)) /\ Len(rounds') > 0 /\ row_status' = row_status
    BY <1>4, <2>1, ChangeKeepsAll DEF DeliveryInv, ScoreRound
  <2> QED
    BY <1>1, <2>2 DEF DeliveryInv
<1> QED
  BY <1>2, <1>3, <1>4

\* The puller stores what it finds sealed in the object it polls.
LEMMA PullStep ==
  ASSUME DeliveryInv, NEW p \in DOMAIN pullers, Pull(p)
  PROVE  DeliveryInv'
<1>1. UNCHANGED <<sponsor_pubkeys, problem, rounds, row_status, oracle>>
  BY DEF Pull
<1>2. PICK lost : winning_solutions' = Stored(Current.sealed \ lost, pullers[p].sponsor)
  BY DEF Pull
<1>3. Current \in SoundObjects(oracle) /\ Current.sealed \subseteq Agents
  BY SoundFields DEF DeliveryInv, Current
<1>4. ASSUME NEW a \in Agents
      PROVE  RowMatches(winning_solutions'[a], oracle, a)
  <2>1. CASE a \in Current.sealed \ lost /\ winning_solutions[a] = NoRow
    <3>1. OnChain(Current, oracle, a) /\ Current.key # NoKey /\ Current.key \in AllKeys
      BY <1>3, <2>1, SoundFields DEF SoundObjects
    <3>2. winning_solutions'[a] = [score |-> Current.results[a], key |-> Current.key,
                                   sponsor |-> pullers[p].sponsor]
      BY <1>2, <2>1 DEF Stored
    <3>3. /\ winning_solutions'[a].score = Current.results[a]
          /\ winning_solutions'[a].key = Current.key
      BY <3>2
    <3> QED
      BY <3>1, <3>3 DEF RowMatches, OnChain, AllKeys
  <2>2. CASE ~(a \in Current.sealed \ lost /\ winning_solutions[a] = NoRow)
    <3>1. winning_solutions'[a] = winning_solutions[a]
      BY <1>2, <2>2 DEF Stored
    <3> QED
      BY <3>1 DEF DeliveryInv
  <2> QED
    BY <2>1, <2>2
<1>5. DOMAIN winning_solutions' = Agents
  BY <1>2 DEF Stored
<1> QED
  BY <1>1, <1>4, <1>5 DEF DeliveryInv

\* Every step keeps the invariant.
LEMMA DeliveryInductive == DeliveryInv /\ [DeliveryNext]_delivery_vars => DeliveryInv'
<1> SUFFICES ASSUME DeliveryInv, [DeliveryNext]_delivery_vars PROVE DeliveryInv'
  OBVIOUS
<1>1. CASE Threads
  <2>1. CASE ScoreV1
    <3>1. Len(rounds) \in DOMAIN rounds
      BY DEF DeliveryInv
    <3> QED
      BY <2>1, <3>1, ThreadStatusStep
  <2>2. ASSUME NEW i \in DOMAIN rounds,
               \/ Scored(i) \/ ScoringFails(i)
               \/ Submitted(i) \/ SubmissionFails(i)
               \/ Seal(i) \/ ForgetProblem(i)
        PROVE  DeliveryInv'
    BY <2>2, ScoredStep, ThreadStatusStep, SubmissionStep, SealStep
  <2> QED
    BY <1>1, <2>1, <2>2 DEF Threads
<1>2. CASE RestartScoring \/ TriggerScoring \/ ScoreRound
  BY <1>2, RoundsOnlyStep
<1>3. CASE RegisterSponsorKey \/ \E key \in Keys : RegisterDerivedKey(key)
  <2>1. PICK key \in SponsorKeys : StorePublicKey(key)
    BY <1>3 DEF RegisterSponsorKey, RegisterDerivedKey, SponsorKeys, recover_public_key
  <2> QED
    BY <2>1 DEF StorePublicKey, DeliveryInv, AllKeys
<1>4. CASE \E p \in DOMAIN pullers : Poll(p)
  <2>1. PICK p \in DOMAIN pullers : Poll(p)
    BY <1>4
  <2>2. CASE Pull(p)
    BY <2>2, PullStep
  <2>3. CASE PollAgain(p) \/ PollError(p)
    BY <2>3 DEF PollAgain, PollError, DeliveryInv
  <2> QED
    BY <2>1, <2>2, <2>3 DEF Poll
<1>5. CASE RestartBackend
  BY <1>5 DEF RestartBackend, DeliveryInv
<1>6. CASE UNCHANGED delivery_vars
  BY <1>6 DEF delivery_vars, DeliveryInv
<1> QED
  BY <1>1, <1>2, <1>3, <1>4, <1>5, <1>6 DEF DeliveryNext

\* Every row of the vault has the score that the oracle holds for its agent and
\* is sealed for a key of the sponsor, for any number of agents, pullers,
\* triggers and restarts (store_winning_solution, _score_round_v2_sync).
THEOREM VaultAlwaysMatchesChain == DeliverySpec => []VaultMatchesChain
<1>1. DeliveryInv => VaultMatchesChain
  BY DEF DeliveryInv, RowMatches, VaultMatchesChain, SponsorKeys
<1> QED
  BY <1>1, DeliveryInitially, DeliveryInductive, PTL DEF DeliverySpec

-----------------------------------------------------------------------------
(* Rate limits                                                                *)

Span(from) == {s \in Seconds : s >= from /\ s < from + window_sec}

\* What the limits rest on: the times of each client, in the store and in the
\* history, are counts.
RateTypeOK ==
  /\ second \in Seconds
  /\ _rate_store.times \in [Clients -> [Seconds -> Nat]]
  /\ admitted \in [Clients -> [Seconds -> Nat]]

\* Nothing is admitted ahead of the clock, and the store still has every time
\* that counts: cleaning took none of them.
NothingRecentIsDropped ==
  \A c \in Clients, s \in Seconds :
    /\ s > second => admitted[c][s] = 0
    /\ second - s < window_sec => _rate_store.times[c][s] = admitted[c][s]

RateInv == RateTypeOK /\ NothingRecentIsDropped /\ WindowHolds

\* Sums over the seconds are sums over finite sets.
LEMMA SecondsFinite == IsFiniteSet(Seconds) /\ Seconds \subseteq Nat
<1>1. MaxSecond \in Nat
  BY RateAssumption
<1> QED
  BY <1>1, FS_Interval DEF Seconds

\* An empty store and an empty history.
LEMMA RateInitially == RateInit => RateInv
<1> SUFFICES ASSUME RateInit PROVE RateInv
  OBVIOUS
<1>1. RateTypeOK
  BY RateAssumption DEF RateInit, RateTypeOK, Empty, Never, NoTimes, Seconds
<1>2. NothingRecentIsDropped
  BY DEF RateInit, NothingRecentIsDropped, Empty, Never, NoTimes
<1>3. ASSUME NEW c \in Clients, NEW from \in Seconds
      PROVE  Number(admitted[c], {s \in Seconds : s >= from /\ s < from + window_sec}) <= max_count
  <2> DEFINE T == {s \in Seconds : s >= from /\ s < from + window_sec}
  <2>1. IsFiniteSet(T) /\ T \subseteq Seconds
    BY SecondsFinite, FS_Subset
  <2>2. \A s \in T : admitted[c][s] = 0
    BY DEF RateInit, Never, NoTimes
  <2> HIDE DEF T
  <2>3. SumFunctionOnSet(admitted[c], T) = 0
    BY <2>1, <2>2, SumZero
  <2> QED
    BY <2>3, RateAssumption DEF Number, T
<1> QED
  BY <1>1, <1>2, <1>3 DEF RateInv, WindowHolds

\* The store after a request: what still counts is in it.
LEMMA CleaningKeepsRecent ==
  ASSUME NEW store, store.times \in [Clients -> [Seconds -> Nat]], second \in Seconds
  PROVE  /\ Cleaned(store).times \in [Clients -> [Seconds -> Nat]]
         /\ \A c \in Clients, s \in Seconds :
              second - s < window_sec => Cleaned(store).times[c][s] = store.times[c][s]
<1>0. Seconds \subseteq Nat /\ window_sec \in Int
  BY SecondsFinite, RateAssumption
<1>1. CASE ~ Cardinality(store.keys) > STORE_SIZE
  BY <1>1 DEF Cleaned
<1>2. CASE Cardinality(store.keys) > STORE_SIZE
  <2> DEFINE stale == Stale(store)
             kept == [c \in Clients |-> IF c \in stale THEN NoTimes ELSE store.times[c]]
  <2>1. Cleaned(store).times = kept
    BY <1>2 DEF Cleaned, Drop
  <2>2. kept \in [Clients -> [Seconds -> Nat]]
    BY DEF NoTimes
  <2>3. ASSUME NEW c \in Clients, NEW s \in Seconds, second - s < window_sec
        PROVE  kept[c][s] = store.times[c][s]
    <3>1. CASE c \notin stale
      BY <3>1
    <3>2. CASE c \in stale
      <4>1. kept[c][s] = 0
        BY <3>2 DEF NoTimes
      <4>2. CASE store.times[c] = NoTimes
        BY <4>1, <4>2 DEF NoTimes
      <4>3. CASE store.times[c][s] > 0 => s \in TooOld(store.times[c])
        <5>1. store.times[c][s] \in Nat /\ second \in Nat /\ s \in Nat
          BY <1>0
        <5>2. s \notin TooOld(store.times[c])
          BY <1>0, <2>3, <5>1 DEF TooOld
        <5> QED
          BY <4>1, <4>3, <5>1, <5>2
      <4> QED
        BY <3>2, <4>2, <4>3 DEF Stale
    <3> QED
      BY <3>1, <3>2
  <2> QED
    BY <2>1, <2>2, <2>3
<1> QED
  BY <1>1, <1>2

\* A request that is admitted: no window of the history holds more than those
\* that still count and the new one.
LEMMA OneMoreFits ==
  ASSUME RateInv, NEW c \in Clients, NEW from \in Seconds,
         Number(Recent(_rate_store.times[c]), Seconds) < max_count
  PROVE  Number(WithNow(admitted[c]), Span(from)) <= max_count
<1> DEFINE T == Span(from)
           old == admitted[c]
           new == WithNow(old)
           recent == Recent(_rate_store.times[c])
<1> USE DEF RateInv, RateTypeOK
<1>0. Seconds \subseteq Nat /\ window_sec \in Int /\ max_count \in Nat
  BY SecondsFinite, RateAssumption
<1>1. IsFiniteSet(T) /\ T \subseteq Seconds /\ IsFiniteSet(Seconds)
  BY SecondsFinite, FS_Subset DEF Span
<1>2. old \in [Seconds -> Nat] /\ new \in [Seconds -> Nat]
  BY DEF WithNow
<1>3. Number(old, T) <= max_count
  BY DEF WindowHolds, Span
<1>4. CASE second \notin T
  <2>1. \A s \in T : new[s] = old[s]
    BY <1>1, <1>4 DEF WithNow
  <2> HIDE DEF new, T
  <2>2. SumFunctionOnSet(new, T) = SumFunctionOnSet(old, T)
    BY <1>1, <2>1, SumEqual
  <2> QED
    BY <1>3, <2>2 DEF Number, new, T
<1>5. CASE second \in T
  <2>1. recent \in [Seconds -> Nat]
    BY DEF Recent
  <2>2. ASSUME NEW s \in T
        PROVE  old[s] = recent[s]
    <3>1. s \in Nat /\ second \in Nat /\ from \in Nat /\ s < from + window_sec /\ second >= from
          /\ second < from + window_sec /\ s >= from /\ s \in Seconds
      BY <1>0, <1>5 DEF Span
    <3>2. CASE s > second
      <4>1. old[s] = 0
        BY <3>1, <3>2 DEF NothingRecentIsDropped
      <4>2. second - s < window_sec
        BY <1>0, <3>1, <3>2
      <4>3. recent[s] = _rate_store.times[c][s]
        BY <3>1, <4>2 DEF Recent
      <4> QED
        BY <3>1, <4>2, <4>3 DEF NothingRecentIsDropped
    <3>3. CASE ~ s > second
      <4>1. second - s < window_sec
        BY <1>0, <3>1, <3>3
      <4> QED
        BY <3>1, <4>1 DEF Recent, NothingRecentIsDropped
    <3> QED
      BY <3>2, <3>3
  <2> HIDE DEF recent, T, old
  <2>3. SumFunctionOnSet(old, T) = SumFunctionOnSet(recent, T)
    BY <1>1, <2>2, SumEqual
  <2>4. SumFunctionOnSet(recent, T) <= SumFunctionOnSet(recent, Seconds)
    BY <1>1, <2>1, SumSubset
  <2>5. SumFunctionOnSet(recent, Seconds) < max_count
    BY DEF Number, recent
  <2>6. /\ \A s \in T : old[s] \in Int /\ new[s] \in Int
        /\ \A s \in T \ {second} : new[s] = old[s]
        /\ new[second] = old[second] + 1
    BY <1>1, <1>2, <1>5 DEF WithNow
  <2>7. /\ SumFunctionOnSet(old, T) \in Nat /\ SumFunctionOnSet(recent, Seconds) \in Nat
        /\ old[second] \in Nat
    BY <1>1, <1>2, <2>1, <1>5, SumNat
  <2> HIDE DEF new
  <2>8. SumFunctionOnSet(new, T) = SumFunctionOnSet(old, T) - old[second] + new[second]
    BY <1>1, <1>5, <2>6, SumUpdate
  <2>9. SumFunctionOnSet(new, T) <= max_count
    BY <1>0, <2>3, <2>4, <2>5, <2>6, <2>7, <2>8, SumNat, <1>1, <2>1
  <2> QED
    BY <2>9 DEF Number, new, T, old
<1> QED
  BY <1>4, <1>5

\* A request, refused or admitted, with the cleaning that may follow.
LEMMA RequestKeepsRate ==
  ASSUME RateInv, NEW c \in Clients, RateRequest(c)
  PROVE  RateInv'
<1> DEFINE times == Recent(_rate_store.times[c])
           more == WithNow(times)
<1> USE DEF RateInv
<1>0. Seconds \subseteq Nat /\ window_sec \in Int /\ max_count \in Nat
  BY SecondsFinite, RateAssumption
<1>1. /\ second' = second /\ second \in Seconds
      /\ times \in [Seconds -> Nat] /\ more \in [Seconds -> Nat]
      /\ \A s \in Seconds : second - s < window_sec => times[s] = admitted[c][s]
      /\ admitted[c] \in [Seconds -> Nat]
  BY DEF RateRequest, RateTypeOK, Recent, WithNow, NothingRecentIsDropped
<1>2. CASE Number(times, Seconds) >= max_count
  <2>1. _rate_store' = Entry(_rate_store, c, times) /\ admitted' = admitted
    BY <1>2 DEF RateRequest, _rate_check
  <2>2. _rate_store.times' = [_rate_store.times EXCEPT ![c] = times]
    BY <2>1 DEF Entry
  <2>3. RateTypeOK'
    BY <1>1, <2>1, <2>2 DEF RateTypeOK
  <2>4. NothingRecentIsDropped'
    <3>1. ASSUME NEW d \in Clients, NEW s \in Seconds
          PROVE  /\ s > second => admitted[d][s] = 0
                 /\ second - s < window_sec => _rate_store'.times[d][s] = admitted[d][s]
      <4>1. CASE d = c
        BY <1>1, <2>2, <4>1 DEF NothingRecentIsDropped, RateTypeOK
      <4>2. CASE d # c
        BY <2>2, <4>2 DEF NothingRecentIsDropped, RateTypeOK
      <4> QED
        BY <4>1, <4>2
    <3> QED
      BY <1>1, <2>1, <3>1 DEF NothingRecentIsDropped
  <2>5. WindowHolds'
    BY <2>1 DEF WindowHolds
  <2> QED
    BY <2>3, <2>4, <2>5
<1>3. CASE ~ Number(times, Seconds) >= max_count
  <2> DEFINE store == Entry(_rate_store, c, more)
  <2>1. _rate_store' = Cleaned(store) /\ admitted' = [admitted EXCEPT ![c] = WithNow(admitted[c])]
    BY <1>3 DEF RateRequest, _rate_check
  <2>2. /\ store.times = [_rate_store.times EXCEPT ![c] = more]
        /\ store.times \in [Clients -> [Seconds -> Nat]]
    BY <1>1 DEF Entry, RateTypeOK
  <2>3. WithNow(admitted[c]) \in [Seconds -> Nat]
    BY <1>1 DEF WithNow
  <2> HIDE DEF store
  <2>4. /\ _rate_store'.times \in [Clients -> [Seconds -> Nat]]
        /\ \A d \in Clients, s \in Seconds :
              second - s < window_sec => _rate_store'.times[d][s] = store.times[d][s]
    BY <1>1, <2>1, <2>2, CleaningKeepsRecent
  <2>5. RateTypeOK'
    BY <1>1, <2>1, <2>3, <2>4 DEF RateTypeOK
  <2>6. NothingRecentIsDropped'
    <3>1. ASSUME NEW d \in Clients, NEW s \in Seconds
          PROVE  /\ s > second => admitted'[d][s] = 0
                 /\ second - s < window_sec => _rate_store'.times[d][s] = admitted'[d][s]
      <4>0. second \in Nat /\ s \in Nat
        BY <1>0, <1>1
      <4>1. CASE d = c
        <5>1. store.times[d] = more /\ admitted'[d] = WithNow(admitted[c])
          BY <2>1, <2>2, <4>1 DEF RateTypeOK
        <5>2. s > second => admitted'[d][s] = 0
          BY <1>1, <4>0, <4>1, <5>1 DEF WithNow, NothingRecentIsDropped
        <5>3. second - s < window_sec => more[s] = WithNow(admitted[c])[s]
          BY <1>1 DEF WithNow
        <5> QED
          BY <2>4, <5>1, <5>2, <5>3
      <4>2. CASE d # c
        <5>1. store.times[d] = _rate_store.times[d] /\ admitted'[d] = admitted[d]
          BY <2>1, <2>2, <4>2 DEF RateTypeOK
        <5> QED
          BY <2>4, <5>1 DEF NothingRecentIsDropped
      <4> QED
        BY <4>1, <4>2
    <3> QED
      BY <1>1, <3>1 DEF NothingRecentIsDropped
  <2>7. ASSUME NEW d \in Clients, NEW from \in Seconds
        PROVE  Number(admitted'[d], Span(from)) <= max_count
    <3>1. CASE d = c
      <4>1. Number(times, Seconds) \in Nat
        <5>1. \A s \in Seconds : times[s] \in Nat
          BY <1>1
        <5> HIDE DEF times
        <5> QED
          BY <5>1, SecondsFinite, SumNat DEF Number
      <4>2. Number(times, Seconds) < max_count
        BY <1>0, <1>3, <4>1
      <4>3. admitted'[d] = WithNow(admitted[c])
        BY <2>1, <3>1 DEF RateTypeOK
      <4> QED
        BY <4>2, <4>3, OneMoreFits
    <3>2. CASE d # c
      <4>1. admitted'[d] = admitted[d]
        BY <2>1, <3>2 DEF RateTypeOK
      <4> QED
        BY <4>1 DEF WindowHolds, Span
    <3> QED
      BY <3>1, <3>2
  <2>8. WindowHolds'
    BY <2>7 DEF WindowHolds, Span, Number
  <2> QED
    BY <2>5, <2>6, <2>8
<1> QED
  BY <1>2, <1>3

\* Every step keeps the invariant.
LEMMA RateInductive == RateInv /\ [RateNext]_rate_vars => RateInv'
<1> SUFFICES ASSUME RateInv, [RateNext]_rate_vars PROVE RateInv'
  OBVIOUS
<1>0. Seconds \subseteq Nat /\ window_sec \in Int /\ MaxSecond \in Nat
  BY SecondsFinite, RateAssumption
<1>1. CASE SecondPasses
  <2>1. second' = second + 1 /\ second' \in Seconds /\ second \in Nat
        /\ _rate_store' = _rate_store /\ admitted' = admitted
    BY <1>0, <1>1 DEF SecondPasses, RateInv, RateTypeOK, Seconds
  <2>2. RateTypeOK'
    BY <2>1 DEF RateInv, RateTypeOK
  <2>3. ASSUME NEW c \in Clients, NEW s \in Seconds
        PROVE  /\ s > second' => admitted[c][s] = 0
               /\ second' - s < window_sec => _rate_store.times[c][s] = admitted[c][s]
    <3>1. s \in Nat
      BY <1>0
    <3>2. /\ s > second' => s > second
          /\ second' - s < window_sec => second - s < window_sec
      BY <1>0, <2>1, <3>1
    <3> QED
      BY <3>2 DEF RateInv, NothingRecentIsDropped
  <2>4. NothingRecentIsDropped'
    BY <2>1, <2>3 DEF NothingRecentIsDropped
  <2>5. WindowHolds'
    BY <2>1 DEF RateInv, WindowHolds
  <2> QED
    BY <2>2, <2>4, <2>5 DEF RateInv
<1>2. CASE RateRestart
  <2>1. /\ second' = second /\ admitted' = Never /\ _rate_store' = Empty
        /\ second \in Seconds
    BY <1>2 DEF RateRestart, RateInv, RateTypeOK
  <2>2. RateTypeOK'
    BY <2>1 DEF RateTypeOK, Empty, Never, NoTimes
  <2>3. NothingRecentIsDropped'
    BY <2>1 DEF NothingRecentIsDropped, Empty, Never, NoTimes
  <2>4. ASSUME NEW c \in Clients, NEW from \in Seconds
        PROVE  Number(Never[c], Span(from)) <= max_count
    <3>1. IsFiniteSet(Span(from)) /\ Span(from) \subseteq Seconds
      BY SecondsFinite, FS_Subset DEF Span
    <3>2. \A s \in Span(from) : Never[c][s] = 0
      BY <3>1 DEF Never, NoTimes
    <3>3. SumFunctionOnSet(Never[c], Span(from)) = 0
      BY <3>1, <3>2, SumZero
    <3> QED
      BY <3>3, RateAssumption DEF Number
  <2>5. WindowHolds'
    BY <2>1, <2>4 DEF WindowHolds, Span, Number
  <2> QED
    BY <2>2, <2>3, <2>5 DEF RateInv
<1>3. CASE \E c \in Clients : RateRequest(c)
  BY <1>3, RequestKeepsRate
<1>4. CASE UNCHANGED rate_vars
  <2>1. second' = second /\ admitted' = admitted /\ _rate_store' = _rate_store
    BY <1>4 DEF rate_vars
  <2> QED
    BY <2>1 DEF RateInv, RateTypeOK, NothingRecentIsDropped, WindowHolds
<1> QED
  BY <1>1, <1>2, <1>3, <1>4 DEF RateNext

\* No window of the given length sees more requests of a client admitted than
\* the limit, for any limits, table size and number of clients (_rate_check of
\* the middleware, _check_rate of the TEE proxy).
THEOREM NoWindowOverflows == RateSpec => []WindowHolds
<1>1. RateInv => WindowHolds
  BY DEF RateInv
<1> QED
  BY <1>1, RateInitially, RateInductive, PTL DEF RateSpec

-----------------------------------------------------------------------------
(* The rows of the index, with one process                                    *)

\* A transaction that is in a block and has succeeded.
Landed(tx) == [tx |-> tx, ok |-> TRUE] \in receipts

Serving(j) == j.kind \in {"create", "spawn"}

\* The chain: what has landed lies behind the next nonce, and each creation
\* that has landed made a bounty.
ChainOK ==
  /\ spawned \in Seq(Nat) /\ Len(spawned) = Len(bounties)
  /\ round_phase \in Seq(Nat) /\ Len(round_phase) = Len(bounties)
  /\ \A tx \in Txs : Landed(tx) =>
       /\ tx.nonce < nonce
       /\ tx.kind = "create" => \E c \in DOMAIN bounties : bounties[c] = tx.req

\* The rows, but for what is said of requests that were alone.
RowsOK ==
  \A b \in DOMAIN index :
    /\ index[b].req \in Requests /\ status[index[b].req] = "done"
    /\ b \in DOMAIN bounties /\ spawned[b] >= 1 /\ b \in DOMAIN files
    /\ files[b].req = index[b].req \/ status[files[b].req] # "done"
    /\ index[b].phase \in Nat /\ index[b].phase <= round_phase[b]

\* The bounty of a handler exists, with a round when it comes to storing, and
\* what a listing has read is a phase the round has reached.
JobOK(j) ==
  /\ j.kind = "create" => j.pc \in {"nonce", "send", "wait", "read_id"}
  /\ j.kind = "create" /\ j.pc = "read_id" =>
       \E c \in DOMAIN bounties : bounties[c] = j.req
  /\ j.kind = "spawn" =>
       /\ j.pc # "read_id" /\ j.bounty \in DOMAIN bounties
       /\ j.pc \in {"store", "index"} => spawned[j.bounty] >= 1
       /\ j.pc = "index" => j.bounty \in DOMAIN files /\ files[j.bounty].req = j.req
  /\ j.kind = "refresh" =>
       j.bounty \in DOMAIN index /\ j.phase \in Nat /\ j.phase <= round_phase[j.bounty]

\* A file is of a request that is over, or of the one whose row comes next.
FilesOK(j) ==
  \A b \in DOMAIN files :
    /\ files[b].req \in Requests
    /\ \/ status[files[b].req] \in {"failed", "done"}
       \/ j.kind = "spawn" /\ j.pc = "index" /\ j.req = files[b].req /\ j.bounty = b

\* The bounty in the row of a request that was alone is its own and has one
\* round; no later request comes near it.
SettledOK(j) ==
  \A b \in DOMAIN index : index[b].req \in alone =>
    /\ bounties[b] = index[b].req /\ spawned[b] = 1
    /\ \A i \in DOMAIN pool : pool[i].kind = "spawn" => pool[i].bounty # b
    /\ j.kind = "spawn" => j.bounty > b
    /\ \A c \in DOMAIN bounties : Serving(j) /\ bounties[c] = j.req => c > b

\* A request that is alone: nothing is pending but what it waits for, the last
\* bounty is its own when it asks for the number, and its bounty has a round
\* from the moment that the second transaction has landed.
AloneOK(j) ==
  Serving(j) /\ j.req \in alone =>
    /\ \/ pool = <<>>
       \/ j.pc = "wait" /\ Len(pool) = 1 /\ pool[1] = Tx(j) /\ ~Landed(Tx(j))
    /\ j.kind = "create" /\ (j.pc = "read_id" \/ (j.pc = "wait" /\ Landed(Tx(j)))) =>
         /\ Len(bounties) > 0 /\ bounties[Len(bounties)] = j.req
         /\ spawned[Len(bounties)] = 0
    /\ j.kind = "spawn" =>
         /\ bounties[j.bounty] = j.req
         /\ spawned[j.bounty] = IF \/ j.pc \in {"read_round", "store", "index"}
                                   \/ j.pc = "wait" /\ Landed(Tx(j))
                                THEN 1 ELSE 0

AloneTaken == \A r \in alone : r \in Requests /\ status[r] # "new"

Around(j) ==
  /\ ChainOK /\ RowsOK /\ AloneTaken
  /\ JobOK(j) /\ FilesOK(j) /\ SettledOK(j) /\ AloneOK(j)

\* What is pending continues the nonces that are in a block.
InOrder == \A i \in DOMAIN pool : pool[i].nonce = nonce + i - 1

IndexInv(p) == CreationInv /\ StoredInv /\ InOrder /\ Around(job[p])

\* What the types say of the one process.
LEMMA ServedJob ==
  ASSUME NEW p, Processes = {p}, CreationInv
  PROVE  /\ Working(p) = Serving(job[p])
         /\ Working(p) => /\ job[p] \in RequestJobs /\ job[p].req \in Requests
                          /\ job[p].bounty \in Nat
                          /\ Tx(job[p]) \in Txs /\ status[job[p].req] = "working"
         /\ \A j : Goto(p, j) => job'[p] = j
         /\ Len(bounties) \in Nat /\ DOMAIN bounties = 1 .. Len(bounties)
         /\ Len(pool) \in Nat /\ DOMAIN pool = 1 .. Len(pool) /\ nonce \in Nat
<1>1. Working(p) = Serving(job[p])
  BY DEF Working, Serving
<1>2. ASSUME Working(p)
      PROVE  /\ job[p] \in RequestJobs /\ job[p].req \in Requests /\ job[p].bounty \in Nat
             /\ status[job[p].req] = "working" /\ Tx(job[p]) \in Txs
  BY <1>2 DEF CreationInv, CreationTypeOK, RequestJobs, Tx, Txs
<1>3. \A j : Goto(p, j) => job'[p] = j
  BY DEF Goto, CreationInv, CreationTypeOK
<1>4. /\ Len(bounties) \in Nat /\ DOMAIN bounties = 1 .. Len(bounties)
      /\ Len(pool) \in Nat /\ DOMAIN pool = 1 .. Len(pool) /\ nonce \in Nat
  BY DEF CreationInv, CreationTypeOK
<1> QED
  BY <1>1, <1>2, <1>3, <1>4

\* The handler goes on to another place and changes nothing else.
LEMMA JobStep ==
  ASSUME NEW p, Around(job[p]), NEW j, job'[p] = j,
         UNCHANGED <<status, files, index, alone, chain>>,
         JobOK(j), FilesOK(j), SettledOK(j), AloneOK(j)
  PROVE  Around(job[p])'
BY DEF Around, ChainOK, RowsOK, AloneTaken, JobOK, FilesOK, SettledOK, AloneOK, Landed, chain

\* The handler gives up.  What it sent may be pending.
LEMMA GivenUp ==
  ASSUME NEW p, Processes = {p}, CreationInv, Around(job[p]), Working(p), Fail(p),
         \A i \in DOMAIN pool' :
           pool'[i] = Tx(job[p]) \/ \E k \in DOMAIN pool : pool'[i] = pool[k],
         UNCHANGED <<alone, files, index, bounties, spawned, round_phase, nonce, receipts>>
  PROVE  Around(job[p])'
<1>1. PICK r \in Requests : r = job[p].req /\ status[r] = "working"
  BY ServedJob
<1>2. job'[p] = Idle /\ status' = [status EXCEPT ![r] = "failed"]
  BY <1>1, ServedJob DEF Fail, Answered
<1>3. \A q \in Requests : status'[q] = IF q = r THEN "failed" ELSE status[q]
  BY <1>2 DEF CreationInv, CreationTypeOK
<1>4. ChainOK'
  BY DEF Around, ChainOK, Landed
<1>5. FilesOK(job[p])'
  BY <1>1, <1>2, <1>3 DEF Around, FilesOK
<1>6. RowsOK'
  BY <1>1, <1>3 DEF Around, RowsOK, FilesOK
<1>7. AloneTaken'
  BY <1>3 DEF Around, AloneTaken
<1>8. JobOK(job[p])' /\ AloneOK(job[p])'
  BY <1>2 DEF JobOK, AloneOK, Idle, Serving
<1>9. SettledOK(job[p])'
  <2> SUFFICES ASSUME NEW b \in DOMAIN index, index[b].req \in alone
               PROVE  \A i \in DOMAIN pool' : pool'[i].kind = "spawn" => pool'[i].bounty # b
    BY <1>2 DEF Around, SettledOK, Idle, Serving
  <2>1. Tx(job[p]).kind = job[p].kind /\ Tx(job[p]).bounty = job[p].bounty
    BY DEF Tx
  <2>2. job[p].kind = "spawn" => job[p].bounty # b
    <3>1. b \in DOMAIN bounties
      BY DEF Around, RowsOK
    <3> QED
      BY <3>1, ServedJob DEF Around, SettledOK
  <2> QED
    BY <2>1, <2>2 DEF Around, SettledOK
<1> QED
  BY <1>4, <1>5, <1>6, <1>7, <1>8, <1>9 DEF Around

\* A handler that goes on with the same request and bounty: files and rows are
\* about it as they were.
LEMMA SameRequest ==
  ASSUME NEW p, Around(job[p]), job[p].pc # "index", NEW j,
         j.req = job[p].req, j.kind = job[p].kind, j.bounty = job[p].bounty
  PROVE  FilesOK(j) /\ SettledOK(j)
<1>1. FilesOK(j)
  BY DEF Around, FilesOK
<1>2. SettledOK(j)
  BY DEF Around, SettledOK, Serving
<1> QED
  BY <1>1, <1>2

\* The node's count, which is more than what has landed (_send_tx).
LEMMA ReadNonceKeeps ==
  ASSUME NEW p, Processes = {p}, CreationInv, Around(job[p]), ReadNonce(p)
  PROVE  Around(job[p])'
<1>1. Working(p) /\ job[p].pc = "nonce"
  BY DEF ReadNonce, At, Working
<1>2. PICK n \in nonce .. nonce + Len(pool) :
        Goto(p, [job[p] EXCEPT !.nonce = n, !.pc = "send"])
  BY DEF ReadNonce
<1>3. n \in Nat /\ job[p] \in RequestJobs
  BY <1>1, ServedJob
<1>4. PICK j : j = [job[p] EXCEPT !.nonce = n, !.pc = "send"]
  OBVIOUS
<1>5. /\ j.req = job[p].req /\ j.kind = job[p].kind /\ j.bounty = job[p].bounty
      /\ j.pc = "send"
  BY <1>3, <1>4 DEF RequestJobs
<1>6. /\ j.req = job[p].req /\ j.kind = job[p].kind /\ j.bounty = job[p].bounty
      /\ j.pc = "send" /\ FilesOK(j) /\ SettledOK(j)
  BY <1>1, <1>5, SameRequest
<1>7. JobOK(j)
  BY <1>1, <1>6, ServedJob DEF Around, JobOK, Serving
<1>8. AloneOK(j)
  BY <1>1, <1>6 DEF Around, AloneOK, Serving
<1>9. UNCHANGED <<status, files, index, alone, chain>> /\ job'[p] = j
  BY <1>2, <1>4, ServedJob DEF ReadNonce
<1> QED
  BY <1>6, <1>7, <1>8, <1>9, JobStep

\* The receipt of a creation, or of a round.
LEMMA WaitKeeps ==
  ASSUME NEW p, Processes = {p}, CreationInv, Around(job[p]), Wait(p)
  PROVE  Around(job[p])'
<1>1. Working(p) /\ job[p].pc = "wait" /\ UNCHANGED <<files, index, alone, chain>>
  BY DEF Wait, At, Working
<1>2. CASE Fail(p)
  BY <1>1, <1>2, GivenUp DEF chain
<1>3. ASSUME Landed(Tx(job[p])), UNCHANGED status,
             NEW pc, pc = IF job[p].kind = "create" THEN "read_id" ELSE "read_round",
             Goto(p, [job[p] EXCEPT !.pc = pc])
      PROVE  Around(job[p])'
  <2>1. PICK j : j = [job[p] EXCEPT !.pc = pc]
    OBVIOUS
  <2>2. /\ j.req = job[p].req /\ j.kind = job[p].kind /\ j.bounty = job[p].bounty
        /\ j.pc = pc
    BY <1>1, <2>1, ServedJob DEF RequestJobs
  <2>3. /\ j.req = job[p].req /\ j.kind = job[p].kind /\ j.bounty = job[p].bounty
        /\ j.pc = pc /\ FilesOK(j) /\ SettledOK(j)
    BY <1>1, <2>2, SameRequest
  <2>4. /\ Tx(job[p]) \in Txs /\ Tx(job[p]).kind = job[p].kind /\ Tx(job[p]).req = job[p].req
        /\ job[p].kind \in {"create", "spawn"}
    BY <1>1, ServedJob DEF Tx, Working
  <2>5. job[p].kind = "create" => \E c \in DOMAIN bounties : bounties[c] = job[p].req
    BY <1>3, <2>4 DEF Around, ChainOK
  <2>6. JobOK(j)
    BY <1>3, <2>3, <2>4, <2>5 DEF Around, JobOK
  <2>7. AloneOK(j)
    <3> SUFFICES ASSUME j.req \in alone
                 PROVE  /\ pool = <<>>
                        /\ j.kind = "create" =>
                             /\ Len(bounties) > 0 /\ bounties[Len(bounties)] = j.req
                             /\ spawned[Len(bounties)] = 0
                        /\ j.kind = "spawn" =>
                             bounties[j.bounty] = j.req /\ spawned[j.bounty] = 1
      BY <1>3, <2>3 DEF AloneOK
    <3>1. Serving(job[p]) /\ job[p].req \in alone
      BY <2>3, <2>4 DEF Serving
    <3> QED
      BY <1>1, <1>3, <2>3, <2>4, <3>1 DEF Around, AloneOK
  <2>8. job'[p] = j
    BY <1>3, <2>1, ServedJob
  <2> QED
    BY <1>1, <1>3, <2>3, <2>6, <2>7, <2>8, JobStep
<1>4. \/ Fail(p)
      \/ Landed(Tx(job[p])) /\ UNCHANGED status
         /\ Goto(p, [job[p] EXCEPT
                         !.pc = IF job[p].kind = "create" THEN "read_id" ELSE "read_round"])
  BY DEF Wait, AfterTimeout, Landed
<1> QED
  BY <1>2, <1>3, <1>4

\* The number is read: it is beyond every settled bounty.
LEMMA ReadIdKeeps ==
  ASSUME NEW p, Processes = {p}, CreationInv, Around(job[p]), ReadId(p)
  PROVE  Around(job[p])'
<1>1. Working(p) /\ job[p].pc = "read_id" /\ UNCHANGED <<status, files, index, alone, chain>>
  BY DEF ReadId, At, Working
<1>2. PICK j : j = Job(job[p].req, "spawn", "nonce", 0, 0, NewBounty)
  OBVIOUS
<1>3. job'[p] = j
  BY <1>2, ServedJob DEF ReadId
<1>4. j.kind = "spawn" /\ j.pc = "nonce" /\ j.req = job[p].req /\ j.bounty = Len(bounties)
  BY <1>2 DEF Job, NewBounty
<1>5. job[p].kind = "create" /\ Serving(job[p])
  BY <1>1 DEF Around, JobOK, Working, Serving
<1>6. PICK c \in DOMAIN bounties : bounties[c] = job[p].req
  BY <1>1, <1>5 DEF Around, JobOK
<1>7. /\ Len(bounties) \in DOMAIN bounties /\ c <= Len(bounties) /\ c \in Nat
      /\ Len(bounties) \in Nat
  BY <1>6, ServedJob
<1>8. JobOK(j)
  BY <1>4, <1>7 DEF JobOK
<1>9. FilesOK(j)
  BY <1>1 DEF Around, FilesOK
<1>10. SettledOK(j)
  <2> SUFFICES ASSUME NEW b \in DOMAIN index, index[b].req \in alone
               PROVE  j.bounty > b /\ \A d \in DOMAIN bounties : bounties[d] = j.req => d > b
    BY DEF Around, SettledOK
  <2>1. b \in DOMAIN bounties /\ b \in Nat
    BY ServedJob DEF Around, RowsOK
  <2>2. \A d \in DOMAIN bounties : bounties[d] = job[p].req => d > b
    BY <1>5 DEF Around, SettledOK
  <2> QED
    BY <1>4, <1>6, <1>7, <2>1, <2>2
<1>11. AloneOK(j)
  BY <1>1, <1>4, <1>5 DEF Around, AloneOK, Serving
<1> QED
  BY <1>1, <1>3, <1>8, <1>9, <1>10, <1>11, JobStep

\* The bounty has a round, or the handler gives up (getRoundAddress).
LEMMA ReadRoundKeeps ==
  ASSUME NEW p, Processes = {p}, CreationInv, Around(job[p]), ReadRound(p)
  PROVE  Around(job[p])'
<1>1. Working(p) /\ job[p].pc = "read_round" /\ UNCHANGED <<files, index, alone, chain>>
  BY DEF ReadRound, At, Working
<1>2. CASE Fail(p)
  BY <1>1, <1>2, GivenUp DEF chain
<1>3. CASE /\ spawned[job[p].bounty] > 0 /\ UNCHANGED status
           /\ Goto(p, [job[p] EXCEPT !.pc = "store"])
  <2>1. PICK j : j = [job[p] EXCEPT !.pc = "store"]
    OBVIOUS
  <2>2. /\ j.req = job[p].req /\ j.kind = job[p].kind /\ j.bounty = job[p].bounty
        /\ j.pc = "store"
    BY <1>1, <2>1, ServedJob DEF RequestJobs
  <2>3. /\ j.req = job[p].req /\ j.kind = job[p].kind /\ j.bounty = job[p].bounty
        /\ j.pc = "store" /\ FilesOK(j) /\ SettledOK(j)
    BY <1>1, <2>2, SameRequest
  <2>4. job[p].kind = "spawn"
    BY <1>1 DEF Around, JobOK, Working
  <2>5. spawned[job[p].bounty] \in Nat
    BY <2>4, ServedJob DEF Around, JobOK, ChainOK
  <2>6. JobOK(j)
    BY <1>3, <2>3, <2>4, <2>5 DEF Around, JobOK
  <2>7. AloneOK(j)
    BY <1>1, <2>3, <2>4 DEF Around, AloneOK, Serving
  <2>8. job'[p] = j
    BY <1>3, <2>1, ServedJob
  <2> QED
    BY <1>1, <1>3, <2>3, <2>6, <2>7, <2>8, JobStep
<1> QED
  BY <1>2, <1>3 DEF ReadRound

\* Whatever the node queues, the rest of what is pending was pending before.
LEMMA QueueShape ==
  ASSUME NEW p, Processes = {p}, CreationInv, NEW tx \in Txs, Pooled(tx)
  PROVE  /\ \A i \in DOMAIN pool' : pool'[i] = tx \/ \E k \in DOMAIN pool : pool'[i] = pool[k]
         /\ pool = <<>> => pool' = <<tx>> /\ tx.nonce = nonce
<1>1. pool \in Seq(Txs) /\ nonce \in Nat /\ tx.nonce \in Nat
  BY DEF CreationInv, CreationTypeOK, Txs
<1>2. CASE tx.nonce = nonce + Len(pool) /\ pool' = Append(pool, tx)
  <2>1. \A i \in DOMAIN pool' : pool'[i] = tx \/ \E k \in DOMAIN pool : pool'[i] = pool[k]
    BY <1>1, <1>2
  <2>2. pool = <<>> => pool' = <<tx>> /\ tx.nonce = nonce
    <3> SUFFICES ASSUME pool = <<>> PROVE pool' = <<tx>> /\ tx.nonce = nonce
      OBVIOUS
    <3>1. pool' = <<tx>>
      BY <1>2, OneAppended
    <3> QED
      BY <1>1, <1>2, <3>1
  <2> QED
    BY <2>1, <2>2
<1>3. CASE InPool(tx.nonce) /\ pool' = [pool EXCEPT ![tx.nonce - nonce + 1] = tx]
  <2>1. \A i \in DOMAIN pool' : pool'[i] = tx \/ \E k \in DOMAIN pool : pool'[i] = pool[k]
    BY <1>1, <1>3
  <2>2. pool # <<>>
    BY <1>1, <1>3 DEF InPool
  <2> QED
    BY <2>1, <2>2
<1> QED
  BY <1>2, <1>3 DEF Pooled

\* Queued, refused with another attempt, or given up (_send_tx).
LEMMA SendKeepsIndex ==
  ASSUME NEW p, Processes = {p}, CreationInv, Around(job[p]), Send(p)
  PROVE  Around(job[p])'
<1>1. /\ Working(p) /\ job[p].pc = "send" /\ Serving(job[p])
      /\ UNCHANGED <<alone, files, index, bounties, spawned, round_phase, nonce, receipts>>
  BY ServedJob DEF Send, At, Working
<1>2. PICK tx \in Txs : tx = Tx(job[p])
  BY <1>1, ServedJob
<1>3. tx.kind = job[p].kind /\ tx.bounty = job[p].bounty /\ tx.nonce = job[p].nonce
  BY <1>2 DEF Tx
<1>4. Serving(job[p]) /\ job[p].req \in alone => pool = <<>>
  BY <1>1 DEF Around, AloneOK
<1>5. ASSUME Pooled(tx), Goto(p, [job[p] EXCEPT !.pc = "wait"]), UNCHANGED status
      PROVE  Around(job[p])'
  <2>1. PICK j : j = [job[p] EXCEPT !.pc = "wait"]
    OBVIOUS
  <2>2. /\ j.req = job[p].req /\ j.kind = job[p].kind /\ j.bounty = job[p].bounty
        /\ j.attempt = job[p].attempt /\ j.nonce = job[p].nonce /\ j.pc = "wait"
    BY <1>1, <2>1, ServedJob DEF RequestJobs
  <2>3. FilesOK(j) /\ SettledOK(j) /\ Tx(j) = tx
    <3>1. FilesOK(j) /\ SettledOK(j)
      BY <1>1, <2>2, SameRequest
    <3>2. Tx(j) = tx
      BY <1>2, <2>2 DEF Tx
    <3> QED
      BY <3>1, <3>2
  <2>4. /\ \A i \in DOMAIN pool' :
             pool'[i] = tx \/ \E k \in DOMAIN pool : pool'[i] = pool[k]
        /\ pool = <<>> => pool' = <<tx>> /\ tx.nonce = nonce
    BY <1>5, QueueShape
  <2>5. ChainOK' /\ RowsOK' /\ AloneTaken' /\ FilesOK(j)'
    BY <1>1, <1>5, <2>3 DEF Around, ChainOK, RowsOK, AloneTaken, FilesOK, Landed
  <2>6. JobOK(j)'
    BY <1>1, <2>2 DEF Around, JobOK, Serving
  <2>7. SettledOK(j)'
    <3> SUFFICES ASSUME NEW b \in DOMAIN index, index[b].req \in alone,
                        NEW i \in DOMAIN pool', pool'[i].kind = "spawn"
                 PROVE  pool'[i].bounty # b
      BY <1>1, <2>3 DEF SettledOK
    <3>1. b \in Nat
      BY ServedJob DEF Around, RowsOK
    <3>2. CASE pool'[i] = tx
      BY <1>3, <2>2, <2>3, <3>1, <3>2 DEF SettledOK
    <3>3. CASE \E k \in DOMAIN pool : pool'[i] = pool[k]
      BY <3>3 DEF Around, SettledOK
    <3> QED
      BY <2>4, <3>2, <3>3
  <2>8. AloneOK(j)'
    <3> SUFFICES ASSUME j.req \in alone
                 PROVE  AloneOK(j)'
      BY <1>1 DEF AloneOK
    <3>1. pool = <<>> /\ pool' = <<tx>> /\ tx.nonce = nonce
      BY <1>1, <1>4, <2>2, <2>4
    <3>2. ~Landed(tx)
      BY <3>1, ServedJob DEF Around, ChainOK
    <3>3. ~Landed(Tx(j))'
      BY <1>1, <2>3, <3>2 DEF Landed, Tx
    <3>4. Len(pool') = 1 /\ pool'[1] = Tx(j)
      BY <2>3, <3>1
    <3>5. j.kind = "spawn" => bounties[j.bounty] = j.req /\ spawned[j.bounty] = 0
      BY <1>1, <2>2 DEF Around, AloneOK
    <3>6. Tx(j)' = Tx(j)
      BY DEF Tx
    <3> QED
      BY <1>1, <2>2, <3>3, <3>4, <3>5, <3>6 DEF AloneOK
  <2>9. job'[p] = j
    BY <1>5, <2>1, ServedJob
  <2> QED
    BY <2>5, <2>6, <2>7, <2>8, <2>9 DEF Around
<1>6. ASSUME UNCHANGED <<pool, status>>,
             Goto(p, [job[p] EXCEPT !.attempt = job[p].attempt + 1, !.pc = "nonce"])
      PROVE  Around(job[p])'
  <2>1. PICK j : j = [job[p] EXCEPT !.attempt = job[p].attempt + 1, !.pc = "nonce"]
    OBVIOUS
  <2>2. /\ j.req = job[p].req /\ j.kind = job[p].kind /\ j.bounty = job[p].bounty
        /\ j.pc = "nonce"
    BY <1>1, <2>1, ServedJob DEF RequestJobs
  <2>3. FilesOK(j) /\ SettledOK(j)
    BY <1>1, <2>2, SameRequest
  <2>4. JobOK(j)
    BY <1>1, <2>2 DEF Around, JobOK, Serving
  <2>5. AloneOK(j)
    BY <1>1, <2>2 DEF Around, AloneOK, Serving
  <2>6. job'[p] = j
    BY <1>6, <2>1, ServedJob
  <2> QED
    BY <1>1, <1>6, <2>3, <2>4, <2>5, <2>6, JobStep DEF chain
<1>7. ASSUME Fail(p), UNCHANGED pool
      PROVE  Around(job[p])'
  BY <1>1, <1>7, GivenUp
<1>8. ASSUME Fail(p), Pooled(tx)
      PROVE  Around(job[p])'
  BY <1>1, <1>2, <1>8, GivenUp, QueueShape
<1> QED
  BY <1>2, <1>5, <1>6, <1>7, <1>8 DEF Send, Retries

\* The file of the request that runs: its row comes next.
LEMMA StoreKeeps ==
  ASSUME NEW p, Processes = {p}, CreationInv, Around(job[p]), Store(p)
  PROVE  Around(job[p])'
<1>1. /\ Working(p) /\ job[p].pc = "store" /\ Serving(job[p])
      /\ UNCHANGED <<alone, status, index, chain>>
  BY ServedJob DEF Store, At, Working
<1>2. PICK b, r : b = job[p].bounty /\ r = job[p].req
  OBVIOUS
<1>3. r \in Requests /\ status[r] = "working"
  BY <1>1, <1>2, ServedJob
<1>4. /\ DOMAIN files' = DOMAIN files \cup {b} /\ files'[b].req = r
      /\ \A c \in DOMAIN files : c # b => files'[c] = files[c]
  <2>1. PICK pinned : files' = With(files, b, RubricFile(r, pinned))
    BY <1>2 DEF Store
  <2>2. PICK file : file = RubricFile(r, pinned)
    OBVIOUS
  <2>3. file.req = r
    BY <2>2 DEF RubricFile
  <2> QED
    BY <2>1, <2>2, <2>3 DEF With
<1>5. job[p].kind = "spawn"
  BY <1>1 DEF Around, JobOK, Serving
<1>6. PICK j : j = [job[p] EXCEPT !.pc = "index"]
  OBVIOUS
<1>7. /\ job'[p] = j
      /\ j.req = r /\ j.kind = "spawn" /\ j.bounty = b /\ j.pc = "index"
  BY <1>1, <1>2, <1>5, <1>6, ServedJob DEF Store, RequestJobs
<1>8. ChainOK' /\ AloneTaken'
  BY <1>1 DEF Around, ChainOK, AloneTaken, Landed, chain
<1>9. \A c \in DOMAIN files' : c # b =>
        /\ c \in DOMAIN files /\ files'[c] = files[c] /\ files[c].req \in Requests
        /\ status[files[c].req] \in {"failed", "done"}
  BY <1>1, <1>4 DEF Around, FilesOK
<1>10. FilesOK(j)'
  BY <1>1, <1>3, <1>4, <1>7, <1>9 DEF FilesOK
<1>11. RowsOK'
  <2> SUFFICES ASSUME NEW c \in DOMAIN index
               PROVE  files'[c].req = index[c].req \/ status[files'[c].req] # "done"
    BY <1>1, <1>4 DEF Around, RowsOK, chain
  <2>1. CASE c = b
    BY <1>3, <1>4, <2>1
  <2>2. CASE c # b
    BY <1>4, <2>2 DEF Around, RowsOK
  <2> QED
    BY <2>1, <2>2
<1>12. JobOK(j)'
  BY <1>1, <1>2, <1>4, <1>5, <1>7 DEF Around, JobOK, chain
<1>13. SettledOK(j)'
  BY <1>1, <1>2, <1>5, <1>7 DEF Around, SettledOK, Serving, chain
<1>14. AloneOK(j)'
  BY <1>1, <1>2, <1>5, <1>7 DEF Around, AloneOK, Serving, chain
<1> QED
  BY <1>7, <1>8, <1>10, <1>11, <1>12, <1>13, <1>14 DEF Around

\* The row: from now on the request is over, and its bounty is settled.
LEMMA IndexKeeps ==
  ASSUME NEW p, Processes = {p}, CreationInv, Around(job[p]), Index(p)
  PROVE  Around(job[p])'
<1>1. /\ Working(p) /\ job[p].pc = "index" /\ Serving(job[p])
      /\ UNCHANGED <<alone, files, chain>>
  BY ServedJob DEF Index, At, Working
<1>2. CASE Fail(p) /\ UNCHANGED index
  BY <1>1, <1>2, GivenUp DEF chain
<1>3. PICK b, r : b = job[p].bounty /\ r = job[p].req
  OBVIOUS
<1>4. CASE index' = With(index, b, Row(r)) /\ Answered(p, "done", b)
  <2>1. r \in Requests /\ status[r] = "working" /\ job[p].kind = "spawn"
    BY <1>1, <1>3, ServedJob DEF Around, JobOK, Serving
  <2>2. job'[p] = Idle /\ \A q \in Requests : status'[q] = IF q = r THEN "done" ELSE status[q]
    BY <1>3, <1>4, <2>1, ServedJob DEF Answered, CreationInv, CreationTypeOK
  <2>3. /\ DOMAIN index' = DOMAIN index \cup {b} /\ index'[b].req = r /\ index'[b].phase = 0
        /\ \A c \in DOMAIN index : c # b => index'[c] = index[c]
    <3>1. PICK row : row = Row(r)
      OBVIOUS
    <3>2. row.req = r /\ row.phase = 0
      BY <3>1 DEF Row
    <3> QED
      BY <1>4, <3>1, <3>2 DEF With
  <2>4. /\ b \in DOMAIN bounties /\ spawned[b] >= 1 /\ b \in DOMAIN files
        /\ files[b].req = r
    BY <1>1, <1>3, <2>1 DEF Around, JobOK
  <2>5. round_phase[b] \in Nat /\ Len(spawned) = Len(bounties) /\ b \in Nat
    BY <2>4, ServedJob DEF Around, ChainOK
  <2>6. \A c \in DOMAIN files : c # b =>
          /\ files[c].req \in Requests /\ files[c].req # r
          /\ status[files[c].req] \in {"failed", "done"}
    BY <1>3, <2>1 DEF Around, FilesOK
  <2>7. ChainOK' /\ AloneTaken'
    BY <1>1, <2>2 DEF Around, ChainOK, AloneTaken, Landed, chain
  <2>8. JobOK(job[p])' /\ AloneOK(job[p])'
    BY <2>2 DEF JobOK, AloneOK, Idle, Serving
  <2>9. FilesOK(job[p])'
    BY <1>1, <2>1, <2>2, <2>4, <2>6 DEF FilesOK
  <2>10. RowsOK'
    <3> SUFFICES ASSUME NEW c \in DOMAIN index'
                 PROVE  /\ index'[c].req \in Requests /\ status'[index'[c].req] = "done"
                        /\ c \in DOMAIN bounties /\ spawned[c] >= 1 /\ c \in DOMAIN files
                        /\ files[c].req = index'[c].req \/ status'[files[c].req] # "done"
                        /\ index'[c].phase \in Nat /\ index'[c].phase <= round_phase[c]
      BY <1>1 DEF RowsOK, chain
    <3>1. CASE c = b
      BY <2>1, <2>2, <2>3, <2>4, <2>5, <3>1
    <3>2. CASE c # b
      <4>1. c \in DOMAIN index /\ index'[c] = index[c]
        BY <2>3, <3>2
      <4> QED
        BY <2>2, <2>6, <3>2, <4>1 DEF Around, RowsOK
    <3> QED
      BY <3>1, <3>2
  <2>11. SettledOK(job[p])'
    <3> SUFFICES ASSUME NEW c \in DOMAIN index', index'[c].req \in alone
                 PROVE  /\ bounties[c] = index'[c].req /\ spawned[c] = 1
                        /\ \A i \in DOMAIN pool : pool[i].kind = "spawn" => pool[i].bounty # c
      BY <1>1, <2>2 DEF SettledOK, Idle, Serving, chain
    <3>1. CASE c = b
      <4>1. job[p].req \in alone
        BY <1>3, <2>3, <3>1
      <4>2. pool = <<>> /\ bounties[b] = r /\ spawned[b] = 1
        BY <1>1, <1>3, <2>1, <4>1 DEF Around, AloneOK
      <4> QED
        BY <2>3, <3>1, <4>2
    <3>2. CASE c # b
      <4>1. c \in DOMAIN index /\ index'[c] = index[c]
        BY <2>3, <3>2
      <4> QED
        BY <4>1 DEF Around, SettledOK
    <3> QED
      BY <3>1, <3>2
  <2> QED
    BY <2>7, <2>8, <2>9, <2>10, <2>11 DEF Around
<1> QED
  BY <1>2, <1>3, <1>4 DEF Index

\* A process that serves no request comes to rest or reads a phase.
LEMMA RestKeeps ==
  ASSUME NEW p, Around(job[p]), ~Serving(job[p]), NEW j, job'[p] = j, ~Serving(j), JobOK(j),
         UNCHANGED <<status, files, index, alone, chain>>
  PROVE  Around(job[p])'
<1>1. FilesOK(j) /\ SettledOK(j) /\ AloneOK(j)
  BY DEF Around, FilesOK, SettledOK, AloneOK, Serving
<1> QED
  BY <1>1, JobStep

\* The process stops while it serves a request, or a listing.
LEMMA CrashKeeps ==
  ASSUME NEW p, Processes = {p}, CreationInv, Around(job[p]), Crash(p)
  PROVE  Around(job[p])'
<1>1. UNCHANGED <<files, index, alone, chain>>
  BY DEF Crash
<1>2. CASE job[p].kind = "refresh"
  <2>1. job'[p] = Idle /\ UNCHANGED status
    BY <1>2, ServedJob DEF Crash
  <2>2. ~Serving(job[p]) /\ ~Serving(Idle) /\ JobOK(Idle)
    BY <1>2 DEF Serving, Idle, JobOK
  <2> QED
    BY <1>1, <2>1, <2>2, RestKeeps
<1>3. CASE job[p].kind # "refresh"
  <2>1. Working(p) /\ Fail(p)
    BY <1>3 DEF Crash, CreationInv, CreationTypeOK
  <2> QED
    BY <1>1, <2>1, GivenUp DEF chain
<1> QED
  BY <1>2, <1>3

\* A listing reads the phase of a row's round (get_round_details).
LEMMA ReadPhaseKeeps ==
  ASSUME NEW p, Processes = {p}, CreationInv, Around(job[p]), ReadPhase(p)
  PROVE  Around(job[p])'
<1>1. UNCHANGED <<status, files, index, alone, chain>> /\ job[p] = Idle
  BY DEF ReadPhase
<1>2. PICK b \in DOMAIN index :
        Goto(p, [kind |-> "refresh", bounty |-> b, phase |-> round_phase[b]])
  BY DEF ReadPhase, get_round_details
<1>3. PICK j : j = [kind |-> "refresh", bounty |-> b, phase |-> round_phase[b]]
  OBVIOUS
<1>4. job'[p] = j
  BY <1>2, <1>3, ServedJob
<1>5. j.kind = "refresh" /\ j.bounty = b /\ j.phase = round_phase[b]
  BY <1>3
<1>6. round_phase[b] \in Nat
  BY ServedJob DEF Around, RowsOK, ChainOK
<1>7. JobOK(j)
  BY <1>2, <1>5, <1>6 DEF JobOK
<1>8. ~Serving(job[p]) /\ ~Serving(j)
  BY <1>1, <1>5 DEF Serving, Idle
<1> QED
  BY <1>1, <1>4, <1>7, <1>8, RestKeeps

\* The row gets the phase that was read (update_bounty_phase).
LEMMA UpdateKeeps ==
  ASSUME NEW p, Processes = {p}, CreationInv, StoredInv, Around(job[p]), UpdatePhase(p)
  PROVE  Around(job[p])'
<1>1. UNCHANGED <<status, files, alone, chain>> /\ job[p].kind = "refresh"
  BY DEF UpdatePhase
<1>2. job'[p] = Idle
  BY ServedJob DEF UpdatePhase
<1>3. PICK b, f : b = job[p].bounty /\ f = job[p].phase
  OBVIOUS
<1>4. b \in DOMAIN index /\ f \in Nat /\ f <= round_phase[b]
  BY <1>1, <1>3 DEF Around, JobOK
<1>5. /\ DOMAIN index' = DOMAIN index
      /\ \A c \in DOMAIN index :
           index'[c] = IF c = b THEN [index[c] EXCEPT !.phase = f] ELSE index[c]
  BY <1>3 DEF UpdatePhase, StoredInv
<1>6. ASSUME NEW c \in DOMAIN index
      PROVE  index'[c].req = index[c].req /\ index'[c].phase = IF c = b THEN f ELSE index[c].phase
  <2>1. PICK r, old : index[c] = RowOf(r, old)
    BY DEF StoredInv
  <2>2. [index[c] EXCEPT !.phase = f].req = index[c].req
    BY <2>1 DEF RowOf
  <2>3. [index[c] EXCEPT !.phase = f].phase = f
    BY <2>1 DEF RowOf
  <2> QED
    BY <1>5, <2>2, <2>3
<1>7. ChainOK' /\ AloneTaken' /\ FilesOK(Idle)'
  BY <1>1 DEF Around, ChainOK, AloneTaken, FilesOK, Idle, Landed, chain
<1>8. RowsOK'
  BY <1>1, <1>4, <1>5, <1>6 DEF Around, RowsOK, chain
<1>9. SettledOK(Idle)'
  BY <1>1, <1>5, <1>6 DEF Around, SettledOK, Serving, Idle, chain
<1>10. JobOK(Idle)' /\ AloneOK(Idle)'
  BY DEF JobOK, AloneOK, Serving, Idle
<1> QED
  BY <1>2, <1>7, <1>8, <1>9, <1>10 DEF Around

\* A request that is taken has nothing on the chain and no row yet; it is alone
\* when nothing is pending (create_bounty, up to the first transaction).
LEMMA StartKeeps ==
  ASSUME NEW p, Processes = {p}, CreationInv, Around(job[p]), NEW r \in Requests,
         StartCreate(p, r)
  PROVE  Around(job[p])'
<1>1. /\ UNCHANGED <<files, index, chain>> /\ job[p] = Idle /\ status[r] = "new"
      /\ r \notin alone /\ alone' \in {alone, alone \cup {r}}
  BY DEF StartCreate, Around, AloneTaken
<1>2. \A c \in DOMAIN bounties : bounties[c] # r
  BY <1>1 DEF CreationInv, Nothing, NoneMade
<1>3. PICK s \in {"working", "failed"} : status' = [status EXCEPT ![r] = s]
  BY DEF StartCreate
<1>4. \A q \in Requests : status'[q] = IF q = r THEN s ELSE status[q]
  BY <1>3 DEF CreationInv, CreationTypeOK
<1>5. /\ \A b \in DOMAIN index : index[b].req # r /\ index[b].req \in Requests
      /\ \A b \in DOMAIN files : files[b].req # r /\ files[b].req \in Requests
                                /\ status[files[b].req] \in {"failed", "done"}
  BY <1>1 DEF Around, RowsOK, FilesOK, Idle
<1>6. ChainOK'
  BY <1>1 DEF Around, ChainOK, Landed, chain
<1>7. AloneTaken'
  BY <1>1, <1>4 DEF Around, AloneTaken
<1>8. RowsOK'
  BY <1>1, <1>4, <1>5 DEF Around, RowsOK, chain
<1>9. \A j : FilesOK(j)'
  BY <1>1, <1>4, <1>5 DEF FilesOK
<1>10. CASE job'[p] = Idle /\ UNCHANGED alone
  <2>1. SettledOK(Idle)'
    BY <1>1, <1>10 DEF Around, SettledOK, Serving, Idle, chain
  <2>2. JobOK(Idle)' /\ AloneOK(Idle)'
    BY DEF JobOK, AloneOK, Serving, Idle
  <2> QED
    BY <1>6, <1>7, <1>8, <1>9, <1>10, <2>1, <2>2 DEF Around
<1>11. ASSUME NEW j, j = Job(r, "create", "nonce", 0, 0, 0), job'[p] = j,
              pool # <<>> => alone' = alone
       PROVE  Around(job[p])'
  <2>1. j.kind = "create" /\ j.req = r /\ j.pc = "nonce"
    BY <1>11 DEF Job
  <2>2. JobOK(j)'
    BY <2>1 DEF JobOK
  <2>3. SettledOK(j)'
    BY <1>1, <1>2, <1>5, <2>1 DEF Around, SettledOK, Serving, Idle, chain
  <2>4. AloneOK(j)'
    BY <1>1, <1>11, <2>1 DEF AloneOK, chain
  <2> QED
    BY <1>6, <1>7, <1>8, <1>9, <1>11, <2>2, <2>3, <2>4 DEF Around
<1>12. CASE Goto(p, Job(r, "create", "nonce", 0, 0, 0))
            /\ alone' = IF pool = <<>> THEN alone \cup {r} ELSE alone
  BY <1>11, <1>12, ServedJob
<1>13. CASE UNCHANGED <<job, alone>>
  BY <1>1, <1>10, <1>13
<1> QED
  BY <1>12, <1>13 DEF StartCreate

\* The phase of a round moves forward.
LEMMA PhaseKeeps ==
  ASSUME NEW p, Processes = {p}, CreationInv, Around(job[p]), PhaseMoves
  PROVE  Around(job[p])'
<1>1. UNCHANGED <<job, status, files, index, alone, bounties, spawned, nonce, pool, receipts>>
  BY DEF PhaseMoves, backend
<1>2. PICK b \in DOMAIN round_phase : round_phase' = [round_phase EXCEPT ![b] = @ + 1]
  BY DEF PhaseMoves
<1>3. round_phase \in Seq(Nat) /\ Len(round_phase) = Len(bounties)
  BY DEF Around, ChainOK
<1>4. round_phase' \in Seq(Nat) /\ Len(round_phase') = Len(bounties)
  BY <1>2, <1>3
<1>5. \A c \in DOMAIN bounties : /\ round_phase[c] \in Nat /\ round_phase'[c] \in Nat
                                /\ round_phase[c] <= round_phase'[c]
  BY SMTT(60), <1>2, <1>3, ServedJob
<1>6. ChainOK'
  BY <1>1, <1>4 DEF Around, ChainOK, Landed
<1>7. RowsOK'
  BY <1>1, <1>5 DEF Around, RowsOK
<1>8. JobOK(job[p])'
  BY <1>1, <1>5 DEF Around, JobOK, RowsOK
<1>9. AloneTaken' /\ FilesOK(job[p])' /\ SettledOK(job[p])' /\ AloneOK(job[p])'
  BY <1>1 DEF Around, AloneTaken, FilesOK, SettledOK, AloneOK, Landed, Tx
<1> QED
  BY <1>6, <1>7, <1>8, <1>9 DEF Around

-----------------------------------------------------------------------------
(* The blocks                                                                 *)

\* The node queues or replaces by nonce; a block takes the first.
LEMMA OrderStep ==
  ASSUME CreationInv, InOrder, [CreationNext]_creation_vars
  PROVE  InOrder'
<1>1. CASE UNCHANGED <<pool, nonce>>
  BY <1>1 DEF InOrder
<1>2. PICK n \in Nat : n = Len(pool) /\ DOMAIN pool = 1 .. n
  BY DEF CreationInv, CreationTypeOK
<1>3. pool \in Seq(Txs) /\ nonce \in Nat
  BY DEF CreationInv, CreationTypeOK
<1>4. ASSUME NEW w \in Processes, Send(w)
      PROVE  InOrder'
  <2>1. Tx(job[w]) \in Txs /\ nonce' = nonce
    BY <1>4 DEF Send, At, Working, CreationInv, CreationTypeOK, RequestJobs, Tx, Txs
  <2>2. PICK tx \in Txs : tx = Tx(job[w])
    BY <2>1
  <2>3. tx.nonce \in Nat
    BY DEF Txs
  <2>4. Pooled(tx) \/ pool' = pool
    BY <1>4, <2>2 DEF Send
  <2>5. CASE tx.nonce = nonce + Len(pool) /\ pool' = Append(pool, tx)
    <3>1. /\ DOMAIN pool' = 1 .. (n + 1) /\ pool'[n + 1] = tx
          /\ \A i \in 1 .. n : pool'[i] = pool[i]
      BY <1>2, <1>3, <2>5
    <3>2. \A i \in 1 .. (n + 1) : i \in Nat /\ (i = n + 1 \/ i \in 1 .. n)
      OBVIOUS
    <3>3. pool'[n + 1].nonce = nonce + (n + 1) - 1
      BY <1>2, <1>3, <2>3, <2>5, <3>1
    <3>4. \A i \in 1 .. n : pool'[i].nonce = nonce + i - 1
      BY <1>2, <3>1 DEF InOrder
    <3> QED
      BY <2>1, <3>1, <3>2, <3>3, <3>4 DEF InOrder
  <2>6. CASE InPool(tx.nonce) /\ pool' = [pool EXCEPT ![tx.nonce - nonce + 1] = tx]
    <3>1. PICK m \in Int : m = tx.nonce - nonce + 1
      BY <1>3, <2>3
    <3>2. DOMAIN pool' = DOMAIN pool
          /\ \A i \in DOMAIN pool : pool'[i] = IF i = m THEN tx ELSE pool[i]
      BY <1>3, <2>6, <3>1
    <3>3. tx.nonce = nonce + m - 1
      BY SMTT(60), <1>3, <2>3, <3>1
    <3> QED
      BY <2>1, <3>2, <3>3 DEF InOrder
  <2> QED
    BY <1>1, <2>1, <2>4, <2>5, <2>6 DEF Pooled
<1>5. CASE Mine
  <2>1. pool # <<>> /\ pool' = Tail(pool) /\ nonce' = nonce + 1
    BY <1>5 DEF Mine
  <2>2. /\ DOMAIN pool' = 1 .. (n - 1)
        /\ \A i \in 1 .. (n - 1) : pool'[i] = pool[i + 1] /\ i + 1 \in 1 .. n /\ i \in Nat
    BY SMTT(60), <1>2, <1>3, <2>1
  <2> QED
    BY SMTT(60), <1>2, <1>3, <2>1, <2>2 DEF InOrder
<1>6. CASE \/ \E w \in Processes : \/ ReadNonce(w) \/ Wait(w) \/ ReadId(w) \/ ReadRound(w)
                                   \/ Store(w) \/ Index(w) \/ UpdatePhase(w)
                                   \/ Crash(w) \/ ReadPhase(w)
           \/ \E w \in Processes, r \in Requests : StartCreate(w, r)
           \/ PhaseMoves \/ UNCHANGED creation_vars
  BY <1>1, <1>6 DEF ReadNonce, Wait, ReadId, ReadRound, Store, Index, UpdatePhase, Crash,
                    ReadPhase, StartCreate, PhaseMoves, chain, creation_vars
<1> QED
  BY <1>4, <1>5, <1>6 DEF CreationNext, Step

\* A block takes the first pending transaction; when it succeeds, a creation
\* adds a bounty at the end, and a round is added to the bounty it names.
BlockTakes(tx, ok) ==
  /\ Len(pool) > 0 /\ tx = pool[1] /\ nonce' = nonce + 1
  /\ Len(pool') = Len(pool) - 1 /\ DOMAIN pool' = 1 .. (Len(pool) - 1)
  /\ \A i \in DOMAIN pool' : pool'[i] = pool[i + 1] /\ i + 1 \in DOMAIN pool
  /\ \A t \in Txs : Landed(t)' <=> Landed(t) \/ (ok /\ t = tx)
  /\ bounties' \in Seq(Requests)
  /\ spawned' \in Seq(Nat) /\ Len(spawned') = Len(bounties')
  /\ round_phase' \in Seq(Nat) /\ Len(round_phase') = Len(bounties')
  /\ \/ bounties' = bounties /\ (ok => tx.kind = "spawn")
     \/ /\ ok /\ tx.kind = "create"
        /\ Len(bounties') = Len(bounties) + 1
        /\ bounties'[Len(bounties) + 1] = tx.req /\ spawned'[Len(bounties) + 1] = 0
  /\ \A c \in DOMAIN bounties :
       /\ c \in DOMAIN bounties' /\ bounties'[c] = bounties[c]
       /\ spawned[c] \in Nat
       /\ spawned'[c] = spawned[c] + (IF ok /\ tx.kind = "spawn" /\ tx.bounty = c
                                      THEN 1 ELSE 0)
       /\ round_phase[c] \in Nat /\ round_phase'[c] \in Nat
       /\ round_phase[c] <= round_phase'[c]

\* A receipt is of a transaction that landed, or it is not.
LEMMA LandedStep ==
  ASSUME NEW tx, NEW ok \in BOOLEAN, receipts' = receipts \cup {[tx |-> tx, ok |-> ok]}
  PROVE  \A t \in Txs : Landed(t)' <=> Landed(t) \/ (ok /\ t = tx)
<1>1. CASE ok = TRUE
  <2>1. \A t \in Txs : [tx |-> t, ok |-> TRUE] \in receipts'
          <=> [tx |-> t, ok |-> TRUE] \in receipts \/ t = tx
    BY <1>1
  <2> QED
    BY <1>1, <2>1 DEF Landed
<1>2. CASE ok = FALSE
  <2>1. \A t \in Txs : [tx |-> t, ok |-> TRUE] \in receipts'
          <=> [tx |-> t, ok |-> TRUE] \in receipts
    BY <1>2
  <2> QED
    BY <1>2, <2>1 DEF Landed
<1> QED
  BY <1>1, <1>2

\* Counting one up, or raising a phase, keeps a sequence of numbers one; a
\* place it does not have changes nothing.
LEMMA OneChanged ==
  ASSUME NEW s \in Seq(Nat), NEW b, NEW v, b \in 1 .. Len(s) => v \in Nat
  PROVE  /\ [s EXCEPT ![b] = v] \in Seq(Nat) /\ Len([s EXCEPT ![b] = v]) = Len(s)
         /\ \A c \in 1 .. Len(s) : [s EXCEPT ![b] = v][c] = IF c = b THEN v ELSE s[c]
<1>1. PICK m \in Nat : m = Len(s) /\ DOMAIN s = 1 .. m
  OBVIOUS
<1>2. PICK z : z = [s EXCEPT ![b] = v]
  OBVIOUS
<1>3. z = [c \in 1 .. m |-> IF c = b THEN v ELSE s[c]]
  BY <1>1, <1>2
<1>4. \A c \in 1 .. m : z[c] \in Nat
  BY <1>1, <1>3
<1>5. z \in [1 .. m -> Nat]
  BY <1>3, <1>4
<1>6. z \in Seq(Nat) /\ Len(z) = m
  BY <1>5
<1> QED
  BY <1>1, <1>2, <1>3, <1>6

LEMMA BlockShape ==
  ASSUME CreationInv, ChainOK, Mine
  PROVE  \E tx \in Txs, ok \in BOOLEAN : BlockTakes(tx, ok)
<1>1. PICK n \in Nat : n = Len(pool) /\ DOMAIN pool = 1 .. n /\ pool \in Seq(Txs)
  BY DEF CreationInv, CreationTypeOK
<1>2. pool # <<>> /\ pool' = Tail(pool) /\ nonce' = nonce + 1
  BY DEF Mine
<1>3. PICK tx \in Txs : tx = Head(pool) /\ tx = pool[1] /\ n > 0
  BY <1>1, <1>2
<1>4. /\ DOMAIN pool' = 1 .. (n - 1) /\ Len(pool') = n - 1
      /\ \A i \in DOMAIN pool' : pool'[i] = pool[i + 1] /\ i + 1 \in DOMAIN pool
  BY <1>1, <1>2
<1>5. tx.req \in Requests /\ tx.bounty \in Nat /\ tx.kind \in {"create", "spawn"}
  BY DEF Txs
<1>6. PICK m \in Nat : m = Len(bounties) /\ DOMAIN bounties = 1 .. m
  BY DEF CreationInv, CreationTypeOK
<1>7. /\ bounties \in Seq(Requests) /\ spawned \in Seq(Nat) /\ round_phase \in Seq(Nat)
      /\ Len(spawned) = m /\ Len(round_phase) = m
      /\ DOMAIN spawned = 1 .. m /\ DOMAIN round_phase = 1 .. m
  BY <1>6 DEF CreationInv, CreationTypeOK, ChainOK
<1>8. /\ Len(pool) > 0 /\ tx = pool[1] /\ nonce' = nonce + 1
      /\ Len(pool') = Len(pool) - 1 /\ DOMAIN pool' = 1 .. (Len(pool) - 1)
      /\ \A i \in DOMAIN pool' : pool'[i] = pool[i + 1] /\ i + 1 \in DOMAIN pool
  BY <1>1, <1>2, <1>3, <1>4
<1>10. CASE /\ receipts' = receipts \cup {[tx |-> tx, ok |-> FALSE]}
            /\ UNCHANGED <<bounties, spawned, round_phase>>
  <2>1. \A t \in Txs : Landed(t)' <=> Landed(t) \/ (FALSE /\ t = tx)
    BY <1>10, LandedStep
  <2>2. \A c \in DOMAIN bounties :
          /\ spawned[c] \in Nat /\ spawned'[c] = spawned[c] + 0
          /\ round_phase[c] \in Nat /\ round_phase'[c] = round_phase[c]
    BY <1>6, <1>7, <1>10
  <2>3. BlockTakes(tx, FALSE)
    BY <1>6, <1>7, <1>8, <1>10, <2>1, <2>2 DEF BlockTakes
  <2> QED
    BY <2>3
<1>11. CASE /\ receipts' = receipts \cup {[tx |-> tx, ok |-> TRUE]} /\ tx.kind = "create"
            /\ bounties' = Append(bounties, tx.req)
            /\ spawned' = Append(spawned, 0)
            /\ round_phase' = Append(round_phase, 0)
  <2>1. \A t \in Txs : Landed(t)' <=> Landed(t) \/ (TRUE /\ t = tx)
    BY <1>11, LandedStep
  <2>2. /\ bounties' \in Seq(Requests) /\ Len(bounties') = m + 1
        /\ bounties'[m + 1] = tx.req /\ DOMAIN bounties' = 1 .. (m + 1)
        /\ \A c \in 1 .. m : bounties'[c] = bounties[c]
    BY <1>5, <1>6, <1>7, <1>11
  <2>3. /\ spawned' \in Seq(Nat) /\ Len(spawned') = m + 1 /\ spawned'[m + 1] = 0
        /\ \A c \in 1 .. m : spawned'[c] = spawned[c] /\ spawned[c] \in Nat
    <3>1. PICK s \in Seq(Nat) : s = spawned /\ Len(s) = m
      BY <1>7
    <3>2. spawned' = Append(s, 0)
      BY <1>11, <3>1
    <3> QED
      BY <3>1, <3>2
  <2>4. /\ round_phase' \in Seq(Nat) /\ Len(round_phase') = m + 1
        /\ \A c \in 1 .. m : round_phase'[c] = round_phase[c] /\ round_phase[c] \in Nat
    BY <1>7, <1>11
  <2>5. \A c \in DOMAIN bounties :
          /\ c \in DOMAIN bounties' /\ bounties'[c] = bounties[c]
          /\ spawned[c] \in Nat /\ spawned'[c] = spawned[c] + 0
          /\ round_phase[c] \in Nat /\ round_phase'[c] = round_phase[c]
    BY <1>6, <2>2, <2>3, <2>4
  <2>6. tx.kind # "spawn"
    BY <1>11
  <2>7. BlockTakes(tx, TRUE)
    BY <1>6, <1>8, <1>11, <2>1, <2>2, <2>3, <2>4, <2>5, <2>6 DEF BlockTakes
  <2> QED
    BY <2>7
<1>12. CASE /\ receipts' = receipts \cup {[tx |-> tx, ok |-> TRUE]} /\ tx.kind # "create"
            /\ spawned' = [spawned EXCEPT ![tx.bounty] = @ + 1]
            /\ round_phase' = [round_phase EXCEPT ![tx.bounty] = IF @ = 0 THEN 1 ELSE @]
            /\ UNCHANGED bounties
  <2>1. \A t \in Txs : Landed(t)' <=> Landed(t) \/ (TRUE /\ t = tx)
    BY <1>12, LandedStep
  <2>2. PICK b, v, f : /\ b = tx.bounty /\ v = spawned[b] + 1
                       /\ f = IF round_phase[b] = 0 THEN 1 ELSE round_phase[b]
    OBVIOUS
  <2>3. spawned' = [spawned EXCEPT ![b] = v] /\ round_phase' = [round_phase EXCEPT ![b] = f]
    BY <1>12, <2>2
  <2>4. \A c \in 1 .. m : spawned[c] \in Nat /\ round_phase[c] \in Nat
    BY <1>7
  <2>5. b \in 1 .. m => v \in Nat /\ f \in Nat /\ round_phase[b] <= f
    BY <2>2, <2>4
  <2>6. /\ spawned' \in Seq(Nat) /\ Len(spawned') = m
        /\ \A c \in 1 .. m : spawned'[c] = IF c = b THEN v ELSE spawned[c]
    BY <1>7, <2>3, <2>5, OneChanged
  <2>7. /\ round_phase' \in Seq(Nat) /\ Len(round_phase') = m
        /\ \A c \in 1 .. m : round_phase'[c] = IF c = b THEN f ELSE round_phase[c]
    BY SMTT(60), <1>7, <2>3, <2>5, OneChanged
  <2>8. \A c \in DOMAIN bounties :
          /\ spawned[c] \in Nat
          /\ spawned'[c] = spawned[c] + (IF tx.bounty = c THEN 1 ELSE 0)
          /\ round_phase[c] \in Nat /\ round_phase'[c] \in Nat
          /\ round_phase[c] <= round_phase'[c]
    BY SMTT(60), <1>6, <2>2, <2>4, <2>5, <2>6, <2>7
  <2>9. tx.kind = "spawn"
    BY <1>5, <1>12
  <2>10. BlockTakes(tx, TRUE)
    <3>1. bounties' = bounties /\ bounties \in Seq(Requests)
      BY <1>7, <1>12
    <3> QED
      BY <1>6, <1>8, <2>1, <2>6, <2>7, <2>8, <2>9, <3>1 DEF BlockTakes
  <2> QED
    BY <2>10
<1> QED
  BY <1>3, <1>10, <1>11, <1>12 DEF Mine

\* A block: what a request that is alone has sent is all there is to take.
LEMMA BlockKeeps ==
  ASSUME NEW p, Processes = {p}, CreationInv, InOrder, Around(job[p]), Mine
  PROVE  Around(job[p])'
<1>1. UNCHANGED <<job, status, files, index, alone>> /\ ChainOK
  BY DEF Mine, backend, Around
<1>2. PICK tx \in Txs, ok \in BOOLEAN : BlockTakes(tx, ok)
  BY <1>1, BlockShape
<1>3. /\ Len(bounties) \in Nat /\ DOMAIN bounties = 1 .. Len(bounties)
      /\ Len(bounties') \in Nat /\ DOMAIN bounties' = 1 .. Len(bounties')
      /\ Len(pool) \in Nat /\ DOMAIN pool = 1 .. Len(pool) /\ nonce \in Nat
  BY <1>2, ServedJob DEF BlockTakes
<1>4. \A c \in DOMAIN bounties' : c \in Nat /\ (c \in DOMAIN bounties
        \/ (c = Len(bounties) + 1 /\ bounties'[c] = tx.req))
  BY SMTT(60), <1>2, <1>3 DEF BlockTakes
<1>5. \A c \in DOMAIN bounties :
        /\ c \in DOMAIN bounties'
        /\ spawned[c] \in Nat /\ spawned'[c] \in Nat /\ spawned[c] <= spawned'[c]
        /\ round_phase[c] \in Nat /\ round_phase'[c] \in Nat
        /\ round_phase[c] <= round_phase'[c]
  BY SMTT(60), <1>2 DEF BlockTakes
<1>6. ChainOK'
  <2>1. tx.nonce = nonce
    BY SMTT(60), <1>2, <1>3 DEF BlockTakes, InOrder
  <2>2. ASSUME NEW t \in Txs, Landed(t)
        PROVE  /\ t.nonce < nonce'
               /\ t.kind = "create" => \E c \in DOMAIN bounties' : bounties'[c] = t.req
    <3>1. t.nonce \in Nat /\ t.nonce < nonce
      BY <1>1, <2>2 DEF ChainOK, Txs
    <3>2. t.kind = "create" => \E c \in DOMAIN bounties : bounties[c] = t.req
      BY <1>1, <2>2 DEF ChainOK
    <3> QED
      BY <1>2, <1>3, <3>1, <3>2 DEF BlockTakes
  <2>3. tx.nonce < nonce'
    BY <1>2, <1>3, <2>1 DEF BlockTakes
  <2>4. ok /\ tx.kind = "create" => \E c \in DOMAIN bounties' : bounties'[c] = tx.req
    <3>1. ok /\ tx.kind = "create" =>
            Len(bounties') = Len(bounties) + 1 /\ bounties'[Len(bounties) + 1] = tx.req
      BY <1>2 DEF BlockTakes
    <3>2. Len(bounties') = Len(bounties) + 1 => Len(bounties) + 1 \in DOMAIN bounties'
      BY <1>3
    <3> QED
      BY <3>1, <3>2
  <2>5. \A t \in Txs : Landed(t)' =>
          /\ t.nonce < nonce'
          /\ t.kind = "create" => \E c \in DOMAIN bounties' : bounties'[c] = t.req
    BY <1>2, <2>2, <2>3, <2>4 DEF BlockTakes
  <2> QED
    BY <1>2, <2>5 DEF BlockTakes, ChainOK
<1>7. AloneTaken' /\ FilesOK(job[p])'
  BY <1>1 DEF Around, AloneTaken, FilesOK
<1>8. RowsOK'
  <2> SUFFICES ASSUME NEW b \in DOMAIN index
               PROVE  /\ b \in DOMAIN bounties' /\ spawned'[b] >= 1
                      /\ index[b].phase <= round_phase'[b]
    BY <1>1 DEF Around, RowsOK
  <2>1. b \in DOMAIN bounties /\ spawned[b] >= 1 /\ index[b].phase \in Nat
        /\ index[b].phase <= round_phase[b]
    BY DEF Around, RowsOK
  <2> QED
    BY <1>5, <2>1
<1>9. JobOK(job[p])'
  <2>1. job[p].kind = "create" /\ job[p].pc = "read_id" =>
          \E c \in DOMAIN bounties' : bounties'[c] = job[p].req
    BY <1>2 DEF BlockTakes, Around, JobOK
  <2>2. job[p].kind = "spawn" =>
          /\ job[p].bounty \in DOMAIN bounties'
          /\ job[p].pc \in {"store", "index"} => spawned'[job[p].bounty] >= 1
    <3> SUFFICES ASSUME job[p].kind = "spawn"
                 PROVE  /\ job[p].bounty \in DOMAIN bounties'
                        /\ job[p].pc \in {"store", "index"} => spawned'[job[p].bounty] >= 1
      OBVIOUS
    <3>1. /\ job[p].bounty \in DOMAIN bounties
          /\ job[p].pc \in {"store", "index"} => spawned[job[p].bounty] >= 1
      BY DEF Around, JobOK
    <3> QED
      BY SMTT(60), <1>2, <1>5, <3>1 DEF BlockTakes
  <2>3. job[p].kind = "refresh" => job[p].phase <= round_phase'[job[p].bounty]
    <3> SUFFICES ASSUME job[p].kind = "refresh"
                 PROVE  job[p].phase <= round_phase'[job[p].bounty]
      OBVIOUS
    <3>1. /\ job[p].bounty \in DOMAIN bounties /\ job[p].phase \in Nat
          /\ job[p].phase <= round_phase[job[p].bounty]
      BY DEF Around, JobOK, RowsOK
    <3> QED
      BY <1>5, <3>1
  <2> QED
    BY <1>1, <2>1, <2>2, <2>3 DEF Around, JobOK
<1>10. SettledOK(job[p])'
  <2> SUFFICES ASSUME NEW b \in DOMAIN index, index[b].req \in alone
               PROVE  /\ bounties'[b] = index[b].req /\ spawned'[b] = 1
                      /\ \A i \in DOMAIN pool' : pool'[i].kind = "spawn" => pool'[i].bounty # b
                      /\ job[p].kind = "spawn" => job[p].bounty > b
                      /\ \A c \in DOMAIN bounties' :
                           Serving(job[p]) /\ bounties'[c] = job[p].req => c > b
    BY <1>1 DEF SettledOK
  <2>1. /\ bounties[b] = index[b].req /\ spawned[b] = 1
        /\ \A i \in DOMAIN pool : pool[i].kind = "spawn" => pool[i].bounty # b
        /\ job[p].kind = "spawn" => job[p].bounty > b
        /\ \A c \in DOMAIN bounties : Serving(job[p]) /\ bounties[c] = job[p].req => c > b
    BY DEF Around, SettledOK
  <2>2. b \in DOMAIN bounties /\ b \in Nat /\ b <= Len(bounties)
    BY <1>3 DEF Around, RowsOK
  <2>3. tx.kind = "spawn" => tx.bounty # b
    <3>1. tx = pool[1] /\ 1 \in DOMAIN pool
      BY <1>2, <1>3 DEF BlockTakes
    <3> QED
      BY <2>1, <3>1
  <2>4. bounties'[b] = index[b].req /\ spawned'[b] = 1
    <3>1. /\ bounties'[b] = bounties[b]
          /\ spawned'[b] = spawned[b] + (IF ok /\ tx.kind = "spawn" /\ tx.bounty = b
                                         THEN 1 ELSE 0)
      BY <1>2, <2>2 DEF BlockTakes
    <3> QED
      BY <2>1, <2>3, <3>1
  <2>5. \A i \in DOMAIN pool' : pool'[i].kind = "spawn" => pool'[i].bounty # b
    BY SMTT(60), <1>2, <2>1 DEF BlockTakes
  <2>6. \A c \in DOMAIN bounties' : Serving(job[p]) /\ bounties'[c] = job[p].req => c > b
    <3>1. \A c \in DOMAIN bounties : bounties'[c] = bounties[c]
      BY <1>2 DEF BlockTakes
    <3>2. \A c \in DOMAIN bounties' : c \in DOMAIN bounties \/ c > b
      BY <1>3, <1>4, <2>2
    <3> QED
      BY <2>1, <3>1, <3>2
  <2> QED
    BY <2>1, <2>4, <2>5, <2>6
<1>11. AloneOK(job[p])'
  <2> SUFFICES ASSUME Serving(job[p]), job[p].req \in alone
               PROVE  AloneOK(job[p])'
    BY <1>1 DEF AloneOK
  <2>1. /\ job[p].pc = "wait" /\ Len(pool) = 1 /\ tx = Tx(job[p]) /\ ~Landed(tx)
    BY <1>2, <1>3 DEF BlockTakes, Around, AloneOK
  <2>2. tx.kind = job[p].kind /\ tx.req = job[p].req /\ tx.bounty = job[p].bounty
    BY <2>1 DEF Tx
  <2>3. pool' = <<>>
    <3>1. pool' \in Seq(Txs) /\ Len(pool') = 0
      BY <1>2, <2>1, CreationStep DEF BlockTakes, CreationInv, CreationTypeOK, CreationNext
    <3> QED
      BY <3>1
  <2>4. Tx(job[p])' = tx /\ (Landed(tx)' <=> ok)
    BY <1>1, <1>2, <2>1 DEF BlockTakes, Tx
  <2>5. job[p].kind = "create" /\ ok =>
          /\ Len(bounties') > 0 /\ bounties'[Len(bounties')] = job[p].req
          /\ spawned'[Len(bounties')] = 0
    BY SMTT(60), <1>2, <1>3, <2>2 DEF BlockTakes
  <2>6. job[p].kind = "spawn" =>
          /\ bounties'[job[p].bounty] = job[p].req
          /\ spawned'[job[p].bounty] = IF ok THEN 1 ELSE 0
    <3> SUFFICES ASSUME job[p].kind = "spawn"
                 PROVE  /\ bounties'[job[p].bounty] = job[p].req
                        /\ spawned'[job[p].bounty] = IF ok THEN 1 ELSE 0
      OBVIOUS
    <3>1. /\ job[p].bounty \in DOMAIN bounties /\ bounties[job[p].bounty] = job[p].req
          /\ spawned[job[p].bounty] = 0
      BY <2>1 DEF Around, AloneOK, JobOK
    <3> QED
      BY SMTT(60), <1>2, <2>2, <3>1 DEF BlockTakes
  <2> QED
    BY <1>1, <2>1, <2>3, <2>4, <2>5, <2>6 DEF AloneOK
<1> QED
  BY <1>6, <1>7, <1>8, <1>9, <1>10, <1>11 DEF Around

\* IndexIsTrue is not inductive: it says nothing of the handler that is about
\* to write, of a listing that has read, or of what is pending.
LEMMA IndexStep ==
  ASSUME NEW p, Processes = {p}, CreationInv, StoredInv, InOrder, Around(job[p]),
         [CreationNext]_creation_vars
  PROVE  Around(job[p])'
<1>1. CASE \E w \in Processes : Step(w) \/ Crash(w) \/ ReadPhase(w)
  <2>1. Step(p) \/ Crash(p) \/ ReadPhase(p)
    BY <1>1
  <2> QED
    BY <2>1, ReadNonceKeeps, SendKeepsIndex, WaitKeeps, ReadIdKeeps, ReadRoundKeeps, StoreKeeps,
       IndexKeeps, UpdateKeeps, CrashKeeps, ReadPhaseKeeps DEF Step
<1>2. CASE \E w \in Processes, r \in Requests : StartCreate(w, r)
  BY <1>2, StartKeeps
<1>3. CASE Mine
  BY <1>3, BlockKeeps
<1>4. CASE PhaseMoves
  BY <1>4, PhaseKeeps
<1>5. CASE UNCHANGED creation_vars
  <2>1. UNCHANGED <<job, status, files, index, alone, chain>>
    BY <1>5 DEF creation_vars, backend
  <2>2. job'[p] = job[p] /\ JobOK(job[p]) /\ FilesOK(job[p]) /\ SettledOK(job[p])
        /\ AloneOK(job[p])
    BY <2>1 DEF Around
  <2> QED
    BY <2>1, <2>2, JobStep
<1> QED
  BY <1>1, <1>2, <1>3, <1>4, <1>5 DEF CreationNext

\* A row of the index speaks of a bounty that exists with a round, of its
\* request's file and of a phase that the round has reached; the row of a
\* request taken while nothing was pending is about its own bounty.  With one
\* server process, as it is deployed (create_bounty, index_bounty).
THEOREM IndexIsAlwaysTrue ==
  ASSUME NEW p, Processes = {p}
  PROVE  CreationSpec => []IndexIsTrue
<1>1. CreationInit => IndexInv(p)
  <2> SUFFICES ASSUME CreationInit
               PROVE  IndexInv(p)
    OBVIOUS
  <2>1. CreationInv
    BY CreationInitially
  <2>2. StoredInv /\ InOrder
    BY DEF CreationInit, StoredInv, InOrder
  <2>3. job[p] = Idle /\ ~Serving(Idle) /\ JobOK(Idle)
    BY DEF CreationInit, Serving, JobOK, Idle
  <2>4. ChainOK
    BY DEF CreationInit, ChainOK, Landed
  <2>5. RowsOK /\ AloneTaken /\ FilesOK(Idle) /\ SettledOK(Idle) /\ AloneOK(Idle)
    BY <2>3 DEF CreationInit, RowsOK, AloneTaken, FilesOK, SettledOK, AloneOK
  <2> QED
    BY <2>1, <2>2, <2>3, <2>4, <2>5 DEF IndexInv, Around
<1>2. IndexInv(p) /\ [CreationNext]_creation_vars => IndexInv(p)'
  BY CreationStep, StoredStep, OrderStep, IndexStep DEF IndexInv
<1>3. IndexInv(p) => IndexIsTrue
  BY DEF IndexInv, Around, RowsOK, SettledOK, IndexIsTrue
<1> QED
  BY <1>1, <1>2, <1>3, PTL DEF CreationSpec

-----------------------------------------------------------------------------
(* Activity of a wallet                                                       *)

\* What the row adds up and the days it names are days and sums of the log,
\* which grows at its end, with the date of the day.
Events == {"connect", "page_view", "bounty_created", "bounty_deposited", "agent_registered",
           "bounty_won"}

Lines == [event : Events, day : 1 .. day, amount : Nat, direct : BOOLEAN]

Roles == {"visitor", "sponsor", "agent", "both"}

WalletRow ==
  [first_seen : Nat, last_seen : Nat, total_sessions : Nat, role : Roles,
   bounties_created : Nat, total_deposited : Nat, agent_registered : BOOLEAN, wins : Nat,
   unique_pages : SUBSET Pages, streak_days : Nat, last_active_date : Nat]

ActivityTypeOK ==
  /\ day \in Nat \ {0}
  /\ events \in Seq(Lines)
  /\ wallets \in WalletRow /\ wallets.last_active_date <= day

\* The parts of RowMatchesLog, and two facts they need: a wallet that never
\* connected has no connection in its log, and one that did has a streak.
ConnectedDays == {d \in Int : Connected(d)}

StreakMatches ==
  LET last == wallets.last_active_date IN
  /\ last > 0 =>
       /\ (last - wallets.streak_days + 1) .. last \subseteq ConnectedDays
       /\ last - wallets.streak_days \notin ConnectedDays
       /\ wallets.streak_days > 0
  /\ last = 0 => wallets.streak_days = 0
  /\ ConnectedDays \subseteq 1 .. last

TotalMatches == Deposited <= MAX_INTEGER => wallets.total_deposited = Deposited

RoleMatches ==
  wallets.role = RoleOf(Occurred("bounty_created"), Occurred("agent_registered"))

ActivityInv == ActivityTypeOK /\ StreakMatches /\ TotalMatches /\ RoleMatches

\* What one more line in the log changes: a connection on this day, an event
\* of the two that give a role, and the sum of the amounts.
LEMMA LogGrows ==
  ASSUME ActivityTypeOK, NEW event \in Events, NEW amount \in Nat, NEW direct \in BOOLEAN,
         Log(event, amount, direct), day' = day
  PROVE  /\ events' \in Seq(Lines)
         /\ ConnectedDays' = ConnectedDays \cup (IF event = "connect" THEN {day} ELSE {})
         /\ \A e \in Events : Occurred(e)' <=> Occurred(e) \/ (event = e /\ ~direct)
         /\ Deposited \in Nat /\ Deposited' = Deposited + amount
<1> DEFINE line == [event |-> event, day |-> day, amount |-> amount, direct |-> direct]
           n == Len(events)
<1>1. /\ line \in Lines
      /\ line.event = event /\ line.day = day /\ line.amount = amount /\ line.direct = direct
  BY DEF ActivityTypeOK, Lines
<1>2. events' = Append(events, line)
  BY DEF Log
<1> HIDE DEF line
<1>3. /\ n \in Nat /\ DOMAIN events = 1 .. n /\ DOMAIN events' = 1 .. n + 1
      /\ \A i \in 1 .. n : events'[i] = events[i]
      /\ events'[n + 1] = line
  BY <1>1, <1>2 DEF ActivityTypeOK
<1>4. events' \in Seq(Lines)
  BY <1>1, <1>2 DEF ActivityTypeOK
<1> HIDE DEF n
<1>5. \A i \in 1 .. n + 1 : i \in 1 .. n \/ i = n + 1
  BY <1>3
<1>6. n + 1 \in 1 .. n + 1 /\ 1 .. n \subseteq 1 .. n + 1
  BY <1>3
<1>7. ConnectedDays' = ConnectedDays \cup (IF event = "connect" THEN {day} ELSE {})
  <2>1. ASSUME NEW d \in Int
        PROVE  Connected(d)' <=> Connected(d) \/ (event = "connect" /\ d = day)
    BY <1>1, <1>3, <1>5, <1>6 DEF Connected
  <2>2. day \in Int
    BY DEF ActivityTypeOK
  <2> QED
    BY <2>1, <2>2 DEF ConnectedDays
<1>8. ASSUME NEW e \in Events
      PROVE  Occurred(e)' <=> Occurred(e) \/ (event = e /\ ~direct)
  BY <1>1, <1>3, <1>5, <1>6 DEF Occurred
<1> DEFINE old == [i \in DOMAIN events |-> events[i].amount]
           new == [i \in DOMAIN events' |-> events'[i].amount]
<1>9. /\ \A i \in 1 .. n : old[i] \in Nat /\ new[i] = old[i]
      /\ new[n + 1] = amount
  <2>1. ASSUME NEW i \in 1 .. n PROVE events[i].amount \in Nat
    <3>1. i \in DOMAIN events
      BY <1>3
    <3>2. events[i] \in Lines
      BY <3>1, ElementOfSeq DEF ActivityTypeOK
    <3> QED
      BY <3>2 DEF Lines
  <2> QED
    BY <1>1, <1>3, <1>6, <2>1
<1>10. /\ Deposited = SumFunctionOnSet(old, 1 .. n)
       /\ Deposited' = SumFunctionOnSet(new, 1 .. n + 1)
  BY <1>3 DEF Deposited
<1> HIDE DEF old, new
<1>11. IsFiniteSet(1 .. n) /\ IsFiniteSet(1 .. n + 1)
  BY <1>3, FS_Interval
<1>12. Deposited \in Nat
  BY <1>9, <1>10, <1>11, SumNat
<1>13. \A i \in 1 .. n + 1 : new[i] \in Int
  BY <1>5, <1>9
<1>14. SumFunctionOnSet(new, 1 .. n + 1)
         = new[n + 1] + SumFunctionOnSet(new, (1 .. n + 1) \ {n + 1})
  <2> DEFINE S == 1 .. n + 1
             y == n + 1
  <2>1. IsFiniteSet(S) /\ y \in S /\ \A i \in S : new[i] \in Int
    BY <1>6, <1>11, <1>13
  <2> HIDE DEF S, y
  <2>2. SumFunctionOnSet(new, S) = new[y] + SumFunctionOnSet(new, S \ {y})
    BY <2>1, SumRemove
  <2> QED
    BY <2>2 DEF S, y
<1>15. (1 .. n + 1) \ {n + 1} = 1 .. n
  BY <1>3
<1>16. SumFunctionOnSet(new, 1 .. n) = SumFunctionOnSet(old, 1 .. n)
  BY <1>9, <1>11, SumEqual
<1>17. Deposited' = Deposited + amount
  <2>1. Deposited' = new[n + 1] + Deposited
    BY <1>10, <1>14, <1>15, <1>16
  <2>2. Deposited' = amount + Deposited
    BY <1>9, <2>1
  <2> QED
    BY <1>12, <2>2
<1> QED
  BY <1>4, <1>7, <1>8, <1>12, <1>17

\* What the row becomes in the columns RowMatchesLog reads.
LEMMA RowBecomes ==
  ASSUME ActivityTypeOK, ActivityAssumption, NEW event \in Events, NEW amount \in Nat,
         NEW page, event = "page_view" => page \in Pages,
         NEW row, row \in Counted(SeenToday(wallets), event, page, amount)
  PROVE  /\ row \in WalletRow
         /\ IF event = "connect" /\ wallets.last_active_date # day
            THEN /\ row.last_active_date = day
                 /\ row.streak_days = IF wallets.last_active_date = day - 1
                                      THEN wallets.streak_days + 1 ELSE 1
            ELSE /\ row.last_active_date = wallets.last_active_date
                 /\ row.streak_days = wallets.streak_days
         /\ IF event = "bounty_deposited"
            THEN row.total_deposited \in Total(wallets.total_deposited, amount)
            ELSE row.total_deposited = wallets.total_deposited
         /\ row.role = CASE event = "bounty_created" ->
                              RoleAfter(wallets.role, "sponsor", "agent")
                         [] event = "agent_registered" ->
                              RoleAfter(wallets.role, "agent", "sponsor")
                         [] OTHER -> wallets.role
<1> DEFINE seen == SeenToday(wallets)
<1>1. /\ seen \in WalletRow
      /\ seen.last_active_date = wallets.last_active_date
      /\ seen.streak_days = wallets.streak_days
      /\ seen.total_deposited = wallets.total_deposited
      /\ seen.role = wallets.role
  BY DEF ActivityTypeOK, WalletRow, SeenToday
<1>2. day \in Nat /\ MAX_INTEGER \in Nat
  BY DEF ActivityTypeOK, ActivityAssumption
<1>3. row \in Counted(seen, event, page, amount)
  OBVIOUS
<1> HIDE DEF seen
<1>4. CASE event = "connect"
  <2> DEFINE more == [seen EXCEPT !.total_sessions = @ + 1]
  <2>1. row = _update_streak(more)
    BY <1>3, <1>4 DEF Counted
  <2>2. /\ more \in WalletRow
        /\ more.last_active_date = seen.last_active_date
        /\ more.streak_days = seen.streak_days
        /\ more.total_deposited = seen.total_deposited
        /\ more.role = seen.role
    BY <1>1 DEF WalletRow
  <2> HIDE DEF more
  <2>3. CASE seen.last_active_date = day
    <3>1. row = more
      BY <2>1, <2>2, <2>3 DEF _update_streak
    <3> QED
      BY <1>1, <1>4, <2>2, <2>3, <3>1
  <2>4. CASE seen.last_active_date # day
    <3> DEFINE streak == IF seen.last_active_date = day - 1 THEN more.streak_days + 1 ELSE 1
    <3>1. row = [more EXCEPT !.last_active_date = day, !.streak_days = streak]
      BY <2>1, <2>2, <2>4 DEF _update_streak
    <3>2. streak \in Nat
      BY <2>2 DEF WalletRow
    <3>3. streak = IF wallets.last_active_date = day - 1 THEN wallets.streak_days + 1 ELSE 1
      BY <1>1, <2>2
    <3> HIDE DEF streak
    <3>4. /\ row \in WalletRow
          /\ row.last_active_date = day /\ row.streak_days = streak
          /\ row.total_deposited = more.total_deposited /\ row.role = more.role
      BY <1>2, <2>2, <3>1, <3>2 DEF WalletRow
    <3> QED
      BY <1>1, <1>4, <2>2, <2>4, <3>3, <3>4
  <2> QED
    BY <2>3, <2>4
<1>5. CASE event = "page_view"
  BY <1>1, <1>3, <1>5 DEF Counted, WalletRow
<1>6. CASE event = "bounty_created"
  <2> DEFINE role == RoleAfter(seen.role, "sponsor", "agent")
  <2>1. role \in Roles
    <3>1. seen.role \in Roles
      BY <1>1 DEF WalletRow
    <3> QED
      BY <3>1 DEF RoleAfter, Roles
  <2>2. row = [seen EXCEPT !.bounties_created = @ + 1, !.role = role]
    BY <1>3, <1>6 DEF Counted
  <2>3. role = RoleAfter(wallets.role, "sponsor", "agent")
    BY <1>1
  <2> HIDE DEF role
  <2>4. /\ row.role = role
        /\ row.last_active_date = seen.last_active_date
        /\ row.streak_days = seen.streak_days
        /\ row.total_deposited = seen.total_deposited
    BY <1>1, <2>2 DEF WalletRow
  <2>5. row \in WalletRow
    <3>1. seen.bounties_created + 1 \in Nat
      BY <1>1 DEF WalletRow
    <3>2. row = [seen EXCEPT !.bounties_created = seen.bounties_created + 1, !.role = role]
      BY <2>2
    <3> QED
      BY Zenon, <1>1, <2>1, <3>1, <3>2 DEF WalletRow
  <2> QED
    BY <1>1, <1>6, <2>3, <2>4, <2>5
<1>7. CASE event = "bounty_deposited"
  <2>1. PICK t \in Total(seen.total_deposited, amount) :
               row = [seen EXCEPT !.total_deposited = t]
    BY <1>3, <1>7 DEF Counted
  <2>2. seen.total_deposited \in Nat
    BY <1>1 DEF WalletRow
  <2>3. t \in Nat
    BY <1>2, <2>1, <2>2 DEF Total
  <2> QED
    BY <1>1, <1>7, <2>1, <2>3 DEF WalletRow
<1>8. CASE event = "agent_registered"
  <2> DEFINE role == RoleAfter(seen.role, "agent", "sponsor")
  <2>1. role \in Roles
    <3>1. seen.role \in Roles
      BY <1>1 DEF WalletRow
    <3> QED
      BY <3>1 DEF RoleAfter, Roles
  <2>2. row = [seen EXCEPT !.agent_registered = TRUE, !.role = role]
    BY <1>3, <1>8 DEF Counted
  <2>3. role = RoleAfter(wallets.role, "agent", "sponsor")
    BY <1>1
  <2> HIDE DEF role
  <2>4. /\ row.role = role
        /\ row.last_active_date = seen.last_active_date
        /\ row.streak_days = seen.streak_days
        /\ row.total_deposited = seen.total_deposited
    BY <1>1, <2>2 DEF WalletRow
  <2>5. row \in WalletRow
    <3>1. TRUE \in BOOLEAN
      OBVIOUS
    <3> QED
      BY Zenon, <1>1, <2>1, <2>2, <3>1 DEF WalletRow
  <2> QED
    BY <1>1, <1>8, <2>3, <2>4, <2>5
<1>9. CASE event = "bounty_won"
  BY <1>1, <1>3, <1>9 DEF Counted, WalletRow
<1> QED
  BY <1>4, <1>5, <1>6, <1>7, <1>8, <1>9 DEF Events

\* A step that logs an event and changes the row as RowBecomes says.
LEMMA EventKeeps ==
  ASSUME ActivityInv, ActivityAssumption, NEW event \in Events, NEW amount \in Nat,
         NEW page, event = "page_view" => page \in Pages,
         event # "bounty_deposited" => amount = 0,
         track_event(event, page, amount)
  PROVE  ActivityInv'
<1>2. Log(event, amount, FALSE) /\ day' = day
  BY DEF track_event
<1>3. /\ events' \in Seq(Lines)
      /\ ConnectedDays' = ConnectedDays \cup (IF event = "connect" THEN {day} ELSE {})
      /\ \A e \in Events : Occurred(e)' <=> Occurred(e) \/ event = e
      /\ Deposited \in Nat /\ Deposited' = Deposited + amount
  BY <1>2, FALSE \in BOOLEAN, LogGrows DEF ActivityInv
<1> DEFINE row == wallets'
<1>4. row \in Counted(SeenToday(wallets), event, page, amount)
  BY DEF track_event
<1>5. /\ row \in WalletRow
      /\ IF event = "connect" /\ wallets.last_active_date # day
         THEN /\ row.last_active_date = day
              /\ row.streak_days = IF wallets.last_active_date = day - 1
                                   THEN wallets.streak_days + 1 ELSE 1
         ELSE /\ row.last_active_date = wallets.last_active_date
              /\ row.streak_days = wallets.streak_days
      /\ IF event = "bounty_deposited"
         THEN row.total_deposited \in Total(wallets.total_deposited, amount)
         ELSE row.total_deposited = wallets.total_deposited
      /\ row.role = CASE event = "bounty_created" ->
                           RoleAfter(wallets.role, "sponsor", "agent")
                      [] event = "agent_registered" ->
                           RoleAfter(wallets.role, "agent", "sponsor")
                      [] OTHER -> wallets.role
  <2> HIDE DEF row
  <2> QED
    BY <1>4, RowBecomes DEF ActivityInv
<1>6. /\ day \in Nat \ {0} /\ wallets.last_active_date \in Nat /\ wallets.streak_days \in Nat
      /\ wallets.last_active_date <= day /\ MAX_INTEGER \in Nat
  BY DEF ActivityInv, ActivityTypeOK, WalletRow, ActivityAssumption
<1>7. ActivityTypeOK'
  <2>1. row.last_active_date <= day
    BY <1>5, <1>6
  <2>2. Seq(Lines)' = Seq(Lines)
    BY <1>2 DEF Lines
  <2> QED
    BY <1>2, <1>3, <1>5, <1>6, <2>1, <2>2 DEF ActivityTypeOK
<1>8. StreakMatches'
  <2> DEFINE last   == wallets.last_active_date
             streak == wallets.streak_days
             old    == ConnectedDays
             new    == ConnectedDays'
  <2>1. /\ last > 0 => /\ (last - streak + 1) .. last \subseteq old
                       /\ last - streak \notin old
                       /\ streak > 0
        /\ last = 0 => streak = 0
        /\ old \subseteq 1 .. last
    BY DEF ActivityInv, StreakMatches
  <2>2. last \in Nat /\ streak \in Nat /\ last <= day /\ day \in Nat \ {0}
    BY <1>6
  <2>3. new = old \cup (IF event = "connect" THEN {day} ELSE {})
    BY <1>3
  <2> DEFINE last1   == row.last_active_date
             streak1 == row.streak_days
  <2>4. SUFFICES /\ last1 > 0 => /\ (last1 - streak1 + 1) .. last1 \subseteq new
                                 /\ last1 - streak1 \notin new
                                 /\ streak1 > 0
                 /\ last1 = 0 => streak1 = 0
                 /\ new \subseteq 1 .. last1
    BY DEF StreakMatches
  <2>5. IF event = "connect" /\ last # day
        THEN last1 = day /\ streak1 = IF last = day - 1 THEN streak + 1 ELSE 1
        ELSE last1 = last /\ streak1 = streak
    BY <1>5
  <2> HIDE DEF last, streak, old, new, last1, streak1
  <2>6. CASE event = "connect" /\ last # day
    <3>1. new = old \cup {day} /\ last < day
      BY <2>2, <2>3, <2>6
    <3>2. CASE last = day - 1
      BY <2>1, <2>2, <2>5, <2>6, <3>1, <3>2
    <3>3. CASE last # day - 1
      BY <2>1, <2>2, <2>5, <2>6, <3>1, <3>3
    <3> QED
      BY <3>2, <3>3
  <2>7. CASE ~(event = "connect" /\ last # day)
    <3>1. last1 = last /\ streak1 = streak
      BY <2>5, <2>7
    <3>2. CASE event # "connect"
      BY <2>1, <2>3, <3>1, <3>2
    <3>3. CASE last = day
      BY <2>1, <2>2, <2>3, <3>1, <3>3
    <3> QED
      BY <2>7, <3>2, <3>3
  <2> QED
    BY <2>6, <2>7
<1>9. TotalMatches'
  <2>1. CASE event = "bounty_deposited"
    <3>1. ASSUME Deposited' <= MAX_INTEGER PROVE row.total_deposited = Deposited'
      <4>1. wallets.total_deposited = Deposited
        BY <1>3, <1>6, <3>1 DEF ActivityInv, TotalMatches
      <4>2. Total(Deposited, amount) = {Deposited + amount}
        BY <1>3, <3>1 DEF Total
      <4> QED
        BY <1>3, <1>5, <2>1, <4>1, <4>2
    <3> QED
      BY <3>1 DEF TotalMatches
  <2>2. CASE event # "bounty_deposited"
    <3>1. Deposited' = Deposited
      BY <1>3, <2>2
    <3> QED
      BY <1>5, <2>2, <3>1 DEF ActivityInv, TotalMatches
  <2> QED
    BY <2>1, <2>2
<1>10. RoleMatches'
  <2>1. wallets.role = RoleOf(Occurred("bounty_created"), Occurred("agent_registered"))
    BY DEF ActivityInv, RoleMatches
  <2>2. /\ Occurred("bounty_created")' <=>
             Occurred("bounty_created") \/ event = "bounty_created"
        /\ Occurred("agent_registered")' <=>
             Occurred("agent_registered") \/ event = "agent_registered"
    BY <1>3 DEF Events
  <2> QED
    BY <1>5, <2>1, <2>2 DEF RoleMatches, RoleOf, RoleAfter
<1> QED
  BY <1>7, <1>8, <1>9, <1>10 DEF ActivityInv

\* Every step keeps the invariant: another day, one more event, or a winner the
\* backend reports itself, which is logged and counts nothing.
LEMMA ActivityStep ==
  ASSUME ActivityInv, ActivityAssumption, [ActivityNext]_activity_vars
  PROVE  ActivityInv'
<1>1. CASE UNCHANGED activity_vars
  BY <1>1 DEF activity_vars, ActivityInv, ActivityTypeOK, Lines, StreakMatches, ConnectedDays,
              Connected, TotalMatches, Deposited, RoleMatches, Occurred
<1>2. CASE DayPasses
  <2>1. day' = day + 1 /\ events' = events /\ wallets' = wallets
    BY <1>2 DEF DayPasses
  <2>2. ActivityTypeOK'
    <3>1. day \in Nat \ {0} /\ wallets \in WalletRow /\ wallets.last_active_date <= day
      BY DEF ActivityInv, ActivityTypeOK
    <3>2. Lines \subseteq Lines'
      BY <2>1, <3>1 DEF Lines
    <3>3. events \in Seq(Lines')
      <4>1. events \in Seq(Lines)
        BY DEF ActivityInv, ActivityTypeOK
      <4> QED
        BY <3>2, <4>1
    <3>4. wallets.last_active_date \in Nat
      BY <3>1 DEF WalletRow
    <3> QED
      BY <2>1, <3>1, <3>3, <3>4 DEF ActivityTypeOK
  <2> QED
    BY <2>1, <2>2 DEF ActivityInv, StreakMatches, ConnectedDays, Connected, TotalMatches,
                      Deposited, RoleMatches, Occurred
<1>3. CASE track_activity_direct
  <2>1. Log("bounty_won", 0, TRUE) /\ day' = day /\ wallets' = SeenToday(wallets)
    BY <1>3 DEF track_activity_direct
  <2>2. "bounty_won" \in Events /\ 0 \in Nat /\ TRUE \in BOOLEAN
    BY DEF Events
  <2>3. /\ events' \in Seq(Lines)
        /\ ConnectedDays' = ConnectedDays
        /\ \A e \in Events : Occurred(e)' <=> Occurred(e)
        /\ Deposited \in Nat /\ Deposited' = Deposited + 0
    BY <2>1, <2>2, LogGrows DEF ActivityInv
  <2>4. /\ wallets' \in WalletRow
        /\ wallets'.last_active_date = wallets.last_active_date
        /\ wallets'.streak_days = wallets.streak_days
        /\ wallets'.total_deposited = wallets.total_deposited
        /\ wallets'.role = wallets.role
    BY <2>1 DEF ActivityInv, ActivityTypeOK, WalletRow, SeenToday
  <2>5. ActivityTypeOK'
    <3>1. Seq(Lines)' = Seq(Lines)
      BY <2>1 DEF Lines
    <3> QED
      BY <2>1, <2>3, <2>4, <3>1 DEF ActivityInv, ActivityTypeOK
  <2>6. StreakMatches'
    BY <2>3, <2>4 DEF ActivityInv, StreakMatches
  <2>7. TotalMatches'
    <3>1. Deposited' = Deposited
      BY <2>3
    <3> QED
      BY <2>4, <3>1 DEF ActivityInv, TotalMatches
  <2>8. RoleMatches'
    <3>1. /\ Occurred("bounty_created")' <=> Occurred("bounty_created")
          /\ Occurred("agent_registered")' <=> Occurred("agent_registered")
      BY <2>3 DEF Events
    <3> QED
      BY <2>4, <3>1 DEF ActivityInv, RoleMatches, RoleOf
  <2> QED
    BY <2>5, <2>6, <2>7, <2>8 DEF ActivityInv
<1>4. ASSUME NEW page \in Pages, track_event("page_view", page, 0) PROVE ActivityInv'
  <2>1. "page_view" \in Events /\ 0 \in Nat /\ "page_view" # "bounty_deposited"
    BY DEF Events
  <2> QED
    BY <1>4, <2>1, EventKeeps
<1>5. ASSUME NEW amount \in Deposits, track_event("bounty_deposited", SomePage, amount)
      PROVE  ActivityInv'
  <2>1. /\ "bounty_deposited" \in Events /\ amount \in Nat
        /\ "bounty_deposited" # "page_view"
    BY DEF Events, ActivityAssumption
  <2> QED
    BY <1>5, <2>1, EventKeeps
<1>6. ASSUME NEW event \in {"connect", "bounty_created", "agent_registered", "bounty_won"},
             track_event(event, SomePage, 0)
      PROVE  ActivityInv'
  <2>1. /\ event \in Events /\ 0 \in Nat
        /\ event # "page_view" /\ event # "bounty_deposited"
    BY DEF Events
  <2> QED
    BY <1>6, <2>1, EventKeeps
<1> QED
  BY <1>1, <1>2, <1>3, <1>4, <1>5, <1>6 DEF ActivityNext

\* The invariant says what RowMatchesLog says.
LEMMA RowFollows == ActivityInv => RowMatchesLog
<1> SUFFICES ASSUME ActivityInv PROVE RowMatchesLog
  OBVIOUS
<1> DEFINE last   == wallets.last_active_date
           streak == wallets.streak_days
<1>1. last \in Nat /\ streak \in Nat /\ day \in Nat
  BY DEF ActivityInv, ActivityTypeOK, WalletRow
<1>2. /\ last > 0 => /\ (last - streak + 1) .. last \subseteq ConnectedDays
                     /\ last - streak \notin ConnectedDays
      /\ ConnectedDays \subseteq 1 .. last
  BY DEF ActivityInv, StreakMatches
<1>3. \A d \in Int : d \in ConnectedDays <=> Connected(d)
  BY DEF ConnectedDays
<1>4. wallets.role = RoleOf(Occurred("bounty_created"), Occurred("agent_registered"))
  BY DEF ActivityInv, RoleMatches
<1>5. Deposited <= MAX_INTEGER => wallets.total_deposited = Deposited
  BY DEF ActivityInv, TotalMatches
<1>6. last > 0 => /\ \A d \in (last - streak + 1) .. last : Connected(d)
                  /\ ~Connected(last - streak)
                  /\ \A d \in last + 1 .. day : ~Connected(d)
  <2> HIDE DEF last, streak
  <2>1. \A d \in (last - streak + 1) .. last : d \in Int
    BY <1>1
  <2>2. \A d \in last + 1 .. day : d \in Int /\ d \notin ConnectedDays
    BY <1>1, <1>2
  <2>3. last - streak \in Int
    BY <1>1
  <2> QED
    BY <1>2, <1>3, <2>1, <2>2, <2>3
<1> QED
  BY <1>4, <1>5, <1>6 DEF RowMatchesLog

\* The row of a wallet says what its log says, for any amounts, any number of
\* events and of days (activity.py, track_event and _update_streak).
THEOREM RowAlwaysMatches == ActivitySpec => []RowMatchesLog
<1>1. ActivityInit => ActivityInv
  <2> SUFFICES ASSUME ActivityInit PROVE ActivityInv
    OBVIOUS
  <2>1. /\ day = 1 /\ events = <<>> /\ wallets = NewWallet /\ DOMAIN events = {}
    BY DEF ActivityInit
  <2>2. /\ wallets.role = "visitor" /\ wallets.total_deposited = 0
        /\ wallets.streak_days = 0 /\ wallets.last_active_date = 0
    BY <2>1 DEF NewWallet
  <2>3. wallets \in WalletRow
    BY <2>1 DEF NewWallet, WalletRow, Roles
  <2>4. ConnectedDays = {}
    BY <2>1 DEF ConnectedDays, Connected
  <2>5. Deposited = 0
    BY <2>1, SumEmpty DEF Deposited
  <2>6. ~Occurred("bounty_created") /\ ~Occurred("agent_registered")
    BY <2>1 DEF Occurred
  <2>7. ActivityTypeOK
    BY <2>1, <2>2, <2>3 DEF ActivityTypeOK
  <2>8. StreakMatches /\ TotalMatches
    BY <2>2, <2>4, <2>5 DEF StreakMatches, TotalMatches
  <2>9. RoleMatches
    BY <2>2, <2>6 DEF RoleMatches, RoleOf
  <2> QED
    BY <2>7, <2>8, <2>9 DEF ActivityInv
<1>2. ActivityInv /\ [ActivityNext]_activity_vars => ActivityInv'
  BY ActivityAssumption, ActivityStep
<1> QED
  BY <1>1, <1>2, RowFollows, PTL DEF ActivitySpec

=============================================================================
