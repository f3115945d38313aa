------------------------------ MODULE Screening ------------------------------
(* Sanctions screening of the requests the backend serves: the layers of     *)
(* SanctionsChecker, how full_screening() combines them, and the middleware  *)
(* that decides which requests are screened.  The external list and service  *)
(* are an input: what they say of each wallet.                               *)
EXTENDS Integers, Sequences, Functions

CONSTANTS
  Addresses,    \* wallets
  Unnamed,      \* a request that names no wallet
  Listed,       \* wallets on the SDN list or in the extra file
  Reports       \* what TRM can answer: sequences of findings

\* What one entity or indicator of a report is, by category and volume.
Findings == {"sanctioned", "stolen", "mixer", "nothing"}

ASSUME ReportAssumption == Reports \subseteq Seq(Findings)

Countries == {"blocked", "edd", "other", "unknown"}

VARIABLES
  trm,          \* TRM's answer for each wallet; no key and no answer: <<>>
  screening_log,    \* the last line of the log: what was decided of whom
  passed_on     \* the last request that reached a handler: see Seen

screening_vars == <<trm, screening_log, passed_on>>

-----------------------------------------------------------------------------
Result(blocked, edd, risk) == [blocked |-> blocked, edd_required |-> edd, risk_level |-> risk]
Passed == Result(FALSE, FALSE, "low")
Critical == Result(TRUE, FALSE, "critical")
Enhanced == Result(FALSE, TRUE, "high")

\* All entities are looked at first; then the first indicator that says
\* anything decides.
_check_trm(report) ==
  LET stolenFirst == \E i \in DOMAIN report :
        report[i] = "stolen" /\ \A j \in DOMAIN report : report[j] = "mixer" => i < j
  IN IF "sanctioned" \in Range(report) \/ stolenFirst THEN Critical
     ELSE IF "mixer" \in Range(report) THEN Enhanced ELSE Passed

check_wallet(address, report) ==
  IF address \in Listed THEN Critical ELSE _check_trm(report)

check_jurisdiction(country) ==
  CASE country = "blocked" -> Critical
    [] country = "edd" -> Enhanced
    [] country = "unknown" -> Result(FALSE, FALSE, "medium")
    [] OTHER -> Passed

\* Mutant of full_screening: the first check that has an objection decides.
full_screening_first(address, country) ==
  LET wallet == check_wallet(address, trm[address])
      place == check_jurisdiction(country)
  IN IF wallet.blocked \/ wallet.edd_required THEN wallet
     ELSE IF place.blocked \/ place.edd_required THEN place ELSE Passed

\* A block goes before a demand for diligence, the wallet's before the country's.
full_screening(address, country) ==
  LET wallet == check_wallet(address, trm[address])
      place == check_jurisdiction(country)
  IN CASE wallet.blocked -> wallet
       [] ~wallet.blocked /\ place.blocked -> place
       [] OTHER -> IF wallet.edd_required THEN wallet
                   ELSE IF place.edd_required THEN place ELSE Passed

-----------------------------------------------------------------------------
\* A request names a wallet in its query, in a header and in its body, each or
\* none.  The handler works with the body.
ApiRequests == [query : Addresses \cup {Unnamed}, header : Addresses \cup {Unnamed},
             body : Addresses \cup {Unnamed}]

\* The wallet that is screened: the first one that is found, in this order.
ScreenedWallet(request) ==
  CASE request.query # Unnamed -> request.query
    [] request.query = Unnamed /\ request.header # Unnamed -> request.header
    [] OTHER -> request.body

\* What reaches a handler: the wallet that was screened and the one in the body,
\* and what TRM says of the first.
Seen(address, body, country, edd, report) ==
  [wallet |-> address, body |-> body, country |-> country, edd_required |-> edd,
   report |-> report]

ScreeningInit ==
  /\ trm = [a \in Addresses |-> <<>>]
  /\ screening_log = [wallet |-> Unnamed, result |-> Passed]
  /\ passed_on = Seen(Unnamed, Unnamed, "unknown", FALSE, <<>>)

\* TRM learns something about a wallet, or cannot be reached any more.
TrmChanges(address) ==
  /\ \E report \in Reports : trm' = [trm EXCEPT ![address] = report]
  /\ UNCHANGED <<screening_log, passed_on>>

\* A path that lists bounties or agents: the country alone decides.
ReadRequest(country) ==
  /\ ~check_jurisdiction(country).blocked
  /\ passed_on' = Seen(Unnamed, Unnamed, country, FALSE, <<>>)
  /\ UNCHANGED <<trm, screening_log>>

\* The decision is logged, blocked or not.
screen_user(address, result) == screening_log' = [wallet |-> address, result |-> result]

\* A path in SCREENED_ENDPOINTS, with a wallet in one of the places at least.
ScreenedRequest(request, country) ==
  LET address == ScreenedWallet(request)
      result == full_screening(address, country)
  IN /\ address # Unnamed
     /\ screen_user(address, result)
     /\ passed_on' = IF result.blocked THEN passed_on
                  ELSE Seen(address, request.body, country, result.edd_required, trm[address])
     /\ UNCHANGED trm

\* No wallet is found in it: it goes on unscreened, from any country.
UnnamedRequest(country) ==
  /\ passed_on' = Seen(Unnamed, Unnamed, country, FALSE, <<>>)
  /\ UNCHANGED <<trm, screening_log>>

ScreeningNext ==
  \/ \E address \in Addresses : TrmChanges(address)
  \/ \E country \in Countries :
       \/ ReadRequest(country) \/ UnnamedRequest(country)
       \/ \E request \in ApiRequests : ScreenedRequest(request, country)

ScreeningSpec == ScreeningInit /\ [][ScreeningNext]_screening_vars

-----------------------------------------------------------------------------
(* Properties *)

Blocking(address, country, report) ==
  address \in Listed \/ country = "blocked" \/ Range(report) \cap {"sanctioned", "stolen"} # {}

Doubtful(country, report) ==
  country = "edd" \/ "mixer" \in Range(report)

\* Whatever layer objects first, no objection is lost: a request with a wallet
\* is served only if the wallet is neither listed nor linked to a sanctioned
\* entity and its country is not blocked; stolen funds are forgiven only beside
\* a mixer, and the flag for enhanced diligence is there exactly if a mixer or
\* the country asks for it.  With a wallet in its body, no request goes on
\* unscreened, though it may be another wallet that was looked at
\* (full_screening, SanctionsMiddleware).
NoObjectionIsLost ==
  LET found == Range(passed_on.report)
  IN /\ passed_on.wallet # Unnamed =>
          /\ passed_on.wallet \notin Listed
          /\ passed_on.country # "blocked"
          /\ "sanctioned" \notin found
          /\ "stolen" \in found => "mixer" \in found
          /\ passed_on.edd_required = Doubtful(passed_on.country, passed_on.report)
     /\ passed_on.body # Unnamed => passed_on.wallet # Unnamed

\* The strictest objection of any layer and any finding wins (full_screening:
\* "The most restrictive ScreeningResult from all checks").
StrictestWins ==
  passed_on.wallet # Unnamed =>
    ~Blocking(passed_on.wallet, passed_on.country, passed_on.report)
=============================================================================
