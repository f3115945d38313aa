----------------------------- MODULE MCServices ------------------------------
(* Small instances of the components of the scoring service and of the       *)
(* backend that keep a state of their own and share none with another one of *)
(* this list.  They are checked side by side: each behaviour is one of the   *)
(* component its initial state names, the others stay as they start.         *)
EXTENDS Scorer, ConfidentialProblem, Credentials, BountyCreation, SolutionDelivery, Compliance,
        Screening, RateLimiter, Activity

-----------------------------------------------------------------------------
(* Scorer: the default rubric, one with two gates and odd weights, and one   *)
(* that bounties.py takes for 10000 and the service for 10400.               *)

MCSolutions == <<7, 3>>
MCRubrics == {<<>>,
              <<[weight |-> 4001, unskippable |-> TRUE],
                [weight |-> 2999, unskippable |-> FALSE],
                [weight |-> 1999, unskippable |-> FALSE],
                [weight |-> 1001, unskippable |-> TRUE]>>,
              <<[unskippable |-> TRUE], [weight |-> 12000], [weight |-> -2000]>>}
MCPassSets(n) ==
  IF n <= 4 THEN SUBSET (1 .. n) ELSE {{}, 1 .. n, {1, 2, 4, 6, 10, 20}, 5 .. n}

-----------------------------------------------------------------------------
(* The other components                                                      *)

VARIABLE focus    \* the component whose behaviour it is

service_vars == <<focus, vars, creation_vars, delivery_vars, problem_vars, compliance_vars,
                  screening_vars, credential_vars, rate_vars, activity_vars>>

MCResults == {[a \in Agents |-> 1], [a \in Agents |-> 2]}
MCReports == {<<>>, <<"stolen", "mixer">>, <<"mixer", "stolen">>, <<"mixer", "sanctioned">>}

\* The components that are not looked at start in one state only.  The sponsor
\* of a delivery may register its key at once.
ServicesInit ==
  /\ focus \in {"scorer", "creation", "delivery", "problem", "compliance", "screening",
                "credentials", "limits", "activity"}
  /\ IF focus = "scorer" THEN Init
     ELSE rubric_json = <<>> /\ results = <<>> /\ pass = NoPass /\ outcome = "raised"
  /\ CreationInit
  /\ DeliveryInit /\ sponsor_pubkeys = NoKey
  /\ (focus # "delivery" => bounty = "none")
  /\ ProblemInit /\ (focus # "problem" => index_phase = NoText)
  /\ ComplianceInit /\ ScreeningInit /\ CredentialInit
  /\ RateInit /\ (focus # "limits" => limiter = "security")
  /\ ActivityInit

ServicesNext ==
  /\ UNCHANGED focus
  /\ \/ focus = "scorer" /\ Next
     \/ focus # "scorer" /\ UNCHANGED vars
  /\ \/ focus = "creation" /\ CreationNext
     \/ focus # "creation" /\ UNCHANGED creation_vars
  /\ \/ focus = "delivery" /\ DeliveryNext
     \/ focus # "delivery" /\ UNCHANGED delivery_vars
  /\ \/ focus = "problem" /\ ProblemNext
     \/ focus # "problem" /\ UNCHANGED problem_vars
  /\ \/ focus = "compliance" /\ ComplianceNext
     \/ focus # "compliance" /\ UNCHANGED compliance_vars
  /\ \/ focus = "screening" /\ ScreeningNext
     \/ focus # "screening" /\ UNCHANGED screening_vars
  /\ \/ focus = "credentials" /\ CredentialNext
     \/ focus # "credentials" /\ UNCHANGED credential_vars
  /\ \/ focus = "limits" /\ RateNext
     \/ focus # "limits" /\ UNCHANGED rate_vars
  /\ \/ focus = "activity" /\ ActivityNext
     \/ focus # "activity" /\ UNCHANGED activity_vars

\* The handlers and the pullers of the backend run on, see BountyCreation and
\* SolutionDelivery.
ServicesFairness ==
  /\ \A w \in Processes : WF_creation_vars(focus = "creation" /\ Step(w))
  /\ \A p \in 1 .. MaxTriggers :
       WF_delivery_vars(focus = "delivery" /\ p \in DOMAIN pullers /\ Poll(p))

ServicesSpec == ServicesInit /\ [][ServicesNext]_service_vars /\ ServicesFairness
=============================================================================
