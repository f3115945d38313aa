---------------------------- MODULE RoundEscrow ----------------------------
(***************************************************************************)
(* What a bounty round promises about money, stripped of its phases,       *)
(* deadlines, scores and bookkeeping: contributions are collected in one   *)
(* pot; the pot is then either shared out or given back, once and to the   *)
(* last wei; from then on a payment to an account comes out of what that   *)
(* very account is owed, and only shares, never refunds, can be forfeited  *)
(* to the treasury.                                                        *)
(*                                                                         *)
(* BountyRound implements this specification: see Escrow there.            *)
(***************************************************************************)
EXTENDS Integers, FiniteSets, Functions

CONSTANTS Addresses, Treasury

VARIABLES
  stage,          \* "collecting", "sharing" or "refunding"
  contributed,    \* what each account has put into the pot
  owed,           \* what each account may still take out
  paid            \* what each account has been paid

vars == <<stage, contributed, owed, paid>>

Total(money) == SumFunctionOnSet(money, Addresses)

Nothing == [x \in Addresses |-> 0]

Init ==
  /\ stage = "collecting"
  /\ contributed = Nothing
  /\ owed = Nothing
  /\ paid = Nothing

Contribute ==
  /\ stage = "collecting"
  /\ \A x \in Addresses : contributed'[x] >= contributed[x]
  /\ UNCHANGED <<stage, owed, paid>>

(* The pot is shared out, however the competition ended.                   *)
Share ==
  /\ stage = "collecting"
  /\ stage' = "sharing"
  /\ Total(owed') = Total(contributed)
  /\ UNCHANGED <<contributed, paid>>

(* Everybody is owed its own contribution.                                 *)
GiveBack ==
  /\ stage = "collecting"
  /\ stage' = "refunding"
  /\ owed' = contributed
  /\ UNCHANGED <<contributed, paid>>

Pay ==
  /\ stage # "collecting"
  /\ \A x \in Addresses : /\ paid'[x] >= paid[x]
                          /\ paid'[x] + owed'[x] = paid[x] + owed[x]
  /\ UNCHANGED <<stage, contributed>>

Forfeit ==
  /\ stage = "sharing"
  /\ owed' = Nothing
  /\ paid' = [paid EXCEPT ![Treasury] = @ + Total(owed)]
  /\ UNCHANGED <<stage, contributed>>

Next == Contribute \/ Share \/ GiveBack \/ Pay \/ Forfeit

Spec == Init /\ [][Next]_vars
=============================================================================
