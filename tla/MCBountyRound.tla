--------------------------- MODULE MCBountyRound ---------------------------
(* Small instances of BountyRound on which statements of its documentation *)
(* are tried.                                                              *)
EXTENDS BountyRound

CONSTANTS a1, a2, a3, w1, w2, sp, tr, s1

MCAgents    == {a1, a2, a3}
MCAddresses == {w1, w2, sp, tr}
(* One wallet owns two agents, and a stable it may put them in.            *)
MCWallet    == [a \in MCAgents |-> IF a = a2 THEN w2 ELSE w1]
MCStables   == {s1}
MCStableOwner     == [s \in MCStables |-> w1]
MCRevenueShareBps == [s \in MCStables |-> 3333]

TwoSlots == <<6000, 4000>>

Entry(a, s) == [agent |-> a, score |-> s]

(* Above the threshold with an entry below it, and below it.               *)
MCResults ==
  { <<Entry(a2, 8000), Entry(a3, 6500)>>, <<Entry(a3, 4000)>> }
=============================================================================
