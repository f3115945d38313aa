------------------------- MODULE MCSolutionDelivery -------------------------
(* Small instances of SolutionDelivery for TLC: either all solutions win, or *)
(* none does.                                                                *)
EXTENDS SolutionDelivery

MCResults == {[a \in Agents |-> 1], [a \in Agents |-> 2]}
=============================================================================
