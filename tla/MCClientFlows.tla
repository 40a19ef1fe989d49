--------------------------- MODULE MCClientFlows ---------------------------
(* ClientFlows for TLC.                                                    *)
EXTENDS ClientFlows

CONSTANTS p1, p2, n1

MCAmountOf == [p \in Payments |-> IF p = p1 THEN 1 ELSE 2]
MCFlows == 1 .. 3
=============================================================================
