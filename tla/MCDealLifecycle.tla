-------------------------- MODULE MCDealLifecycle --------------------------
(* Instances of CalmDealLifecycle for TLC: three Joins for three units.       *)
EXTENDS CalmDealLifecycle, FiniteSetsExt, TLC

CONSTANTS b1, b2, b3

\* b1 and b2 together meet the target of two units; b1 and b3, or b2 and b3,
\* fill the three units there are; all three together do not fit.
Quantity == [b \in Buyer |-> IF b = b3 THEN 2 ELSE 1]

\* Units are counted one by one; that is the sum of the quantities.
ASSUME CountIsSum == \A S \in SUBSET Buyer : Units(S) = MapThenSumSet(LAMBDA b : Qty[b], S)
=============================================================================
