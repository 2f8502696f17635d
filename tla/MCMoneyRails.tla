---------------------------- MODULE MCMoneyRails ----------------------------
(* Instances of MoneyRails for TLC: the providers of the repository.          *)
EXTENDS MoneyRails, TLC

CONSTANTS r1, r2

Synchronous == [repeatSafe |-> TRUE, negativeFinal |-> TRUE, horizon |-> FALSE]   \* mock, synthetic
Asynchronous == [repeatSafe |-> TRUE, negativeFinal |-> TRUE, horizon |-> TRUE]   \* Stripe, HTTP
Unproven == [repeatSafe |-> TRUE, negativeFinal |-> FALSE, horizon |-> TRUE]      \* HTTP by default
Grow == [repeatSafe |-> FALSE, negativeFinal |-> FALSE, horizon |-> TRUE]

OneRun == {r1}
TwoRuns == {r1, r2}
Symmetry == Permutations(TwoRuns)
Providers == {Synchronous, Asynchronous, Unproven, Grow}
Reusing == {Asynchronous}

\* The jobs that two workers run against each other, by provider: with recovery
\* only where a negative status can prove that nothing was captured.
Charge == {"charge_deal", "payment_reconcile"}
Settling == Charge \cup {"finalize_deal"}
TwoWorkerScopes == [p \in Policies |->
  CASE p = Asynchronous -> {{"charge_deal", "recovery_deal"}, Charge}
    [] OTHER -> {Settling}]
EveryJob == [p \in Policies |-> {Job}]
ChargeScope == [p \in Policies |-> {Charge}]
\* A provider that deduplicates is asked again under the same identity: that its
\* adapter may fail before it sends is left to a run of its own.
NotReused == Policies \cap {Grow, Synchronous}
=============================================================================
