--------------------------- MODULE MCOutboxWorker ---------------------------
(* Instances of OutboxWorker for TLC. *)
EXTENDS OutboxWorker, TLC

CONSTANTS e1, e2, e3, e4, w1, w2

\* e1 has two attempts, every other event one; e4 is met over its cap.
Attempts == [e \in Event |-> IF e = e1 THEN 2 ELSE 1]
First == [e \in Event |-> IF e = e4 THEN 1 ELSE 0]

SymmetricWorkers == Permutations(Worker)
=============================================================================
