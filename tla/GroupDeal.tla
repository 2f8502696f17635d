----------------------------- MODULE GroupDeal -----------------------------
(***************************************************************************)
(* What a group deal promises to its buyers: they join while it is open,   *)
(* never beyond its capacity; it is charged only when enough units joined, *)
(* it fails only when too few did, and it does not do both.                *)
(***************************************************************************)
EXTENDS Integers, FiniteSets

CONSTANTS
  Buyer,
  Qty,        \* units each buyer asks for
  Capacity,   \* units there are
  Target      \* units without which the deal fails

VARIABLES phase, members

dealVars == <<phase, members>>

Total(S) == Cardinality(UNION {{b} \X (1 .. Qty[b]) : b \in S})

Init == phase = "draft" /\ members = {}

Publish == phase = "draft" /\ phase' = "open" /\ UNCHANGED members

Withdraw == members = {} /\ phase \in {"draft", "open", "withdrawn"}
              /\ phase' = "withdrawn" /\ UNCHANGED members

Join(b) ==
  /\ phase = "open" /\ b \notin members
  /\ Total(members \cup {b}) <= Capacity
  /\ members' = members \cup {b}
  /\ UNCHANGED phase

Pause == phase = "open" /\ phase' = "paused" /\ UNCHANGED members

Resume == phase = "paused" /\ phase' = "open" /\ UNCHANGED members

Charge ==
  /\ phase = "paused" /\ Total(members) >= Target
  /\ phase' = "charging" /\ UNCHANGED members

Fail ==
  /\ phase \in {"open", "paused"} /\ Total(members) < Target
  /\ phase' = "failed" /\ UNCHANGED members

Next == Publish \/ Withdraw \/ Pause \/ Resume \/ Charge \/ Fail \/ \E b \in Buyer : Join(b)

Spec == Init /\ [][Next]_dealVars
=============================================================================
