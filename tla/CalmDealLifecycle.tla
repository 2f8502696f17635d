------------------------- MODULE CalmDealLifecycle -------------------------
(***************************************************************************)
(* DealLifecycle with one request and one run at a time in half of its     *)
(* behaviours, the calm ones: requests that overlap may undo what one      *)
(* alone keeps true.                                                       *)
(***************************************************************************)
EXTENDS DealLifecycle

CONSTANTS
  CalmCall,     \* the request there is in a calm behaviour
  CalmRun       \* the run there is in a calm behaviour

VARIABLE calm

Allowed(i) == calm => i = CalmRun
OneOrMoreInit == Init /\ calm \in BOOLEAN
OneOrMoreNext ==
  /\ Next /\ UNCHANGED calm
  /\ calm => /\ \A c \in Call \ {CalmCall} : call'[c] = NoCall
             /\ \A i \in Run \ {CalmRun} : run'[i] = Idle

\* The fairness of DealLifecycle, of the runs there may be.
OneOrMoreFairness ==
  /\ WF_vars(DeadlinePasses)
  /\ WF_vars(\E b \in Buyer : JoinEnds(b))
  /\ \A i \in Run : WF_vars(Allowed(i) /\ ClaimCheck(i)) /\ WF_vars(Allowed(i) /\ HandlerStep(i))
  /\ WF_vars(ReclaimCheck)

OneOrMoreSpec == OneOrMoreInit /\ [][OneOrMoreNext]_<<vars, calm>> /\ OneOrMoreFairness

\* In a calm behaviour the state of the deal tells whether its target is met: a
\* deal that is open has the state that its units say, and one that failed missed
\* its target (src/app.ts, the Join, reopen_joining and deadline_check).
CalmStateFollowsUnits == calm => StateFollowsUnits

\* In a calm behaviour the deal is to its buyers a group deal: open to Joins up to
\* its capacity, charged only above the target and failed only below it, not both.
CalmDeal == INSTANCE GroupDeal WITH
  Capacity <- MaxUnits, Target <- Threshold,
  phase <- IF calm THEN Phase ELSE "draft", members <- IF calm THEN Joined ELSE {}
CalmImplementsGroupDeal == CalmDeal!Spec
=============================================================================
