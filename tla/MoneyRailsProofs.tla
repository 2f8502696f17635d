-------------------------- MODULE MoneyRailsProofs --------------------------
(***************************************************************************)
(* Proofs about MoneyRails, for any handler runs, identities, losses,      *)
(* ambiguity policies and jobs.                                            *)
(***************************************************************************)
EXTENDS MoneyRails, FiniteSetTheorems, TLAPS

-----------------------------------------------------------------------------
(* What is known of the identities and of the runs *)

RunForm == [job : Job \cup {"none"}, pc : Pc, id : Id \cup {NoId}, live : BOOLEAN,
            seen : Seen, noted : BOOLEAN]
RailJobs == {"charge_deal", "recovery_deal", "payment_release"}

IsMinted(i) == i \in Id /\ at[i].result # "none"

\* Each rail counts its identities from one, without gaps.
Contiguous == \A i \in Id, k \in 1..MaxIds : IsMinted(i) /\ k <= i[2] => IsMinted(<<i[1], k>>)

\* The places in the handlers, by the jobs that reach them.
Operation == {"resolve", "act", "arm", "io", "await", "settle", "ingest"}
Looking == {"preflight", "second_look"}
Reconciling == {"recorded", "retire", "sibling", "flight", "status", "conclude"}
Finalizing == {"unresolved", "fence", "sum", "decide", "list", "outcome"}

\* A run is where its job can be, with an identity that was minted wherever it
\* works on one, and of its own rail while it operates it.
Place(q) ==
  /\ q.pc = "free" <=> q.job = "none"
  /\ q.pc \in Operation \cup {"begin", "reconcile"} => q.job \in RailJobs
  /\ q.pc = "apply_release" => q.job \in RailJobs \cup {"payment_reconcile"}
  /\ q.pc = "tail" => q.job = "charge_deal"
  /\ q.pc \in Looking => q.job \in {"recovery_deal", "finalize_deal"}
  /\ q.pc \in Reconciling \cup {"schedule_recovery"} => q.job = "payment_reconcile"
  /\ q.pc \in Finalizing => q.job = "finalize_deal"
OwnRail(q) ==
  q.pc \in Operation =>
    q.id[1] = CASE q.job = "charge_deal" -> "charge_start"
                [] q.job = "recovery_deal" -> "recovery"
                [] OTHER -> "release"
Working == Operation \cup Reconciling \cup {"reconcile", "apply_release", "second_look"}
KnowsId(q) ==
  q.pc \in Working \/ (q.pc = "start" /\ q.job = "payment_reconcile") => IsMinted(q.id)
Places == \A r \in Run : Place(run[r]) /\ OwnRail(run[r]) /\ KnowsId(run[r])

\* A reconcile job has its identity, and whoever looks has a capture to look at.
Reconciles == job["payment_reconcile"] # "none" => IsMinted(reconciles)
SomeCapture == \E i \in CaptureIds : at[i].result # "none"
Failing == (buyer = "ChargeFailedCompletion" => SomeCapture)
Targets == Failing /\ \A r \in Run : run[r].pc = "preflight" => SomeCapture

\* What reached the provider was sent, under an identity that was minted.
Requests ==
  \A i \in Id :
    /\ i \in wire \cup executed => sent[i] > 0
    /\ sent[i] > 0 => at[i].result # "none"

\* A lease is held by one run at a time.
Leases ==
  /\ \A r \in Run : run[r].live => run[r].pc # "free" /\ job[run[r].job] = "held"
  /\ \A q, r \in Run : run[q].live /\ run[r].live /\ run[q].job = run[r].job => q = r

TypeInv == TypeOK /\ Contiguous /\ Places /\ Reconciles /\ Targets /\ Requests

-----------------------------------------------------------------------------
(* The rows under a request *)

\* From the arm to the send a row is its run's, and in flight or captured.
Armed1 ==
  \A r \in Run : run[r].pc = "io" =>
    /\ run[r].live
    /\ at[run[r].id].owner = r
    /\ \/ at[run[r].id].result = "unknown" /\ at[run[r].id].dispatch = "dispatching"
       \/ at[run[r].id].result = "success" /\ at[run[r].id].dispatch = "responded"

\* A provider that does not deduplicate was sent nothing under an identity that
\* is recorded, or that a run may still send or record as not sent.
MaySend(r) ==
  \/ run[r].pc = "arm" /\ run[r].live
  \/ run[r].pc = "io"
  \/ run[r].pc = "settle" /\ run[r].seen = "pre_dispatch_failure" /\ at[run[r].id].owner = r
Unrepeated ==
  /\ \A i \in Id : sent[i] <= 1
  /\ ~policy.repeatSafe =>
       /\ \A i \in Id : at[i].dispatch = "recorded" => sent[i] = 0
       /\ \A r \in Run : MaySend(r) => sent[run[r].id] = 0

SendInv == TypeInv /\ Leases /\ Armed1 /\ Unrepeated

-----------------------------------------------------------------------------
(* What the rows and the runs know was done *)

CaptureDone == executed \cap CaptureIds # {}
ReleaseDone == \E i \in executed : i[1] = "release"
DoneAs(i) == IF i[1] = "release" THEN ReleaseDone ELSE CaptureDone

\* What a run was told, it was told by the provider, or by a row.
Told(r) ==
  /\ run[r].pc \in {"act", "conclude", "second_look"} /\ run[r].seen = "captured" =>
       run[r].id \in CaptureIds /\ CaptureDone
  /\ run[r].pc \in {"second_look", "ingest"} => run[r].id \in CaptureIds
  /\ run[r].pc \in {"settle", "ingest"} /\ run[r].seen = "success" => DoneAs(run[r].id)
  /\ run[r].pc = "apply_release" => run[r].id[1] = "release" /\ ReleaseDone
Backed ==
  /\ \A i \in Id : at[i].result = "success" => DoneAs(i)
  /\ \A r \in Run : Told(r)
  /\ MoneyFollowsProvider

-----------------------------------------------------------------------------
(* Counting identities *)

\* As many identities as numbers: m of one rail.
LEMMA ColumnCounted ==
  ASSUME NEW t, NEW m \in Nat
  PROVE  IsFiniteSet({t} \X (1..m)) /\ Cardinality({t} \X (1..m)) = m
<1> DEFINE f == [k \in 1..m |-> <<t, k>>]
<1>1. f \in [1..m -> {t} \X (1..m)]
  OBVIOUS
<1>2. \A a, b \in 1..m : f[a] = f[b] => a = b
  OBVIOUS
<1>3. \A i \in {t} \X (1..m) : \E k \in 1..m : f[k] = i
  OBVIOUS
<1>4. f \in Bijection(1..m, {t} \X (1..m))
  BY <1>1, <1>2, <1>3 DEF Bijection, Injection, Surjection, IsInjective
<1>5. ExistsBijection(1..m, {t} \X (1..m))
  BY <1>4 DEF ExistsBijection
<1>6. IsFiniteSet(1..m) /\ Cardinality(1..m) = m
  BY FS_Interval
<1> QED
  BY <1>5, <1>6, FS_Bijection

\* Identities with a number up to m are at most m.
LEMMA Within ==
  ASSUME NEW t, NEW m \in Nat, NEW M, M \subseteq {t} \X (1..m)
  PROVE  IsFiniteSet(M) /\ Cardinality(M) \in Nat /\ Cardinality(M) <= m
<1> DEFINE C == {t} \X (1..m)
<1>1. IsFiniteSet(C) /\ Cardinality(C) = m
  BY ColumnCounted
<1>2. M \in SUBSET C
  OBVIOUS
<1> HIDE DEF C
<1>3. IsFiniteSet(M) /\ Cardinality(M) <= Cardinality(C)
  BY <1>1, <1>2, FS_Subset
<1> QED
  BY <1>1, <1>3, FS_CardinalityType

\* Where every number up to m is taken there are at least m identities.
LEMMA Filled ==
  ASSUME NEW t, NEW m \in Nat, NEW M, IsFiniteSet(M), {t} \X (1..m) \subseteq M
  PROVE  m <= Cardinality(M)
<1> DEFINE C == {t} \X (1..m)
<1>1. Cardinality(C) = m
  BY ColumnCounted
<1>2. C \in SUBSET M
  OBVIOUS
<1> HIDE DEF C
<1>3. Cardinality(C) <= Cardinality(M)
  BY <1>2, FS_Subset
<1> QED
  BY <1>1, <1>3

\* The number of its minted identities is the newest identity of a rail, and the
\* next one is not minted.
LEMMA NewestCounted ==
  ASSUME TypeOK, Contiguous, NEW t \in AttemptType
  PROVE  /\ Cardinality(Minted(t)) \in 0..MaxIds
         /\ Minted(t) # {} => Newest(t) \in Minted(t)
         /\ \A i \in Minted(t) : i[2] <= Newest(t)[2]
         /\ <<t, Cardinality(Minted(t)) + 1>> \notin Minted(t)
<1> DEFINE M == Minted(t)
           n == Cardinality(M)
<1>1. M \subseteq {t} \X (1..MaxIds) /\ MaxIds \in Nat
  BY RailsAssumption DEF Minted, Id
<1>2. IsFiniteSet(M) /\ n \in Nat /\ n <= MaxIds
  BY <1>1, Within
<1>3. ASSUME NEW i \in M PROVE i[2] <= n /\ i[2] \in 1..MaxIds /\ i = <<t, i[2]>>
  <2>1. i[2] \in 1..MaxIds /\ i = <<t, i[2]>> /\ i \in Id /\ IsMinted(i)
    BY <1>1 DEF Minted, IsMinted
  <2>2. \A k \in 1..i[2] : IsMinted(<<t, k>>) /\ k \in 1..MaxIds
    BY <2>1, <1>1 DEF Contiguous
  <2>3. {t} \X (1..i[2]) \subseteq M
    BY <2>2 DEF Minted, IsMinted
  <2>4. i[2] \in Nat
    BY <2>1
  <2>5. i[2] <= n
    BY <1>2, <2>3, <2>4, Filled, Zenon
  <2> QED
    BY <2>1, <2>5
<1>4. <<t, n + 1>> \notin M
  BY <1>2, <1>3
<1>5. M # {} => <<t, n>> \in M
  <2> SUFFICES ASSUME M # {}, <<t, n>> \notin M PROVE FALSE
    OBVIOUS
  <2>1. n # 0
    BY <1>2, FS_EmptySet
  <2>2. \A i \in M : i[2] # n
    BY <1>3
  <2>3. M \subseteq {t} \X (1..(n - 1))
    BY <1>1, <1>2, <1>3, <2>2
  <2>4. n - 1 \in Nat
    BY <1>2, <2>1
  <2>5. n <= n - 1
    BY <2>3, <2>4, Within
  <2> QED
    BY <1>2, <2>5
<1> QED
  BY <1>2, <1>3, <1>4, <1>5 DEF Newest

-----------------------------------------------------------------------------
(* Rows *)

\* Rows a that mint nothing and lose nothing.
SameMinted(a) ==
  /\ a \in [Id -> Row]
  /\ \A i \in Id : a[i].result = "none" <=> at[i].result = "none"

\* Retiring rows forgets none of them.
LEMMA RetiredKeeps == ASSUME TypeOK, NEW types PROVE SameMinted(Retired(types))
  BY DEF TypeOK, SameMinted, Retired, Recorded, Unknown, Row

\* One row of at that is written keeps the rest.
LEMMA OneRowKept ==
  ASSUME TypeOK, NEW i \in Id, NEW q \in Row, q.result = "none" <=> at[i].result = "none"
  PROVE  SameMinted([at EXCEPT ![i] = q])
  BY DEF TypeOK, SameMinted

\* A success that is recorded forgets no row.
LEMMA SucceededKeeps == ASSUME TypeOK, NEW i, IsMinted(i) PROVE SameMinted(Succeeded(i))
<1> DEFINE q == [at[i] EXCEPT !.result = "success", !.dispatch = "responded"]
<1>1. i \in Id /\ at[i] \in Row /\ at[i].result # "none" /\ at \in [Id -> Row]
  BY DEF IsMinted, TypeOK
<1>2. q \in Row /\ q.result # "none"
  BY <1>1 DEF Row
<1>3. Succeeded(i) = [at EXCEPT ![i] = q]
  BY <1>1 DEF Succeeded, Row
<1> HIDE DEF q
<1> QED
  BY <1>1, <1>2, <1>3, OneRowKept

\* A verdict that is inferred forgets no row.
LEMMA InferredKeeps == ASSUME TypeOK, NEW i, IsMinted(i) PROVE SameMinted(Inferred(i))
<1> DEFINE q == [at[i] EXCEPT !.result = "permanent_fail", !.dispatch = "responded",
                              !.evidence = "inferred"]
<1>1. i \in Id /\ at[i] \in Row /\ at[i].result # "none" /\ at \in [Id -> Row]
  BY DEF IsMinted, TypeOK
<1>2. q \in Row /\ q.result # "none"
  BY <1>1 DEF Row
<1>3. Inferred(i) = IF Final(i) THEN at ELSE [at EXCEPT ![i] = q]
  BY <1>1 DEF Inferred, Row
<1>4. SameMinted(at)
  BY <1>1 DEF SameMinted
<1> HIDE DEF q
<1> QED
  BY <1>1, <1>2, <1>3, <1>4, OneRowKept

\* A longer hold on a row forgets no row.
LEMMA ExtendedKeeps == ASSUME TypeOK, NEW i \in Id PROVE SameMinted(Extended(at, i))
<1> DEFINE q == [at[i] EXCEPT !.horizon = "open"]
<1>1. at[i] \in Row /\ at \in [Id -> Row]
  BY DEF TypeOK
<1>2. q \in Row /\ q.result = at[i].result
  BY <1>1 DEF Row
<1>3. Extended(at, i) = IF policy.horizon THEN [at EXCEPT ![i] = q] ELSE at
  BY <1>1 DEF Extended, Row
<1>4. SameMinted(at)
  BY <1>1 DEF SameMinted
<1> HIDE DEF q
<1> QED
  BY <1>1, <1>2, <1>3, <1>4, OneRowKept

\* A run that lets go of its rows forgets none of them.
LEMMA DisownedKeeps == ASSUME TypeOK, NEW r \in Run PROVE SameMinted(Disowned(r))
  BY DEF TypeOK, SameMinted, Disowned, Row

-----------------------------------------------------------------------------
(* Runs *)

\* Only r moves.
Moves(r) == run' \in [Run -> RunForm] /\ \A q \in Run \ {r} : run'[q] = run[q]

\* A run that goes on to p keeps its identity only where p needs one, what it saw
\* and what it noted only where p still asks for it.
LEMMA GoForm ==
  ASSUME TypeOK, NEW r \in Run, NEW p \in Pc, Go(r, p)
  PROVE  /\ Moves(r)
         /\ run'[r].job = run[r].job /\ run'[r].pc = p /\ run'[r].live = run[r].live
         /\ run'[r].id = IF p \in {"sent", "failed", "tail", "begin", "sum", "list"} THEN NoId ELSE run[r].id
         /\ run'[r].seen = IF p \in {"recorded", "ingest", "retire"} THEN run[r].seen ELSE "none"
         /\ run'[r].noted = (p \in {"sibling", "flight", "status", "conclude"} /\ run[r].noted)
<1>1. run \in [Run -> RunForm]
  BY DEF TypeOK, RunForm
<1>2. run[r] \in RunForm
  BY <1>1
<1>3. (p \in {"sibling", "flight", "status", "conclude"} /\ run[r].noted) \in BOOLEAN
  BY <1>2, Zenon DEF RunForm
<1> DEFINE q == [run[r] EXCEPT !.pc = p,
                   !.id = IF p \in {"sent", "failed", "tail", "begin", "sum", "list"} THEN NoId ELSE @,
                   !.seen = IF p \in {"recorded", "ingest", "retire"} THEN @ ELSE "none",
                   !.noted = p \in {"sibling", "flight", "status", "conclude"} /\ @]
<1>4. run' = [run EXCEPT ![r] = q]
  BY <1>1, <1>2 DEF Go, RunForm
<1>5. q \in RunForm
  BY <1>2, <1>3 DEF RunForm, Seen
<1>6. run'[r] = q
  BY <1>1, <1>4
<1> HIDE DEF q
<1>7. Moves(r)
  BY <1>1, <1>4, <1>5 DEF Moves
<1> USE DEF q
<1> QED
  BY <1>2, <1>6, <1>7 DEF RunForm

\* What is known of the run that a step moves.
Moved(r) == Moves(r) /\ Place(run'[r]) /\ OwnRail(run'[r]) /\ KnowsId(run'[r])

\* What the invariant says of one run.
LEMMA WhatIsKnown ==
  ASSUME TypeInv, NEW r \in Run
  PROVE  /\ run \in [Run -> RunForm] /\ run[r] \in RunForm
         /\ Place(run[r]) /\ OwnRail(run[r]) /\ KnowsId(run[r])
  BY DEF TypeInv, TypeOK, RunForm, Places

\* The ends of a run and its lease.
LEMMA LeaseMoves ==
  ASSUME TypeInv, NEW r \in Run,
         \/ \E j \in Job : Claim(r, j)
         \/ Acknowledge(r) \/ FailAttempt(r) \/ RunDies(r) \/ HandlerThrows(r) \/ LeaseExpires(r)
  PROVE  Moved(r)
<1> USE WhatIsKnown DEF Moved
<1>1. ASSUME NEW j \in Job, Claim(r, j) PROVE Moved(r)
  <2> DEFINE q == [Free EXCEPT !.job = j, !.pc = "start", !.live = TRUE,
                     !.id = IF j = "payment_reconcile" THEN reconciles ELSE NoId]
  <2>1. q \in RunForm /\ q.job = j /\ q.pc = "start"
    BY ZenonT(60) DEF Free, RunForm, TypeInv, TypeOK, Pc, Seen
  <2>2. q.id = IF j = "payment_reconcile" THEN reconciles ELSE NoId
    BY DEF Free
  <2>3. run' = [run EXCEPT ![r] = q]
    BY <1>1 DEF Claim
  <2> HIDE DEF q
  <2>4. Moves(r) /\ run'[r] = q
    BY <2>1, <2>3 DEF Moves
  <2>5. j = "payment_reconcile" => IsMinted(reconciles)
    BY <1>1 DEF Claim, TypeInv, Reconciles
  <2> QED
    BY <2>1, <2>2, <2>4, <2>5 DEF Place, OwnRail, KnowsId, Working, Operation, Looking,
         Reconciling, Finalizing, Job
<1>2. ASSUME Ends(r) PROVE Moved(r)
  <2>1. Free \in RunForm
    BY DEF Free, RunForm, Pc, Seen
  <2>2. Moves(r) /\ run'[r] = Free
    BY <1>2, <2>1 DEF Ends, Moves
  <2> QED
    BY <2>2 DEF Place, OwnRail, KnowsId, Working, Operation, Looking, Reconciling, Finalizing, Free
<1>3. CASE HandlerThrows(r)
  BY <1>3, GoForm DEF HandlerThrows, TypeInv, Place, OwnRail, KnowsId, Working, Operation, Looking,
       Reconciling, Finalizing, Pc
<1>4. CASE LeaseExpires(r)
  <2> DEFINE q == [run[r] EXCEPT !.live = FALSE]
  <2>1. q \in RunForm /\ q.job = run[r].job /\ q.pc = run[r].pc /\ q.id = run[r].id
    BY DEF RunForm
  <2>2. run' = [run EXCEPT ![r] = q]
    BY <1>4 DEF LeaseExpires
  <2> HIDE DEF q
  <2>3. Moves(r) /\ run'[r] = q
    BY <2>1, <2>2 DEF Moves
  <2> QED
    BY <2>1, <2>3 DEF Place, OwnRail, KnowsId
<1> QED
  BY <1>1, <1>2, <1>3, <1>4 DEF Acknowledge, FailAttempt, RunDies

\* Moves to a place that needs no identity, or keeps the one the run has.
LEMMA GoMoves ==
  ASSUME TypeInv, NEW r \in Run, NEW p \in Pc, p # "free", run[r].pc # "free", Go(r, p),
         \/ p \in {"sent", "failed", "schedule_release"}
         \/ run[r].pc \in Working /\ p = "apply_release" /\ run[r].job \in RailJobs \cup {"payment_reconcile"}
         \/ run[r].pc \in Operation /\ p \in {"arm", "io", "await", "ingest", "reconcile"}
         \/ p = "tail" /\ run[r].job = "charge_deal"
         \/ p = "begin" /\ run[r].job \in RailJobs
         \/ p = "preflight" /\ run[r].job \in {"recovery_deal", "finalize_deal"}
         \/ p \in Finalizing /\ run[r].job = "finalize_deal"
         \/ run[r].pc \in Reconciling /\ p \in Reconciling
         \/ run[r].pc \in Reconciling /\ p = "schedule_recovery"
  PROVE  Moved(r)
<1>1. /\ Moves(r) /\ run'[r].job = run[r].job /\ run'[r].pc = p
      /\ run'[r].id = IF p \in {"sent", "failed", "tail", "begin", "sum", "list"} THEN NoId ELSE run[r].id
  BY GoForm DEF TypeInv
<1>2. Place(run[r]) /\ OwnRail(run[r]) /\ KnowsId(run[r])
  BY WhatIsKnown
<1> USE <1>1, <1>2 DEF Operation, Looking, Reconciling, Finalizing, RailJobs
<1>3. Place(run'[r])
  BY DEF Place, Working
<1>4. OwnRail(run'[r])
  BY DEF OwnRail
<1>5. KnowsId(run'[r])
  BY DEF KnowsId, Working
<1> QED
  BY <1>1, <1>3, <1>4, <1>5 DEF Moved

\* A rail's run goes on with the rest of its job.
LEMMA OnMoves ==
  ASSUME TypeInv, NEW r \in Run, Go(r, Next1(r)), run[r].pc # "free"
  PROVE  Moved(r)
<1>1. Next1(r) = "sent" \/ (Next1(r) = "tail" /\ run[r].job = "charge_deal")
  BY DEF Next1
<1> QED
  BY <1>1, GoMoves DEF Pc

\* The run takes the identity i to p.
LEMMA TakesMoves ==
  ASSUME TypeInv, NEW r \in Run, run[r].pc = "begin", NEW i, NEW p \in Pc,
         run' = [run EXCEPT ![r].id = i, ![r].pc = p], i \in Id,
         \/ p \in {"apply_release", "reconcile", Next1(r)}
         \/ p \in {"arm", "resolve"} /\ i[1] = Rail(r)
  PROVE  /\ Moves(r) /\ Place(run'[r]) /\ OwnRail(run'[r]) /\ (IsMinted(i) => KnowsId(run'[r]))
         /\ run'[r].pc = p /\ run'[r].id = i /\ run'[r].job = run[r].job
         /\ run'[r].live = run[r].live
<1> DEFINE q == [run[r] EXCEPT !.id = i, !.pc = p]
<1>1. run \in [Run -> RunForm] /\ run[r] \in RunForm /\ Place(run[r])
  BY WhatIsKnown
<1>2. q \in RunForm /\ q.job = run[r].job /\ q.pc = p /\ q.id = i /\ q.live = run[r].live
  BY <1>1 DEF RunForm
<1>3. run' = [run EXCEPT ![r] = q]
  BY <1>1 DEF RunForm
<1> HIDE DEF q
<1>4. Moves(r) /\ run'[r] = q
  BY <1>1, <1>2, <1>3 DEF Moves
<1>5. run[r].job \in RailJobs
  BY <1>1 DEF Place
<1>6. p = "tail" => run[r].job = "charge_deal"
  BY DEF Next1
<1>7. p \in {"apply_release", "reconcile", "arm", "resolve", "sent", "tail"}
  BY DEF Next1
<1>8. Place(q)
  BY <1>2, <1>5, <1>6, <1>7 DEF Place, Operation, Looking, Reconciling, Finalizing, RailJobs
<1>9. OwnRail(q)
  BY <1>2, <1>7 DEF OwnRail, Rail, Operation, Next1
<1> QED
  BY <1>2, <1>4, <1>8, <1>9, <1>7 DEF KnowsId

\* The first step of each job is a legal move of its run.
LEMMA StartMoves ==
  ASSUME TypeInv, NEW r \in Run,
         \/ ChargeStarts(r) \/ ReleaseStarts(r) \/ RecoveryStarts(r) \/ ReconcileStarts(r)
         \/ FinalizeStarts(r)
  PROVE  Moved(r)
<1>1. CASE ChargeStarts(r)
  BY <1>1, GoMoves DEF ChargeStarts, StartRail, At, RailJobs, Pc
<1>2. CASE ReleaseStarts(r)
  BY <1>2, GoMoves DEF ReleaseStarts, StartRail, At, RailJobs, Pc
<1>3. CASE RecoveryStarts(r)
  <2>1. \E p \in {"sent", "failed", "preflight"} : Go(r, p)
    BY <1>3 DEF RecoveryStarts, StartRail
  <2> QED
    BY <1>3, <2>1, GoMoves DEF RecoveryStarts, StartRail, At, Pc
<1>4. CASE ReconcileStarts(r)
  <2> DEFINE i == run[r].id
             p == IF ~Awaited(i) /\ ~Unknown(i) THEN "sent"
                  ELSE IF Recorded(i) THEN "recorded"
                  ELSE IF Unknown(i) THEN "flight" ELSE "sibling"
             w == IF Awaited(i) /\ RailPhase(i) THEN "waiting"
                  ELSE IF money \in Held /\ buyer \in {"DealFailed", "Dropped"} THEN "DealFailed"
                  ELSE "not_waiting"
             n == (money = "ChargeFailedRecovery")
             q == [run[r] EXCEPT !.seen = w, !.noted = n, !.pc = p]
  <2>1. run \in [Run -> RunForm] /\ run[r] \in RunForm /\ KnowsId(run[r])
    BY WhatIsKnown
  <2>2. w \in Seen /\ n \in BOOLEAN /\ p \in {"sent", "recorded", "flight", "sibling"}
    BY DEF Seen
  <2>3. run' = [run EXCEPT ![r].seen = w, ![r].noted = n, ![r].pc = p]
    BY <1>4 DEF ReconcileStarts
  <2> HIDE DEF w, n, p
  <2>4. run' = [run EXCEPT ![r] = q]
    BY <2>1, <2>3
  <2>5. q \in RunForm /\ q.pc = p /\ q.job = "payment_reconcile" /\ q.id = run[r].id
    BY <1>4, <2>1, <2>2 DEF RunForm, Pc, ReconcileStarts
  <2> HIDE DEF q
  <2>6. Moves(r) /\ run'[r] = q
    BY <2>1, <2>4, <2>5 DEF Moves
  <2>7. IsMinted(run[r].id)
    BY <1>4, <2>1 DEF ReconcileStarts, At, KnowsId
  <2> QED
    BY <2>2, <2>5, <2>6, <2>7 DEF Moved, Place, OwnRail, KnowsId, Operation, Looking, Reconciling,
         Finalizing, Working
<1>5. CASE FinalizeStarts(r)
  <2>1. \E p \in {"list", "sent", "unresolved", "failed"} : Go(r, p)
    BY <1>5 DEF FinalizeStarts, StartRail
  <2> QED
    BY <1>5, <2>1, GoMoves DEF FinalizeStarts, StartRail, At, Pc, Finalizing
<1> QED
  BY <1>1, <1>2, <1>3, <1>4, <1>5

\* A begin knows the identity it takes.
LEMMA BeginMoves ==
  ASSUME TypeInv, NEW r \in Run,
         BeginStateChanged(r) \/ BeginBlocked(r) \/ BeginFenced(r) \/ BeginAgain(r)
  PROVE  Moved(r)
<1> DEFINE a == Retired(Conflicting(Rail(r)))
<1>1. run[r].pc = "begin"
  BY DEF BeginStateChanged, BeginBlocked, BeginFenced, BeginAgain, Begins, At
<1>2. \A i \in Id : a[i].result \in {"unknown", "success"} => IsMinted(i)
  BY RetiredKeeps DEF TypeInv, SameMinted, IsMinted
<1>3. CASE BeginStateChanged(r)
  BY <1>1, <1>3, OnMoves DEF BeginStateChanged
<1>4. CASE BeginBlocked(r)
  <2>1. PICK i \in Blockers(Rail(r), a), p \in {"apply_release", "reconcile", Next1(r)} :
           run' = [run EXCEPT ![r].id = i, ![r].pc = p]
    BY <1>4 DEF BeginBlocked
  <2>2. i \in Id /\ IsMinted(i)
    BY <2>1, <1>2 DEF Blockers
  <2>3. p \in Pc
    BY <2>1 DEF Pc, Next1
  <2> QED
    BY <1>1, <2>1, <2>2, <2>3, TakesMoves DEF Moved
<1>5. CASE BeginFenced(r)
  BY <1>1, <1>5, GoMoves DEF BeginFenced, Pc
<1>6. CASE BeginAgain(r)
  <2>1. PICK i \in Open(Rail(r), a), p \in {Next1(r), "arm", "resolve"} :
           run' = [run EXCEPT ![r].id = i, ![r].pc = p]
    BY <1>6 DEF BeginAgain
  <2>2. i \in Id /\ IsMinted(i) /\ i[1] = Rail(r)
    BY <2>1, <1>2 DEF Open
  <2>3. p \in Pc
    BY <2>1 DEF Pc, Next1
  <2>4. p = Next1(r) \/ (p \in {"arm", "resolve"} /\ i[1] = Rail(r))
    BY <2>1, <2>2
  <2> HIDE DEF a
  <2> QED
    BY <1>1, <2>1, <2>2, <2>3, <2>4, TakesMoves DEF Moved
<1> QED
  BY <1>3, <1>4, <1>5, <1>6

\* One provider operation of a rail, up to the event about it.
LEMMA OperationMoves ==
  ASSUME TypeInv, NEW r \in Run,
         \/ ReadStatus(r) \/ ResolveCaptured(r) \/ ResolveFailed(r)
         \/ ArmRefused(r) \/ Arm(r) \/ Send(r) \/ NotSent(r) \/ \E o \in Outcomes : Answer(r, o)
         \/ SettleSuccess(r) \/ SettleNotSent(r) \/ SettleUnknown(r) \/ SettleDeclined(r) \/ Ingest(r)
  PROVE  Moved(r)
<1>1. /\ run \in [Run -> RunForm] /\ run[r] \in RunForm
      /\ Place(run[r]) /\ OwnRail(run[r]) /\ KnowsId(run[r])
  BY WhatIsKnown
<1>2. ASSUME run[r].pc \in Operation, NEW p \in {"settle", "act"}, NEW s \in Seen,
             run' = [run EXCEPT ![r].pc = p, ![r].seen = s]
      PROVE  Moved(r)
  <2> DEFINE q == [run[r] EXCEPT !.pc = p, !.seen = s]
  <2>1. run' = [run EXCEPT ![r] = q]
    BY <1>1, <1>2
  <2>2. q \in RunForm /\ q.pc = p /\ q.job = run[r].job /\ q.id = run[r].id
    BY <1>1, <1>2 DEF RunForm, Pc
  <2> HIDE DEF q
  <2>3. Moves(r) /\ run'[r] = q
    BY <1>1, <2>1, <2>2 DEF Moves
  <2> QED
    BY <1>1, <1>2, <2>2, <2>3 DEF Moved, Place, OwnRail, KnowsId, Operation, Looking, Reconciling,
         Finalizing, Working, RailJobs
<1>3. ASSUME run[r].pc \in Operation,
             NEW p \in {"arm", "io", "await", "ingest", "reconcile", "apply_release", "sent", "failed",
                        "schedule_release", Next1(r)},
             Go(r, p)
      PROVE  Moved(r)
  <2>1. CASE p = Next1(r)
    BY <1>3, <2>1, OnMoves DEF Operation
  <2>2. CASE p # Next1(r)
    BY <1>1, <1>3, <2>2, GoMoves DEF Operation, Place, Working, Pc, RailJobs
  <2> QED
    BY <2>1, <2>2
<1>4. CASE ReadStatus(r)
  <2>1. PICK s \in Answers :
           IF s \in Proof(r) THEN run' = [run EXCEPT ![r].pc = "act", ![r].seen = s]
           ELSE \E p \in {"apply_release", "arm", "reconcile", Next1(r)} : Go(r, p)
    BY <1>4 DEF ReadStatus
  <2>2. s \in Seen
    BY <2>1 DEF Answers, Seen, Status
  <2> QED
    BY <1>2, <1>3, <1>4, <2>1, <2>2 DEF ReadStatus, At, Operation
<1>5. CASE ResolveCaptured(r)
  BY <1>3, <1>5 DEF ResolveCaptured, At, Operation
<1>6. CASE ResolveFailed(r)
  BY <1>3, <1>6 DEF ResolveFailed, At, Operation
<1>7. CASE ArmRefused(r)
  BY <1>3, <1>7 DEF ArmRefused, At, Operation
<1>8. CASE Arm(r)
  BY <1>3, <1>8 DEF Arm, At, Operation
<1>9. CASE Send(r)
  BY <1>3, <1>9 DEF Send, At, Operation
<1>10. CASE NotSent(r)
  <2>1. "pre_dispatch_failure" \in Seen
    BY DEF Seen, Outcomes
  <2> QED
    BY <1>2, <1>10, <2>1 DEF NotSent, At, Operation
<1>11. ASSUME NEW o \in Outcomes, Answer(r, o) PROVE Moved(r)
  BY <1>2, <1>11 DEF Answer, At, Operation, Seen
<1>12. CASE SettleSuccess(r)
  BY <1>3, <1>12 DEF SettleSuccess, At, Operation
<1>13. CASE SettleNotSent(r)
  BY <1>3, <1>13 DEF SettleNotSent, At, Operation
<1>14. CASE SettleUnknown(r)
  BY <1>3, <1>14 DEF SettleUnknown, At, Operation
<1>15. CASE SettleDeclined(r)
  BY <1>3, <1>15 DEF SettleDeclined, At, Operation
<1>16. CASE Ingest(r)
  BY <1>3, <1>16 DEF Ingest, At, Operation
<1> QED
  BY <1>4, <1>5, <1>6, <1>7, <1>8, <1>9, <1>10, <1>11, <1>12, <1>13, <1>14, <1>15, <1>16

\* A rail after its operation, and the looks before a recovery or a decision.
LEMMA RailMoves ==
  ASSUME TypeInv, NEW r \in Run,
         \/ Reconcile(r) \/ ApplyRelease(r) \/ ScheduleRelease(r) \/ ToCompletionWindow(r)
         \/ FirstLook(r) \/ SecondLook(r)
  PROVE  Moved(r)
<1>1. /\ run \in [Run -> RunForm] /\ run[r] \in RunForm
      /\ Place(run[r]) /\ OwnRail(run[r]) /\ KnowsId(run[r])
  BY WhatIsKnown
<1>2. CASE Reconcile(r)
  <2>1. Go(r, "failed") \/ Go(r, Next1(r))
    BY <1>2 DEF Reconcile
  <2> QED
    BY <1>2, <2>1, GoMoves, OnMoves DEF Reconcile, At, Pc
<1>3. CASE ApplyRelease(r)
  BY <1>3, OnMoves DEF ApplyRelease, At
<1>4. CASE ScheduleRelease(r)
  BY <1>4, OnMoves DEF ScheduleRelease, At
<1>5. CASE ToCompletionWindow(r)
  BY <1>5, GoMoves DEF ToCompletionWindow, At, Pc
<1>6. ASSUME run[r].pc \in Looking, Go(r, Proceeds(r)) \/ Go(r, LookCaptured(r)) \/ Go(r, "failed")
      PROVE  Moved(r)
  <2>1. run[r].job \in {"recovery_deal", "finalize_deal"}
    BY <1>1, <1>6 DEF Place
  <2> QED
    BY <1>6, <2>1, GoMoves DEF Proceeds, LookCaptured, Looking, Pc, RailJobs, Finalizing
<1>7. CASE FirstLook(r)
  <2>1. CASE Open("recovery", at) # {}
    BY <1>6, <1>7, <2>1 DEF FirstLook, At, Looking
  <2>2. CASE Open("recovery", at) = {}
    <3>1. PICK s \in Answers :
            run' = [run EXCEPT ![r].pc = "second_look", ![r].id = Target,
                               ![r].seen = s, ![r].noted = Exact(Target)]
      BY <1>7, <2>2 DEF FirstLook
    <3> DEFINE e == Exact(Target)
               q == [run[r] EXCEPT !.pc = "second_look", !.id = Target, !.seen = s, !.noted = e]
    <3>2. SomeCapture
      BY <1>7 DEF FirstLook, At, TypeInv, Targets
    <3>3. IsMinted(Target)
      <4>1. Minted("recovery") # {} \/ Minted("charge_start") # {}
        BY <3>2 DEF SomeCapture, Minted, CaptureIds, Capture, Id, AttemptType
      <4>2. Target \in Minted("recovery") \cup Minted("charge_start")
        BY <4>1, NewestCounted DEF Target, TypeInv, AttemptType
      <4> QED
        BY <4>2 DEF Minted, IsMinted
    <3>4. e \in BOOLEAN /\ s \in Seen
      BY DEF Exact, Answers, Seen, Status
    <3>5. run' = [run EXCEPT ![r].pc = "second_look", ![r].id = Target, ![r].seen = s, ![r].noted = e]
      BY <3>1
    <3> HIDE DEF e
    <3>6. run' = [run EXCEPT ![r] = q]
      BY <1>1, <3>5
    <3>7. q \in RunForm /\ q.pc = "second_look" /\ q.job = run[r].job /\ q.id = Target
      BY <1>1, <3>3, <3>4 DEF RunForm, Pc, IsMinted
    <3> HIDE DEF q
    <3>8. Moves(r) /\ run'[r] = q
      BY <1>1, <3>6, <3>7 DEF Moves
    <3> QED
      BY <1>1, <1>7, <3>3, <3>7, <3>8 DEF Moved, FirstLook, At, Place, OwnRail, KnowsId, Operation,
           Looking, Reconciling, Finalizing, Working
  <2> QED
    BY <2>1, <2>2
<1>8. CASE SecondLook(r)
  <2>1. Go(r, Proceeds(r)) \/ Go(r, LookCaptured(r)) \/ Go(r, "failed")
    BY <1>8 DEF SecondLook
  <2> QED
    BY <1>6, <1>8, <2>1 DEF SecondLook, At, Looking
<1> QED
  BY <1>2, <1>3, <1>4, <1>5, <1>7, <1>8

\* So is every step of a reconcile,
LEMMA ReconcileMoves ==
  ASSUME TypeInv, NEW r \in Run,
         \/ ReconcileRecorded(r) \/ ReconcileRetires(r) \/ ReconcileSibling(r) \/ ReconcileLooks(r)
         \/ ReconcileReads(r) \/ ConcludeCaptured(r) \/ ConcludeNotCaptured(r) \/ ScheduleRecovery(r)
         \/ ConcludeNotReleased(r) \/ ConcludePending(r)
  PROVE  Moved(r)
<1>1. /\ run \in [Run -> RunForm] /\ run[r] \in RunForm
      /\ Place(run[r]) /\ OwnRail(run[r]) /\ KnowsId(run[r])
  BY WhatIsKnown
<1>2. ASSUME run[r].pc \in Reconciling,
             NEW p \in {"sent", "failed", "schedule_release", "apply_release", "schedule_recovery",
                        "retire", "flight", "status"},
             Go(r, p)
      PROVE  Moved(r)
  <2>1. run[r].job = "payment_reconcile" /\ run[r].pc \in Working /\ run[r].pc # "free"
    BY <1>1, <1>2 DEF Place, Working, Reconciling
  <2> QED
    BY <1>2, <2>1, GoMoves DEF Reconciling, Pc
<1>3. CASE ReconcileRecorded(r)
  <2>1. \E p \in {"sent", "schedule_release", "retire"} : Go(r, p)
    BY <1>3 DEF ReconcileRecorded
  <2> QED
    BY <1>2, <1>3, <2>1 DEF ReconcileRecorded, At, Reconciling
<1>4. CASE ReconcileRetires(r)
  BY <1>2, <1>4 DEF ReconcileRetires, At, Reconciling
<1>5. CASE ReconcileSibling(r)
  BY <1>2, <1>5 DEF ReconcileSibling, At, Reconciling
<1>6. CASE ReconcileLooks(r)
  BY <1>2, <1>6 DEF ReconcileLooks, At, Reconciling
<1>7. CASE ReconcileReads(r)
  <2>1. PICK s \in Answers :
          \/ run' = [run EXCEPT ![r].pc = "conclude", ![r].seen = s]
          \/ \E p \in {"sent", "failed", "apply_release"} : Go(r, p)
    BY <1>7 DEF ReconcileReads
  <2>2. CASE run' = [run EXCEPT ![r].pc = "conclude", ![r].seen = s]
    <3> DEFINE q == [run[r] EXCEPT !.pc = "conclude", !.seen = s]
    <3>1. run' = [run EXCEPT ![r] = q]
      BY <1>1, <2>2
    <3>2. q \in RunForm /\ q.pc = "conclude" /\ q.job = run[r].job /\ q.id = run[r].id
      BY ZenonT(60), <1>1, <2>1 DEF RunForm, Pc, Answers, Seen, Status
    <3> HIDE DEF q
    <3>3. Moves(r) /\ run'[r] = q
      BY <1>1, <3>1, <3>2 DEF Moves
    <3> QED
      BY <1>1, <1>7, <3>2, <3>3 DEF ReconcileReads, At, Moved, Place, OwnRail, KnowsId, Operation,
           Looking, Reconciling, Finalizing, Working
  <2> QED
    BY <1>2, <1>7, <2>1, <2>2 DEF ReconcileReads, At, Reconciling
<1>8. CASE ConcludeCaptured(r)
  BY <1>2, <1>8 DEF ConcludeCaptured, At, Reconciling
<1>9. CASE ConcludeNotCaptured(r)
  <2>1. \E p \in {"sent", "failed", "schedule_release", "schedule_recovery"} : Go(r, p)
    BY <1>9 DEF ConcludeNotCaptured
  <2> QED
    BY <1>2, <1>9, <2>1 DEF ConcludeNotCaptured, At, Reconciling
<1>10. CASE ScheduleRecovery(r)
  BY <1>10, GoMoves DEF ScheduleRecovery, At, Pc
<1>11. CASE ConcludeNotReleased(r)
  BY <1>2, <1>11 DEF ConcludeNotReleased, At, Reconciling
<1>12. CASE ConcludePending(r)
  BY <1>2, <1>12 DEF ConcludePending, At, Reconciling
<1> QED
  BY <1>3, <1>4, <1>5, <1>6, <1>7, <1>8, <1>9, <1>10, <1>11, <1>12

\* and of a decision.
LEMMA FinalizeMoves ==
  ASSUME TypeInv, NEW r \in Run,
         \/ FinalizeUnresolved(r) \/ FinalizeFence(r) \/ FinalizeSums(r) \/ FinalizeDecides(r)
         \/ ListParticipants(r) \/ Outcome(r)
  PROVE  Moved(r)
<1>1. /\ run \in [Run -> RunForm] /\ run[r] \in RunForm
      /\ Place(run[r]) /\ OwnRail(run[r]) /\ KnowsId(run[r])
  BY WhatIsKnown
<1>2. ASSUME run[r].pc \in Finalizing,
             NEW p \in {"sent", "failed", "schedule_release", "fence", "preflight", "sum", "list"},
             Go(r, p)
      PROVE  Moved(r)
  <2>1. run[r].job = "finalize_deal" /\ run[r].pc # "free"
    BY <1>1, <1>2 DEF Place, Finalizing
  <2> QED
    BY <1>2, <2>1, GoMoves DEF Finalizing, Pc
<1>3. ASSUME run[r].pc \in Finalizing, NEW p \in {"decide", "outcome"}, NEW s \in Seen,
             run' = [run EXCEPT ![r].pc = p, ![r].seen = s]
      PROVE  Moved(r)
  <2> DEFINE q == [run[r] EXCEPT !.pc = p, !.seen = s]
  <2>1. run' = [run EXCEPT ![r] = q]
    BY <1>1, <1>3
  <2>2. q \in RunForm /\ q.pc = p /\ q.job = run[r].job /\ q.id = run[r].id
    BY <1>1, <1>3 DEF RunForm, Pc
  <2> HIDE DEF q
  <2>3. Moves(r) /\ run'[r] = q
    BY <1>1, <2>1, <2>2 DEF Moves
  <2> QED
    BY <1>1, <1>3, <2>2, <2>3 DEF Moved, Place, OwnRail, KnowsId, Operation, Looking, Reconciling,
         Finalizing, Working
<1>4. CASE FinalizeUnresolved(r)
  BY <1>2, <1>4 DEF FinalizeUnresolved, At, Finalizing
<1>5. CASE FinalizeFence(r)
  <2>1. \E p \in {"sent", "failed", "preflight", "sum"} : Go(r, p)
    BY <1>5 DEF FinalizeFence
  <2> QED
    BY <1>2, <1>5, <2>1 DEF FinalizeFence, At, Finalizing
<1>6. CASE FinalizeSums(r)
  BY <1>3, <1>6 DEF FinalizeSums, At, Finalizing, Seen
<1>7. CASE FinalizeDecides(r)
  BY <1>2, <1>7 DEF FinalizeDecides, At, Finalizing
<1>8. CASE ListParticipants(r)
  <2>1. buyer \in Seen
    BY DEF TypeInv, TypeOK, Seen
  <2> QED
    BY <1>3, <1>8, <2>1 DEF ListParticipants, At, Finalizing
<1>9. CASE Outcome(r)
  BY <1>2, <1>9 DEF Outcome, At, Finalizing
<1> QED
  BY <1>4, <1>5, <1>6, <1>7, <1>8, <1>9

\* A fresh identity is the next of its rail.
LEMMA FreshMoves ==
  ASSUME TypeInv, NEW r \in Run, BeginFresh(r)
  PROVE  \E i \in Id :
         /\ i = <<Rail(r), Cardinality(Minted(Rail(r))) + 1>>
         /\ at[i].result = "none" /\ Rail(r) \in AttemptType
         /\ Moves(r) /\ Place(run'[r]) /\ OwnRail(run'[r])
         /\ run'[r].pc = "arm" /\ run'[r].id = i /\ run'[r].job = run[r].job
         /\ run'[r].live = run[r].live
         /\ at' = [Retired(Conflicting(Rail(r))) EXCEPT ![i] = [Absent EXCEPT !.result = "unknown"]]
<1>1. PICK i \in Id : i = <<Rail(r), Cardinality(Minted(Rail(r))) + 1>>
  BY DEF BeginFresh
<1>2. i \in Id /\ Rail(r) \in AttemptType /\ i[1] = Rail(r)
  BY <1>1 DEF Rail, AttemptType
<1>3. at[i].result = "none"
  BY <1>1, <1>2, NewestCounted DEF Minted, TypeInv
<1>4. PICK p \in Pc :
        p = "arm" /\ run[r].pc = "begin" /\ run' = [run EXCEPT ![r].id = i, ![r].pc = p]
  BY <1>1 DEF BeginFresh, At, Pc
<1>5. /\ run' = [run EXCEPT ![r].id = i, ![r].pc = p]
      /\ run[r].pc = "begin" /\ p \in Pc /\ p \in {"arm", "resolve"} /\ i[1] = Rail(r)
  BY <1>2, <1>4
<1>6. /\ Moves(r)
      /\ Place(run'[r]) /\ OwnRail(run'[r])
      /\ run'[r].pc = p /\ run'[r].id = i /\ run'[r].job = run[r].job
      /\ run'[r].live = run[r].live
  <2>1. Moves(r)
    BY <1>2, <1>5, TakesMoves
  <2>2. Place(run'[r]) /\ OwnRail(run'[r])
    BY <1>2, <1>5, TakesMoves
  <2>3. run'[r].pc = p /\ run'[r].id = i
    BY ZenonT(60), <1>2, <1>5, TakesMoves
  <2>4. run'[r].job = run[r].job /\ run'[r].live = run[r].live
    BY <1>2, <1>5, TakesMoves
  <2> QED
    BY <2>1, <2>2, <2>3, <2>4
<1>7. at' = [Retired(Conflicting(Rail(r))) EXCEPT ![i] = [Absent EXCEPT !.result = "unknown"]]
  BY <1>1 DEF BeginFresh
<1> QED
  BY <1>1, <1>2, <1>3, <1>4, <1>6, <1>7

\* Every other step keeps what is known of the runs.
LEMMA StepMoves ==
  ASSUME TypeInv, NEW r \in Run, Step(r), ~BeginFresh(r)
  PROVE  Moved(r)
  BY LeaseMoves, StartMoves, BeginMoves, OperationMoves, RailMoves, ReconcileMoves, FinalizeMoves
     DEF Step

-----------------------------------------------------------------------------
(* What a step may write *)

\* Steps that only move the run.
Silent(r) ==
  \/ HandlerThrows(r)
  \/ ChargeStarts(r) \/ ReleaseStarts(r) \/ RecoveryStarts(r) \/ ReconcileStarts(r) \/ FinalizeStarts(r)
  \/ ReadStatus(r) \/ NotSent(r) \/ FirstLook(r)
  \/ ReconcileRecorded(r) \/ ReconcileSibling(r) \/ ReconcileLooks(r) \/ ReconcileReads(r)
  \/ FinalizeFence(r) \/ FinalizeSums(r) \/ ListParticipants(r)

\* A step that writes nothing but its run.
LEMMA SilentStep ==
  ASSUME NEW r, Silent(r)
  PROVE  UNCHANGED <<phase, participant, at, jobs, provider>>
  BY DEF Silent, HandlerThrows, ChargeStarts, ReleaseStarts, RecoveryStarts, ReconcileStarts,
         FinalizeStarts, StartRail, ReadStatus, NotSent, FirstLook, ReconcileRecorded,
         ReconcileSibling, ReconcileLooks, ReconcileReads, FinalizeFence, FinalizeSums,
         ListParticipants

\* Steps that write no row ...
JobStep(r) ==
  \/ \E j \in Job : Claim(r, j)
  \/ LeaseExpires(r) \/ Reconcile(r) \/ ScheduleRelease(r) \/ ScheduleRecovery(r)
  \/ ToCompletionWindow(r) \/ FinalizeUnresolved(r) \/ FinalizeDecides(r) \/ Outcome(r)

\* ... and those that write rows, alone or with what they say of the participant.
RowStep(r) ==
  \/ BeginStateChanged(r) \/ BeginBlocked(r) \/ BeginFenced(r) \/ BeginAgain(r)
  \/ ArmRefused(r) \/ Arm(r)
  \/ SettleSuccess(r) \/ SettleNotSent(r) \/ SettleUnknown(r) \/ SettleDeclined(r)
  \/ ReconcileRetires(r) \/ ConcludeNotReleased(r) \/ ConcludePending(r)
MoneyStep(r) ==
  \/ ResolveCaptured(r) \/ ResolveFailed(r) \/ Ingest(r) \/ ApplyRelease(r) \/ SecondLook(r)
  \/ ConcludeCaptured(r) \/ ConcludeNotCaptured(r)
EndStep(r) == Acknowledge(r) \/ FailAttempt(r) \/ RunDies(r)
SendStep(r) == Send(r) \/ \E o \in Outcomes : Answer(r, o)

\* The steps of a run, by what they write.
LEMMA Grouped ==
  ASSUME NEW r \in Run, Step(r)
  PROVE  \/ Silent(r) \/ JobStep(r) \/ RowStep(r) \/ MoneyStep(r) \/ EndStep(r) \/ SendStep(r)
         \/ BeginFresh(r)
  BY DEF Step, Silent, JobStep, RowStep, MoneyStep, EndStep, SendStep

\* A claim, and a step that schedules jobs, writes no row and asks nothing of the provider.
LEMMA JobStepRows == ASSUME NEW r, JobStep(r) PROVE UNCHANGED <<at, wire, executed, sent, policy, scope>>
  BY DEF JobStep, Claim, LeaseExpires, Reconcile, ScheduleRelease, ScheduleRecovery,
         ToCompletionWindow, FinalizeUnresolved, FinalizeDecides, Outcome, phase, provider

\* A step that writes a row leaves the deal, the participant and the jobs.
LEMMA RowStepRest == ASSUME NEW r, RowStep(r) PROVE UNCHANGED <<phase, participant, jobs, provider>>
  BY DEF RowStep, BeginStateChanged, BeginBlocked, BeginFenced, BeginAgain, Begins, ArmRefused, Arm,
         SettleSuccess, SettleNotSent, SettleUnknown, SettleDeclined, ReconcileRetires,
         ConcludeNotReleased, ConcludePending

\* A step that tells the participant leaves the deal and the jobs.
LEMMA MoneyStepRest == ASSUME NEW r, MoneyStep(r) PROVE UNCHANGED <<phase, jobs, provider>>
  BY DEF MoneyStep, ResolveCaptured, ResolveFailed, Ingest, ApplyRelease, SecondLook,
         ConcludeCaptured, ConcludeNotCaptured

\* A step that ends a run lets go of its rows and writes nothing else of them.
LEMMA EndStepRest ==
  ASSUME NEW r, EndStep(r)
  PROVE  at' = Disowned(r) /\ UNCHANGED <<phase, participant, wire, executed, sent>>
  BY DEF EndStep, Acknowledge, FailAttempt, RunDies, Ends, provider

\* A step that sends writes nothing of its own store.
LEMMA SendStepRest == ASSUME NEW r, SendStep(r) PROVE UNCHANGED <<phase, participant, at, jobs>>
  BY DEF SendStep, Send, Answer

\* Rows are minted by BeginFresh only, and for ever.
LEMMA RowsKept ==
  ASSUME TypeInv, NEW r \in Run, RowStep(r) \/ MoneyStep(r)
  PROVE  SameMinted(at')
<1>1. TypeOK /\ at \in [Id -> Row] /\ SameMinted(at)
  BY DEF TypeInv, TypeOK, SameMinted
<1>2. KnowsId(run[r])
  BY WhatIsKnown
<1> DEFINE i == run[r].id
<1>3. ASSUME NEW q \in Row, at[i].result # "none" /\ q.result # "none", i \in Id, at' = [at EXCEPT ![i] = q]
      PROVE  SameMinted(at')
  BY <1>1, <1>3 DEF SameMinted
<1>4. ASSUME IsMinted(i) PROVE at[i] \in Row /\ at[i].result # "none" /\ i \in Id
  BY <1>1, <1>4 DEF IsMinted
<1>5. CASE BeginStateChanged(r) \/ BeginBlocked(r) \/ BeginFenced(r) \/ BeginAgain(r)
  BY <1>1, <1>5, RetiredKeeps DEF BeginStateChanged, BeginBlocked, BeginFenced, BeginAgain, Begins
<1>6. CASE ArmRefused(r)
  BY <1>1, <1>6, RetiredKeeps DEF ArmRefused
<1>7. CASE ReconcileRetires(r)
  BY <1>1, <1>7, RetiredKeeps DEF ReconcileRetires
<1>8. CASE Arm(r)
  <2>1. IsMinted(i)
    BY <1>2, <1>8 DEF Arm, At, KnowsId, Working, Operation
  <2> DEFINE q == [at[i] EXCEPT !.dispatch = "dispatching", !.owner = r]
             h == [q EXCEPT !.horizon = "open"]
  <2>2. at[i] \in Row /\ at[i].result # "none" /\ i \in Id
    BY <1>4, <2>1
  <2>3. q \in Row /\ q.result # "none" /\ h \in Row /\ h.result # "none"
    BY <2>2 DEF Row
  <2>4. at' = [at EXCEPT ![i] = q] \/ at' = [at EXCEPT ![i] = h]
    BY <1>1, <1>8, <2>2 DEF Arm, Armed, Extended, Row
  <2> HIDE DEF q, h
  <2> QED
    BY <1>3, <2>2, <2>3, <2>4
<1>9. CASE SettleSuccess(r)
  <2>1. IsMinted(i)
    BY <1>2, <1>9 DEF SettleSuccess, At, KnowsId, Working, Operation
  <2> QED
    BY <1>1, <1>9, <2>1, SucceededKeeps DEF SettleSuccess
<1>10. CASE SettleNotSent(r)
  <2>1. IsMinted(i)
    BY <1>2, <1>10 DEF SettleNotSent, At, KnowsId, Working, Operation
  <2> DEFINE q == [at[i] EXCEPT !.dispatch = "recorded", !.owner = "null"]
  <2>2. at[i] \in Row /\ at[i].result # "none" /\ i \in Id
    BY <1>4, <2>1
  <2>3. q \in Row /\ q.result # "none"
    BY <2>2 DEF Row
  <2>4. at' = [at EXCEPT ![i] = q] \/ at' = at
    BY <1>1, <1>10, <2>2 DEF SettleNotSent, Row
  <2> HIDE DEF q
  <2> QED
    BY <1>1, <1>3, <2>2, <2>3, <2>4
<1>11. CASE SettleUnknown(r)
  <2>1. IsMinted(i)
    BY <1>2, <1>11 DEF SettleUnknown, At, KnowsId, Working, Operation
  <2> DEFINE q == [at[i] EXCEPT !.dispatch = "responded", !.result = IF Final(i) THEN @ ELSE "unknown"]
  <2>2. at[i] \in Row /\ at[i].result # "none" /\ i \in Id
    BY <1>4, <2>1
  <2>3. q \in Row /\ q.result # "none"
    BY <2>2 DEF Row
  <2>4. at' = [at EXCEPT ![i] = q] \/ at' = at
    BY <1>1, <1>11, <2>2 DEF SettleUnknown, Row
  <2> HIDE DEF q
  <2> QED
    BY <1>1, <1>3, <2>2, <2>3, <2>4
<1>12. CASE SettleDeclined(r)
  <2>1. IsMinted(i)
    BY <1>2, <1>12 DEF SettleDeclined, At, KnowsId, Working, Operation
  <2> DEFINE q == [at[i] EXCEPT !.dispatch = "responded", !.evidence = "dispatch_response",
                                !.result = IF @ = "success" THEN @ ELSE "permanent_fail"]
  <2>2. at[i] \in Row /\ at[i].result # "none" /\ i \in Id
    BY <1>4, <2>1
  <2>3. q \in Row /\ q.result # "none"
    BY <2>2 DEF Row
  <2>4. at' = [at EXCEPT ![i] = q] \/ at' = at
    BY <1>1, <1>12, <2>2 DEF SettleDeclined, Row
  <2> HIDE DEF q
  <2> QED
    BY <1>1, <1>3, <2>2, <2>3, <2>4
<1>13. CASE ConcludeNotReleased(r)
  <2>1. IsMinted(i)
    BY <1>2, <1>13 DEF ConcludeNotReleased, At, KnowsId, Working, Reconciling
  <2> DEFINE q == [at[i] EXCEPT !.result = "permanent_fail", !.dispatch = "responded"]
  <2>2. at[i] \in Row /\ at[i].result # "none" /\ i \in Id
    BY <1>4, <2>1
  <2>3. q \in Row /\ q.result # "none"
    BY <2>2 DEF Row
  <2>4. at' = [at EXCEPT ![i] = q] \/ at' = at
    BY <1>1, <1>13, <2>2 DEF ConcludeNotReleased, Row
  <2> HIDE DEF q
  <2> QED
    BY <1>1, <1>3, <2>2, <2>3, <2>4
<1>14. CASE ConcludePending(r)
  <2>1. IsMinted(i)
    BY <1>2, <1>14 DEF ConcludePending, At, KnowsId, Working, Reconciling
  <2> QED
    BY <1>1, <1>14, <2>1, ExtendedKeeps DEF ConcludePending, IsMinted
<1>15. CASE MoneyStep(r)
  <2>1. IsMinted(i)
    BY <1>2, <1>15 DEF MoneyStep, ResolveCaptured, ResolveFailed, Ingest, ApplyRelease, SecondLook,
         ConcludeCaptured, ConcludeNotCaptured, At, KnowsId, Working, Operation, Reconciling
  <2>2. at' = at \/ at' = Succeeded(i) \/ at' = Inferred(i) \/ at' = Extended(at, i)
    BY <1>15 DEF MoneyStep, ResolveCaptured, ResolveFailed, Ingest, ApplyRelease, SecondLook,
         ConcludeCaptured, ConcludeNotCaptured, IngestCaptured, IngestFailed
  <2> QED
    BY <1>1, <2>1, <2>2, SucceededKeeps, InferredKeeps, ExtendedKeeps DEF IsMinted
<1> QED
  BY <1>5, <1>6, <1>7, <1>8, <1>9, <1>10, <1>11, <1>12, <1>13, <1>14, <1>15 DEF RowStep

\* What happens outside the runs mints no row, forgets none and moves no run.
LEMMA EnvironmentRows ==
  ASSUME TypeInv, Environment
  PROVE  SameMinted(at') /\ UNCHANGED run
<1>1. TypeOK /\ at \in [Id -> Row] /\ SameMinted(at)
  BY DEF TypeInv, TypeOK, SameMinted
<1>2. CASE RescheduleStalledFinalizations \/ WindowCloses
           \/ \E i \in Id : ReconcileOrphan(i) \/ Execute(i) \/ Lose(i)
  BY <1>1, <1>2 DEF RescheduleStalledFinalizations, WindowCloses, ReconcileOrphan, Execute, Lose
<1>3. ASSUME NEW i \in Id, HorizonElapses(i) PROVE SameMinted(at') /\ UNCHANGED run
  BY <1>1, <1>3 DEF HorizonElapses, Fenced, SameMinted, Row
<1>4. ASSUME NEW i \in Id, CallbackCaptured(i) PROVE SameMinted(at') /\ UNCHANGED run
  <2>1. IsMinted(i)
    BY <1>4 DEF CallbackCaptured, TypeInv, Requests, IsMinted
  <2>2. SameMinted(Succeeded(i))
    BY <1>1, <2>1, SucceededKeeps
  <2>3. at' = Succeeded(i) /\ UNCHANGED run
    BY <1>4 DEF CallbackCaptured, IngestCaptured
  <2> QED
    BY <2>2, <2>3
<1>5. ASSUME NEW i \in Id, CallbackFailed(i) PROVE SameMinted(at') /\ UNCHANGED run
  <2>1. IsMinted(i)
    BY <1>5 DEF CallbackFailed, TypeInv, Requests, IsMinted
  <2> QED
    BY <1>1, <1>5, <2>1, InferredKeeps DEF CallbackFailed, IngestFailed
<1> QED
  BY <1>2, <1>3, <1>4, <1>5 DEF Environment

\* An identity that was minted stays so, and the rows of a rail have no gaps.
LEMMA RowsGrow ==
  ASSUME TypeInv, [Next]_vars
  PROVE  at' \in [Id -> Row] /\ (\A i : IsMinted(i) => IsMinted(i)') /\ Contiguous'
<1>1. TypeOK /\ at \in [Id -> Row] /\ SameMinted(at) /\ Contiguous
  BY DEF TypeInv, TypeOK, SameMinted
<1>2. CASE SameMinted(at')
  <2>1. at' \in [Id -> Row] /\ \A i : IsMinted(i) <=> IsMinted(i)'
    BY <1>2 DEF SameMinted, IsMinted
  <2>2. Contiguous'
    BY <1>1, <2>1 DEF Contiguous
  <2> QED
    BY <2>1, <2>2
<1>3. ASSUME NEW r \in Run, BeginFresh(r)
      PROVE  at' \in [Id -> Row] /\ (\A i : IsMinted(i) => IsMinted(i)') /\ Contiguous'
  <2> DEFINE a == Retired(Conflicting(Rail(r)))
             q == [Absent EXCEPT !.result = "unknown"]
  <2>1. PICK j \in Id : /\ j = <<Rail(r), Cardinality(Minted(Rail(r))) + 1>>
                        /\ Rail(r) \in AttemptType
                        /\ at' = [a EXCEPT ![j] = q]
    BY <1>3, FreshMoves
  <2>2. a \in [Id -> Row] /\ \A i \in Id : a[i].result = "none" <=> at[i].result = "none"
    BY <1>1, RetiredKeeps DEF SameMinted
  <2>3. q \in Row /\ q.result = "unknown"
    BY DEF Absent, Row
  <2> HIDE DEF a, q
  <2>4. at' \in [Id -> Row]
    BY <2>1, <2>2, <2>3
  <2>5. \A i : IsMinted(i)' <=> IsMinted(i) \/ i = j
    BY <2>1, <2>2, <2>3 DEF IsMinted
  <2>6. ASSUME NEW k \in 1..MaxIds, k <= j[2] PROVE IsMinted(<<j[1], k>>) \/ k = j[2]
    <3> DEFINE n == Cardinality(Minted(Rail(r)))
    <3>1. n \in 0..MaxIds /\ (Minted(Rail(r)) # {} => Newest(Rail(r)) \in Minted(Rail(r)))
      BY <1>1, <2>1, NewestCounted
    <3>2. MaxIds \in Nat /\ j[2] = n + 1 /\ j[1] = Rail(r)
      BY <2>1, RailsAssumption
    <3> SUFFICES ASSUME k # j[2] PROVE IsMinted(<<j[1], k>>)
      OBVIOUS
    <3>3. k <= n /\ n # 0
      BY <2>6, <3>1, <3>2
    <3>4. Minted(Rail(r)) # {}
      BY <3>3, FS_EmptySet
    <3>5. Newest(Rail(r)) \in Minted(Rail(r)) /\ Newest(Rail(r)) = <<Rail(r), n>>
      BY <3>1, <3>4 DEF Newest
    <3>6. IsMinted(<<Rail(r), n>>) /\ <<Rail(r), n>> \in Id
      BY <3>5 DEF Minted, IsMinted
    <3>7. IsMinted(<<Rail(r), k>>)
      BY <1>1, <3>3, <3>6 DEF Contiguous
    <3> QED
      BY <3>2, <3>7
  <2>7. Contiguous'
    <3> SUFFICES ASSUME NEW i \in Id, NEW k \in 1..MaxIds, IsMinted(i)', k <= i[2]
                 PROVE  IsMinted(<<i[1], k>>)'
      BY DEF Contiguous
    <3>1. CASE IsMinted(i)
      BY <1>1, <2>5, <3>1 DEF Contiguous
    <3>2. CASE i = j
      <4>1. j = <<j[1], j[2]>>
        BY <2>1
      <4> QED
        BY <2>5, <2>6, <3>2, <4>1
    <3> QED
      BY <2>5, <3>1, <3>2
  <2> QED
    BY <2>4, <2>5, <2>7
<1>4. CASE Environment
  BY <1>2, <1>4, EnvironmentRows
<1>5. ASSUME NEW r \in Run, Step(r), ~BeginFresh(r) PROVE SameMinted(at')
  <2>1. CASE Silent(r) \/ JobStep(r) \/ SendStep(r)
    BY <1>1, <2>1, SilentStep, JobStepRows, SendStepRest
  <2>2. CASE RowStep(r) \/ MoneyStep(r)
    BY <2>2, RowsKept
  <2>3. CASE EndStep(r)
    BY <1>1, <2>3, EndStepRest, DisownedKeeps
  <2> QED
    BY <1>5, <2>1, <2>2, <2>3, Grouped
<1>6. CASE UNCHANGED vars
  BY <1>1, <1>2, <1>6 DEF vars
<1> QED
  BY <1>2, <1>3, <1>4, <1>5, <1>6 DEF Next

\* A step keeps every run at a place of its job, with the identity it needs.
LEMMA PlacesStep ==
  ASSUME TypeInv, [Next]_vars
  PROVE  run' \in [Run -> RunForm] /\ Places'
<1>1. /\ run \in [Run -> RunForm]
      /\ \A q \in Run : Place(run[q]) /\ OwnRail(run[q]) /\ KnowsId(run[q])
  BY WhatIsKnown DEF TypeInv, TypeOK, RunForm
<1>2. \A i : IsMinted(i) => IsMinted(i)'
  BY RowsGrow
<1>3. ASSUME NEW q \in Run, KnowsId(run'[q]) PROVE KnowsId(run[q])'
  BY <1>2, <1>3 DEF KnowsId
<1>4. CASE UNCHANGED run
  BY <1>1, <1>3, <1>4 DEF Places, Place, OwnRail
<1>5. ASSUME NEW r \in Run, Moves(r), Place(run'[r]), OwnRail(run'[r]), KnowsId(run[r])'
      PROVE  run' \in [Run -> RunForm] /\ Places'
  <2>1. run' \in [Run -> RunForm] /\ \A q \in Run \ {r} : run'[q] = run[q]
    BY <1>5 DEF Moves
  <2>2. ASSUME NEW q \in Run PROVE Place(run'[q]) /\ OwnRail(run'[q]) /\ KnowsId(run[q])'
    BY <1>1, <1>3, <1>5, <2>1
  <2> QED
    BY <2>1, <2>2 DEF Places, Place, OwnRail
<1>6. ASSUME NEW r \in Run, Step(r), ~BeginFresh(r)
      PROVE  run' \in [Run -> RunForm] /\ Places'
  BY <1>3, <1>5, <1>6, StepMoves DEF Moved
<1>7. ASSUME NEW r \in Run, BeginFresh(r)
      PROVE  run' \in [Run -> RunForm] /\ Places'
  <2>1. PICK i \in Id :
          /\ Moves(r) /\ Place(run'[r]) /\ OwnRail(run'[r]) /\ run'[r].id = i
          /\ at' = [Retired(Conflicting(Rail(r))) EXCEPT ![i] = [Absent EXCEPT !.result = "unknown"]]
    BY <1>7, FreshMoves
  <2>2. Retired(Conflicting(Rail(r))) \in [Id -> Row]
    BY RetiredKeeps DEF TypeInv, SameMinted
  <2>3. IsMinted(run[r].id)'
    BY <2>1, <2>2 DEF IsMinted, Absent
  <2> QED
    BY <1>5, <2>1, <2>3 DEF KnowsId
<1>8. CASE Environment
  BY <1>4, <1>8, EnvironmentRows
<1>9. CASE UNCHANGED vars
  BY <1>4, <1>9 DEF vars
<1> QED
  BY <1>6, <1>7, <1>8, <1>9 DEF Next

\* What the participant may become.
BuyerStates == {"ChargingAttempt", "ChargedSuccess", "ChargeFailedCompletion", "Recovered",
                "Dropped", "DealCompleted", "DealFailed"}
MoneyStates == {"ChargeAttempt", "ChargedSuccess", "ChargeFailedRecovery", "RecoveredCharge", "AuthReleased"}

\* A step that speaks of the identity i to the participant.
LEMMA EventSpeaks ==
  ASSUME TypeInv, NEW i, IsMinted(i), IngestCaptured(i) \/ IngestFailed(i)
  PROVE  /\ buyer' \in BuyerStates /\ money' \in MoneyStates
         /\ buyer' = "ChargeFailedCompletion" => buyer = "ChargeFailedCompletion" \/ i \in CaptureIds
<1>1. buyer \in BuyerStates /\ money \in MoneyStates /\ i \in Id
  BY DEF TypeInv, TypeOK, BuyerStates, MoneyStates, IsMinted
<1>2. i[1] = "charge_start" => i \in CaptureIds
  BY <1>1 DEF CaptureIds, Capture, Id
<1> QED
  BY <1>1, <1>2 DEF IngestCaptured, IngestFailed, BuyerStates, MoneyStates, participant

\* The deal's phase, the participant and their provider stay what they may be,
\* and a participant whose charge failed has a capture behind it.
LEMMA ParticipantStep ==
  ASSUME TypeInv, [Next]_vars
  PROVE  /\ policy' \in Policies /\ scope' \in Scopes[policy']
         /\ others' \in {"unknown", "enough", "pivotal", "short"}
         /\ deal' \in {"Charging", "CompletionWindow", "Completed", "Failed"}
         /\ window' \in {"unset", "open", "over"}
         /\ buyer' \in BuyerStates /\ money' \in MoneyStates
         /\ Failing' /\ (SomeCapture => SomeCapture')
<1>1. /\ policy \in Policies /\ scope \in Scopes[policy]
      /\ others \in {"unknown", "enough", "pivotal", "short"}
      /\ deal \in {"Charging", "CompletionWindow", "Completed", "Failed"}
      /\ window \in {"unset", "open", "over"}
      /\ buyer \in BuyerStates /\ money \in MoneyStates /\ Failing
  BY DEF TypeInv, TypeOK, Targets, BuyerStates, MoneyStates
<1>2. \A i : IsMinted(i) => IsMinted(i)'
  BY RowsGrow
<1>3. CaptureIds \subseteq Id
  BY DEF CaptureIds, Capture, Id, AttemptType
<1>4. SomeCapture => SomeCapture'
  BY <1>2, <1>3 DEF SomeCapture, IsMinted
<1>5. ASSUME NEW i, IsMinted(i), i \in CaptureIds PROVE SomeCapture'
  BY <1>2, <1>5 DEF SomeCapture, IsMinted
<1> DEFINE Kept == UNCHANGED phase
           Fine == buyer' \in BuyerStates /\ money' \in MoneyStates /\ Failing'
<1>6. UNCHANGED participant => Fine
  BY <1>1, <1>4 DEF Failing, participant
<1>7. ASSUME NEW i, IsMinted(i), IngestCaptured(i) \/ IngestFailed(i) PROVE Fine
  BY <1>1, <1>4, <1>5, <1>7, EventSpeaks DEF Failing
<1>8. ASSUME NEW r \in Run, Step(r), ~ToCompletionWindow(r), ~FinalizeDecides(r) PROVE Kept
  BY <1>8, Grouped, SilentStep, RowStepRest, MoneyStepRest, EndStepRest, SendStepRest
     DEF JobStep, Claim, LeaseExpires, Reconcile, ScheduleRelease, ScheduleRecovery,
         FinalizeUnresolved, Outcome, BeginFresh, phase
<1>9. ASSUME NEW r \in Run, MoneyStep(r) PROVE Fine
  <2>1. IsMinted(run[r].id)
    BY <1>9, WhatIsKnown DEF MoneyStep, ResolveCaptured, ResolveFailed, Ingest, ApplyRelease, SecondLook,
         ConcludeCaptured, ConcludeNotCaptured, At, KnowsId, Working, Operation, Reconciling
  <2>2. CASE ApplyRelease(r)
    BY <1>1, <1>4, <2>2 DEF ApplyRelease, MoneyStates, Failing
  <2>3. \/ ApplyRelease(r) \/ UNCHANGED participant
        \/ IngestCaptured(run[r].id) \/ IngestFailed(run[r].id)
    BY <1>9 DEF MoneyStep, ResolveCaptured, ResolveFailed, Ingest, SecondLook,
         ConcludeCaptured, ConcludeNotCaptured, participant
  <2> QED
    BY <1>6, <1>7, <2>1, <2>2, <2>3
<1>10. ASSUME NEW r \in Run, Step(r), ~MoneyStep(r), ~Outcome(r) PROVE UNCHANGED participant
  BY <1>10, Grouped, SilentStep, RowStepRest, EndStepRest, SendStepRest
     DEF JobStep, Claim, LeaseExpires, Reconcile, ScheduleRelease, ScheduleRecovery,
         FinalizeUnresolved, ToCompletionWindow, FinalizeDecides, BeginFresh, participant
<1>11. ASSUME NEW r \in Run, Outcome(r) PROVE Fine
  BY <1>1, <1>4, <1>11 DEF Outcome, BuyerStates, Failing
<1>12. ASSUME NEW r \in Run, ToCompletionWindow(r) \/ FinalizeDecides(r)
       PROVE  /\ UNCHANGED <<policy, scope, others>>
              /\ deal' \in {"Charging", "CompletionWindow", "Completed", "Failed"}
              /\ window' \in {"unset", "open", "over"}
  BY <1>1, <1>12 DEF ToCompletionWindow, FinalizeDecides, Verdict
<1>13. ASSUME NEW r \in Run, Step(r) PROVE Fine
  BY <1>6, <1>9, <1>10, <1>11, <1>13
<1>14. CASE WindowCloses
  BY <1>1, <1>4, <1>6, <1>14 DEF WindowCloses
<1>15. ASSUME NEW i \in Id, CallbackCaptured(i) \/ CallbackFailed(i) PROVE Kept /\ Fine
  <2>1. IsMinted(i)
    BY <1>15 DEF CallbackCaptured, CallbackFailed, TypeInv, Requests, IsMinted
  <2> QED
    BY <1>7, <1>15, <2>1 DEF CallbackCaptured, CallbackFailed, phase
<1>16. ASSUME UNCHANGED vars \/ RescheduleStalledFinalizations
              \/ \E i \in Id : ReconcileOrphan(i) \/ HorizonElapses(i) \/ Execute(i) \/ Lose(i)
       PROVE  Kept /\ UNCHANGED participant
  BY <1>16 DEF vars, RescheduleStalledFinalizations, ReconcileOrphan, HorizonElapses, Execute, Lose,
       phase, participant
<1>17. CASE Kept /\ Fine
  BY <1>1, <1>4, <1>17 DEF phase
<1> HIDE DEF Fine
<1>18. CASE \E r \in Run : Step(r)
  <2> USE DEF Fine
  <2> QED
    BY <1>1, <1>4, <1>8, <1>12, <1>13, <1>17, <1>18
<1> QED
  BY <1>6, <1>14, <1>15, <1>16, <1>17, <1>18 DEF Next, Environment

-----------------------------------------------------------------------------
(* Jobs and leases *)

\* Only a claim, a verdict and a lost lease change who holds a job.
Same(r) == run'[r].job = run[r].job /\ run'[r].live = run[r].live
LeaseStep(r) == (\E j \in Job : Claim(r, j)) \/ EndStep(r) \/ LeaseExpires(r)

\* A run keeps its lease, its job and its life in every step that is not about the lease.
LEMMA SameRun ==
  ASSUME TypeInv, NEW r \in Run, Step(r), ~LeaseStep(r)
  PROVE  Same(r)
<1>1. run \in [Run -> RunForm] /\ run[r] \in RunForm
  BY WhatIsKnown
<1>2. ASSUME NEW p, Go(r, p) PROVE Same(r)
  BY <1>1, <1>2 DEF Go, Same, RunForm
<1>3. ASSUME NEW i, NEW p, NEW s, NEW n,
             \/ run' = [run EXCEPT ![r].pc = p, ![r].seen = s]
             \/ run' = [run EXCEPT ![r].id = i, ![r].pc = p]
             \/ run' = [run EXCEPT ![r].pc = p, ![r].id = i, ![r].seen = s, ![r].noted = n]
             \/ run' = [run EXCEPT ![r].seen = s, ![r].noted = n, ![r].pc = p]
      PROVE  Same(r)
  BY <1>1, <1>3 DEF Same, RunForm
<1>4. CASE HandlerThrows(r) \/ ChargeStarts(r) \/ ReleaseStarts(r) \/ RecoveryStarts(r) \/ FinalizeStarts(r)
  BY <1>2, <1>4 DEF HandlerThrows, ChargeStarts, ReleaseStarts, RecoveryStarts, FinalizeStarts, StartRail
<1>5. CASE ReconcileStarts(r)
  BY ZenonT(60), <1>3, <1>5 DEF ReconcileStarts
<1>6. CASE BeginStateChanged(r) \/ BeginFenced(r)
  <2>1. \E p : Go(r, p)
    BY <1>6 DEF BeginStateChanged, BeginFenced
  <2> QED
    BY <1>2, <2>1
<1>7. CASE BeginBlocked(r) \/ BeginAgain(r) \/ BeginFresh(r)
  BY <1>3, <1>7 DEF BeginBlocked, BeginAgain, BeginFresh
<1>8. CASE ReadStatus(r)
  BY <1>2, <1>3, <1>8 DEF ReadStatus
<1>9. CASE ResolveCaptured(r) \/ ResolveFailed(r) \/ ArmRefused(r) \/ Arm(r) \/ Send(r)
  BY <1>2, <1>9 DEF ResolveCaptured, ResolveFailed, ArmRefused, Arm, Send
<1>10. CASE NotSent(r) \/ \E o \in Outcomes : Answer(r, o)
  BY <1>3, <1>10 DEF NotSent, Answer
<1>11. CASE SettleSuccess(r) \/ SettleNotSent(r) \/ SettleUnknown(r) \/ SettleDeclined(r) \/ Ingest(r)
  BY <1>2, <1>11 DEF SettleSuccess, SettleNotSent, SettleUnknown, SettleDeclined, Ingest
<1>12. CASE Reconcile(r) \/ ApplyRelease(r) \/ ScheduleRelease(r) \/ ToCompletionWindow(r) \/ SecondLook(r)
  BY <1>2, <1>12 DEF Reconcile, ApplyRelease, ScheduleRelease, ToCompletionWindow, SecondLook
<1>13. CASE FirstLook(r)
  <2>1. CASE Open("recovery", at) # {}
    BY <1>2, <1>13, <2>1 DEF FirstLook
  <2>2. CASE Open("recovery", at) = {}
    <3> DEFINE e == Exact(Target)
    <3>1. PICK s \in Answers :
            run' = [run EXCEPT ![r].pc = "second_look", ![r].id = Target,
                               ![r].seen = s, ![r].noted = e]
      BY <1>13, <2>2 DEF FirstLook
    <3> HIDE DEF e
    <3> QED
      BY <1>3, <3>1
  <2> QED
    BY <2>1, <2>2
<1>14. CASE ReconcileRecorded(r) \/ ReconcileRetires(r) \/ ReconcileSibling(r) \/ ReconcileLooks(r)
  <2>1. \E p : Go(r, p)
    BY <1>14 DEF ReconcileRecorded, ReconcileRetires, ReconcileSibling, ReconcileLooks
  <2> QED
    BY <1>2, <2>1
<1>15. CASE ReconcileReads(r)
  BY <1>2, <1>3, <1>15 DEF ReconcileReads
<1>16. CASE ConcludeCaptured(r) \/ ConcludeNotCaptured(r) \/ ScheduleRecovery(r)
            \/ ConcludeNotReleased(r) \/ ConcludePending(r)
  <2>1. \E p : Go(r, p)
    BY <1>16 DEF ConcludeCaptured, ConcludeNotCaptured, ScheduleRecovery, ConcludeNotReleased,
         ConcludePending
  <2> QED
    BY <1>2, <2>1
<1>17. CASE FinalizeUnresolved(r) \/ FinalizeFence(r) \/ FinalizeDecides(r) \/ Outcome(r)
  <2>1. \E p : Go(r, p)
    BY <1>17 DEF FinalizeUnresolved, FinalizeFence, FinalizeDecides, Outcome
  <2> QED
    BY <1>2, <2>1
<1>18. CASE FinalizeSums(r) \/ ListParticipants(r)
  BY <1>3, <1>18 DEF FinalizeSums, ListParticipants
<1> QED
  BY <1>4, <1>5, <1>6, <1>7, <1>8, <1>9, <1>10, <1>11, <1>12, <1>13, <1>14, <1>15, <1>16, <1>17, <1>18
     DEF Step, LeaseStep, EndStep

\* Jobs that are scheduled: no job is lost or handed to a run, and a reconcile
\* comes with an identity.
Grows ==
  /\ job' \in [Job -> {"none", "pending", "held"}]
  /\ \A j \in Job : job[j] # "none" => job'[j] = job[j]
  /\ \A j \in Job : job'[j] = "held" => job[j] = "held"
  /\ \/ job'["payment_reconcile"] = job["payment_reconcile"] /\ reconciles' = reconciles
     \/ IsMinted(reconciles')

\* Scheduling takes no job from the run that holds it.
LEMMA JobsScheduled ==
  ASSUME TypeInv,
         \/ UNCHANGED jobs
         \/ \E i : IsMinted(i) /\ ScheduleReconcile(i)
         \/ \E js \in SUBSET (Job \ {"payment_reconcile"}) : job' = Scheduled(js) /\ UNCHANGED reconciles
  PROVE  Grows
<1>1. job \in [Job -> {"none", "pending", "held"}] /\ "payment_reconcile" \in Job
  BY DEF TypeInv, TypeOK, Job
<1>2. CASE UNCHANGED jobs
  BY <1>1, <1>2 DEF jobs, Grows
<1>3. ASSUME NEW i, IsMinted(i), ScheduleReconcile(i) PROVE Grows
  BY <1>1, <1>3 DEF ScheduleReconcile, jobs, Grows
<1>4. ASSUME NEW js \in SUBSET (Job \ {"payment_reconcile"}), job' = Scheduled(js), UNCHANGED reconciles
      PROVE  Grows
  BY <1>1, <1>4 DEF Scheduled, Grows
<1> QED
  BY <1>2, <1>3, <1>4

\* Whatever is neither a claim, a verdict nor a lost lease only schedules jobs.
LEMMA OthersSchedule ==
  ASSUME TypeInv, [Next]_vars, \A r \in Run : ~LeaseStep(r)
  PROVE  Grows
<1>1. ASSUME NEW r \in Run, Step(r) PROVE Grows
  <2>1. CASE Reconcile(r)
    <3>1. IsMinted(run[r].id) /\ ScheduleReconcile(run[r].id)
      BY <2>1, WhatIsKnown DEF Reconcile, At, KnowsId, Working
    <3> QED
      BY <3>1, JobsScheduled
  <2>2. CASE FinalizeUnresolved(r)
    <3>1. \/ UNCHANGED jobs
          \/ \E i \in CaptureIds : Hidden(i) /\ ScheduleReconcile(i)
      BY <2>2 DEF FinalizeUnresolved
    <3>2. ASSUME NEW i \in CaptureIds, Hidden(i) PROVE IsMinted(i)
      BY <3>2 DEF Hidden, Unknown, IsMinted, CaptureIds, Capture, Id, AttemptType
    <3> QED
      BY <3>1, <3>2, JobsScheduled
  <2>3. CASE ScheduleRelease(r) \/ ScheduleRecovery(r) \/ ToCompletionWindow(r)
    <3>1. \/ UNCHANGED jobs
          \/ UNCHANGED reconciles /\ job' = Scheduled({"payment_release"})
          \/ UNCHANGED reconciles /\ job' = Scheduled({"recovery_deal"})
          \/ UNCHANGED reconciles /\ job' = Scheduled({"finalize_deal"} \cup {})
          \/ UNCHANGED reconciles /\ job' = Scheduled({"finalize_deal"} \cup {"recovery_deal"})
      BY <2>3 DEF ScheduleRelease, ScheduleRecovery, ToCompletionWindow, jobs
    <3>2. /\ {"payment_release"} \in SUBSET (Job \ {"payment_reconcile"})
          /\ {"recovery_deal"} \in SUBSET (Job \ {"payment_reconcile"})
          /\ {"finalize_deal"} \cup {} \in SUBSET (Job \ {"payment_reconcile"})
          /\ {"finalize_deal"} \cup {"recovery_deal"} \in SUBSET (Job \ {"payment_reconcile"})
      BY DEF Job
    <3> QED
      BY <3>1, <3>2, JobsScheduled
  <2>4. CASE FinalizeDecides(r) \/ Outcome(r)
    BY <2>4, JobsScheduled DEF FinalizeDecides, Outcome
  <2>5. CASE Silent(r) \/ RowStep(r) \/ MoneyStep(r) \/ SendStep(r) \/ BeginFresh(r)
    BY <2>5, JobsScheduled, SilentStep, RowStepRest, MoneyStepRest, SendStepRest DEF BeginFresh
  <2> QED
    BY <1>1, <2>1, <2>2, <2>3, <2>4, <2>5, Grouped DEF LeaseStep, JobStep
<1>2. CASE UNCHANGED vars \/ WindowCloses
  BY <1>2, JobsScheduled DEF vars, WindowCloses, jobs
<1>3. ASSUME NEW i \in Id, HorizonElapses(i) \/ Execute(i) \/ Lose(i) \/ CallbackCaptured(i) PROVE Grows
  BY <1>3, JobsScheduled DEF HorizonElapses, Execute, Lose, CallbackCaptured
<1>4. CASE RescheduleStalledFinalizations
  <2>1. {"finalize_deal"} \in SUBSET (Job \ {"payment_reconcile"})
    BY DEF Job
  <2> QED
    BY <1>4, <2>1, JobsScheduled DEF RescheduleStalledFinalizations
<1>5. ASSUME NEW i \in Id, ReconcileOrphan(i) PROVE Grows
  <2>1. IsMinted(i)
    BY <1>5 DEF ReconcileOrphan, Unknown, IsMinted
  <2> QED
    BY <1>5, <2>1, JobsScheduled DEF ReconcileOrphan
<1>6. ASSUME NEW i \in Id, CallbackFailed(i) PROVE Grows
  <2>1. UNCHANGED reconciles /\ (job' = job \/ job' = Scheduled({"payment_release"}))
    BY <1>6 DEF CallbackFailed
  <2>2. {"payment_release"} \in SUBSET (Job \ {"payment_reconcile"})
    BY DEF Job
  <2> QED
    BY <2>1, <2>2, JobsScheduled DEF jobs
<1> QED
  BY <1>1, <1>2, <1>3, <1>4, <1>5, <1>6 DEF Next, Environment

\* Only a run of Step moves, and the others are left alone.
LEMMA OnlyOneMoves ==
  ASSUME TypeInv, NEW r \in Run, Step(r)
  PROVE  Moves(r)
  BY StepMoves, FreshMoves DEF Moved

\* A job has what it needs, and a lease is held by one run at a time.
LEMMA JobsStep ==
  ASSUME TypeInv, Leases, [Next]_vars
  PROVE  /\ job' \in [Job -> {"none", "pending", "held"}] /\ reconciles' \in Id \cup {NoId}
         /\ Reconciles' /\ Leases'
<1> DEFINE Sound == /\ job' \in [Job -> {"none", "pending", "held"}]
                    /\ reconciles' \in Id \cup {NoId} /\ Reconciles' /\ Leases'
<1>1. /\ job \in [Job -> {"none", "pending", "held"}] /\ reconciles \in Id \cup {NoId}
      /\ Reconciles /\ Leases /\ run \in [Run -> RunForm] /\ \A q \in Run : Place(run[q])
  BY WhatIsKnown DEF TypeInv, TypeOK, RunForm
<1>2. /\ run' \in [Run -> RunForm] /\ \A q \in Run : Place(run'[q])
      /\ \A i : IsMinted(i) => IsMinted(i)'
  BY PlacesStep, RowsGrow DEF Places, Place
<1>3. ASSUME NEW q \in Run PROVE /\ run[q].live => run[q].job \in Job
                                 /\ run'[q].live => run'[q].job \in Job \cup {"none"}
                                 /\ run[q].live => run[q].pc # "free"
                                 /\ run[q].live => job[run[q].job] = "held"
  BY <1>1, <1>2 DEF Leases, Place, RunForm
<1>4. ASSUME Grows PROVE job' \in [Job -> {"none", "pending", "held"}]
                         /\ reconciles' \in Id \cup {NoId} /\ Reconciles'
  <2>1. "payment_reconcile" \in Job
    BY DEF Job
  <2> QED
    BY <1>1, <1>2, <1>4, <2>1 DEF Grows, Reconciles, IsMinted
<1>5. ASSUME Grows,
             \A q \in Run : run'[q].live => run[q].live /\ run'[q].job = run[q].job
      PROVE  Leases'
  <2>1. ASSUME NEW q \in Run, run'[q].live
        PROVE  run'[q].pc # "free" /\ job'[run'[q].job] = "held"
    <3>1. run[q].live /\ run'[q].job \in Job /\ job[run'[q].job] = "held"
      BY <1>3, <1>5, <2>1
    <3> QED
      BY <1>2, <1>5, <3>1 DEF Grows, Place, Job
  <2> QED
    BY <1>1, <1>5, <2>1 DEF Leases
<1>6. CASE \A r \in Run : ~LeaseStep(r)
  <2>1. Grows
    BY <1>6, OthersSchedule
  <2>2. ASSUME NEW r \in Run, Step(r) PROVE Leases'
    <3>1. Moves(r) /\ Same(r)
      BY <1>6, <2>2, OnlyOneMoves, SameRun
    <3>2. \A q \in Run : run'[q].live => run[q].live /\ run'[q].job = run[q].job
      BY <3>1 DEF Moves, Same
    <3> QED
      BY <1>5, <2>1, <3>2
  <2>3. CASE UNCHANGED run
    BY <1>4, <1>5, <2>1, <2>3
  <2>4. Environment \/ UNCHANGED vars => UNCHANGED run
    BY EnvironmentRows DEF vars
  <2> QED
    BY <1>4, <2>1, <2>2, <2>3, <2>4 DEF Next
<1>7. ASSUME NEW r \in Run, NEW j \in Job, Claim(r, j) PROVE Sound
  <2>1. /\ job[j] = "pending" /\ job' = [job EXCEPT ![j] = "held"] /\ reconciles' = reconciles
        /\ run' = [run EXCEPT ![r] = [Free EXCEPT !.job = j, !.pc = "start", !.live = TRUE,
                     !.id = IF j = "payment_reconcile" THEN reconciles ELSE NoId]]
    BY <1>7 DEF Claim
  <2>2. run'[r].job = j /\ run'[r].pc = "start" /\ run'[r].live /\ \A q \in Run \ {r} : run'[q] = run[q]
    BY <1>1, <2>1 DEF Free
  <2>3. ASSUME NEW q \in Run \ {r}, run[q].live PROVE run[q].job # j
    BY <1>3, <2>1, <2>3
  <2>4. ASSUME NEW q \in Run, run'[q].live PROVE run'[q].pc # "free" /\ job'[run'[q].job] = "held"
    BY <1>1, <1>3, <2>1, <2>2, <2>3, <2>4
  <2>5. ASSUME NEW p \in Run, NEW q \in Run, run'[p].live, run'[q].live, run'[p].job = run'[q].job
        PROVE  p = q
    BY <1>1, <2>2, <2>3, <2>5 DEF Leases
  <2>6. Reconciles'
    BY <1>1, <1>2, <2>1 DEF Reconciles, IsMinted
  <2> QED
    BY <1>1, <2>1, <2>4, <2>5, <2>6 DEF Leases
<1>8. ASSUME NEW r \in Run, run[r].live, ~run'[r].live, NEW s \in {"none", "pending"},
             Left(run[r].job, s), \A q \in Run \ {r} : run'[q] = run[q]
      PROVE  Sound
  <2>1. /\ job' = [job EXCEPT ![run[r].job] = s] /\ run[r].job \in Job
        /\ job[run[r].job] = "held"
        /\ reconciles' = IF run[r].job = "payment_reconcile" /\ s = "none" THEN NoId ELSE reconciles
    BY <1>3, <1>8 DEF Left
  <2>2. ASSUME NEW q \in Run, run'[q].live
        PROVE  q # r /\ run[q].live /\ run'[q] = run[q] /\ run[q].job # run[r].job
    BY <1>1, <1>8, <2>2 DEF Leases
  <2>3. ASSUME NEW q \in Run, run'[q].live PROVE run'[q].pc # "free" /\ job'[run'[q].job] = "held"
    BY <1>1, <1>3, <2>1, <2>2, <2>3
  <2>4. Leases'
    BY <1>1, <2>2, <2>3 DEF Leases
  <2>5. Reconciles'
    BY <1>1, <1>2, <2>1 DEF Reconciles, IsMinted
  <2> QED
    BY <1>1, <2>1, <2>4, <2>5
<1>9. ASSUME NEW r \in Run, EndStep(r) PROVE Sound
  <2>1. ~run'[r].live /\ \A q \in Run \ {r} : run'[q] = run[q]
    BY <1>1, <1>9 DEF EndStep, Acknowledge, FailAttempt, RunDies, Ends, Free
  <2>2. (run[r].live /\ \E s \in {"none", "pending"} : Left(run[r].job, s)) \/ UNCHANGED jobs
    BY <1>9 DEF EndStep, Acknowledge, FailAttempt, RunDies
  <2>3. CASE UNCHANGED jobs
    <3>1. Grows
      BY <2>3, JobsScheduled
    <3>2. \A q \in Run : run'[q].live => run[q].live /\ run'[q].job = run[q].job
      BY <2>1
    <3> QED
      BY <1>4, <1>5, <3>1, <3>2
  <2> QED
    BY <1>8, <2>1, <2>2, <2>3
<1>10. ASSUME NEW r \in Run, LeaseExpires(r) PROVE Sound
  <2>1. run[r].live /\ ~run'[r].live /\ \A q \in Run \ {r} : run'[q] = run[q]
    BY <1>1, <1>10 DEF LeaseExpires, RunForm
  <2>2. \E s \in {"none", "pending"} : Left(run[r].job, s)
    BY <1>10 DEF LeaseExpires
  <2> QED
    BY <1>8, <2>1, <2>2
<1> QED
  BY <1>6, <1>7, <1>9, <1>10 DEF LeaseStep

-----------------------------------------------------------------------------
(* Where a run comes from *)

\* The places whose meaning depends on how a run got there.
Critical == {"preflight", "arm", "io", "await", "settle",
             "act", "ingest", "conclude", "second_look", "apply_release"}

\* How a run comes to each of the places where it may touch money.
LEMMA Arrivals ==
  ASSUME TypeInv, NEW r \in Run, Step(r), run'[r].pc \in Critical
  PROVE  \/ LeaseExpires(r) /\ run'[r].pc = run[r].pc
         \/ RecoveryStarts(r) \/ FinalizeFence(r)
         \/ BeginAgain(r) \/ BeginFresh(r) \/ ReadStatus(r)
         \/ Arm(r) /\ run'[r].pc = "io"
         \/ Send(r) /\ run'[r].pc = "await"
         \/ (NotSent(r) \/ \E o \in Outcomes : Answer(r, o)) /\ run'[r].pc = "settle"
         \/ BeginBlocked(r) /\ run'[r].pc = "apply_release"
         \/ SettleSuccess(r) /\ run'[r].pc \in {"ingest", "apply_release"}
         \/ SettleDeclined(r) /\ run'[r].pc = "ingest"
         \/ FirstLook(r) /\ run'[r].pc = "second_look"
         \/ ReconcileReads(r) /\ run'[r].pc \in {"conclude", "apply_release"}
<1>1. run \in [Run -> RunForm] /\ run[r] \in RunForm
  BY WhatIsKnown
<1>2. ASSUME NEW p, Go(r, p) PROVE run'[r].pc = p
  BY <1>1, <1>2 DEF Go, RunForm
<1>3. ~(EndStep(r) \/ \E j \in Job : Claim(r, j))
  <2>1. ~EndStep(r)
    BY <1>1 DEF EndStep, Acknowledge, FailAttempt, RunDies, Ends, Free, Critical
  <2>2. ASSUME NEW j \in Job, Claim(r, j) PROVE run'[r].pc = "start"
    BY <1>1, <2>2 DEF Claim, Free
  <2> QED
    BY <2>1, <2>2 DEF Critical
<1>4. CASE LeaseExpires(r)
  BY <1>1, <1>4 DEF LeaseExpires, RunForm
<1>5. \A q : Next1(q) \in {"tail", "sent"}
  BY DEF Next1
<1>6. \A q : Proceeds(q) \in {"begin", "sum"} /\ LookCaptured(q) \in {"sent", "sum"}
  BY DEF Proceeds, LookCaptured
<1>7. ~(HandlerThrows(r) \/ ChargeStarts(r) \/ ReleaseStarts(r) \/ FinalizeStarts(r))
  <2>1. ASSUME HandlerThrows(r) \/ ChargeStarts(r) \/ ReleaseStarts(r) \/ FinalizeStarts(r)
        PROVE  \E p \in {"failed", "begin", "tail", "sent", "list", "unresolved"} : Go(r, p)
    BY <2>1 DEF HandlerThrows, ChargeStarts, ReleaseStarts, FinalizeStarts, StartRail
  <2> QED
    BY <1>2, <2>1 DEF Critical
<1>8. ~ReconcileStarts(r)
  BY <1>1 DEF ReconcileStarts, RunForm, Critical
<1>9. ~(BeginStateChanged(r) \/ BeginFenced(r))
  <2>1. ASSUME BeginStateChanged(r) \/ BeginFenced(r)
        PROVE  \E p \in {"failed", "tail", "sent"} : Go(r, p)
    BY <1>5, <2>1 DEF BeginStateChanged, BeginFenced
  <2> QED
    BY <1>2, <2>1 DEF Critical
<1>10. CASE BeginBlocked(r)
  <2>1. \E i, p : p \in {"apply_release", "reconcile", "tail", "sent"}
                 /\ run' = [run EXCEPT ![r].id = i, ![r].pc = p]
    BY <1>5, <1>10 DEF BeginBlocked
  <2> QED
    BY <1>1, <1>10, <2>1 DEF Critical, RunForm
<1>11. ~(ResolveCaptured(r) \/ ResolveFailed(r) \/ ArmRefused(r) \/ Ingest(r) \/ Reconcile(r)
         \/ ApplyRelease(r) \/ ScheduleRelease(r) \/ ToCompletionWindow(r) \/ SecondLook(r)
         \/ SettleNotSent(r) \/ SettleUnknown(r))
  BY <1>2, <1>5, <1>6 DEF ResolveCaptured, ResolveFailed, ArmRefused, Ingest, Reconcile, ApplyRelease,
     ScheduleRelease, ToCompletionWindow, SecondLook, SettleNotSent, SettleUnknown, Critical
<1>12. CASE Arm(r)
  BY <1>2, <1>12 DEF Arm
<1>13. CASE Send(r)
  BY <1>2, <1>13 DEF Send
<1>14. CASE NotSent(r) \/ \E o \in Outcomes : Answer(r, o)
  BY <1>1, <1>14 DEF NotSent, Answer, RunForm
<1>15. CASE FirstLook(r)
  <2>1. ASSUME Open("recovery", at) # {} PROVE FALSE
    BY <1>2, <1>6, <1>15, <2>1 DEF FirstLook, Critical
  <2>2. Open("recovery", at) = {}
    BY <2>1
  <2> DEFINE e == Exact(Target)
  <2>3. PICK s \in Answers :
          run' = [run EXCEPT ![r].pc = "second_look", ![r].id = Target, ![r].seen = s, ![r].noted = e]
    BY <1>15, <2>2 DEF FirstLook
  <2> HIDE DEF e
  <2> QED
    BY <1>1, <1>15, <2>3 DEF RunForm
<1>16. ~(ReconcileRecorded(r) \/ ReconcileRetires(r) \/ ReconcileSibling(r) \/ ReconcileLooks(r)
         \/ ConcludeCaptured(r) \/ ConcludeNotCaptured(r) \/ ScheduleRecovery(r)
         \/ ConcludeNotReleased(r) \/ ConcludePending(r))
  <2>1. ASSUME \/ ReconcileRecorded(r) \/ ReconcileRetires(r) \/ ReconcileSibling(r) \/ ReconcileLooks(r)
               \/ ConcludeCaptured(r) \/ ConcludeNotCaptured(r) \/ ScheduleRecovery(r)
               \/ ConcludeNotReleased(r) \/ ConcludePending(r)
        PROVE  \E p \in {"sent", "failed", "schedule_release", "schedule_recovery", "retire", "flight",
                         "status"} : Go(r, p)
    BY <2>1 DEF ReconcileRecorded, ReconcileRetires, ReconcileSibling, ReconcileLooks, ConcludeCaptured,
       ConcludeNotCaptured, ScheduleRecovery, ConcludeNotReleased, ConcludePending
  <2> QED
    BY <1>2, <2>1 DEF Critical
<1>17. CASE ReconcileReads(r)
  <2>1. \/ \E s : run' = [run EXCEPT ![r].pc = "conclude", ![r].seen = s]
        \/ \E p \in {"apply_release", "sent", "failed"} : Go(r, p)
    BY <1>17 DEF ReconcileReads
  <2> QED
    BY <1>1, <1>2, <1>17, <2>1 DEF Critical, RunForm
<1>18. ~(FinalizeUnresolved(r) \/ FinalizeDecides(r) \/ Outcome(r))
  BY <1>2 DEF FinalizeUnresolved, FinalizeDecides, Outcome, Critical
<1>19. ~(FinalizeSums(r) \/ ListParticipants(r))
  BY <1>1 DEF FinalizeSums, ListParticipants, Critical, RunForm
<1>20. CASE SettleSuccess(r) \/ SettleDeclined(r)
  <2>1. \/ SettleSuccess(r) /\ (Go(r, "apply_release") \/ Go(r, "ingest"))
        \/ SettleDeclined(r) /\ \E p \in {"failed", "sent", "ingest"} : Go(r, p)
    BY <1>20 DEF SettleSuccess, SettleDeclined
  <2> QED
    BY <1>2, <2>1 DEF Critical
<1> QED
  BY <1>3, <1>4, <1>7, <1>8, <1>9, <1>10, <1>11, <1>12, <1>13, <1>14, <1>15, <1>16, <1>17, <1>18, <1>19, <1>20
     DEF Step, EndStep

\* A look has a capture to look at: the recovery is of a participant whose
\* charge failed, the late look of a decision is at a failure that was inferred.
LEMMA TargetsStep ==
  ASSUME TypeInv, [Next]_vars
  PROVE  Targets'
<1>1. Failing' /\ (SomeCapture => SomeCapture')
  BY ParticipantStep
<1>2. Failing /\ \A q \in Run : run[q].pc = "preflight" => SomeCapture
  BY DEF TypeInv, Targets
<1>3. CASE UNCHANGED run
  BY <1>1, <1>2, <1>3 DEF Targets
<1>4. ASSUME NEW r \in Run, Step(r) PROVE Targets'
  <2>1. \A q \in Run \ {r} : run'[q] = run[q]
    BY <1>4, OnlyOneMoves DEF Moves
  <2>2. ASSUME run'[r].pc = "preflight" PROVE SomeCapture
    <3>1. CASE LeaseExpires(r) /\ run'[r].pc = run[r].pc
      BY <1>2, <2>2, <3>1
    <3>2. CASE RecoveryStarts(r)
      <4>1. Waits(<<"recovery", 1>>) \/ \E p \in {"sent", "failed"} : Go(r, p)
        BY <3>2 DEF RecoveryStarts, StartRail
      <4>2. ASSUME NEW p \in {"sent", "failed"}, Go(r, p) PROVE FALSE
        BY <2>2, <4>2, WhatIsKnown DEF Go, RunForm
      <4> QED
        BY <1>2, <4>1, <4>2 DEF Waits, participant, Failing
    <3>3. CASE FinalizeFence(r)
      <4>1. LateLook \/ \E p \in {"sent", "failed", "sum"} : Go(r, p)
        BY <3>3 DEF FinalizeFence
      <4>2. ASSUME NEW p \in {"sent", "failed", "sum"}, Go(r, p) PROVE FALSE
        BY <2>2, <4>2, WhatIsKnown DEF Go, RunForm
      <4> QED
        BY <4>1, <4>2 DEF LateLook, Fenced, SomeCapture
    <3>4. ~(BeginAgain(r) \/ BeginFresh(r))
      <4>1. ASSUME BeginAgain(r) \/ BeginFresh(r)
            PROVE  \E i : \E p \in {"arm", "resolve", "tail", "sent"} : run' = [run EXCEPT ![r].id = i, ![r].pc = p]
        BY <4>1 DEF BeginAgain, BeginFresh, Next1
      <4> QED
        BY <2>2, <4>1, WhatIsKnown DEF RunForm
    <3>5. ~ReadStatus(r)
      <4>1. ASSUME ReadStatus(r)
            PROVE  \/ \E s : run' = [run EXCEPT ![r].pc = "act", ![r].seen = s]
                   \/ \E p \in {"arm", "apply_release", "reconcile", "tail", "sent"} : Go(r, p)
        BY <4>1 DEF ReadStatus, Next1
      <4> QED
        BY <2>2, <4>1, WhatIsKnown DEF Go, RunForm
    <3> QED
      BY <1>4, <2>2, <3>1, <3>2, <3>3, <3>4, <3>5, Arrivals DEF Critical
  <2> QED
    BY <1>1, <1>2, <2>1, <2>2 DEF Targets
<1> QED
  BY <1>3, <1>4, EnvironmentRows DEF Next, vars

\* The provider knows identities that were minted and sent.
LEMMA RequestsStep ==
  ASSUME TypeInv, [Next]_vars
  PROVE  wire' \subseteq Id /\ executed' \subseteq Id /\ sent' \in [Id -> 0..2] /\ Requests'
<1>1. wire \subseteq Id /\ executed \subseteq Id /\ sent \in [Id -> 0..2] /\ Requests
  BY DEF TypeInv, TypeOK
<1>2. \A i \in Id : at[i].result # "none" => at'[i].result # "none"
  BY RowsGrow DEF IsMinted
<1>3. ASSUME wire' \subseteq wire, executed' \subseteq executed \cup wire, sent' = sent
      PROVE  wire' \subseteq Id /\ executed' \subseteq Id /\ sent' \in [Id -> 0..2] /\ Requests'
  BY <1>1, <1>2, <1>3 DEF Requests
<1>4. ASSUME NEW r \in Run, Send(r)
      PROVE  wire' \subseteq Id /\ executed' \subseteq Id /\ sent' \in [Id -> 0..2] /\ Requests'
  <2>1. PICK i \in Id : i = run[r].id /\ at[i].result # "none"
    BY <1>4, WhatIsKnown DEF Send, At, KnowsId, Working, Operation, IsMinted
  <2>2. /\ wire' \subseteq wire \cup {i} /\ executed' = executed
        /\ sent' = [sent EXCEPT ![i] = IF @ = 0 \/ policy.repeatSafe THEN 1 ELSE 2]
    BY <1>4, <2>1 DEF Send
  <2>3. sent' \in [Id -> 0..2] /\ sent'[i] > 0 /\ \A k \in Id \ {i} : sent'[k] = sent[k]
    BY <1>1, <2>2
  <2> QED
    BY <1>1, <1>2, <2>1, <2>2, <2>3 DEF Requests
<1>5. ASSUME NEW r \in Run, Step(r), ~Send(r)
      PROVE  wire' \subseteq wire /\ executed' \subseteq executed \cup wire /\ sent' = sent
  BY <1>5, Grouped, SilentStep, JobStepRows, RowStepRest, MoneyStepRest, EndStepRest
     DEF SendStep, Answer, BeginFresh, provider
<1>6. ASSUME UNCHANGED vars \/ Environment
      PROVE  wire' \subseteq wire /\ executed' \subseteq executed \cup wire /\ sent' = sent
  BY <1>6 DEF vars, Environment, RescheduleStalledFinalizations, WindowCloses, ReconcileOrphan,
     HorizonElapses, Execute, Lose, CallbackCaptured, CallbackFailed, provider
<1> QED
  BY <1>3, <1>4, <1>5, <1>6 DEF Next

\* Every step preserves types, places, identities and leases.
LEMMA TypeStep == TypeInv /\ Leases /\ [Next]_vars => (TypeInv /\ Leases)'
<1> SUFFICES ASSUME TypeInv, Leases, [Next]_vars PROVE (TypeInv /\ Leases)'
  OBVIOUS
<1>1. at' \in [Id -> Row] /\ Contiguous'
  BY RowsGrow
<1>2. run' \in [Run -> RunForm] /\ Places'
  BY PlacesStep
<1>3. job' \in [Job -> {"none", "pending", "held"}] /\ reconciles' \in Id \cup {NoId} /\ Reconciles' /\ Leases'
  BY JobsStep
<1>4. /\ policy' \in Policies /\ scope' \in Scopes[policy']
      /\ others' \in {"unknown", "enough", "pivotal", "short"}
      /\ deal' \in {"Charging", "CompletionWindow", "Completed", "Failed"}
      /\ window' \in {"unset", "open", "over"}
      /\ buyer' \in BuyerStates /\ money' \in MoneyStates
  BY ParticipantStep
<1>5. wire' \subseteq Id /\ executed' \subseteq Id /\ sent' \in [Id -> 0..2] /\ Requests'
  BY RequestsStep
<1>6. TypeOK'
  BY <1>1, <1>2, <1>3, <1>4, <1>5 DEF TypeOK, RunForm, BuyerStates, MoneyStates
<1> QED
  BY <1>1, <1>2, <1>3, <1>5, <1>6, TargetsStep DEF TypeInv

\* They hold in the beginning.
LEMMA TypeInit == Init => TypeInv /\ Leases
<1> SUFFICES ASSUME Init PROVE TypeInv /\ Leases
  OBVIOUS
<1>1. Absent \in Row /\ Free \in RunForm /\ Place(Free) /\ OwnRail(Free) /\ KnowsId(Free)
  BY DEF Absent, Row, Free, RunForm, Pc, Seen, Place, OwnRail, KnowsId, Working, Operation, Looking,
     Reconciling, Finalizing
<1>2. at \in [Id -> Row] /\ \A i \in Id : at[i] = Absent
  BY <1>1 DEF Init
<1>3. run \in [Run -> RunForm] /\ \A r \in Run : run[r] = Free
  BY <1>1 DEF Init
<1>4. TypeOK
  BY <1>2, <1>3 DEF Init, TypeOK, RunForm, Job
<1>5. Contiguous
  BY <1>2 DEF Contiguous, IsMinted, Absent
<1>6. Places
  BY <1>1, <1>3 DEF Places
<1>7. Reconciles
  BY DEF Init, Reconciles, Job
<1>8. Targets
  BY <1>3 DEF Init, Targets, Failing, Free
<1>9. Requests
  BY DEF Init, Requests
<1>10. Leases
  BY <1>3 DEF Leases, Free
<1> QED
  BY <1>4, <1>5, <1>6, <1>7, <1>8, <1>9, <1>10 DEF TypeInv

\* Every variable keeps its type, whatever the handlers, the worker and the
\* provider do: a handler never holds an identity that was not minted where it
\* needs one, and the next identity of a rail is always the first free number.
THEOREM TypeCorrect == Spec => []TypeOK
<1>1. Init => TypeInv /\ Leases
  BY TypeInit
<1>2. TypeInv /\ Leases /\ [Next]_vars => (TypeInv /\ Leases)'
  BY TypeStep
<1>3. TypeInv /\ Leases => TypeOK
  BY DEF TypeInv
<1> QED
  BY <1>1, <1>2, <1>3, PTL DEF Spec

-----------------------------------------------------------------------------
(* How a row changes *)

\* The clock's column alone, or nothing: a horizon is opened, or ends.
Ticks(i) == at'[i].horizon \in {at[i].horizon, "open"} \/ HorizonElapses(i)
Clocked(i) == at'[i] = [at[i] EXCEPT !.horizon = at'[i].horizon] /\ Ticks(i)
Retires(i) ==
  Recorded(i) /\ at[i].owner = "null" /\ at'[i] = [at[i] EXCEPT !.result = "temporary_fail"]
Mints(i) == at[i].result = "none" /\ at'[i] = [Absent EXCEPT !.result = "unknown"]
Arms(q, i) ==
  /\ Arm(q) /\ i = run[q].id
  /\ at'[i] = [at[i] EXCEPT !.dispatch = "dispatching", !.owner = q, !.horizon = at'[i].horizon]
  /\ Ticks(i)
Succeeds(i) == at'[i] = [at[i] EXCEPT !.result = "success", !.dispatch = "responded"]
SucceedsBy(q, i) == Succeeds(i) /\ i = run[q].id /\ (MoneyStep(q) \/ SettleSuccess(q))
TakesBack(q, i) ==
  /\ SettleNotSent(q) /\ i = run[q].id /\ at[i].owner = q
  /\ at'[i] = [at[i] EXCEPT !.dispatch = "recorded", !.owner = "null"]
\* What a run settles of a row it owns, or of one that nobody owns.
Settles(q, i) ==
  /\ i = run[q].id /\ Mine(q)
  /\ \/ /\ SettleUnknown(q) /\ at'[i].evidence = at[i].evidence
        /\ at'[i].result = IF Final(i) THEN at[i].result ELSE "unknown"
     \/ /\ SettleDeclined(q) /\ at'[i].evidence = "dispatch_response"
        /\ at'[i].result = IF at[i].result = "success" THEN "success" ELSE "permanent_fail"
  /\ at'[i] = [at[i] EXCEPT !.dispatch = "responded", !.evidence = at'[i].evidence,
                            !.result = at'[i].result]
\* The failure of an operation that nobody answered for.
Infers(i) ==
  /\ ~AnyInFlight /\ ~Final(i)
  /\ i[1] = "release" \/ (IngestFailed(i) /\ at'[i].evidence = "inferred")
  /\ at'[i] = [at[i] EXCEPT !.result = "permanent_fail", !.dispatch = "responded",
                            !.evidence = at'[i].evidence]
Disowns(q, i) == at[i].owner = q /\ at'[i] = [at[i] EXCEPT !.owner = "gone"]

\* One row that is written, and its field of the clock.
LEMMA OneRowWritten ==
  ASSUME TypeInv, NEW k \in Id, NEW i \in Id, NEW q, at' = [at EXCEPT ![k] = q], i # k
  PROVE  Clocked(i)
<1>1. at \in [Id -> Row] /\ at'[i] = at[i] /\ at[i] \in Row
  BY DEF TypeInv, TypeOK
<1> QED
  BY <1>1 DEF Clocked, Ticks, Row

\* A row that is not written has at most been passed by the clock.
LEMMA SameRow ==
  ASSUME TypeInv, NEW i \in Id, at'[i] = at[i]
  PROVE  Clocked(i)
  BY DEF TypeInv, TypeOK, Clocked, Ticks, Row

\* The events about a capture, and the horizon.
LEMMA EventWrites ==
  ASSUME TypeInv, NEW k \in Id, NEW i \in Id,
         at' = at \/ at' = Succeeded(k) \/ IngestFailed(k) \/ at' = Extended(at, k)
  PROVE  \/ Clocked(i) \/ Infers(i)
         \/ i = k /\ Succeeds(i) /\ at' = Succeeded(k)
<1>1. at \in [Id -> Row] /\ at[k] \in Row /\ at[i] \in Row
  BY DEF TypeInv, TypeOK
<1>2. CASE at' = at
  BY <1>2, SameRow
<1>3. CASE at' = Succeeded(k)
  <2>1. at' = [at EXCEPT ![k] = [at[k] EXCEPT !.result = "success", !.dispatch = "responded"]]
    BY <1>1, <1>3 DEF Succeeded, Row
  <2>2. CASE i = k
    BY <1>1, <2>1, <1>3, <2>2 DEF Succeeds
  <2> QED
    BY <1>1, <2>1, <2>2, OneRowWritten
<1>4. CASE IngestFailed(k)
  <2> DEFINE q == [at[k] EXCEPT !.result = "permanent_fail", !.dispatch = "responded",
                                !.evidence = "inferred"]
  <2>1. at' = at \/ (~Final(k) /\ at' = [at EXCEPT ![k] = q])
    BY <1>1, <1>4 DEF Inferred, IngestFailed, Row
  <2>2. CASE i = k /\ ~Final(k) /\ at' = [at EXCEPT ![k] = q]
    <3>1. at'[i] = q /\ q.evidence = "inferred"
      BY <1>1, <2>2 DEF Row
    <3>2. ~AnyInFlight /\ IngestFailed(i)
      BY <1>4, <2>2 DEF IngestFailed
    <3> QED
      BY <1>1, <2>2, <3>1, <3>2 DEF Infers, Row
  <2> HIDE DEF q
  <2> QED
    BY <1>1, <1>2, <2>1, <2>2, OneRowWritten
<1>5. CASE at' = Extended(at, k)
  <2>1. at' = at \/ at' = [at EXCEPT ![k] = [at[k] EXCEPT !.horizon = "open"]]
    BY <1>1, <1>5 DEF Extended, Row
  <2>2. CASE i = k /\ at' = [at EXCEPT ![k] = [at[k] EXCEPT !.horizon = "open"]]
    BY <1>1, <2>2 DEF Clocked, Ticks, Row
  <2> QED
    BY <1>1, <1>2, <2>1, <2>2, OneRowWritten
<1> QED
  BY <1>2, <1>3, <1>4, <1>5

\* A retired row is one that nobody holds.
LEMMA RetiredWrites ==
  ASSUME TypeInv, NEW i \in Id, NEW types, at' = Retired(types)
  PROVE  Clocked(i) \/ Retires(i)
<1>1. at \in [Id -> Row] /\ at[i] \in Row
  BY DEF TypeInv, TypeOK
<1>2. at'[i] = at[i] \/ Retires(i)
  BY <1>1 DEF Retired, Retires
<1> QED
  BY <1>2, SameRow

\* Every way in which a handler changes a row.
Changes(q, i) ==
  \/ Clocked(i) \/ Retires(i) \/ Mints(i) \/ Arms(q, i) \/ SucceedsBy(q, i)
  \/ TakesBack(q, i) \/ Settles(q, i) \/ Infers(i) \/ Disowns(q, i)

\* What a step of run q may do to the row of i, whoever holds it.
LEMMA RowChanges ==
  ASSUME TypeInv, NEW q \in Run, Step(q), NEW i \in Id
  PROVE  Changes(q, i)
<1>1. at \in [Id -> Row] /\ at[i] \in Row
  BY DEF TypeInv, TypeOK
<1> DEFINE k == run[q].id
<1>2. CASE at' = at
  BY <1>2, SameRow DEF Changes
<1>3. CASE EndStep(q)
  <2>1. at'[i] = at[i] \/ Disowns(q, i)
    BY <1>1, <1>3, EndStepRest DEF Disowned, Disowns
  <2> QED
    BY <2>1, SameRow DEF Changes
<1>4. ASSUME NEW types, at' = Retired(types) PROVE Changes(q, i)
  BY <1>4, RetiredWrites DEF Changes
<1>5. CASE BeginFresh(q)
  <2>1. PICK j \in Id :
          /\ at[j].result = "none"
          /\ at' = [Retired(Conflicting(Rail(q))) EXCEPT ![j] = [Absent EXCEPT !.result = "unknown"]]
    BY <1>5, FreshMoves
  <2> DEFINE a == Retired(Conflicting(Rail(q)))
  <2>2. a \in [Id -> Row]
    BY RetiredKeeps DEF TypeInv, SameMinted
  <2>3. a[i] = at[i] \/ (Recorded(i) /\ at[i].owner = "null" /\ a[i] = [at[i] EXCEPT !.result = "temporary_fail"])
    BY <1>1 DEF Retired
  <2> HIDE DEF a
  <2>4. at' = [a EXCEPT ![j] = [Absent EXCEPT !.result = "unknown"]]
    BY <2>1 DEF a
  <2>5. CASE i = j
    BY <2>1, <2>2, <2>4, <2>5 DEF Mints, Changes
  <2>6. CASE i # j
    <3>1. at'[i] = a[i]
      BY <2>2, <2>4, <2>6
    <3> QED
      BY <2>3, <3>1, SameRow DEF Changes, Retires
  <2> QED
    BY <2>5, <2>6
<1>6. CASE MoneyStep(q)
  <2>1. k \in Id
    BY <1>6, WhatIsKnown DEF MoneyStep, ResolveCaptured, ResolveFailed, Ingest, ApplyRelease, SecondLook,
         ConcludeCaptured, ConcludeNotCaptured, At, KnowsId, Working, Operation, Reconciling, IsMinted
  <2>2. at' = at \/ at' = Succeeded(k) \/ IngestFailed(k) \/ at' = Extended(at, k)
    BY <1>6 DEF MoneyStep, ResolveCaptured, ResolveFailed, Ingest, ApplyRelease, SecondLook,
         ConcludeCaptured, ConcludeNotCaptured, IngestCaptured, IngestFailed
  <2> QED
    BY <1>6, <2>1, <2>2, EventWrites DEF Changes, SucceedsBy
<1>7. CASE BeginStateChanged(q) \/ BeginBlocked(q) \/ BeginFenced(q) \/ BeginAgain(q)
           \/ ArmRefused(q) \/ ReconcileRetires(q)
  BY <1>2, <1>4, <1>7 DEF BeginStateChanged, BeginBlocked, BeginFenced, BeginAgain, Begins, ArmRefused,
     ReconcileRetires
<1>8. ASSUME Arm(q) \/ SettleSuccess(q) \/ SettleNotSent(q) \/ SettleUnknown(q) \/ SettleDeclined(q)
             \/ ConcludeNotReleased(q) \/ ConcludePending(q)
      PROVE  k \in Id /\ at[k] \in Row
  BY <1>1, <1>8, WhatIsKnown DEF Arm, SettleSuccess, SettleNotSent, SettleUnknown, SettleDeclined,
     ConcludeNotReleased, ConcludePending, At, KnowsId, Working, Operation, Reconciling, IsMinted
<1>9. ASSUME NEW w, k \in Id, at' = [at EXCEPT ![k] = w], i # k PROVE Changes(q, i)
  BY <1>9, OneRowWritten DEF Changes
<1>10. CASE Arm(q)
  <2> DEFINE w == [at[k] EXCEPT !.dispatch = "dispatching", !.owner = q]
             h == [w EXCEPT !.horizon = "open"]
  <2>1. at' = [at EXCEPT ![k] = w] \/ at' = [at EXCEPT ![k] = h]
    BY <1>1, <1>8, <1>10 DEF Arm, Armed, Extended, Row
  <2>2. CASE i = k
    <3>1. at'[i] = [at[i] EXCEPT !.dispatch = "dispatching", !.owner = q, !.horizon = at'[i].horizon]
      BY ZenonT(60), <1>1, <1>8, <1>10, <2>1, <2>2 DEF Row
    <3>2. at'[i] = w \/ at'[i] = h
      BY <1>1, <2>1, <2>2
    <3>3. w.horizon = at[i].horizon /\ h.horizon = "open"
      BY <1>1, <2>2 DEF Row
    <3> HIDE DEF w, h
    <3>4. Ticks(i)
      BY <3>2, <3>3 DEF Ticks
    <3> QED
      BY <1>10, <2>2, <3>1, <3>4 DEF Arms, Changes
  <2> HIDE DEF w, h
  <2> QED
    BY <1>8, <1>9, <1>10, <2>1, <2>2
<1>11. CASE SettleSuccess(q)
  <2>1. at' = Succeeded(k) /\ k \in Id
    BY <1>8, <1>11 DEF SettleSuccess
  <2> QED
    BY <1>11, <2>1, EventWrites DEF Changes, SucceedsBy
<1>12. CASE ConcludePending(q)
  <2>1. at' = Extended(at, k) /\ k \in Id
    BY <1>8, <1>12 DEF ConcludePending
  <2>2. Clocked(i)
    <3>1. at' = at \/ at' = [at EXCEPT ![k] = [at[k] EXCEPT !.horizon = "open"]]
      BY <1>1, <2>1 DEF Extended, Row
    <3>2. CASE i = k /\ at' = [at EXCEPT ![k] = [at[k] EXCEPT !.horizon = "open"]]
      BY <1>1, <3>2 DEF Clocked, Ticks, Row
    <3> QED
      BY <1>1, <2>1, <3>1, <3>2, OneRowWritten, SameRow
  <2> QED
    BY <2>2 DEF Changes
<1>13. CASE SettleNotSent(q)
  <2> DEFINE w == [at[k] EXCEPT !.dispatch = "recorded", !.owner = "null"]
  <2>1. at' = at \/ (at[k].owner = q /\ at' = [at EXCEPT ![k] = w])
    BY <1>1, <1>8, <1>13 DEF SettleNotSent, Row
  <2>2. CASE i = k /\ at[k].owner = q /\ at' = [at EXCEPT ![k] = w]
    BY <1>1, <1>8, <1>13, <2>2 DEF TakesBack, Changes
  <2> HIDE DEF w
  <2> QED
    BY <1>2, <1>8, <1>9, <1>13, <2>1, <2>2
<1>14. CASE SettleUnknown(q)
  <2> DEFINE w == [at[k] EXCEPT !.dispatch = "responded", !.result = IF Final(k) THEN @ ELSE "unknown"]
  <2>1. at' = at \/ (Mine(q) /\ at' = [at EXCEPT ![k] = w])
    BY <1>1, <1>8, <1>14 DEF SettleUnknown, Row
  <2>2. CASE i = k /\ Mine(q) /\ at' = [at EXCEPT ![k] = w]
    <3>1. /\ at'[i] = [at[i] EXCEPT !.dispatch = "responded", !.evidence = at'[i].evidence,
                                    !.result = at'[i].result]
          /\ at'[i].evidence = at[i].evidence
          /\ at'[i].result = IF Final(i) THEN at[i].result ELSE "unknown"
      BY <1>1, <1>8, <1>14, <2>2 DEF Row
    <3> QED
      BY <1>14, <2>2, <3>1 DEF Settles, Changes
  <2> HIDE DEF w
  <2> QED
    BY <1>2, <1>8, <1>9, <1>14, <2>1, <2>2
<1>15. CASE SettleDeclined(q)
  <2> DEFINE w == [at[k] EXCEPT !.dispatch = "responded", !.evidence = "dispatch_response",
                                !.result = IF @ = "success" THEN @ ELSE "permanent_fail"]
  <2>1. at' = at \/ (Mine(q) /\ at' = [at EXCEPT ![k] = w])
    BY <1>1, <1>8, <1>15 DEF SettleDeclined, Row
  <2>2. CASE i = k /\ Mine(q) /\ at' = [at EXCEPT ![k] = w]
    <3>1. /\ at'[i] = [at[i] EXCEPT !.dispatch = "responded", !.evidence = at'[i].evidence,
                                    !.result = at'[i].result]
          /\ at'[i].evidence = "dispatch_response"
          /\ at'[i].result = IF at[i].result = "success" THEN "success" ELSE "permanent_fail"
      BY <1>1, <1>8, <1>15, <2>2 DEF Row
    <3> QED
      BY <1>15, <2>2, <3>1 DEF Settles, Changes
  <2> HIDE DEF w
  <2> QED
    BY <1>2, <1>8, <1>9, <1>15, <2>1, <2>2
<1>16. CASE ConcludeNotReleased(q)
  <2> DEFINE w == [at[k] EXCEPT !.result = "permanent_fail", !.dispatch = "responded"]
  <2>1. at' = at \/ (~AnyInFlight /\ ~Final(k) /\ at' = [at EXCEPT ![k] = w])
    BY <1>1, <1>8, <1>16 DEF ConcludeNotReleased, Row
  <2>2. CASE i = k /\ ~AnyInFlight /\ ~Final(k) /\ at' = [at EXCEPT ![k] = w]
    <3>1. at'[i] = w /\ w.evidence = at[i].evidence
      BY <1>1, <1>8, <1>16, <2>2 DEF Row
    <3>2. i[1] = "release"
      BY <1>16, <2>2 DEF ConcludeNotReleased, IsRelease
    <3>3. at'[i] = [at[i] EXCEPT !.result = "permanent_fail", !.dispatch = "responded", !.evidence = at'[i].evidence]
      BY <1>1, <2>2, <3>1 DEF Row
    <3> QED
      BY <2>2, <3>2, <3>3 DEF Infers, Changes
  <2> HIDE DEF w
  <2> QED
    BY <1>2, <1>8, <1>9, <1>16, <2>1, <2>2
<1>17. CASE Silent(q) \/ JobStep(q) \/ SendStep(q)
  BY <1>2, <1>17, SilentStep, JobStepRows, SendStepRest
<1> QED
  BY <1>3, <1>5, <1>6, <1>7, <1>10, <1>11, <1>12, <1>13, <1>14, <1>15, <1>16, <1>17, Grouped DEF RowStep

\* What may happen to it outside the runs: a callback or the clock.
LEMMA EnvironmentChanges ==
  ASSUME TypeInv, Environment, NEW i \in Id
  PROVE  Clocked(i) \/ (Succeeds(i) /\ CallbackCaptured(i)) \/ Infers(i)
<1>1. at \in [Id -> Row] /\ at[i] \in Row
  BY DEF TypeInv, TypeOK
<1>2. CASE at' = at
  BY <1>2, SameRow
<1>3. ASSUME NEW k \in Id, HorizonElapses(k) PROVE Clocked(i)
  <2>1. at' = [at EXCEPT ![k] = [at[k] EXCEPT !.horizon = "elapsed"]]
    BY <1>1, <1>3 DEF HorizonElapses, Row
  <2>2. CASE i = k
    BY <1>1, <1>3, <2>1, <2>2 DEF Clocked, Ticks, Row
  <2> QED
    BY <1>1, <2>1, <2>2, OneRowWritten
<1>4. ASSUME NEW k \in Id, CallbackCaptured(k)
      PROVE  Clocked(i) \/ (Succeeds(i) /\ CallbackCaptured(i)) \/ Infers(i)
  <2>1. at' = Succeeded(k)
    BY <1>4 DEF CallbackCaptured, IngestCaptured
  <2> QED
    BY <1>4, <2>1, EventWrites
<1>5. ASSUME NEW k \in Id, CallbackFailed(k)
      PROVE  Clocked(i) \/ Infers(i)
  <2> DEFINE q == [at[k] EXCEPT !.result = "permanent_fail", !.dispatch = "responded",
                                !.evidence = "inferred"]
  <2>1. at' = at \/ (~Final(k) /\ ~AnyInFlight /\ at' = [at EXCEPT ![k] = q])
    BY <1>1, <1>5 DEF Inferred, Row, CallbackFailed, IngestFailed
  <2>2. q.result = "permanent_fail" /\ q.evidence = "inferred"
    BY <1>1 DEF Row
  <2>3. ASSUME i = k, ~Final(k), ~AnyInFlight, at' = [at EXCEPT ![k] = q] PROVE Infers(i)
    <3>1. at'[i] = q /\ IngestFailed(i)
      BY <1>1, <1>5, <2>3 DEF CallbackFailed
    <3> QED
      BY <1>1, <2>2, <2>3, <3>1 DEF Infers, Row
  <2> HIDE DEF q
  <2> QED
    BY <1>1, <1>2, <2>1, <2>3, OneRowWritten, SameRow
<1> QED
  BY <1>2, <1>3, <1>4, <1>5 DEF Environment, RescheduleStalledFinalizations, WindowCloses,
     ReconcileOrphan, Execute, Lose

-----------------------------------------------------------------------------
(* A row that is in flight *)

\* The row of a live run: in flight, or found to have succeeded.
HeldRow(r, i) ==
  /\ at[i].owner = r /\ run[r].live
  /\ \/ at[i].result = "unknown" /\ at[i].dispatch = "dispatching"
     \/ at[i].result = "success" /\ at[i].dispatch = "responded"

\* Nobody but its owner touches a held row, unless to record a success.
LEMMA OthersLeave ==
  ASSUME TypeInv, NEW r \in Run, NEW i \in Id, HeldRow(r, i),
         \/ \E q \in Run \ {r} : Step(q)
         \/ Environment \/ UNCHANGED vars
  PROVE  (Clocked(i) \/ Succeeds(i)) /\ run'[r] = run[r]
<1>1. at[i] \in Row /\ r # "null"
  BY RailsAssumption DEF TypeInv, TypeOK
<1>2. ~Recorded(i) /\ (Unknown(i) => InFlight(i)) /\ (AnyInFlight \/ Final(i))
  BY DEF HeldRow, Recorded, Unknown, InFlight, AnyInFlight, Final
<1>3. ~Infers(i) /\ ~Retires(i) /\ ~Mints(i)
  BY <1>2 DEF Infers, Retires, Mints, HeldRow
<1>4. ASSUME NEW q \in Run \ {r}, Step(q) PROVE (Clocked(i) \/ Succeeds(i)) /\ run'[r] = run[r]
  <2>1. ~TakesBack(q, i) /\ ~Disowns(q, i)
    BY DEF TakesBack, Disowns, HeldRow
  <2>2. ~Settles(q, i)
    BY <1>1 DEF Settles, Mine, HeldRow
  <2>3. ~Arms(q, i)
    BY <1>2 DEF Arms, Arm, Armable
  <2>4. Clocked(i) \/ Succeeds(i)
    BY <1>3, <1>4, <2>1, <2>2, <2>3, RowChanges DEF Changes, SucceedsBy
  <2> QED
    BY <1>4, <2>4, OnlyOneMoves DEF Moves
<1>5. CASE Environment
  BY <1>3, <1>5, EnvironmentChanges, EnvironmentRows
<1>6. CASE UNCHANGED vars
  BY <1>6, SameRow DEF vars
<1> QED
  BY <1>4, <1>5, <1>6

\* A run at the request holds its row, from the arm on.
LEMMA ArmedStep ==
  ASSUME TypeInv, Leases, Armed1, [Next]_vars
  PROVE  Armed1'
<1> SUFFICES ASSUME NEW r \in Run, run'[r].pc = "io"
             PROVE  /\ run'[r].live /\ at'[run'[r].id].owner = r
                    /\ \/ at'[run'[r].id].result = "unknown" /\ at'[run'[r].id].dispatch = "dispatching"
                       \/ at'[run'[r].id].result = "success" /\ at'[run'[r].id].dispatch = "responded"
  BY DEF Armed1
<1>1. at \in [Id -> Row] /\ run \in [Run -> RunForm]
  BY DEF TypeInv, TypeOK, RunForm
<1>2. CASE Step(r)
  <2>1. Arm(r)
    <3>1. ~(LeaseExpires(r) /\ run'[r].pc = run[r].pc)
      BY DEF LeaseExpires, At
    <3>2. ~(BeginAgain(r) \/ BeginFresh(r))
      <4>1. ASSUME BeginAgain(r) \/ BeginFresh(r)
            PROVE  \E i : \E p \in {"arm", "resolve", "tail", "sent"} : run' = [run EXCEPT ![r].id = i, ![r].pc = p]
        BY <4>1 DEF BeginAgain, BeginFresh, Next1
      <4> QED
        BY <4>1, WhatIsKnown DEF RunForm
    <3>3. ~(ReadStatus(r) \/ RecoveryStarts(r) \/ FinalizeFence(r))
      <4>1. ASSUME ReadStatus(r) \/ RecoveryStarts(r) \/ FinalizeFence(r)
            PROVE  \/ \E s : run' = [run EXCEPT ![r].pc = "act", ![r].seen = s]
                   \/ \E p \in {"arm", "apply_release", "reconcile", "tail", "sent", "failed", "preflight",
                                "sum"} : Go(r, p)
        BY <4>1 DEF ReadStatus, Next1, RecoveryStarts, StartRail, FinalizeFence
      <4> QED
        BY <4>1, WhatIsKnown DEF Go, RunForm
    <3> QED
      BY <1>2, <3>1, <3>2, <3>3, Arrivals DEF Critical
  <2>2. run[r].live /\ Unknown(run[r].id) /\ Go(r, "io") /\ run[r].id \in Id
    BY <2>1, WhatIsKnown DEF Arm, Armable, At, KnowsId, Working, Operation, IsMinted
  <2>3. run'[r].live /\ run'[r].id = run[r].id
    BY <1>1, <2>2 DEF Go, RunForm
  <2>4. PICK i \in Id : i = run[r].id
    BY <2>2
  <2>5. at'[i] = [at[i] EXCEPT !.dispatch = "dispatching", !.owner = r, !.horizon = at'[i].horizon]
    <3> DEFINE w == [at[i] EXCEPT !.dispatch = "dispatching", !.owner = r]
               h == [w EXCEPT !.horizon = "open"]
    <3>1. at' = [at EXCEPT ![i] = w] \/ at' = [at EXCEPT ![i] = h]
      BY <1>1, <2>1, <2>4 DEF Arm, Armed, Extended, Row
    <3> QED
      BY ZenonT(60), <1>1, <3>1 DEF Row
  <2>6. at'[i].owner = r /\ at'[i].dispatch = "dispatching" /\ at'[i].result = "unknown"
    BY <1>1, <2>2, <2>4, <2>5 DEF Row, Unknown
  <2> QED
    BY <2>3, <2>4, <2>6
<1>3. CASE ~Step(r)
  <2>1. (\E q \in Run \ {r} : Step(q)) \/ Environment \/ UNCHANGED vars
    BY <1>3 DEF Next
  <2>2. run'[r] = run[r]
    BY <2>1, OnlyOneMoves, EnvironmentRows DEF Moves, vars
  <2>3. PICK i \in Id : i = run[r].id
    BY <2>2, WhatIsKnown DEF KnowsId, Working, Operation, IsMinted
  <2>4. HeldRow(r, i)
    BY <2>2, <2>3 DEF Armed1, HeldRow
  <2>5. Clocked(i) \/ Succeeds(i)
    BY <2>1, <2>4, OthersLeave
  <2>6. /\ at'[i].owner = r
        /\ \/ at'[i].result = "unknown" /\ at'[i].dispatch = "dispatching"
           \/ at'[i].result = "success" /\ at'[i].dispatch = "responded"
    BY <1>1, <2>4, <2>5 DEF HeldRow, Clocked, Succeeds, Row
  <2> QED
    BY <2>2, <2>3, <2>4, <2>6 DEF HeldRow
<1> QED
  BY <1>2, <1>3

-----------------------------------------------------------------------------
(* No identity is sent twice *)

\* The provider stays the same, and only a send counts a request.
LEMMA SentOnly ==
  ASSUME [Next]_vars
  PROVE  policy' = policy /\ ((\A q \in Run : ~Send(q)) => sent' = sent)
<1>1. ASSUME NEW q \in Run, Step(q) PROVE policy' = policy /\ (~Send(q) => sent' = sent)
  BY <1>1, Grouped, SilentStep, JobStepRows, RowStepRest, MoneyStepRest, EndStepRest, SendStepRest
     DEF SendStep, Answer, BeginFresh, provider, phase
<1>2. CASE UNCHANGED vars \/ Environment
  BY <1>2 DEF vars, Environment, RescheduleStalledFinalizations, WindowCloses, ReconcileOrphan,
     HorizonElapses, Execute, Lose, CallbackCaptured, CallbackFailed, provider, phase
<1> QED
  BY <1>1, <1>2 DEF Next

\* Two live runs that operate one identity are one run.
LEMMA OneOperator ==
  ASSUME TypeInv, Leases, NEW q \in Run, NEW r \in Run, run[q].live, run[r].live,
         run[q].pc \in Operation, run[r].pc \in Operation, run[q].id = run[r].id
  PROVE  q = r
<1>1. Place(run[q]) /\ OwnRail(run[q]) /\ Place(run[r]) /\ OwnRail(run[r])
  BY WhatIsKnown
<1>2. run[q].job \in RailJobs /\ run[r].job \in RailJobs
  BY <1>1 DEF Place
<1>3. run[q].job = run[r].job
  BY <1>1, <1>2 DEF OwnRail, RailJobs
<1> QED
  BY <1>3 DEF Leases

\* Rows that become recorded were not sent.
LEMMA RecordedStep ==
  ASSUME TypeInv, Leases, Armed1, Unrepeated, [Next]_vars, ~policy.repeatSafe,
         NEW i \in Id, at'[i].dispatch = "recorded"
  PROVE  sent'[i] = 0
<1>1. at[i] \in Row /\ sent \in [Id -> 0..2] /\ sent[i] \in 0..2
  BY DEF TypeInv, TypeOK
<1>2. at[i].result = "none" => sent[i] = 0
  BY <1>1 DEF TypeInv, Requests
<1>3. ASSUME NEW q \in Run, Send(q) PROVE sent'[i] = 0
  <2>1. at' = at /\ sent[i] = 0
    BY <1>3 DEF Send, Unrepeated
  <2>2. run[q].id # i
    BY <1>3, <2>1 DEF Send, At, Armed1
  <2> QED
    BY <1>1, <1>3, <2>1, <2>2 DEF Send
<1>4. ASSUME NEW q \in Run, Changes(q, i) PROVE sent[i] = 0
  <2>1. CASE Clocked(i) \/ Retires(i) \/ Disowns(q, i)
    <3>1. at[i].dispatch = "recorded"
      BY <1>1, <2>1 DEF Clocked, Retires, Disowns, Row
    <3> QED
      BY <3>1 DEF Unrepeated
  <2>2. CASE Mints(i)
    BY <1>2, <2>2 DEF Mints
  <2>3. ~Arms(q, i) /\ ~Succeeds(i) /\ ~Settles(q, i) /\ ~Infers(i)
    BY <1>1 DEF Arms, Succeeds, Settles, Infers, Row
  <2>4. CASE TakesBack(q, i)
    BY <2>4 DEF TakesBack, SettleNotSent, At, MaySend, Unrepeated
  <2> QED
    BY <1>4, <2>1, <2>2, <2>3, <2>4 DEF Changes, SucceedsBy
<1>5. ASSUME NEW q \in Run, Step(q), ~Send(q) PROVE sent'[i] = 0
  <2>1. sent[i] = 0
    BY <1>4, <1>5, RowChanges
  <2>2. sent' = sent
    BY <1>5, Grouped, SilentStep, JobStepRows, RowStepRest, MoneyStepRest, EndStepRest
       DEF SendStep, Answer, BeginFresh, provider
  <2> QED
    BY <2>1, <2>2
<1>6. CASE Environment \/ UNCHANGED vars
  <2>1. sent' = sent
    BY <1>6 DEF vars, Environment, RescheduleStalledFinalizations, WindowCloses, ReconcileOrphan,
       HorizonElapses, Execute, Lose, CallbackCaptured, CallbackFailed, provider
  <2>2. Clocked(i) \/ Succeeds(i) \/ Infers(i)
    BY <1>6, EnvironmentChanges, SameRow DEF vars
  <2>3. at[i].dispatch = "recorded"
    BY <1>1, <2>2 DEF Clocked, Succeeds, Infers, Row
  <2> QED
    BY <2>1, <2>3 DEF Unrepeated
<1> QED
  BY <1>3, <1>5, <1>6 DEF Next

\* A run that may send, or take back what it did not send, sends for the first time.
LEMMA SenderStep ==
  ASSUME TypeInv, Leases, Armed1, Unrepeated, [Next]_vars, ~policy.repeatSafe,
         NEW r \in Run, MaySend(r)'
  PROVE  sent'[run'[r].id] = 0
<1>1. /\ at \in [Id -> Row] /\ run \in [Run -> RunForm] /\ run[r] \in RunForm /\ sent \in [Id -> 0..2]
      /\ \A i \in Id : at[i].result = "none" => sent[i] = 0
  BY DEF TypeInv, TypeOK, RunForm, Requests
<1>2. ~Reusable
  BY RailsAssumption DEF Reusable, TypeInv, TypeOK
<1>3. MaySend(r) => sent[run[r].id] = 0
  BY DEF Unrepeated
<1>4. MaySend(r)' <=> \/ run'[r].pc = "arm" /\ run'[r].live
                      \/ run'[r].pc = "io"
                      \/ /\ run'[r].pc = "settle" /\ run'[r].seen = "pre_dispatch_failure"
                         /\ at'[run'[r].id].owner = r
  BY DEF MaySend
<1>5. CASE Step(r)
  <2>1. CASE LeaseExpires(r)
    <3>1. /\ run'[r].pc = run[r].pc /\ run'[r].id = run[r].id /\ run'[r].seen = run[r].seen
          /\ ~run'[r].live /\ run[r].pc # "io" /\ at' = at /\ sent' = sent
      BY <1>1, <2>1 DEF LeaseExpires, RunForm, At
    <3> QED
      BY <1>3, <1>4, <3>1 DEF MaySend
  <2>2. CASE RecoveryStarts(r) \/ FinalizeFence(r)
    <3>1. \E p \in {"sent", "failed", "preflight", "sum"} : Go(r, p)
      BY <2>2 DEF RecoveryStarts, StartRail, FinalizeFence
    <3> QED
      BY <1>1, <1>4, <3>1 DEF Go, RunForm
  <2>3. CASE BeginAgain(r)
    <3> DEFINE a == Retired(Conflicting(Rail(r)))
    <3>1. PICK i \in Open(Rail(r), a) :
             run' = [run EXCEPT ![r].id = i,
                                ![r].pc = IF InFlight(i) THEN Next1(r)
                                          ELSE IF Recorded(i) THEN "arm" ELSE "resolve"]
      BY <2>3 DEF BeginAgain
    <3>2. run'[r].id = i /\ i \in Id /\ (run'[r].pc = "arm" => Recorded(i))
          /\ run'[r].pc \in {"arm", "resolve", "tail", "sent"}
      BY <1>1, <3>1 DEF Open, RunForm, Next1
    <3>3. Recorded(i) /\ sent' = sent
      BY <1>4, <2>3, <3>2 DEF BeginAgain, Begins, provider
    <3> QED
      BY <3>2, <3>3 DEF Unrepeated, Recorded
  <2>4. CASE BeginFresh(r)
    <3>1. PICK i \in Id : at[i].result = "none" /\ run'[r].id = i
      BY <2>4, FreshMoves
    <3>2. sent' = sent
      BY <2>4 DEF BeginFresh, provider
    <3> QED
      BY <1>1, <3>1, <3>2
  <2>5. CASE ReadStatus(r)
    <3>1. \/ \E s : run' = [run EXCEPT ![r].pc = "act", ![r].seen = s]
          \/ \E p \in {"apply_release", "reconcile", "tail", "sent"} : Go(r, p)
      BY <1>2, <2>5 DEF ReadStatus, Next1
    <3> QED
      BY <1>1, <1>4, <3>1 DEF Go, RunForm
  <2>6. CASE Arm(r)
    <3>1. MaySend(r) /\ Go(r, "io") /\ sent' = sent
      BY <2>6 DEF Arm, At, MaySend, provider
    <3> QED
      BY <1>1, <1>3, <3>1 DEF Go, RunForm
  <2>7. CASE Send(r) /\ run'[r].pc = "await"
    BY <1>4, <2>7
  <2>8. CASE NotSent(r)
    <3>1. MaySend(r) /\ run'[r].id = run[r].id /\ sent' = sent
      BY <1>1, <2>8 DEF NotSent, At, MaySend, provider, RunForm
    <3> QED
      BY <1>3, <3>1
  <2>9. CASE (\E o \in Outcomes : Answer(r, o)) /\ run'[r].pc = "settle"
    <3>1. run'[r].seen # "pre_dispatch_failure"
      BY <1>1, <2>9 DEF Answer, RunForm
    <3> QED
      BY <1>4, <2>9, <3>1
  <2>10. run'[r].pc \in {"arm", "io", "settle"}
    BY <1>4
  <2> QED
    BY <1>5, <2>1, <2>2, <2>3, <2>4, <2>5, <2>6, <2>7, <2>8, <2>9, <2>10, Arrivals DEF Critical
<1>6. CASE ~Step(r)
  <2>1. (\E q \in Run \ {r} : Step(q)) \/ Environment \/ UNCHANGED vars
    BY <1>6 DEF Next
  <2>2. run'[r] = run[r]
    BY <2>1, OnlyOneMoves, EnvironmentRows DEF Moves, vars
  <2>3. PICK i \in Id : i = run[r].id
    BY <1>4, <2>2, WhatIsKnown DEF KnowsId, Working, Operation, IsMinted
  <2>4. at[i] \in Row /\ r # "null" /\ r # "gone"
    BY <1>1, RailsAssumption
  <2>5. ASSUME at'[i].owner = r PROVE at[i].owner = r
    <3>1. ASSUME Clocked(i) \/ Succeeds(i) \/ Infers(i) PROVE at[i].owner = r
      BY <2>4, <2>5, <3>1 DEF Clocked, Succeeds, Infers, Row
    <3>2. ASSUME NEW q \in Run \ {r}, Changes(q, i) PROVE at[i].owner = r
      <4>1. ASSUME Retires(i) \/ Settles(q, i) PROVE at[i].owner = r
        BY <2>4, <2>5, <4>1 DEF Retires, Settles, Row
      <4>2. ~Mints(i) /\ ~Arms(q, i) /\ ~TakesBack(q, i) /\ ~Disowns(q, i)
        BY <2>4, <2>5 DEF Mints, Arms, TakesBack, Disowns, Row, Absent
      <4> QED
        BY <3>1, <3>2, <4>1, <4>2 DEF Changes, SucceedsBy
    <3> QED
      BY <2>1, <3>1, <3>2, RowChanges, EnvironmentChanges, SameRow DEF vars
  <2>6. MaySend(r)
    BY <1>4, <2>2, <2>3, <2>5 DEF MaySend
  <2>7. ASSUME NEW q \in Run \ {r}, Send(q) PROVE sent'[i] = sent[i]
    <3>1. run[q].pc = "io" /\ run[q].live /\ at[run[q].id].owner = q
      BY <2>7 DEF Send, At, Armed1
    <3>2. run[q].id # i
      <4>1. CASE run[r].pc = "arm" /\ run[r].live
        BY <2>3, <3>1, <4>1, OneOperator DEF Operation
      <4>2. CASE run[r].pc = "io" \/ at[i].owner = r
        BY <2>3, <3>1, <4>2 DEF Armed1
      <4> QED
        BY <2>3, <2>6, <4>1, <4>2 DEF MaySend
    <3> QED
      BY <1>1, <2>7, <3>2 DEF Send
  <2>8. sent'[i] = sent[i]
    BY <1>6, <2>7, SentOnly DEF Step
  <2> QED
    BY <1>3, <2>2, <2>3, <2>6, <2>8
<1> QED
  BY <1>5, <1>6

\* No step sends an identity a second time without an answer or its key.
LEMMA UnrepeatedStep ==
  ASSUME TypeInv, Leases, Armed1, Unrepeated, [Next]_vars
  PROVE  Unrepeated'
<1>1. sent \in [Id -> 0..2] /\ \A i \in Id : sent[i] <= 1
  BY DEF TypeInv, TypeOK, Unrepeated
<1>2. ASSUME NEW q \in Run, Send(q), NEW i \in Id PROVE sent'[i] <= 1
  <2>1. run[q].id \in Id
    BY <1>2, WhatIsKnown DEF Send, At, KnowsId, Working, Operation, IsMinted
  <2>2. policy.repeatSafe \/ sent[run[q].id] = 0
    BY <1>2 DEF Send, At, Unrepeated, MaySend
  <2> QED
    BY <1>1, <1>2, <2>1, <2>2 DEF Send
<1>3. \A i \in Id : sent'[i] <= 1
  BY <1>1, <1>2, SentOnly
<1>4. ASSUME ~policy'.repeatSafe
      PROVE  /\ \A i \in Id : at'[i].dispatch = "recorded" => sent'[i] = 0
             /\ \A r \in Run : MaySend(r)' => sent'[run'[r].id] = 0
  BY <1>4, SentOnly, RecordedStep, SenderStep
<1> QED
  BY <1>3, <1>4 DEF Unrepeated

\* Every step preserves the invariant of the sends.
LEMMA SendStepInv == SendInv /\ [Next]_vars => SendInv'
  BY TypeStep, ArmedStep, UnrepeatedStep DEF SendInv

\* It holds in the beginning.
LEMMA SendInit == Init => SendInv
<1>1. ASSUME Init, NEW r \in Run PROVE run[r] = Free
  BY <1>1 DEF Init
<1>2. Init => Armed1
  BY <1>1 DEF Armed1, Free
<1>3. Init => Unrepeated
  BY <1>1 DEF Unrepeated, MaySend, Free, Init
<1> QED
  BY <1>2, <1>3, TypeInit DEF SendInv

\* No identity is sent twice to a provider that would take it for two operations:
\* an identity that may have left the process is sent again only to a provider that
\* deduplicates it, whichever runs lose their lease, die or repeat the job.
THEOREM SentOnce == Spec => []NoBlindRepeat
<1>1. SendInv => NoBlindRepeat
  BY DEF SendInv, Unrepeated, NoBlindRepeat
<1> QED
  BY <1>1, SendInit, SendStepInv, PTL DEF Spec

-----------------------------------------------------------------------------
(* Nobody disturbs a row that is in flight *)

\* A run that writes a row moves on.
LEMMA WritersMove ==
  ASSUME TypeInv, NEW r \in Run, Step(r), at' # at
  PROVE  run'[r].pc # run[r].pc
<1>1. run \in [Run -> RunForm] /\ run[r] \in RunForm
  BY WhatIsKnown
<1>2. ASSUME NEW p, Go(r, p) PROVE run'[r].pc = p
  BY <1>1, <1>2 DEF Go, RunForm
<1>3. Next1(r) \in {"tail", "sent"} /\ Proceeds(r) \in {"begin", "sum"} /\ LookCaptured(r) \in {"sent", "sum"}
  BY DEF Next1, Proceeds, LookCaptured
<1>4. CASE EndStep(r)
  BY <1>1, <1>4 DEF EndStep, Acknowledge, FailAttempt, RunDies, Ends, Free, At
<1>5. CASE BeginStateChanged(r) \/ BeginFenced(r)
  <2>1. run[r].pc = "begin" /\ \E p \in {"tail", "sent", "failed"} : Go(r, p)
    BY <1>3, <1>5 DEF BeginStateChanged, BeginFenced, Begins, At
  <2> QED
    BY <1>2, <2>1
<1>6. CASE BeginBlocked(r) \/ BeginAgain(r) \/ BeginFresh(r)
  <2>1. /\ run[r].pc = "begin"
        /\ \E i : \E p \in {"apply_release", "reconcile", "tail", "sent", "arm", "resolve"} :
              run' = [run EXCEPT ![r].id = i, ![r].pc = p]
    BY <1>3, <1>6 DEF BeginBlocked, BeginAgain, BeginFresh, Begins, At
  <2> QED
    BY <1>1, <2>1 DEF RunForm
<1>7. CASE ArmRefused(r) \/ Arm(r)
  <2>1. run[r].pc = "arm" /\ \E p \in {"tail", "sent", "failed", "io"} : Go(r, p)
    BY <1>3, <1>7 DEF ArmRefused, Arm, At
  <2> QED
    BY <1>2, <2>1
<1>8. CASE SettleSuccess(r) \/ SettleNotSent(r) \/ SettleUnknown(r) \/ SettleDeclined(r)
  <2>1. run[r].pc = "settle" /\ \E p \in {"apply_release", "ingest", "failed", "reconcile", "sent"} : Go(r, p)
    BY <1>8 DEF SettleSuccess, SettleNotSent, SettleUnknown, SettleDeclined, At
  <2> QED
    BY <1>2, <2>1
<1>9. CASE ReconcileRetires(r) \/ ConcludeNotReleased(r) \/ ConcludePending(r)
           \/ ConcludeCaptured(r) \/ ConcludeNotCaptured(r)
  <2>1. /\ run[r].pc \in {"retire", "conclude"}
        /\ \E p \in {"schedule_release", "schedule_recovery", "sent", "failed"} : Go(r, p)
    BY <1>9 DEF ReconcileRetires, ConcludeNotReleased, ConcludePending, ConcludeCaptured,
       ConcludeNotCaptured, At
  <2> QED
    BY <1>2, <2>1
<1>10. CASE ResolveCaptured(r) \/ ResolveFailed(r) \/ Ingest(r) \/ ApplyRelease(r) \/ SecondLook(r)
  <2>1. /\ run[r].pc \in {"act", "ingest", "apply_release", "second_look"}
        /\ \E p \in {"tail", "sent", "failed", "schedule_release", "begin", "sum"} : Go(r, p)
    BY <1>3, <1>10 DEF ResolveCaptured, ResolveFailed, Ingest, ApplyRelease, SecondLook, At
  <2> QED
    BY <1>2, <2>1
<1>11. ~(Silent(r) \/ JobStep(r) \/ SendStep(r))
  BY SilentStep, JobStepRows, SendStepRest
<1> QED
  BY <1>4, <1>5, <1>6, <1>7, <1>8, <1>9, <1>10, <1>11, Grouped DEF RowStep, MoneyStep

\* The row of an operation in flight changes only by a step of the run that
\* operates it, by a success, or in the column of the clock: no reconcile, no
\* callback and no other rail settles what a live worker still waits for.
THEOREM FlightUndisturbed == Spec => InFlightUndisturbed
<1> DEFINE A == \A i \in Id : InFlight(i) /\ at'[i] # [at[i] EXCEPT !.horizon = at'[i].horizon] =>
                  \/ at'[i].result = "success"
                  \/ run'[at[i].owner] # run[at[i].owner]
<1>1. TypeInv /\ Leases /\ [Next]_vars => [A]_vars
  <2> SUFFICES ASSUME TypeInv, [Next]_vars,
                      NEW i \in Id, InFlight(i), ~Clocked(i), at'[i].result # "success"
               PROVE  run'[at[i].owner] # run[at[i].owner]
    BY DEF Clocked
  <2>1. PICK r \in Run : r = at[i].owner
    BY DEF InFlight
  <2>2. HeldRow(r, i) /\ at[i] \in Row
    BY <2>1 DEF InFlight, HeldRow, TypeInv, TypeOK
  <2>3. ~Succeeds(i)
    BY <2>2 DEF Succeeds, Row
  <2>4. Step(r)
    BY <2>2, <2>3, OthersLeave DEF Next
  <2>5. at' # at
    BY SameRow
  <2> QED
    BY <2>1, <2>4, <2>5, WritersMove
<1>2. InFlightUndisturbed <=> [][A]_vars
  BY DEF InFlightUndisturbed
<1> HIDE DEF A
<1> QED
  BY <1>1, <1>2, TypeInit, TypeStep, PTL DEF Spec

-----------------------------------------------------------------------------
(* The money follows the provider *)

\* What was executed stays executed.
LEMMA DoneStays ==
  ASSUME [Next]_vars
  PROVE  /\ executed \subseteq executed'
         /\ CaptureDone => CaptureDone'
         /\ ReleaseDone => ReleaseDone'
         /\ \A i : DoneAs(i) => DoneAs(i)'
<1>1. ASSUME NEW q \in Run, Step(q) PROVE executed' = executed
  BY <1>1, Grouped, SilentStep, JobStepRows, RowStepRest, MoneyStepRest, EndStepRest
     DEF SendStep, Send, Answer, BeginFresh, provider
<1>2. executed \subseteq executed'
  BY <1>1 DEF Next, vars, Environment, RescheduleStalledFinalizations, WindowCloses, ReconcileOrphan,
     HorizonElapses, Execute, Lose, CallbackCaptured, CallbackFailed, provider
<1> QED
  BY <1>2 DEF CaptureDone, ReleaseDone, DoneAs

\* The provider answers what it executed.
LEMMA AnswersTrue ==
  ASSUME TypeInv
  PROVE  /\ "captured" \in Answers => CaptureDone
         /\ "released" \in Answers => ReleaseDone
<1>1. executed \subseteq Id
  BY DEF TypeInv, TypeOK
<1>2. \A i \in Id : i \in CaptureIds \/ i[1] = "release"
  BY DEF Id, CaptureIds, Capture, AttemptType
<1> QED
  BY <1>1, <1>2 DEF Answers, CaptureDone, ReleaseDone

\* The identities of captures are those that are no release.
LEMMA CaptureForm ==
  ASSUME NEW i \in Id
  PROVE  /\ i \in CaptureIds <=> i[1] # "release"
         /\ i \in CaptureIds <=> i[1] \in Capture
  BY DEF Id, CaptureIds, Capture, AttemptType

\* What a run may say of the participant's money, and when.
LEMMA MoneySpoken ==
  ASSUME TypeInv, Backed, NEW q \in Run, MoneyStep(q)
  PROVE  \/ UNCHANGED participant /\ (at' = at \/ at' = Extended(at, run[q].id))
         \/ IngestCaptured(run[q].id) /\ run[q].id \in CaptureIds /\ CaptureDone
         \/ IngestFailed(run[q].id)
         \/ ApplyRelease(q) /\ run[q].id[1] = "release" /\ ReleaseDone
<1>1. run[q].id \in Id /\ at[run[q].id] \in Row /\ at \in [Id -> Row]
  BY WhatIsKnown DEF MoneyStep, ResolveCaptured, ResolveFailed, Ingest, ApplyRelease, SecondLook,
     ConcludeCaptured, ConcludeNotCaptured, At, KnowsId, Working, Operation, Reconciling, IsMinted,
     TypeInv, TypeOK
<1>2. Told(q)
  BY DEF Backed
<1>3. CASE ResolveCaptured(q) \/ ConcludeCaptured(q)
  BY <1>2, <1>3 DEF ResolveCaptured, ConcludeCaptured, At, Told
<1>4. CASE ResolveFailed(q) \/ ConcludeNotCaptured(q)
  BY <1>4 DEF ResolveFailed, ConcludeNotCaptured, participant
<1>5. CASE Ingest(q)
  <2>1. run[q].id \in CaptureIds /\ (run[q].seen = "success" => CaptureDone)
    BY <1>1, <1>2, <1>5, CaptureForm DEF Ingest, At, Told, DoneAs
  <2> QED
    BY <1>5, <2>1 DEF Ingest, participant
<1>6. CASE ApplyRelease(q)
  BY <1>2, <1>6 DEF ApplyRelease, At, Told
<1>7. CASE SecondLook(q)
  <2>1. run[q].id \in CaptureIds
    BY <1>2, <1>7 DEF SecondLook, At, Told
  <2>2. PICK s \in Answers :
          IF "foreign" \notin {run[q].seen, s} /\ "captured" \in {run[q].seen, s}
          THEN IngestCaptured(run[q].id)
          ELSE (at' = at \/ at' = Extended(at, run[q].id)) /\ UNCHANGED participant
    BY <1>7 DEF SecondLook
  <2>3. ASSUME "captured" \in {run[q].seen, s} PROVE CaptureDone
    BY <1>2, <1>7, <2>2, <2>3, AnswersTrue DEF SecondLook, At, Told
  <2> QED
    BY <2>1, <2>2, <2>3
<1> QED
  BY <1>3, <1>4, <1>5, <1>6, <1>7 DEF MoneyStep

\* A row that becomes a success was one, or is backed by what was executed.
LEMMA SuccessBacked ==
  ASSUME TypeInv, Backed, [Next]_vars, NEW i \in Id, at'[i].result = "success"
  PROVE  DoneAs(i)
<1>1. at \in [Id -> Row] /\ at[i] \in Row /\ (at[i].result = "success" => DoneAs(i))
  BY DEF TypeInv, TypeOK, Backed
<1>2. ASSUME NEW q \in Run, Step(q), SucceedsBy(q, i) PROVE DoneAs(i)
  <2>1. CASE SettleSuccess(q)
    BY <1>2, <2>1 DEF SucceedsBy, SettleSuccess, At, Backed, Told
  <2>2. CASE MoneyStep(q)
    <3>1. i = run[q].id
      BY <1>2 DEF SucceedsBy
    <3>2. CASE IngestFailed(i)
      BY <1>1, <3>2 DEF IngestFailed, Inferred, Final, Row
    <3>3. CASE at' = at \/ at' = Extended(at, i)
      BY <1>1, <3>3 DEF Extended, Row
    <3>4. CASE IngestCaptured(i) /\ i \in CaptureIds /\ CaptureDone
      BY <3>4, CaptureForm DEF DoneAs
    <3>5. CASE i[1] = "release" /\ ReleaseDone
      BY <3>5 DEF DoneAs
    <3> QED
      BY <2>2, <3>1, <3>2, <3>3, <3>4, <3>5, MoneySpoken
  <2> QED
    BY <1>2, <2>1, <2>2 DEF SucceedsBy
<1>3. ASSUME Clocked(i) \/ Retires(i) \/ Mints(i) \/ Infers(i) PROVE at[i].result = "success"
  BY <1>1, <1>3 DEF Clocked, Retires, Mints, Infers, Row, Absent
<1>4. ASSUME NEW q \in Run, Arms(q, i) \/ TakesBack(q, i) \/ Settles(q, i) \/ Disowns(q, i)
      PROVE  at[i].result = "success"
  BY <1>1, <1>4 DEF Arms, TakesBack, Settles, Disowns, Row
<1>5. ASSUME NEW q \in Run, Step(q) PROVE DoneAs(i)
  BY <1>1, <1>2, <1>3, <1>4, <1>5, RowChanges DEF Changes
<1>6. CASE Environment
  <2>1. ASSUME CallbackCaptured(i) PROVE DoneAs(i)
    BY <2>1, CaptureForm DEF CallbackCaptured, DoneAs, CaptureDone
  <2> QED
    BY <1>1, <1>3, <1>6, <2>1, EnvironmentChanges
<1>7. CASE UNCHANGED vars
  BY <1>1, <1>7 DEF vars
<1> QED
  BY <1>5, <1>6, <1>7 DEF Next

\* The participant's money is backed by what was executed.
LEMMA MoneyBacked ==
  ASSUME TypeInv, Backed, [Next]_vars
  PROVE  /\ money' \in Captured => CaptureDone
         /\ money' = "AuthReleased" => ReleaseDone
<1>1. (money \in Captured => CaptureDone) /\ (money = "AuthReleased" => ReleaseDone)
  BY DEF Backed, MoneyFollowsProvider, CaptureDone, ReleaseDone
<1>2. CASE UNCHANGED money
  BY <1>1, <1>2
<1>3. ASSUME NEW i, IngestFailed(i) PROVE money' = money \/ money' = "ChargeFailedRecovery"
  BY <1>3 DEF IngestFailed, participant
<1>4. ASSUME NEW i, IngestCaptured(i) PROVE money' = money \/ money' \in Captured
  BY <1>4 DEF IngestCaptured, participant, Captured
<1>5. ASSUME NEW q \in Run, MoneyStep(q)
      PROVE  (money' \in Captured => CaptureDone) /\ (money' = "AuthReleased" => ReleaseDone)
  BY <1>1, <1>3, <1>4, <1>5, MoneySpoken DEF participant, ApplyRelease, Captured
<1>6. ASSUME NEW q \in Run, Step(q), ~MoneyStep(q) PROVE UNCHANGED money
  BY <1>6, Grouped, SilentStep, RowStepRest, EndStepRest, SendStepRest
     DEF JobStep, Claim, LeaseExpires, Reconcile, ScheduleRelease, ScheduleRecovery, Outcome,
         FinalizeUnresolved, ToCompletionWindow, FinalizeDecides, BeginFresh, participant
<1>7. ASSUME NEW i \in Id, CallbackCaptured(i) \/ CallbackFailed(i)
      PROVE  (money' \in Captured => CaptureDone) /\ (money' = "AuthReleased" => ReleaseDone)
  <2>1. CallbackCaptured(i) => CaptureDone
    BY DEF CallbackCaptured, CaptureDone
  <2> QED
    BY <1>1, <1>3, <1>4, <1>7, <2>1 DEF CallbackCaptured, CallbackFailed, Captured
<1>8. CASE UNCHANGED vars \/ RescheduleStalledFinalizations \/ WindowCloses
           \/ \E i \in Id : ReconcileOrphan(i) \/ HorizonElapses(i) \/ Execute(i) \/ Lose(i)
  BY <1>2, <1>8 DEF vars, RescheduleStalledFinalizations, WindowCloses, ReconcileOrphan, HorizonElapses,
     Execute, Lose, participant
<1> QED
  BY <1>2, <1>5, <1>6, <1>7, <1>8 DEF Next, Environment

\* A run is told the truth.
LEMMA ToldStep ==
  ASSUME TypeInv, Backed, [Next]_vars, NEW r \in Run
  PROVE  Told(r)'
<1>1. /\ run \in [Run -> RunForm] /\ run[r] \in RunForm /\ OwnRail(run[r]) /\ KnowsId(run[r])
      /\ Place(run[r]) /\ Told(r)
  BY WhatIsKnown DEF Backed
<1>2. /\ CaptureDone => CaptureDone'
      /\ ReleaseDone => ReleaseDone'
      /\ \A i : DoneAs(i) => DoneAs(i)'
  BY DoneStays
<1>3. ASSUME NEW q, run'[r] = q,
             /\ q.pc \in {"act", "conclude", "second_look"} /\ q.seen = "captured" =>
                  q.id \in CaptureIds /\ CaptureDone
             /\ q.pc \in {"second_look", "ingest"} => q.id \in CaptureIds
             /\ q.pc \in {"settle", "ingest"} /\ q.seen = "success" => DoneAs(q.id)
             /\ q.pc = "apply_release" => q.id[1] = "release" /\ ReleaseDone
      PROVE  Told(r)'
  BY <1>2, <1>3 DEF Told
<1>4. CASE run'[r] = run[r]
  BY <1>1, <1>3, <1>4 DEF Told
<1>5. CASE ~Step(r)
  BY <1>4, <1>5, OnlyOneMoves, EnvironmentRows DEF Next, Moves, vars
<1>6. ASSUME NEW p, Go(r, p)
      PROVE  /\ run'[r].pc = p
             /\ p \notin {"sent", "failed", "tail", "begin", "sum", "list"} => run'[r].id = run[r].id
             /\ p \notin {"recorded", "ingest", "retire"} => run'[r].seen = "none"
             /\ p = "ingest" => run'[r].seen = run[r].seen
  BY <1>1, <1>6 DEF Go, RunForm
<1>7. CASE Step(r)
  <2>1. CASE run'[r].pc \notin Critical
    BY <1>3, <2>1 DEF Critical
  <2>2. CASE LeaseExpires(r)
    <3>1. /\ run'[r].pc = run[r].pc /\ run'[r].id = run[r].id /\ run'[r].seen = run[r].seen
      BY <1>1, <2>2 DEF LeaseExpires, RunForm
    <3> QED
      BY <1>1, <1>3, <3>1 DEF Told
  <2>3. CASE run'[r].pc \in {"preflight", "arm", "io", "await"}
    BY <1>3, <2>3
  <2>4. ASSUME RecoveryStarts(r) \/ FinalizeFence(r) \/ Arm(r) \/ Send(r) \/ BeginAgain(r) \/ BeginFresh(r)
        PROVE  Told(r)'
    <3>1. ASSUME RecoveryStarts(r) \/ FinalizeFence(r) \/ Arm(r) \/ Send(r)
          PROVE  \E p \in {"sent", "failed", "preflight", "sum", "io", "await"} : Go(r, p)
      BY <3>1 DEF RecoveryStarts, StartRail, FinalizeFence, Arm, Send
    <3>2. ASSUME BeginAgain(r) \/ BeginFresh(r)
          PROVE  \E i : \E p \in {"arm", "resolve", "tail", "sent"} : run' = [run EXCEPT ![r].id = i, ![r].pc = p]
      BY <3>2 DEF BeginAgain, BeginFresh, Next1
    <3>3. run'[r].pc \in {"sent", "failed", "preflight", "sum", "io", "await", "arm", "resolve", "tail"}
      BY <1>1, <1>6, <2>4, <3>1, <3>2 DEF RunForm
    <3> QED
      BY <1>3, <3>3
  <2>5. CASE ReadStatus(r)
    <3>1. run[r].pc = "resolve" /\ run[r].id \in Id
      BY <1>1, <2>5 DEF ReadStatus, At, KnowsId, Working, Operation, IsMinted
    <3>2. run[r].id[1] = Rail(r)
      BY <1>1, <3>1 DEF OwnRail, Operation, Rail
    <3>3. PICK s \in Answers :
            \/ s \in Proof(r) /\ run' = [run EXCEPT ![r].pc = "act", ![r].seen = s]
            \/ s = "released" /\ Rail(r) = "release" /\ Go(r, "apply_release")
            \/ \E p \in {"arm", "reconcile", "tail", "sent"} : Go(r, p)
      BY <2>5 DEF ReadStatus, Next1
    <3>4. CASE s \in Proof(r) /\ run' = [run EXCEPT ![r].pc = "act", ![r].seen = s]
      <4>1. run'[r].pc = "act" /\ run'[r].seen = s /\ run'[r].id = run[r].id /\ Rail(r) # "release"
        BY <1>1, <3>4 DEF RunForm, Proof
      <4>2. run[r].id \in CaptureIds /\ (s = "captured" => CaptureDone)
        BY <3>1, <3>2, <3>3, <4>1, CaptureForm, AnswersTrue
      <4> QED
        BY <1>3, <4>1, <4>2
    <3>5. CASE s = "released" /\ Rail(r) = "release" /\ Go(r, "apply_release")
      BY <1>3, <1>6, <3>2, <3>3, <3>5, AnswersTrue
    <3>6. CASE \E p \in {"arm", "reconcile", "tail", "sent"} : Go(r, p)
      BY <1>3, <1>6, <3>6
    <3> QED
      BY <3>3, <3>4, <3>5, <3>6
  <2>6. CASE NotSent(r)
    <3>1. run'[r].pc = "settle" /\ run'[r].seen = "pre_dispatch_failure"
      BY <1>1, <2>6 DEF NotSent, RunForm
    <3> QED
      BY <1>3, <3>1
  <2>7. ASSUME NEW o \in Outcomes, Answer(r, o) PROVE Told(r)'
    <3>1. run'[r].pc = "settle" /\ run'[r].seen = o /\ run'[r].id = run[r].id /\ run[r].id \in Id
      BY <1>1, <2>7 DEF Answer, RunForm, At, KnowsId, Working, Operation, IsMinted
    <3>2. o = "success" => DoneAs(run[r].id)
      BY <2>7, <3>1, CaptureForm DEF Answer, DoneAs, CaptureDone, ReleaseDone
    <3> QED
      BY <1>3, <3>1, <3>2
  <2>8. CASE BeginBlocked(r) /\ run'[r].pc = "apply_release"
    <3> DEFINE a == Retired(Conflicting(Rail(r)))
    <3>1. PICK i \in Blockers(Rail(r), a) :
            /\ run' = [run EXCEPT ![r].id = i,
                         ![r].pc = IF ReleasedHold(Rail(r), a) THEN "apply_release"
                                   ELSE IF a[i].result = "unknown" THEN "reconcile" ELSE Next1(r)]
            /\ ReleasedHold(Rail(r), a) => i[1] = "release" /\ a[i].result = "success"
      BY <2>8 DEF BeginBlocked
    <3>2. run'[r].id = i /\ i \in Id /\ ReleasedHold(Rail(r), a)
      BY <1>1, <2>8, <3>1 DEF Blockers, RunForm, Next1
    <3>3. i[1] = "release" /\ a[i].result = "success"
      BY <3>1, <3>2
    <3>4. at[i].result = "success"
      BY <3>2, <3>3 DEF Retired, TypeInv, TypeOK, Row
    <3>5. ReleaseDone
      BY <3>2, <3>3, <3>4 DEF Backed, DoneAs
    <3> QED
      BY <1>3, <2>8, <3>2, <3>3, <3>5
  <2>9. CASE SettleSuccess(r) \/ SettleDeclined(r)
    <3>1. run[r].pc = "settle" /\ run[r].id \in Id
      BY <1>1, <2>9 DEF SettleSuccess, SettleDeclined, At, KnowsId, Working, Operation, IsMinted
    <3>2. run[r].id[1] = Rail(r)
      BY <1>1, <3>1 DEF OwnRail, Operation, Rail
    <3>3. \/ Rail(r) = "release" /\ run[r].seen = "success" /\ Go(r, "apply_release")
          \/ Rail(r) # "release" /\ run[r].seen \in {"success", "permanent_fail"} /\ Go(r, "ingest")
          \/ Go(r, "failed") \/ Go(r, "sent")
      BY <2>9 DEF SettleSuccess, SettleDeclined
    <3>4. run[r].seen = "success" => DoneAs(run[r].id)
      BY <1>1, <3>1 DEF Told
    <3>5. CASE Rail(r) = "release" /\ run[r].seen = "success" /\ Go(r, "apply_release")
      BY <1>3, <1>6, <3>2, <3>4, <3>5 DEF DoneAs
    <3>6. CASE Rail(r) # "release" /\ run[r].seen \in {"success", "permanent_fail"} /\ Go(r, "ingest")
      BY <1>3, <1>6, <3>1, <3>2, <3>4, <3>6, CaptureForm
    <3>7. CASE Go(r, "failed") \/ Go(r, "sent")
      BY <1>3, <1>6, <3>7
    <3> QED
      BY <3>3, <3>5, <3>6, <3>7
  <2>10. CASE FirstLook(r) /\ run'[r].pc = "second_look"
    <3>1. KnowsId(run'[r])
      BY <2>10, StepMoves, <1>7 DEF Moved, FirstLook, BeginFresh, At
    <3>2. run'[r].id \in Id
      BY <2>10, <3>1 DEF KnowsId, Working, IsMinted
    <3>3. Open("recovery", at) = {}
      <4>1. ASSUME Open("recovery", at) # {} PROVE run'[r].pc \in {"begin", "sum"}
        BY <1>6, <2>10, <4>1 DEF FirstLook, Proceeds
      <4> QED
        BY <2>10, <4>1
    <3> DEFINE e == Exact(Target)
    <3>4. PICK s \in Answers :
            run' = [run EXCEPT ![r].pc = "second_look", ![r].id = Target, ![r].seen = s, ![r].noted = e]
      BY <2>10, <3>3 DEF FirstLook
    <3> HIDE DEF e
    <3>5. run'[r].id = Target /\ run'[r].seen = s
      BY <1>1, <3>4 DEF RunForm
    <3>6. Target[1] \in Capture
      BY DEF Target, Newest, Capture
    <3>7. run'[r].id \in CaptureIds /\ (s = "captured" => CaptureDone)
      BY <3>2, <3>4, <3>5, <3>6, CaptureForm, AnswersTrue
    <3> QED
      BY <1>3, <2>10, <3>5, <3>7
  <2>11. CASE ReconcileReads(r)
    <3>1. run[r].id \in Id
      BY <1>1, <2>11 DEF ReconcileReads, At, KnowsId, Working, Reconciling, IsMinted
    <3>2. PICK s \in Answers :
            \/ /\ s = "captured" => ~IsRelease(r)
               /\ run' = [run EXCEPT ![r].pc = "conclude", ![r].seen = s]
            \/ s = "released" /\ IsRelease(r) /\ Go(r, "apply_release")
            \/ \E p \in {"sent", "failed"} : Go(r, p)
      BY <2>11 DEF ReconcileReads, NotDone
    <3>3. CASE (s = "captured" => ~IsRelease(r)) /\ run' = [run EXCEPT ![r].pc = "conclude", ![r].seen = s]
      <4>1. run'[r].pc = "conclude" /\ run'[r].seen = s /\ run'[r].id = run[r].id
        BY <1>1, <3>3 DEF RunForm
      <4>2. s = "captured" => run[r].id \in CaptureIds /\ CaptureDone
        BY <3>1, <3>2, <3>3, CaptureForm, AnswersTrue DEF IsRelease
      <4> QED
        BY <1>3, <4>1, <4>2
    <3>4. CASE s = "released" /\ IsRelease(r) /\ Go(r, "apply_release")
      BY <1>3, <1>6, <3>2, <3>4, AnswersTrue DEF IsRelease
    <3>5. CASE \E p \in {"sent", "failed"} : Go(r, p)
      BY <1>3, <1>6, <3>5
    <3> QED
      BY <3>2, <3>3, <3>4, <3>5
  <2> QED
    BY <1>7, <2>1, <2>2, <2>4, <2>5, <2>6, <2>7, <2>8, <2>9, <2>10, <2>11, Arrivals
<1> QED
  BY <1>5, <1>7

\* Every step leaves what is told of money backed by what was executed.
LEMMA BackedStep == TypeInv /\ Backed /\ [Next]_vars => Backed'
<1> SUFFICES ASSUME TypeInv, Backed, [Next]_vars PROVE Backed'
  OBVIOUS
<1>1. \A i \in Id : at'[i].result = "success" => DoneAs(i)'
  BY SuccessBacked, DoneStays
<1>2. (money' \in Captured => CaptureDone') /\ (money' = "AuthReleased" => ReleaseDone')
  BY MoneyBacked, DoneStays
<1>3. MoneyFollowsProvider'
  BY <1>2 DEF MoneyFollowsProvider, CaptureDone, ReleaseDone
<1> QED
  BY <1>1, <1>3, ToldStep DEF Backed

\* In the beginning nothing was told.
LEMMA BackedInit == Init => Backed
<1> SUFFICES ASSUME Init PROVE Backed
  OBVIOUS
<1>1. \A i \in Id : at[i].result = "none"
  BY DEF Init, Absent
<1>2. \A r \in Run : run[r].pc = "free"
  BY DEF Init, Free
<1> QED
  BY <1>1, <1>2 DEF Backed, Told, MoneyFollowsProvider, Init, Captured

\* What the participant's money says happened did happen at the provider: no
\* callback, reconcile, status answer or replayed success can say of a capture or
\* a release that was not executed that it was.
THEOREM MoneyIsTrue == Spec => []MoneyFollowsProvider
<1>1. Backed => MoneyFollowsProvider
  BY DEF Backed
<1>2. TypeInv /\ Leases /\ Backed /\ [Next]_vars => (TypeInv /\ Leases /\ Backed)'
  BY TypeStep, BackedStep
<1> QED
  BY <1>1, <1>2, TypeInit, BackedInit, PTL DEF Spec

-----------------------------------------------------------------------------
(* One capture: what may still happen, and what the rows know of it *)

\* A request that may still be made, may still be executed, or was.
Sending(i) == \E r \in Run : run[r].pc = "io" /\ run[r].id = i
Live(i) == Unknown(i) \/ Sending(i) \/ i \in wire \cup executed
Quiet(i) == Final(i) /\ i \notin wire /\ ~Sending(i)

\* A capture is the latest when no other was minted that follows it: a recovery
\* follows every charge.
Latest(i) ==
  \A j \in CaptureIds : at[j].result # "none" =>
    (j[1] = i[1] /\ j[2] <= i[2]) \/ (i[1] = "recovery" /\ j[1] = "charge_start")

\* Only the latest capture may happen, or did.
OnlyLatest == \A i \in CaptureIds : Live(i) => Latest(i)

\* What the rows say of a capture that will not happen is true: the provider
\* declined it, its horizon is past, or it never left the process.
Closed ==
  /\ \A i \in CaptureIds : Exact(i) => i \notin wire \cup executed
  /\ \A i \in CaptureIds :
       at[i].result = "permanent_fail" => at[i].evidence \in {"dispatch_response", "inferred"}
  /\ \A i \in CaptureIds : at[i].horizon = "elapsed" => Quiet(i)
  /\ \A i \in Id : at[i].result = "temporary_fail" => sent[i] = 0

\* What a run holds in its hand of the request it made.
Answered(r) ==
  /\ run[r].pc = "await" \/ (run[r].pc = "settle" /\ run[r].seen # "pre_dispatch_failure") =>
       sent[run[r].id] > 0
  /\ run[r].pc = "settle" /\ run[r].seen = "permanent_fail" /\ Mine(r) =>
       run[r].id \notin wire \cup executed

\* While the participant waits for the charge no recovery was minted, and what
\* failed was declined; when it waits no longer the only charge has its verdict.
First == <<"charge_start", 1>>
Turns ==
  /\ Waits(First) =>
       /\ Minted("recovery") = {}
       /\ \A i \in CaptureIds :
            at[i].result = "permanent_fail" => at[i].evidence = "dispatch_response"
  /\ MaxIds = 1 /\ buyer = "ChargeFailedCompletion" => Final(First)

\* A recovery that passed its looks: no capture whose horizon is past was executed.
\* With one identity of a kind the charge is all there is to look at.
AtRecovery(r) == run[r].job = "recovery_deal" /\ run[r].pc \in {"preflight", "second_look", "begin"}
Looked(r) == run[r].job = "recovery_deal"
             /\ (run[r].pc = "begin" \/ (run[r].pc = "second_look" /\ run[r].noted))
NothingPast ==
  \/ \E i \in Minted("recovery") : at[i].result = "success"
  \/ \A i \in CaptureIds : Fenced(i) /\ at[i].horizon = "elapsed" => i \notin executed
ChargeQuiet == Minted("recovery") # {} \/ at[First].result = "success" \/ Quiet(First)
ChargeGone ==
  Minted("recovery") # {} \/ at[First].result = "success" \/ (Quiet(First) /\ First \notin executed)
Recoveries ==
  \A r \in Run :
    /\ Looked(r) /\ MaxIds # 1 => NothingPast
    /\ AtRecovery(r) /\ MaxIds = 1 => ChargeQuiet
    /\ Looked(r) /\ MaxIds = 1 => ChargeGone

Certain == Closed /\ \A r \in Run : Answered(r)
CaptureInv == OnlyLatest /\ Certain /\ Turns /\ Recoveries

\* No horizon ends while a recovery stands between its first look and its begin.
Unhurried == \A i \in Id : HorizonElapses(i) => \A r \in Run : ~AtRecovery(r)

-----------------------------------------------------------------------------
(* What a step may do to a request *)

\* Only who is at the request sends; what is executed was on the wire.
LEMMA WireMoves ==
  ASSUME TypeInv, [Next]_vars, NEW i \in Id
  PROVE  /\ i \in wire' => i \in wire \/ Sending(i)
         /\ i \in executed' => i \in executed \/ i \in wire
         /\ sent[i] > 0 => sent'[i] > 0
         /\ ~Sending(i) => sent'[i] = sent[i]
<1>1. sent \in [Id -> 0..2]
  BY DEF TypeInv, TypeOK
<1>2. ASSUME wire' \subseteq wire, executed' \subseteq executed \cup wire, sent' = sent
      PROVE  /\ i \in wire' => i \in wire \/ Sending(i)
             /\ i \in executed' => i \in executed \/ i \in wire
             /\ sent[i] > 0 => sent'[i] > 0
             /\ ~Sending(i) => sent'[i] = sent[i]
  BY <1>2
<1>3. ASSUME NEW r \in Run, Send(r)
      PROVE  /\ i \in wire' => i \in wire \/ Sending(i)
             /\ i \in executed' => i \in executed \/ i \in wire
             /\ sent[i] > 0 => sent'[i] > 0
             /\ ~Sending(i) => sent'[i] = sent[i]
  <2>1. PICK k \in Id : k = run[r].id
    BY <1>3, WhatIsKnown DEF Send, At, KnowsId, Working, Operation, IsMinted
  <2>2. /\ wire' \subseteq wire \cup {k} /\ executed' = executed
        /\ sent' = [sent EXCEPT ![k] = IF @ = 0 \/ policy.repeatSafe THEN 1 ELSE 2]
    BY <1>3, <2>1 DEF Send
  <2>3. Sending(k)
    BY <1>3, <2>1 DEF Send, At, Sending
  <2> QED
    BY <1>1, <2>2, <2>3
<1>4. ASSUME NEW r \in Run, Step(r), ~Send(r)
      PROVE  wire' \subseteq wire /\ executed' \subseteq executed \cup wire /\ sent' = sent
  BY <1>4, Grouped, SilentStep, JobStepRows, RowStepRest, MoneyStepRest, EndStepRest
     DEF SendStep, Answer, BeginFresh, provider
<1>5. ASSUME UNCHANGED vars \/ Environment
      PROVE  wire' \subseteq wire /\ executed' \subseteq executed \cup wire /\ sent' = sent
  BY <1>5 DEF vars, Environment, RescheduleStalledFinalizations, WindowCloses, ReconcileOrphan,
     HorizonElapses, Execute, Lose, CallbackCaptured, CallbackFailed, provider
<1> QED
  BY <1>2, <1>3, <1>4, <1>5 DEF Next

\* A run comes to a request by its arm.
LEMMA ComesToSend ==
  ASSUME TypeInv, Leases, Armed1, NEW r \in Run, Step(r), run'[r].pc = "io"
  PROVE  Arm(r) /\ run'[r].id = run[r].id /\ Unknown(run[r].id)
<1>1. run \in [Run -> RunForm] /\ run[r] \in RunForm
  BY WhatIsKnown
<1>2. ASSUME NEW p, Go(r, p) PROVE run'[r].pc = p
  BY <1>1, <1>2 DEF Go, RunForm
<1>3. ~(LeaseExpires(r) /\ run'[r].pc = run[r].pc)
  BY DEF LeaseExpires, At
<1>4. ~(BeginAgain(r) \/ BeginFresh(r))
  <2>1. ASSUME BeginAgain(r) \/ BeginFresh(r)
        PROVE  \E i : \E p \in {"arm", "resolve", "tail", "sent"} : run' = [run EXCEPT ![r].id = i, ![r].pc = p]
    BY <2>1 DEF BeginAgain, BeginFresh, Next1
  <2> QED
    BY <1>1, <2>1 DEF RunForm
<1>5. ~(ReadStatus(r) \/ RecoveryStarts(r) \/ FinalizeFence(r))
  <2>1. ASSUME ReadStatus(r) \/ RecoveryStarts(r) \/ FinalizeFence(r)
        PROVE  \/ \E s : run' = [run EXCEPT ![r].pc = "act", ![r].seen = s]
               \/ \E p \in {"arm", "apply_release", "reconcile", "tail", "sent", "failed", "preflight",
                            "sum"} : Go(r, p)
    BY <2>1 DEF ReadStatus, Next1, RecoveryStarts, StartRail, FinalizeFence
  <2> QED
    BY <1>1, <1>2, <2>1 DEF RunForm
<1>6. Arm(r)
  BY <1>3, <1>4, <1>5, Arrivals DEF Critical
<1>7. Go(r, "io") /\ Unknown(run[r].id)
  BY <1>6 DEF Arm, Armable
<1> QED
  BY <1>1, <1>6, <1>7 DEF Go, RunForm

\* Who stands at a request was there, or the row was unknown.
LEMMA SendingMoves ==
  ASSUME TypeInv, Leases, Armed1, [Next]_vars, NEW i \in Id, Sending(i)'
  PROVE  Sending(i) \/ Unknown(i)
<1>1. PICK r \in Run : run'[r].pc = "io" /\ run'[r].id = i
  BY DEF Sending
<1>2. CASE Step(r)
  BY <1>1, <1>2, ComesToSend
<1>3. CASE ~Step(r)
  <2>1. run'[r] = run[r]
    BY <1>3, OnlyOneMoves, EnvironmentRows DEF Next, Moves, vars
  <2> QED
    BY <1>1, <2>1 DEF Sending
<1> QED
  BY <1>2, <1>3

\* The row of who stands at the request is unknown, or a success.
LEMMA SendingRow ==
  ASSUME TypeInv, Armed1, NEW i \in Id, Sending(i)
  PROVE  at[i].result \in {"unknown", "success"} /\ at[i].dispatch \in {"dispatching", "responded"}
  BY DEF Armed1, Sending

-----------------------------------------------------------------------------
(* What a step may do to a verdict *)

\* How a row changes, by whomever.
Written(i) ==
  \/ Clocked(i) \/ Succeeds(i) \/ Infers(i) \/ Retires(i) \/ Mints(i)
  \/ \E q \in Run : Arms(q, i) \/ TakesBack(q, i) \/ Settles(q, i) \/ Disowns(q, i)

\* The ways in which a row changes.
LEMMA RowMoves == ASSUME TypeInv, [Next]_vars, NEW i \in Id PROVE Written(i)
<1>1. ASSUME NEW q \in Run, Step(q) PROVE Written(i)
  BY <1>1, RowChanges DEF Changes, SucceedsBy, Written
<1>2. CASE Environment
  BY <1>2, EnvironmentChanges DEF Written
<1>3. CASE UNCHANGED vars
  BY <1>3, SameRow DEF vars, Written
<1> QED
  BY <1>1, <1>2, <1>3 DEF Next

\* A verdict stands, but that a success comes after a failure; what is unknown was
\* unknown, or is new.
LEMMA ResultMoves ==
  ASSUME TypeInv, Certain, [Next]_vars, NEW i \in Id
  PROVE  /\ at[i].result = "success" => at'[i].result = "success"
         /\ at[i].result = "permanent_fail" => at'[i].result \in {"permanent_fail", "success"}
         /\ Unknown(i)' => Unknown(i) \/ at[i].result = "none"
<1> DEFINE Stands ==
             /\ at[i].result = "success" => at'[i].result = "success"
             /\ at[i].result = "permanent_fail" => at'[i].result \in {"permanent_fail", "success"}
             /\ at'[i].result = "unknown" => at[i].result \in {"unknown", "none"}
<1>1. at[i] \in Row /\ sent \in [Id -> 0..2]
  BY DEF TypeInv, TypeOK
<1>2. CASE Clocked(i) \/ Succeeds(i) \/ Infers(i) \/ Retires(i) \/ Mints(i)
  BY <1>1, <1>2 DEF Clocked, Succeeds, Infers, Final, Retires, Recorded, Unknown, Mints, Absent, Row
<1>3. ASSUME NEW q \in Run, Arms(q, i) \/ TakesBack(q, i) \/ Disowns(q, i) PROVE Stands
  BY <1>1, <1>3 DEF Arms, TakesBack, Disowns, Row
<1>4. ASSUME NEW q \in Run, Settles(q, i) PROVE Stands
  <2>1. CASE SettleDeclined(q)
    <3>1. at'[i].result = IF at[i].result = "success" THEN "success" ELSE "permanent_fail"
      BY <1>4, <2>1 DEF Settles, SettleUnknown, SettleDeclined
    <3> QED
      BY <1>1, <3>1
  <2>2. CASE SettleUnknown(q)
    <3>1. at'[i].result = IF Final(i) THEN at[i].result ELSE "unknown"
      BY <1>4, <2>2 DEF Settles, SettleUnknown, SettleDeclined
    <3>2. sent[i] > 0
      BY <1>4, <2>2 DEF Settles, SettleUnknown, At, Certain, Answered
    <3>3. at[i].result # "temporary_fail"
      BY <1>1, <3>2 DEF Certain, Closed
    <3> QED
      BY <1>1, <3>1, <3>3 DEF Final, Row
  <2> QED
    BY <1>4, <2>1, <2>2 DEF Settles
<1> QED
  BY <1>2, <1>3, <1>4, RowMoves DEF Written, Unknown

\* Whom the participant waits for, it waited for, and nothing was said to it.
LEMMA FirstWaits ==
  ASSUME TypeInv, Backed, [Next]_vars, Waits(First)'
  PROVE  Waits(First) /\ UNCHANGED participant
<1>1. Waits(First)' => buyer' = "ChargingAttempt" /\ money' = "ChargeAttempt"
  BY DEF Waits, First, participant
<1>2. Waits(First) <=> buyer = "ChargingAttempt" /\ money = "ChargeAttempt"
  BY DEF Waits, First, participant
<1>3. CASE UNCHANGED participant
  BY <1>1, <1>2, <1>3 DEF participant
<1>4. ASSUME NEW i, IngestCaptured(i) \/ IngestFailed(i) PROVE UNCHANGED participant
  BY <1>1, <1>4 DEF IngestCaptured, IngestFailed, participant, Waits
<1>5. ASSUME NEW q \in Run, MoneyStep(q) PROVE UNCHANGED participant
  <2>1. CASE ApplyRelease(q)
    BY <1>1, <2>1 DEF ApplyRelease, participant
  <2> QED
    BY <1>4, <1>5, <2>1, MoneySpoken
<1>6. ASSUME NEW q \in Run, Outcome(q) PROVE UNCHANGED participant
  BY <1>1, <1>6 DEF Outcome, participant
<1>7. ASSUME NEW q \in Run, Step(q), ~MoneyStep(q), ~Outcome(q) PROVE UNCHANGED participant
  BY <1>7, Grouped, SilentStep, RowStepRest, EndStepRest, SendStepRest
     DEF JobStep, Claim, LeaseExpires, Reconcile, ScheduleRelease, ScheduleRecovery,
         FinalizeUnresolved, ToCompletionWindow, FinalizeDecides, BeginFresh, participant
<1>8. ASSUME UNCHANGED vars \/ Environment PROVE UNCHANGED participant
  <2>1. ASSUME NEW i \in Id, CallbackCaptured(i) \/ CallbackFailed(i) PROVE UNCHANGED participant
    BY <1>4, <2>1 DEF CallbackCaptured, CallbackFailed
  <2>2. CASE \/ UNCHANGED vars \/ RescheduleStalledFinalizations \/ WindowCloses
             \/ \E i \in Id : ReconcileOrphan(i) \/ HorizonElapses(i) \/ Execute(i) \/ Lose(i)
    BY <2>2 DEF vars, RescheduleStalledFinalizations, WindowCloses, ReconcileOrphan, HorizonElapses,
       Execute, Lose, participant
  <2> QED
    BY <1>8, <2>1, <2>2 DEF Environment
<1> QED
  BY <1>3, <1>5, <1>6, <1>7, <1>8 DEF Next

-----------------------------------------------------------------------------
(* At most one capture is live *)

\* The captures are identities.
LEMMA CapturesAreIds == CaptureIds \subseteq Id
  BY DEF CaptureIds, Capture, Id, AttemptType

\* What is live was minted.
LEMMA LiveMinted ==
  ASSUME TypeInv, Armed1, NEW i \in Id, Live(i)
  PROVE  at[i].result # "none"
<1>1. i \in wire \cup executed => at[i].result # "none"
  BY DEF TypeInv, Requests
<1> QED
  BY <1>1, SendingRow DEF Live, Unknown

\* One capture at most is live.
LEMMA LiveAlone ==
  ASSUME TypeInv, Armed1, OnlyLatest, NEW i \in CaptureIds, NEW j \in CaptureIds, Live(i), Live(j)
  PROVE  i = j
<1>1. at[i].result # "none" /\ at[j].result # "none"
  BY LiveMinted, CapturesAreIds
<1>2. Latest(i) /\ Latest(j)
  BY DEF OnlyLatest
<1>3. i[1] = j[1] /\ i[2] <= j[2] /\ j[2] <= i[2]
  BY <1>1, <1>2 DEF Latest
<1>4. i = <<i[1], i[2]>> /\ j = <<j[1], j[2]>> /\ i[2] \in Nat /\ j[2] \in Nat
  BY RailsAssumption DEF CaptureIds
<1> QED
  BY <1>3, <1>4

\* What is not live: what was not minted, what never left, what the provider
\* declined, and what was not executed when its horizon ended.
LEMMA NotLive ==
  ASSUME TypeInv, Armed1, Closed, NEW i \in CaptureIds,
         \/ at[i].result \in {"none", "temporary_fail"}
         \/ Exact(i)
         \/ at[i].result = "permanent_fail" /\ at[i].horizon = "elapsed" /\ i \notin executed
  PROVE  ~Live(i)
<1>1. i \in Id /\ sent \in [Id -> 0..2]
  BY CapturesAreIds DEF TypeInv, TypeOK
<1>2. at[i].result \in {"none", "temporary_fail", "permanent_fail"}
  BY DEF Exact
<1>3. ~Unknown(i) /\ ~Sending(i)
  BY <1>1, <1>2, SendingRow DEF Unknown
<1>4. i \notin wire \cup executed
  <2>1. CASE at[i].result = "none"
    BY <1>1, <2>1 DEF TypeInv, Requests
  <2>2. CASE at[i].result = "temporary_fail"
    BY <1>1, <2>2 DEF TypeInv, Requests, Closed
  <2>3. CASE Exact(i)
    BY <2>3 DEF Closed
  <2>4. CASE at[i].horizon = "elapsed" /\ i \notin executed
    BY <2>4 DEF Closed, Quiet
  <2> QED
    BY <2>1, <2>2, <2>3, <2>4
<1> QED
  BY <1>3, <1>4 DEF Live

\* A step mints nothing, or one identity, the next of a rail.
LEMMA Minting ==
  ASSUME TypeInv, [Next]_vars
  PROVE  \/ \A i \in Id : at'[i].result = "none" <=> at[i].result = "none"
         \/ \E r \in Run, i \in Id :
              /\ BeginFresh(r) /\ i = <<Rail(r), Cardinality(Minted(Rail(r))) + 1>>
              /\ Rail(r) \in AttemptType
              /\ \A k \in Id \ {i} : at'[k].result = "none" <=> at[k].result = "none"
<1>1. TypeOK /\ at \in [Id -> Row] /\ SameMinted(at)
  BY DEF TypeInv, TypeOK, SameMinted
<1>2. ASSUME NEW r \in Run, BeginFresh(r)
      PROVE  \E i \in Id :
              /\ i = <<Rail(r), Cardinality(Minted(Rail(r))) + 1>>
              /\ Rail(r) \in AttemptType
              /\ \A k \in Id \ {i} : at'[k].result = "none" <=> at[k].result = "none"
  <2> DEFINE a == Retired(Conflicting(Rail(r)))
             q == [Absent EXCEPT !.result = "unknown"]
  <2>1. PICK j \in Id : /\ j = <<Rail(r), Cardinality(Minted(Rail(r))) + 1>>
                        /\ Rail(r) \in AttemptType
                        /\ at' = [a EXCEPT ![j] = q]
    BY <1>2, FreshMoves
  <2>2. a \in [Id -> Row] /\ \A i \in Id : a[i].result = "none" <=> at[i].result = "none"
    BY <1>1, RetiredKeeps DEF SameMinted
  <2> HIDE DEF a, q
  <2>3. \A k \in Id \ {j} : at'[k].result = "none" <=> at[k].result = "none"
    BY <2>1, <2>2
  <2> QED
    BY <2>1, <2>3
<1>3. ASSUME NEW r \in Run, Step(r), ~BeginFresh(r) PROVE SameMinted(at')
  <2>1. CASE Silent(r) \/ JobStep(r) \/ SendStep(r)
    BY <1>1, <2>1, SilentStep, JobStepRows, SendStepRest
  <2>2. CASE RowStep(r) \/ MoneyStep(r)
    BY <2>2, RowsKept
  <2>3. CASE EndStep(r)
    BY <1>1, <2>3, EndStepRest, DisownedKeeps
  <2> QED
    BY <1>3, <2>1, <2>2, <2>3, Grouped
<1>4. CASE SameMinted(at')
  BY <1>4 DEF SameMinted
<1>5. CASE UNCHANGED vars
  BY <1>5 DEF vars
<1> QED
  BY <1>2, <1>3, <1>4, <1>5, EnvironmentRows DEF Next

\* A capture that is minted afresh is alone: nothing that was minted before it may
\* still happen, or did.
LEMMA FreshAlone ==
  ASSUME SendInv, CaptureInv, NEW r \in Run, BeginFresh(r), Rail(r) \in Capture
  PROVE  /\ \A i \in CaptureIds : ~Live(i)
         /\ Rail(r) = "charge_start" => Minted("recovery") = {}
<1> DEFINE a == Retired(Conflicting(Rail(r)))
<1>1. TypeInv /\ Armed1 /\ Closed /\ Turns /\ Recoveries /\ TypeOK /\ Contiguous
  BY DEF SendInv, CaptureInv, Certain, TypeInv
<1>2. /\ Admitted(Rail(r)) /\ Blockers(Rail(r), a) = {} /\ ~FenceHolds(Rail(r)) /\ Open(Rail(r), a) = {}
      /\ run[r].pc = "begin" /\ <<Rail(r), Cardinality(Minted(Rail(r))) + 1>> \in Id
  BY DEF BeginFresh, At
<1>3. Conflicting(Rail(r)) = {"release"}
  BY DEF Conflicting, Capture
<1>4. \A i \in CaptureIds : a[i] = at[i] /\ at[i] \in Row /\ i \in Id /\ i[1] \in Capture
  BY <1>1, <1>3, CapturesAreIds DEF Retired, TypeOK, CaptureIds, Capture
<1> HIDE DEF a
<1>5. Admitted(Rail(r)) <=> Waits(<<Rail(r), 1>>)
  BY DEF Admitted, Capture
<1>6. ASSUME NEW i \in CaptureIds, i[1] = Rail(r) PROVE at[i].result \notin {"unknown", "success"}
  BY <1>2, <1>4, <1>6 DEF Open
<1>7. CASE Rail(r) = "charge_start"
  <2>1. Waits(First)
    BY <1>2, <1>5, <1>7 DEF First
  <2>2. /\ Minted("recovery") = {}
        /\ \A i \in CaptureIds : at[i].result = "permanent_fail" => at[i].evidence = "dispatch_response"
    BY <1>1, <2>1 DEF Turns
  <2>3. ASSUME NEW i \in CaptureIds PROVE at[i].result \in {"none", "temporary_fail"} \/ Exact(i)
    <3>1. CASE i[1] = "charge_start"
      BY <1>4, <1>6, <1>7, <2>2, <3>1 DEF Row, Exact
    <3>2. CASE i[1] = "recovery"
      BY <1>4, <2>2, <3>2 DEF Minted
    <3> QED
      BY <1>4, <3>1, <3>2 DEF Capture
  <2> QED
    BY <1>1, <2>2, <2>3, NotLive
<1>8. CASE Rail(r) = "recovery"
  <2>1. run[r].job = "recovery_deal"
    BY <1>8 DEF Rail
  <2>2. Fence = "none"
    BY <1>2, <1>8 DEF FenceHolds
  <2>3. ASSUME NEW i \in CaptureIds PROVE at[i].result \notin {"unknown", "success"}
    <3>1. CASE i[1] = "charge_start"
      BY <1>2, <1>4, <1>8, <3>1 DEF Blockers
    <3> QED
      BY <1>4, <1>6, <1>8, <3>1 DEF Capture
  <2>4. ASSUME NEW i \in CaptureIds, Fenced(i) PROVE at[i].horizon = "elapsed"
    BY <1>4, <2>2, <2>4 DEF Fence, Row
  <2>5. ASSUME NEW i \in CaptureIds, Fenced(i) => i \notin executed PROVE ~Live(i)
    <3>1. CASE at[i].result = "permanent_fail"
      <4>1. Exact(i) \/ Fenced(i)
        BY <1>1, <3>1 DEF Closed, Exact, Fenced
      <4> QED
        BY <1>1, <2>4, <2>5, <3>1, <4>1, NotLive
    <3>2. CASE at[i].result \in {"none", "temporary_fail"}
      BY <1>1, <3>2, NotLive
    <3> QED
      BY <1>4, <2>3, <3>1, <3>2 DEF Row
  <2>6. CASE MaxIds # 1
    <3>1. NothingPast
      BY <1>1, <1>2, <2>1, <2>6 DEF Recoveries, Looked
    <3>2. ~\E i \in Minted("recovery") : at[i].result = "success"
      <4>1. ASSUME NEW i \in Minted("recovery") PROVE i \in CaptureIds
        BY <4>1 DEF Minted, CaptureIds, Capture, Id
      <4> QED
        BY <2>3, <4>1
    <3> QED
      BY <1>8, <2>4, <2>5, <3>1, <3>2 DEF NothingPast
  <2>7. CASE MaxIds = 1
    <3>1. ChargeGone
      BY <1>1, <1>2, <2>1, <2>7 DEF Recoveries, Looked
    <3>2. Minted("recovery") = {}
      <4> SUFFICES ASSUME Minted("recovery") # {} PROVE FALSE
        OBVIOUS
      <4>1. Newest("recovery") \in Minted("recovery")
        BY <1>1, NewestCounted DEF AttemptType
      <4>2. Cardinality(Minted("recovery")) \in 1..1
        BY <2>7, <4>1 DEF Newest, Minted, Id
      <4>3. Cardinality(Minted("recovery")) + 1 \in 1..1
        BY <1>2, <1>8, <2>7 DEF Id
      <4> QED
        BY <4>2, <4>3
    <3>3. First \in CaptureIds
      BY <2>7 DEF First, CaptureIds, Capture
    <3>4. First \notin executed
      BY <2>3, <3>1, <3>2, <3>3 DEF ChargeGone
    <3>5. ASSUME NEW i \in CaptureIds PROVE i = First \/ at[i].result = "none"
      <4>1. CASE i[1] = "charge_start"
        BY <2>7, <4>1 DEF CaptureIds, First
      <4>2. CASE i[1] = "recovery"
        BY <1>4, <3>2, <4>2 DEF Minted
      <4> QED
        BY <1>4, <4>1, <4>2 DEF Capture
    <3>6. ASSUME NEW i \in CaptureIds PROVE Fenced(i) => i \notin executed
      BY <3>4, <3>5 DEF Fenced
    <3> QED
      BY <1>8, <2>5, <3>6
  <2> QED
    BY <2>6, <2>7
<1> QED
  BY <1>7, <1>8 DEF Capture

\* What is live after a step was live, or was minted by it.
LEMMA LiveStays ==
  ASSUME SendInv, Certain, [Next]_vars, NEW i \in Id, Live(i)'
  PROVE  Live(i) \/ at[i].result = "none"
<1>1. TypeInv /\ Leases /\ Armed1 /\ Certain
  BY DEF SendInv
<1>2. CASE Unknown(i)'
  BY <1>1, <1>2, ResultMoves DEF Live
<1>3. CASE Sending(i)'
  BY <1>1, <1>3, SendingMoves DEF Live
<1>4. CASE i \in (wire \cup executed)'
  BY <1>1, <1>4, WireMoves DEF Live
<1> QED
  BY <1>2, <1>3, <1>4 DEF Live

\* Only the latest capture is live, whatever step is taken.
LEMMA OnlyLatestStep ==
  ASSUME SendInv, CaptureInv, [Next]_vars
  PROVE  OnlyLatest'
<1>1. TypeInv /\ Armed1 /\ OnlyLatest /\ Certain /\ TypeOK /\ Contiguous
  BY DEF SendInv, CaptureInv, TypeInv
<1> SUFFICES ASSUME NEW i \in CaptureIds, Live(i)', NEW j \in CaptureIds, at'[j].result # "none"
             PROVE  (j[1] = i[1] /\ j[2] <= i[2]) \/ (i[1] = "recovery" /\ j[1] = "charge_start")
  BY DEF OnlyLatest, Latest
<1>2. i \in Id /\ j \in Id /\ i[1] \in Capture /\ j[1] \in Capture
  BY CapturesAreIds DEF CaptureIds
<1>3. i[2] \in Nat /\ j[2] \in Nat /\ i = <<i[1], i[2]>> /\ j = <<j[1], j[2]>>
  BY RailsAssumption DEF CaptureIds
<1>4. Live(i) \/ at[i].result = "none"
  BY <1>1, <1>2, LiveStays
<1>5. ASSUME at[i].result # "none", at[j].result # "none"
      PROVE  (j[1] = i[1] /\ j[2] <= i[2]) \/ (i[1] = "recovery" /\ j[1] = "charge_start")
  BY <1>1, <1>4, <1>5 DEF OnlyLatest, Latest
<1>6. at'[i].result # "none"
  <2>1. CASE at[i].result # "none"
    BY <1>1, <1>2, <2>1, RowsGrow DEF IsMinted
  <2>2. CASE at[i].result = "none"
    <3>1. ~Live(i)
      BY <1>1, <1>2, <2>2, LiveMinted
    <3>2. ~Sending(i)' /\ i \notin (wire \cup executed)'
      BY <1>1, <1>2, <3>1, SendingMoves, WireMoves DEF Live, SendInv
    <3> QED
      BY <3>2 DEF Live, Unknown
  <2> QED
    BY <2>1, <2>2
<1>7. ASSUME NEW r \in Run, NEW k \in Id, BeginFresh(r),
             k = <<Rail(r), Cardinality(Minted(Rail(r))) + 1>>, Rail(r) \in AttemptType,
             \A m \in Id \ {k} : at'[m].result = "none" <=> at[m].result = "none"
      PROVE  (j[1] = i[1] /\ j[2] <= i[2]) \/ (i[1] = "recovery" /\ j[1] = "charge_start")
  <2>1. CASE Rail(r) \notin Capture
    BY <1>2, <1>5, <1>6, <1>7, <2>1
  <2>2. CASE Rail(r) \in Capture
    <3>1. /\ \A m \in CaptureIds : ~Live(m)
          /\ Rail(r) = "charge_start" => Minted("recovery") = {}
      BY <1>7, <2>2, FreshAlone
    <3>2. i = k
      BY <1>2, <1>4, <1>6, <1>7, <3>1
    <3>3. CASE j = k
      BY <1>3, <3>2, <3>3
    <3>4. CASE j # k
      <4>1. at[j].result # "none" /\ j \in Minted(j[1])
        BY <1>2, <1>7, <3>4 DEF Minted
      <4>2. CASE j[1] = Rail(r)
        <5>1. Cardinality(Minted(Rail(r))) \in 0..MaxIds /\ j[2] <= Cardinality(Minted(Rail(r)))
          BY <1>1, <1>7, <4>1, <4>2, NewestCounted DEF Newest
        <5>2. i[1] = Rail(r) /\ i[2] = Cardinality(Minted(Rail(r))) + 1
          BY <1>7, <3>2
        <5> QED
          BY <1>3, <4>2, <5>1, <5>2, RailsAssumption
      <4>3. CASE j[1] # Rail(r)
        BY <1>2, <1>7, <2>2, <3>1, <3>2, <4>1, <4>3 DEF Capture
      <4> QED
        BY <4>2, <4>3
    <3> QED
      BY <3>3, <3>4
  <2> QED
    BY <2>1, <2>2
<1> QED
  BY <1>1, <1>2, <1>5, <1>6, <1>7, Minting

\* What the rows say of a closed capture stays true.
LEMMA ClosedStep ==
  ASSUME SendInv, Certain, [Next]_vars, RecordedNeverSent
  PROVE  Closed'
<1>1. /\ TypeInv /\ Leases /\ Armed1 /\ Closed /\ Certain /\ (\A r \in Run : Answered(r))
      /\ at \in [Id -> Row] /\ sent \in [Id -> 0..2]
  BY DEF SendInv, CaptureInv, Certain, TypeInv, TypeOK
<1>2. ASSUME NEW i \in CaptureIds, Exact(i)' PROVE i \notin wire' \cup executed'
  <2>1. i \in Id /\ at[i] \in Row /\ i[1] # "release"
    BY <1>1, CapturesAreIds DEF CaptureIds, Capture
  <2>2. at'[i].result = "permanent_fail" /\ at'[i].evidence = "dispatch_response"
    BY <1>2 DEF Exact
  <2>3. CASE Exact(i)
    <3>1. ~Sending(i) /\ i \notin wire \cup executed
      BY <1>1, <2>1, <2>3, SendingRow DEF Exact, Closed
    <3> QED
      BY <1>1, <2>1, <3>1, WireMoves
  <2>4. ASSUME Clocked(i) \/ Succeeds(i) \/ Infers(i) \/ Retires(i) \/ Mints(i) PROVE Exact(i)
    BY <2>1, <2>2, <2>4 DEF Clocked, Succeeds, Infers, Retires, Mints, Absent, Row, Exact
  <2>5. ASSUME NEW q \in Run, Arms(q, i) \/ TakesBack(q, i) \/ Disowns(q, i) PROVE Exact(i)
    BY <2>1, <2>2, <2>5 DEF Arms, TakesBack, Disowns, Row, Exact
  <2>6. ASSUME NEW q \in Run, Settles(q, i) PROVE Exact(i) \/ i \notin wire' \cup executed'
    <3>1. CASE SettleDeclined(q)
      <4>1. i \notin wire \cup executed
        BY <1>1, <2>6, <3>1 DEF Settles, SettleDeclined, At, Answered
      <4> QED
        BY <3>1, <4>1 DEF SettleDeclined, provider
    <3>2. CASE SettleUnknown(q)
      <4>1. /\ at'[i].evidence = at[i].evidence
            /\ at'[i].result = IF Final(i) THEN at[i].result ELSE "unknown"
        BY <2>6, <3>2 DEF Settles, SettleUnknown, SettleDeclined
      <4> QED
        BY <2>2, <4>1 DEF Exact
    <3> QED
      BY <2>6, <3>1, <3>2 DEF Settles
  <2> QED
    BY <1>1, <2>1, <2>3, <2>4, <2>5, <2>6, RowMoves DEF Written
<1>3. ASSUME NEW i \in CaptureIds, at'[i].result = "permanent_fail"
      PROVE  at'[i].evidence \in {"dispatch_response", "inferred"}
  <2>1. i \in Id /\ at[i] \in Row /\ i[1] # "release"
    BY <1>1, CapturesAreIds DEF CaptureIds, Capture
  <2>2. at[i].result = "permanent_fail" => at[i].evidence \in {"dispatch_response", "inferred"}
    BY <1>1 DEF Closed
  <2>3. ASSUME Clocked(i) \/ Succeeds(i) \/ Infers(i) \/ Retires(i) \/ Mints(i)
        PROVE  at'[i].evidence \in {"dispatch_response", "inferred"}
    BY <1>3, <2>1, <2>2, <2>3 DEF Clocked, Succeeds, Infers, Retires, Mints, Absent, Row
  <2>4. ASSUME NEW q \in Run, Arms(q, i) \/ TakesBack(q, i) \/ Disowns(q, i)
        PROVE  at'[i].evidence \in {"dispatch_response", "inferred"}
    BY <1>3, <2>1, <2>2, <2>4 DEF Arms, TakesBack, Disowns, Row
  <2>5. ASSUME NEW q \in Run, Settles(q, i) PROVE at'[i].evidence \in {"dispatch_response", "inferred"}
    <3>1. \/ at'[i].evidence = "dispatch_response"
          \/ /\ at'[i].evidence = at[i].evidence
             /\ at'[i].result = IF Final(i) THEN at[i].result ELSE "unknown"
      BY <2>5 DEF Settles
    <3> QED
      BY <1>3, <2>2, <3>1
  <2> QED
    BY <1>1, <2>1, <2>3, <2>4, <2>5, RowMoves DEF Written
<1>4. ASSUME NEW i \in Id, Quiet(i) PROVE Quiet(i)'
  <2>1. Final(i) /\ i \notin wire /\ ~Sending(i) /\ ~Unknown(i)
    BY <1>4 DEF Quiet, Final, Unknown
  <2>2. Final(i)'
    BY <1>1, <2>1, ResultMoves DEF Final
  <2>3. i \notin wire' /\ ~Sending(i)'
    BY <1>1, <2>1, WireMoves, SendingMoves
  <2> QED
    BY <2>2, <2>3 DEF Quiet
<1>5. ASSUME NEW i \in CaptureIds, at'[i].horizon = "elapsed" PROVE Quiet(i)'
  <2>1. i \in Id /\ at[i] \in Row
    BY <1>1, CapturesAreIds
  <2>2. CASE at[i].horizon = "elapsed"
    BY <1>1, <1>4, <2>1, <2>2 DEF Closed
  <2>3. CASE HorizonElapses(i)
    <3>1. Final(i) /\ i \notin wire /\ ~Sending(i)
      BY <2>3 DEF HorizonElapses, Fenced, Final, Sending, At
    <3> QED
      BY <1>4, <2>1, <3>1 DEF Quiet
  <2>4. ASSUME Clocked(i) \/ Succeeds(i) \/ Infers(i) \/ Retires(i) \/ Mints(i)
        PROVE  at[i].horizon = "elapsed" \/ HorizonElapses(i)
    BY <1>5, <2>1, <2>4 DEF Clocked, Ticks, Succeeds, Infers, Retires, Mints, Absent, Row
  <2>5. ASSUME NEW q \in Run, Arms(q, i) \/ TakesBack(q, i) \/ Disowns(q, i)
        PROVE  at[i].horizon = "elapsed" \/ HorizonElapses(i)
    BY <1>5, <2>1, <2>5 DEF Arms, Ticks, TakesBack, Disowns, Row
  <2>6. ASSUME NEW q \in Run, Settles(q, i) PROVE at[i].horizon = "elapsed"
    <3>1. at'[i] = [at[i] EXCEPT !.dispatch = "responded", !.evidence = at'[i].evidence,
                                 !.result = at'[i].result]
      BY <2>6 DEF Settles
    <3>2. at'[i].horizon = at[i].horizon
      BY <2>1, <3>1 DEF Row
    <3> QED
      BY <1>5, <3>2
  <2> QED
    BY <1>1, <2>1, <2>2, <2>3, <2>4, <2>5, <2>6, RowMoves DEF Written
<1>6. ASSUME NEW i \in Id, at'[i].result = "temporary_fail" PROVE sent'[i] = 0
  <2>1. at[i] \in Row
    BY <1>1
  <2>2. at[i].result = "temporary_fail" \/ Recorded(i)
    <3>1. ASSUME Clocked(i) \/ Succeeds(i) \/ Infers(i) \/ Retires(i) \/ Mints(i)
          PROVE  at[i].result = "temporary_fail" \/ Recorded(i)
      BY <1>6, <2>1, <3>1 DEF Clocked, Succeeds, Infers, Retires, Mints, Absent, Row
    <3>2. ASSUME NEW q \in Run, Arms(q, i) \/ TakesBack(q, i) \/ Disowns(q, i)
          PROVE  at[i].result = "temporary_fail"
      BY <1>6, <2>1, <3>2 DEF Arms, TakesBack, Disowns, Row
    <3>3. ASSUME NEW q \in Run, Settles(q, i) PROVE FALSE
      <4>1. \/ at'[i].result = IF at[i].result = "success" THEN "success" ELSE "permanent_fail"
            \/ at'[i].result = IF Final(i) THEN at[i].result ELSE "unknown"
        BY <3>3 DEF Settles
      <4> QED
        BY <1>6, <4>1 DEF Final
    <3> QED
      BY <1>1, <3>1, <3>2, <3>3, RowMoves DEF Written
  <2>3. sent[i] = 0 /\ ~Sending(i)
    <3>1. sent[i] = 0
      BY <1>1, <2>2 DEF Closed, RecordedNeverSent
    <3>2. ~Sending(i)
      BY <1>1, <2>2, SendingRow DEF Recorded
    <3> QED
      BY <3>1, <3>2
  <2> QED
    BY <1>1, <2>3, WireMoves
<1> QED
  BY <1>2, <1>3, <1>5, <1>6 DEF Closed

\* How a run comes to have an answer in hand.
LEMMA AnsweredStep ==
  ASSUME SendInv, Certain, [Next]_vars, RecordedNeverSent', NEW r \in Run
  PROVE  Answered(r)'
<1>1. /\ TypeInv /\ Leases /\ Armed1 /\ Closed /\ Answered(r)
      /\ at \in [Id -> Row] /\ sent \in [Id -> 0..2]
      /\ run \in [Run -> RunForm] /\ run[r] \in RunForm
      /\ r # "gone" /\ "gone" # "null"
  BY WhatIsKnown, RailsAssumption DEF SendInv, CaptureInv, Certain, TypeInv, TypeOK
<1>2. ASSUME NEW p, Go(r, p) PROVE run'[r].pc = p
  BY <1>1, <1>2 DEF Go, RunForm
<1>3. CASE run'[r].pc \notin {"await", "settle"}
  BY <1>3 DEF Answered
<1>4. CASE run'[r].pc \in {"await", "settle"} /\ run'[r].pc = run[r].pc /\ run'[r].id = run[r].id
           /\ run'[r].seen = run[r].seen
  <2>1. PICK i \in Id : i = run[r].id
    BY <1>4, WhatIsKnown, <1>1 DEF KnowsId, Working, Operation, IsMinted
  <2>2. sent[i] > 0 => sent'[i] > 0
    BY <1>1, WireMoves
  <2>3. ASSUME run[r].pc = "settle", run[r].seen = "permanent_fail", Mine(r)'
        PROVE  i \notin wire' \cup executed'
    <3>1. at'[i].owner \in {r, "null"}
      BY <1>4, <2>1, <2>3 DEF Mine
    <3>2. sent[i] > 0
      BY <1>1, <2>1, <2>3 DEF Answered
    <3>3. at[i] \in Row
      BY <1>1
    <3>4. at[i].owner \in {r, "null"}
      <4>1. ASSUME Clocked(i) \/ Succeeds(i) \/ Infers(i) \/ Retires(i)
            PROVE  at[i].owner \in {r, "null"}
        BY <3>1, <3>3, <4>1 DEF Clocked, Succeeds, Infers, Retires, Row
      <4>2. ~Mints(i)
        BY <1>1, <3>2 DEF Mints, TypeInv, Requests
      <4>3. ASSUME NEW q \in Run, Arms(q, i) PROVE FALSE
        <5>1. at'[i].owner = q /\ q # "null"
          BY <3>3, <4>3, RailsAssumption DEF Arms, Row
        <5>2. q = r /\ run[r].pc = "arm"
          BY <3>1, <4>3, <5>1 DEF Arms, Arm, At
        <5> QED
          BY <2>3, <5>2
      <4>4. ASSUME NEW q \in Run, TakesBack(q, i) PROVE FALSE
        <5>1. /\ at'[i].dispatch = "recorded" /\ at'[i].result = at[i].result /\ SettleNotSent(q)
              /\ i = run[q].id /\ at[i].owner = q
          BY <3>3, <4>4 DEF TakesBack, Row
        <5>2. sent'[i] > 0
          BY <2>2, <3>2
        <5>3. at'[i].result # "unknown"
          BY <5>1, <5>2 DEF RecordedNeverSent, Recorded, Unknown
        <5>4. at' = at
          BY <5>1, <5>3 DEF SettleNotSent, Unknown
        <5>5. q = r
          BY <3>1, <5>1, <5>4, RailsAssumption
        <5> QED
          BY <2>3, <5>1, <5>5 DEF SettleNotSent
      <4>5. ASSUME NEW q \in Run, Settles(q, i) PROVE at[i].owner \in {r, "null"}
        <5>1. at'[i] = [at[i] EXCEPT !.dispatch = "responded", !.evidence = at'[i].evidence,
                                     !.result = at'[i].result]
          BY <4>5 DEF Settles
        <5>2. at'[i].owner = at[i].owner
          BY <3>3, <5>1 DEF Row
        <5> QED
          BY <3>1, <5>2
      <4>6. ASSUME NEW q \in Run, Disowns(q, i) PROVE FALSE
        <5>1. at'[i].owner = "gone"
          BY <3>3, <4>6 DEF Disowns, Row
        <5> QED
          BY <1>1, <3>1, <5>1
      <4> QED
        BY <1>1, <4>1, <4>2, <4>3, <4>4, <4>5, <4>6, RowMoves DEF Written
    <3>5. i \notin wire \cup executed
      BY <1>1, <2>1, <2>3, <3>4 DEF Answered, Mine
    <3>6. ~Sending(i)
      BY <1>1, <2>3, <3>4, RailsAssumption DEF Sending, Armed1
    <3> QED
      BY <1>1, <3>5, <3>6, WireMoves
  <2> QED
    BY <1>1, <1>4, <2>1, <2>2, <2>3 DEF Answered
<1>5. CASE ~Step(r)
  <2>1. run'[r] = run[r]
    BY <1>1, <1>5, OnlyOneMoves, EnvironmentRows DEF Next, Moves, vars
  <2> QED
    BY <1>3, <1>4, <2>1
<1>6. CASE LeaseExpires(r)
  <2>1. run'[r].pc = run[r].pc /\ run'[r].id = run[r].id /\ run'[r].seen = run[r].seen
    BY <1>1, <1>6 DEF LeaseExpires, RunForm
  <2> QED
    BY <1>3, <1>4, <2>1
<1>7. CASE Send(r)
  <2>1. PICK i \in Id : i = run[r].id
    BY <1>1, <1>7, WhatIsKnown DEF Send, At, KnowsId, Working, Operation, IsMinted
  <2>2. run'[r].id = i /\ run'[r].pc = "await"
    BY <1>1, <1>7, <2>1 DEF Send, Go, RunForm
  <2>3. sent'[i] > 0
    BY <1>1, <1>7, <2>1 DEF Send
  <2> QED
    BY <2>2, <2>3 DEF Answered
<1>8. CASE NotSent(r)
  <2>1. run'[r].pc = "settle" /\ run'[r].seen = "pre_dispatch_failure"
    BY <1>1, <1>8 DEF NotSent, RunForm
  <2> QED
    BY <2>1 DEF Answered
<1>9. ASSUME NEW o \in Outcomes, Answer(r, o) PROVE Answered(r)'
  <2>1. PICK i \in Id : i = run[r].id
    BY <1>1, <1>9, WhatIsKnown DEF Answer, At, KnowsId, Working, Operation, IsMinted
  <2>2. run'[r].id = i /\ run'[r].pc = "settle" /\ run'[r].seen = o
    BY <1>1, <1>9, <2>1 DEF Answer, RunForm
  <2>3. sent[i] > 0 /\ sent' = sent
    BY <1>1, <1>9, <2>1 DEF Answer, Answered, At
  <2>4. o = "permanent_fail" => i \notin wire' \cup executed'
    BY <1>9, <2>1 DEF Answer
  <2> QED
    BY <2>2, <2>3, <2>4 DEF Answered
<1>10. ASSUME \/ RecoveryStarts(r) \/ FinalizeFence(r) \/ BeginAgain(r) \/ BeginFresh(r) \/ ReadStatus(r)
       PROVE  run'[r].pc \notin {"await", "settle"}
  <2>1. ASSUME BeginAgain(r) \/ BeginFresh(r)
        PROVE  \E i : \E p \in {"arm", "resolve", "tail", "sent"} : run' = [run EXCEPT ![r].id = i, ![r].pc = p]
    BY <2>1 DEF BeginAgain, BeginFresh, Next1
  <2>2. ASSUME ReadStatus(r) \/ RecoveryStarts(r) \/ FinalizeFence(r)
        PROVE  \/ \E s : run' = [run EXCEPT ![r].pc = "act", ![r].seen = s]
               \/ \E p \in {"arm", "apply_release", "reconcile", "tail", "sent", "failed", "preflight",
                            "sum"} : Go(r, p)
    BY <2>2 DEF ReadStatus, Next1, RecoveryStarts, StartRail, FinalizeFence
  <2> QED
    BY <1>1, <1>2, <1>10, <2>1, <2>2 DEF RunForm
<1> QED
  BY <1>1, <1>3, <1>5, <1>6, <1>7, <1>8, <1>9, <1>10, Arrivals DEF Critical

\* A participant comes to wait for a recovery by the failure of a charge.
LEMMA ChargeFails ==
  ASSUME TypeInv, Backed, [Next]_vars, buyer' = "ChargeFailedCompletion",
         buyer # "ChargeFailedCompletion"
  PROVE  \E i \in Id : IngestFailed(i) /\ i[1] = "charge_start"
<1>1. ASSUME NEW i, IngestCaptured(i) \/ IngestFailed(i)
      PROVE  IngestFailed(i) /\ i[1] = "charge_start"
  BY <1>1 DEF IngestCaptured, IngestFailed, participant
<1>2. ASSUME UNCHANGED participant PROVE FALSE
  BY <1>2 DEF participant
<1>3. ASSUME NEW q \in Run, MoneyStep(q) PROVE \E i \in Id : IngestFailed(i) /\ i[1] = "charge_start"
  <2>1. run[q].id \in Id
    BY <1>3, WhatIsKnown DEF MoneyStep, ResolveCaptured, ResolveFailed, Ingest, ApplyRelease, SecondLook,
       ConcludeCaptured, ConcludeNotCaptured, At, KnowsId, Working, Operation, Reconciling, IsMinted
  <2>2. ~ApplyRelease(q)
    BY DEF ApplyRelease
  <2> QED
    BY <1>1, <1>2, <1>3, <2>1, <2>2, MoneySpoken
<1>4. ASSUME NEW q \in Run, Outcome(q) PROVE FALSE
  BY <1>4 DEF Outcome
<1>5. ASSUME NEW q \in Run, Step(q), ~MoneyStep(q), ~Outcome(q) PROVE UNCHANGED participant
  BY <1>5, Grouped, SilentStep, RowStepRest, EndStepRest, SendStepRest
     DEF JobStep, Claim, LeaseExpires, Reconcile, ScheduleRelease, ScheduleRecovery,
         FinalizeUnresolved, ToCompletionWindow, FinalizeDecides, BeginFresh, participant
<1>6. ASSUME UNCHANGED vars \/ Environment
      PROVE  \E i \in Id : IngestFailed(i) /\ i[1] = "charge_start"
  <2>1. ASSUME NEW i \in Id, CallbackCaptured(i) \/ CallbackFailed(i)
        PROVE  IngestFailed(i) /\ i[1] = "charge_start"
    BY <1>1, <2>1 DEF CallbackCaptured, CallbackFailed
  <2>2. CASE \/ UNCHANGED vars \/ RescheduleStalledFinalizations \/ WindowCloses
             \/ \E i \in Id : ReconcileOrphan(i) \/ HorizonElapses(i) \/ Execute(i) \/ Lose(i)
    BY <1>2, <2>2 DEF vars, RescheduleStalledFinalizations, WindowCloses, ReconcileOrphan, HorizonElapses,
       Execute, Lose, participant
  <2> QED
    BY <1>6, <2>1, <2>2 DEF Environment
<1> QED
  BY <1>2, <1>3, <1>4, <1>5, <1>6 DEF Next

\* With one identity of a kind, the first charge is the only one.
LEMMA FirstCharge ==
  ASSUME MaxIds = 1
  PROVE  First \in CaptureIds /\ \A i \in Id : i[1] = "charge_start" => i = First
  BY DEF First, CaptureIds, Capture, Id

\* The turns of charge and recovery are kept.
LEMMA TurnsStep ==
  ASSUME SendInv, Backed, CaptureInv, [Next]_vars
  PROVE  Turns'
<1>1. /\ TypeInv /\ Closed /\ Certain /\ Turns /\ at \in [Id -> Row]
  BY DEF SendInv, CaptureInv, Certain, TypeInv, TypeOK
<1>2. ASSUME Waits(First)'
      PROVE  /\ Minted("recovery")' = {}
             /\ \A i \in CaptureIds :
                  at'[i].result = "permanent_fail" => at'[i].evidence = "dispatch_response"
  <2>1. Waits(First) /\ UNCHANGED participant
    BY <1>1, <1>2, FirstWaits
  <2>2. /\ Minted("recovery") = {}
        /\ \A i \in CaptureIds : at[i].result = "permanent_fail" => at[i].evidence = "dispatch_response"
    BY <1>1, <2>1 DEF Turns
  <2>3. ASSUME NEW i \in Id, i[1] = "recovery" PROVE at'[i].result = "none"
    <3>1. at[i].result = "none"
      BY <2>2, <2>3 DEF Minted
    <3>2. ASSUME NEW r \in Run, BeginFresh(r), Rail(r) = "recovery" PROVE FALSE
      <4>1. Waits(<<"recovery", 1>>)
        BY <3>2 DEF BeginFresh, Admitted
      <4> QED
        BY <2>1, <4>1 DEF Waits, First, participant
    <3> QED
      BY <1>1, <2>3, <3>1, <3>2, Minting
  <2>4. Minted("recovery")' = {}
    BY <2>3 DEF Minted
  <2>5. ASSUME NEW i \in CaptureIds, at'[i].result = "permanent_fail"
        PROVE  at'[i].evidence = "dispatch_response"
    <3>1. i \in Id /\ at[i] \in Row /\ i[1] \in Capture
      BY <1>1, CapturesAreIds DEF CaptureIds
    <3>2. i[1] = "charge_start"
      BY <2>3, <2>5, <3>1 DEF Capture
    <3>3. ~Infers(i)
      <4> SUFFICES ASSUME Infers(i) PROVE FALSE
        OBVIOUS
      <4>1. IngestFailed(i) /\ Waits(i)
        BY <2>1, <3>2 DEF Infers, Waits, First
      <4>2. buyer' = "ChargeFailedCompletion"
        BY <3>2, <4>1 DEF IngestFailed
      <4> QED
        BY <2>1, <4>2 DEF Waits, First, participant
    <3>4. ASSUME Clocked(i) \/ Succeeds(i) \/ Retires(i) \/ Mints(i)
          PROVE  at'[i].evidence = "dispatch_response"
      BY <2>2, <2>5, <3>1, <3>4 DEF Clocked, Succeeds, Retires, Mints, Absent, Row
    <3>5. ASSUME NEW q \in Run, Arms(q, i) \/ TakesBack(q, i) \/ Disowns(q, i)
          PROVE  at'[i].evidence = "dispatch_response"
      BY <2>2, <2>5, <3>1, <3>5 DEF Arms, TakesBack, Disowns, Row
    <3>6. ASSUME NEW q \in Run, Settles(q, i) PROVE at'[i].evidence = "dispatch_response"
      <4>1. \/ at'[i].evidence = "dispatch_response"
            \/ /\ at'[i].evidence = at[i].evidence
               /\ at'[i].result = IF Final(i) THEN at[i].result ELSE "unknown"
        BY <3>6 DEF Settles
      <4> QED
        BY <2>2, <2>5, <4>1
    <3> QED
      BY <1>1, <3>1, <3>3, <3>4, <3>5, <3>6, RowMoves DEF Written
  <2> QED
    BY <2>4, <2>5
<1>3. ASSUME MaxIds = 1, buyer' = "ChargeFailedCompletion" PROVE Final(First)'
  <2>1. First \in Id
    BY <1>3, FirstCharge, CapturesAreIds
  <2>2. CASE buyer = "ChargeFailedCompletion"
    <3>1. Final(First)
      BY <1>1, <1>3, <2>2 DEF Turns
    <3> QED
      BY <1>1, <2>1, <3>1, ResultMoves DEF Final
  <2>3. CASE buyer # "ChargeFailedCompletion"
    <3>1. IngestFailed(First)
      BY <1>1, <1>3, <2>3, ChargeFails, FirstCharge
    <3>2. at' = Inferred(First)
      BY <3>1 DEF IngestFailed
    <3> QED
      BY <1>1, <2>1, <3>2 DEF Inferred, Final, Row
  <2> QED
    BY <2>2, <2>3
<1> QED
  BY <1>2, <1>3 DEF Turns

-----------------------------------------------------------------------------
(* What a recovery saw stays true until it begins *)

\* What a recovery saw of horizons that are past stays true while none ends.
LEMMA NothingPastStays ==
  ASSUME SendInv, CaptureInv, [Next]_vars, NothingPast, \A i \in Id : ~HorizonElapses(i)
  PROVE  NothingPast'
<1>1. /\ TypeInv /\ Closed /\ Certain /\ at \in [Id -> Row]
  BY DEF SendInv, CaptureInv, Certain, TypeInv, TypeOK
<1>2. ASSUME NEW i \in Minted("recovery"), at[i].result = "success" PROVE NothingPast'
  <2>1. i \in Id /\ at'[i].result = "success" /\ i[1] = "recovery"
    BY <1>1, <1>2, ResultMoves DEF Minted
  <2>2. i \in Minted("recovery")'
    BY <2>1 DEF Minted
  <2> QED
    BY <2>1, <2>2 DEF NothingPast
<1>3. ASSUME \A i \in CaptureIds : Fenced(i) /\ at[i].horizon = "elapsed" => i \notin executed,
             NEW i \in CaptureIds, Fenced(i)', at'[i].horizon = "elapsed"
      PROVE  i \notin executed'
  <2>1. i \in Id /\ at[i] \in Row /\ i[1] # "release"
    BY <1>1, CapturesAreIds DEF CaptureIds, Capture
  <2>2. at'[i].result = "permanent_fail" /\ at'[i].evidence = "inferred"
    BY <1>3 DEF Fenced
  <2>3. at[i].horizon = "elapsed" => Final(i) /\ i \notin wire
    BY <1>1 DEF Closed, Quiet
  <2>4. Fenced(i) /\ at[i].horizon = "elapsed"
    <3>1. ASSUME Clocked(i) \/ Succeeds(i) \/ Infers(i) \/ Retires(i) \/ Mints(i)
          PROVE  Fenced(i) /\ at[i].horizon = "elapsed"
      BY <1>3, <2>1, <2>2, <2>3, <3>1
         DEF Clocked, Ticks, Succeeds, Infers, Retires, Mints, Absent, Row, Fenced
    <3>2. ASSUME NEW q \in Run, Arms(q, i) \/ TakesBack(q, i) \/ Disowns(q, i)
          PROVE  Fenced(i) /\ at[i].horizon = "elapsed"
      BY <1>3, <2>1, <2>2, <2>3, <3>2 DEF Arms, Ticks, TakesBack, Disowns, Row, Fenced
    <3>3. ASSUME NEW q \in Run, Settles(q, i) PROVE Fenced(i) /\ at[i].horizon = "elapsed"
      <4>1. at'[i] = [at[i] EXCEPT !.dispatch = "responded", !.evidence = at'[i].evidence,
                                   !.result = at'[i].result]
        BY <3>3 DEF Settles
      <4>2. at'[i].horizon = at[i].horizon
        BY <2>1, <4>1 DEF Row
      <4>3. \/ at'[i].evidence = "dispatch_response"
            \/ /\ at'[i].evidence = at[i].evidence
               /\ at'[i].result = IF Final(i) THEN at[i].result ELSE "unknown"
        BY <3>3 DEF Settles
      <4> QED
        BY <1>3, <2>2, <4>2, <4>3 DEF Fenced
    <3> QED
      BY <1>1, <2>1, <3>1, <3>2, <3>3, RowMoves DEF Written
  <2>5. i \notin executed /\ i \notin wire
    BY <1>3, <2>3, <2>4
  <2> QED
    BY <1>1, <2>1, <2>5, WireMoves
<1>4. CASE \E i \in Minted("recovery") : at[i].result = "success"
  BY <1>2, <1>4
<1>5. CASE \A i \in CaptureIds : Fenced(i) /\ at[i].horizon = "elapsed" => i \notin executed
  BY <1>3, <1>5 DEF NothingPast
<1> QED
  BY <1>4, <1>5 DEF NothingPast

\* The only charge has its verdict, and stays as it is.
LEMMA ChargeStays ==
  ASSUME SendInv, CaptureInv, [Next]_vars, MaxIds = 1
  PROVE  (ChargeQuiet => ChargeQuiet') /\ (ChargeGone => ChargeGone')
<1>1. /\ TypeInv /\ Leases /\ Armed1 /\ Closed /\ Certain /\ First \in Id
  BY FirstCharge, CapturesAreIds DEF SendInv, CaptureInv, Certain
<1>2. Minted("recovery") # {} => Minted("recovery")' # {}
  BY <1>1, RowsGrow DEF Minted, IsMinted
<1>3. at[First].result = "success" => at'[First].result = "success"
  BY <1>1, ResultMoves
<1>4. ASSUME Quiet(First) PROVE Quiet(First)' /\ (First \notin executed => First \notin executed')
  <2>1. Final(First) /\ First \notin wire /\ ~Sending(First) /\ ~Unknown(First)
    BY <1>4 DEF Quiet, Final, Unknown
  <2>2. Final(First)'
    BY <1>1, <2>1, ResultMoves DEF Final
  <2>3. First \notin wire' /\ ~Sending(First)'
    BY <1>1, <2>1, WireMoves, SendingMoves
  <2>4. First \notin executed => First \notin executed'
    BY <1>1, <2>1, WireMoves
  <2> QED
    BY <2>2, <2>3, <2>4 DEF Quiet
<1> QED
  BY <1>2, <1>3, <1>4 DEF ChargeQuiet, ChargeGone

\* How a recovery comes to its begin.
LEMMA ComesToBegin ==
  ASSUME TypeInv, NEW r \in Run, Step(r), run'[r].pc = "begin", run'[r].job = "recovery_deal"
  PROVE  LeaseExpires(r) \/ FirstLook(r) \/ SecondLook(r)
<1>1. run \in [Run -> RunForm] /\ run[r] \in RunForm
  BY WhatIsKnown
<1>2. ASSUME NEW p, Go(r, p) PROVE run'[r].pc = p /\ run'[r].job = run[r].job
  BY <1>1, <1>2 DEF Go, RunForm
<1>3. ~(EndStep(r) \/ \E j \in Job : Claim(r, j))
  <2>1. ~EndStep(r)
    BY <1>1 DEF EndStep, Acknowledge, FailAttempt, RunDies, Ends, Free
  <2>2. ASSUME NEW j \in Job, Claim(r, j) PROVE run'[r].pc = "start"
    BY <1>1, <2>2 DEF Claim, Free
  <2> QED
    BY <2>1, <2>2
<1>4. \A q : Next1(q) \in {"tail", "sent"}
  BY DEF Next1
<1>5. ~(HandlerThrows(r) \/ ChargeStarts(r) \/ ReleaseStarts(r) \/ FinalizeStarts(r) \/ RecoveryStarts(r))
  <2>1. ASSUME ChargeStarts(r) \/ ReleaseStarts(r)
        PROVE  run[r].job # "recovery_deal" /\ \E p : Go(r, p)
    BY <2>1 DEF ChargeStarts, ReleaseStarts, StartRail
  <2>2. ASSUME HandlerThrows(r) \/ FinalizeStarts(r) \/ RecoveryStarts(r)
        PROVE  \E p \in {"failed", "preflight", "tail", "sent", "list", "unresolved"} : Go(r, p)
    BY <2>2 DEF HandlerThrows, FinalizeStarts, RecoveryStarts, StartRail
  <2> QED
    BY <1>2, <2>1, <2>2
<1>6. ~(ReconcileStarts(r) \/ NotSent(r) \/ \E o \in Outcomes : Answer(r, o))
  BY <1>1 DEF ReconcileStarts, NotSent, Answer, RunForm
<1>7. ~(BeginStateChanged(r) \/ BeginFenced(r))
  <2>1. ASSUME BeginStateChanged(r) \/ BeginFenced(r)
        PROVE  \E p \in {"failed", "tail", "sent"} : Go(r, p)
    BY <1>4, <2>1 DEF BeginStateChanged, BeginFenced
  <2> QED
    BY <1>2, <2>1
<1>8. ~(BeginBlocked(r) \/ BeginAgain(r) \/ BeginFresh(r))
  <2>1. ASSUME BeginBlocked(r) \/ BeginAgain(r) \/ BeginFresh(r)
        PROVE  \E i, p : p \in {"apply_release", "reconcile", "tail", "sent", "arm", "resolve"}
                 /\ run' = [run EXCEPT ![r].id = i, ![r].pc = p]
    BY <1>4, <2>1 DEF BeginBlocked, BeginAgain, BeginFresh
  <2> QED
    BY <1>1, <2>1 DEF RunForm
<1>9. ~(ResolveCaptured(r) \/ ResolveFailed(r) \/ ArmRefused(r) \/ Ingest(r) \/ Reconcile(r)
        \/ ApplyRelease(r) \/ ScheduleRelease(r) \/ ToCompletionWindow(r)
        \/ SettleNotSent(r) \/ SettleUnknown(r) \/ SettleSuccess(r) \/ SettleDeclined(r)
        \/ Arm(r) \/ Send(r))
  BY <1>2, <1>4 DEF ResolveCaptured, ResolveFailed, ArmRefused, Ingest, Reconcile, ApplyRelease,
     ScheduleRelease, ToCompletionWindow, SettleNotSent, SettleUnknown, SettleSuccess, SettleDeclined,
     Arm, Send
<1>10. ~(ReconcileRecorded(r) \/ ReconcileRetires(r) \/ ReconcileSibling(r) \/ ReconcileLooks(r)
         \/ ConcludeCaptured(r) \/ ConcludeNotCaptured(r) \/ ScheduleRecovery(r)
         \/ ConcludeNotReleased(r) \/ ConcludePending(r))
  <2>1. ASSUME \/ ReconcileRecorded(r) \/ ReconcileRetires(r) \/ ReconcileSibling(r) \/ ReconcileLooks(r)
               \/ ConcludeCaptured(r) \/ ConcludeNotCaptured(r) \/ ScheduleRecovery(r)
               \/ ConcludeNotReleased(r) \/ ConcludePending(r)
        PROVE  \E p \in {"sent", "failed", "schedule_release", "schedule_recovery", "retire", "flight",
                         "status"} : Go(r, p)
    BY <2>1 DEF ReconcileRecorded, ReconcileRetires, ReconcileSibling, ReconcileLooks, ConcludeCaptured,
       ConcludeNotCaptured, ScheduleRecovery, ConcludeNotReleased, ConcludePending
  <2> QED
    BY <1>2, <2>1
<1>11. ~(ReconcileReads(r) \/ ReadStatus(r))
  <2>1. ASSUME ReconcileReads(r) \/ ReadStatus(r)
        PROVE  \/ \E s : \E p \in {"conclude", "act"} : run' = [run EXCEPT ![r].pc = p, ![r].seen = s]
               \/ \E p \in {"apply_release", "sent", "failed", "arm", "tail", "reconcile"} : Go(r, p)
    BY <1>4, <2>1 DEF ReconcileReads, ReadStatus
  <2> QED
    BY <1>1, <1>2, <2>1 DEF RunForm
<1>12. ~(FinalizeUnresolved(r) \/ FinalizeDecides(r) \/ Outcome(r) \/ FinalizeFence(r))
  <2>1. ASSUME FinalizeUnresolved(r) \/ FinalizeDecides(r) \/ Outcome(r) \/ FinalizeFence(r)
        PROVE  \E p \in {"failed", "fence", "list", "schedule_release", "sent", "preflight", "sum"} : Go(r, p)
    BY <2>1 DEF FinalizeUnresolved, FinalizeDecides, Outcome, FinalizeFence
  <2> QED
    BY <1>2, <2>1
<1>13. ~(FinalizeSums(r) \/ ListParticipants(r))
  BY <1>1 DEF FinalizeSums, ListParticipants, RunForm
<1> QED
  BY <1>3, <1>5, <1>6, <1>7, <1>8, <1>9, <1>10, <1>11, <1>12, <1>13 DEF Step, EndStep

\* Who looks at the newest capture and finds it declined has looked at all of them.
LEMMA TargetGone ==
  ASSUME SendInv, CaptureInv, SomeCapture, Exact(Target)
  PROVE  executed \cap CaptureIds = {} /\ NothingPast /\ (MaxIds = 1 => ChargeGone)
<1>1. /\ TypeInv /\ Armed1 /\ Closed /\ OnlyLatest /\ TypeOK /\ Contiguous /\ at \in [Id -> Row]
  BY DEF SendInv, CaptureInv, Certain, TypeInv, TypeOK
<1>2. PICK t \in Capture : Target = Newest(t) /\ Minted(t) # {} /\ (t = "charge_start" => Minted("recovery") = {})
  <2>1. CASE Minted("recovery") # {}
    BY <2>1 DEF Target, Capture
  <2>2. CASE Minted("recovery") = {}
    <3>1. PICK i \in CaptureIds : at[i].result # "none"
      BY DEF SomeCapture
    <3>2. i \in Id /\ i[1] \in Capture
      BY CapturesAreIds DEF CaptureIds
    <3>3. i \in Minted("charge_start")
      BY <2>2, <3>1, <3>2 DEF Minted, Capture
    <3> QED
      BY <2>2, <3>3 DEF Target, Capture
  <2> QED
    BY <2>1, <2>2
<1>3. Target \in Minted(t) /\ \A i \in Minted(t) : i[2] <= Target[2]
  BY <1>1, <1>2, NewestCounted DEF Capture, AttemptType
<1>4. Target \in CaptureIds /\ Target[1] = t /\ at[Target].result # "none"
  BY <1>2, <1>3 DEF Minted, CaptureIds, Id
<1>5. ASSUME NEW i \in CaptureIds, i \in executed PROVE FALSE
  <2>1. i \in Id /\ at[i].result # "none" /\ Live(i) /\ Latest(i)
    BY <1>1, <1>5, CapturesAreIds DEF TypeInv, Requests, Live, OnlyLatest
  <2>2. (t = i[1] /\ Target[2] <= i[2]) \/ (i[1] = "recovery" /\ t = "charge_start")
    BY <1>4, <2>1 DEF Latest
  <2>3. i \in Minted(i[1])
    BY <2>1 DEF Minted
  <2>4. t = i[1] /\ Target[2] <= i[2]
    BY <1>2, <2>2, <2>3
  <2>5. i[2] <= Target[2]
    BY <1>3, <2>3, <2>4
  <2>6. /\ i = <<i[1], i[2]>> /\ Target = <<Target[1], Target[2]>>
        /\ i[2] \in Nat /\ Target[2] \in Nat
    BY <1>4, RailsAssumption DEF CaptureIds
  <2>7. i = Target
    BY <1>4, <2>4, <2>5, <2>6
  <2> QED
    BY <1>1, <1>4, <1>5, <2>7 DEF Closed
<1>6. NothingPast
  BY <1>5 DEF NothingPast
<1>7. ASSUME MaxIds = 1, t = "charge_start" PROVE Quiet(First) /\ First \notin executed
  <2>1. Target = First /\ First \in CaptureIds /\ First \in Id
    BY <1>4, <1>7, FirstCharge, CapturesAreIds
  <2>2. Exact(First)
    BY <2>1
  <2>3. First \notin wire \cup executed /\ Final(First) /\ ~Sending(First)
    BY <1>1, <2>1, <2>2, SendingRow DEF Closed, Exact, Final
  <2> QED
    BY <2>3 DEF Quiet
<1>8. t = "recovery" => Minted("recovery") # {}
  BY <1>2
<1> QED
  BY <1>5, <1>6, <1>7, <1>8 DEF ChargeGone, Capture

\* The first look of a recovery.
LEMMA FirstLookSees ==
  ASSUME SendInv, CaptureInv, NEW r \in Run, FirstLook(r), run[r].job = "recovery_deal", Looked(r)'
  PROVE  NothingPast /\ (MaxIds = 1 => ChargeGone)
<1>1. /\ TypeInv /\ Armed1 /\ Closed /\ OnlyLatest /\ Targets /\ at \in [Id -> Row]
      /\ run \in [Run -> RunForm] /\ run[r] \in RunForm /\ run[r].pc = "preflight"
  BY WhatIsKnown DEF SendInv, CaptureInv, Certain, TypeInv, TypeOK, FirstLook, At
<1>2. CASE Open("recovery", at) # {}
  <2>1. PICK i \in Id : i[1] = "recovery" /\ at[i].result \in {"unknown", "success"}
    BY <1>2 DEF Open
  <2>2. i \in Minted("recovery") /\ i \in CaptureIds
    BY <2>1, CaptureForm DEF Minted
  <2>3. NothingPast
    <3>1. CASE at[i].result = "success"
      BY <2>2, <3>1 DEF NothingPast
    <3>2. CASE at[i].result = "unknown"
      <4>1. Live(i)
        BY <3>2 DEF Live, Unknown
      <4>2. ASSUME NEW k \in CaptureIds, k \in executed PROVE k = i
        BY <1>1, <2>2, <4>1, <4>2, LiveAlone DEF Live
      <4>3. ~Fenced(i)
        BY <3>2 DEF Fenced
      <4> QED
        BY <4>2, <4>3 DEF NothingPast
    <3> QED
      BY <2>1, <3>1, <3>2
  <2> QED
    BY <2>2, <2>3 DEF ChargeGone
<1>3. CASE Open("recovery", at) = {}
  <2> DEFINE e == Exact(Target)
  <2>1. PICK s \in Answers :
          run' = [run EXCEPT ![r].pc = "second_look", ![r].id = Target, ![r].seen = s, ![r].noted = e]
    BY <1>3 DEF FirstLook
  <2> HIDE DEF e
  <2>2. run'[r].pc = "second_look" /\ run'[r].noted = e
    BY <1>1, <2>1 DEF RunForm
  <2>3. e
    BY <2>2 DEF Looked
  <2>4. SomeCapture
    BY <1>1 DEF Targets
  <2> QED
    BY <2>3, <2>4, TargetGone DEF e
<1> QED
  BY <1>2, <1>3

\* Two looks that agree on an answer other than an unknown one saw no capture.
LEMMA SecondLookSees ==
  ASSUME TypeInv, NEW r \in Run, SecondLook(r), run'[r].pc \in {"begin", "sum"}
  PROVE  \/ run[r].noted \/ executed \cap CaptureIds = {}
         \/ run'[r].pc = "sum" /\ IngestCaptured(run[r].id)
<1>1. run \in [Run -> RunForm] /\ run[r] \in RunForm /\ run[r].pc = "second_look"
  BY WhatIsKnown DEF SecondLook, At
<1>2. ASSUME NEW p, Go(r, p) PROVE run'[r].pc = p
  BY <1>1, <1>2 DEF Go, RunForm
<1>3. PICK s \in Answers :
        IF "foreign" \notin {run[r].seen, s} /\ "captured" \in {run[r].seen, s}
        THEN IngestCaptured(run[r].id) /\ Go(r, LookCaptured(r))
        ELSE Go(r, IF "pending" \in {run[r].seen, s} \/ Ambiguous(r, s) THEN "failed" ELSE Proceeds(r))
  BY DEF SecondLook
<1>4. LookCaptured(r) # "begin"
  BY DEF LookCaptured
<1> SUFFICES ASSUME ~(run'[r].pc = "sum" /\ IngestCaptured(run[r].id))
             PROVE  run[r].noted \/ executed \cap CaptureIds = {}
  OBVIOUS
<1>5. /\ ~("foreign" \notin {run[r].seen, s} /\ "captured" \in {run[r].seen, s})
      /\ "pending" \notin {run[r].seen, s} /\ ~Ambiguous(r, s)
  BY <1>2, <1>3, <1>4
<1>6. run[r].noted \/ (s \notin {"foreign", "captured", "pending", "unknown"})
  <2>1. /\ "foreign" \notin {run[r].seen, s}
        /\ {run[r].seen, s} = {"unknown"} => run[r].noted
        /\ Cardinality({run[r].seen, s}) # 2
    BY <1>5 DEF Ambiguous
  <2>2. s = "unknown" => run[r].seen = "unknown"
    <3> SUFFICES ASSUME run[r].seen # s PROVE FALSE
      BY <2>1
    <3>1. IsFiniteSet({s}) /\ Cardinality({s}) = 1
      BY FS_Singleton
    <3>2. Cardinality({s} \cup {run[r].seen}) = Cardinality({s}) + 1
      BY <3>1, FS_AddElement
    <3>3. {s} \cup {run[r].seen} = {run[r].seen, s}
      OBVIOUS
    <3> QED
      BY <2>1, <3>1, <3>2, <3>3
  <2> QED
    BY <1>5, <2>1, <2>2
<1>7. s \notin {"foreign", "captured", "pending", "unknown"} => executed \cap CaptureIds = {}
  BY DEF Answers
<1> QED
  BY <1>6, <1>7

\* A recovery that comes to its first look found no fence: the only charge has its
\* verdict, and nothing of it is under way.
LEMMA RecoveryFree ==
  ASSUME SendInv, CaptureInv, NEW r \in Run, RecoveryStarts(r), run'[r].pc = "preflight", MaxIds = 1
  PROVE  ChargeQuiet
<1>1. /\ TypeInv /\ Armed1 /\ Closed /\ Turns /\ at \in [Id -> Row]
      /\ run \in [Run -> RunForm] /\ run[r] \in RunForm
  BY WhatIsKnown DEF SendInv, CaptureInv, Certain, TypeInv, TypeOK
<1>2. ASSUME NEW p, Go(r, p) PROVE run'[r].pc = p
  BY <1>1, <1>2 DEF Go, RunForm
<1>3. Waits(<<"recovery", 1>>) /\ Fence \notin {"permanent", "open"}
  BY <1>2 DEF RecoveryStarts, StartRail
<1>4. Fence = "none"
  BY <1>3 DEF Fence
<1>5. First \in CaptureIds /\ First \in Id /\ at[First] \in Row
  BY <1>1, FirstCharge, CapturesAreIds
<1>6. Final(First)
  BY <1>1, <1>3 DEF Turns, Waits, participant
<1>7. CASE Exact(First)
  <2>1. First \notin wire /\ ~Sending(First)
    BY <1>1, <1>5, <1>7, SendingRow DEF Closed, Exact
  <2> QED
    BY <1>6, <2>1 DEF ChargeQuiet, Quiet
<1>8. CASE Fenced(First)
  <2>1. at[First].horizon = "elapsed"
    BY <1>4, <1>5, <1>8 DEF Fence, Row
  <2> QED
    BY <1>1, <1>5, <2>1 DEF Closed, ChargeQuiet
<1>9. at[First].result = "success" \/ Exact(First) \/ Fenced(First)
  BY <1>1, <1>5, <1>6 DEF Closed, Final, Exact, Fenced
<1> QED
  BY <1>7, <1>8, <1>9 DEF ChargeQuiet

\* What recoveries saw stays true, if no horizon ends meanwhile or if there is one
\* identity of a kind.
LEMMA RecoveriesStep ==
  ASSUME SendInv, CaptureInv, [Next]_vars, MaxIds = 1 \/ Unhurried \/ UNCHANGED vars
  PROVE  Recoveries'
<1> SUFFICES ASSUME NEW r \in Run
             PROVE  /\ Looked(r)' /\ MaxIds # 1 => NothingPast'
                    /\ AtRecovery(r)' /\ MaxIds = 1 => ChargeQuiet'
                    /\ Looked(r)' /\ MaxIds = 1 => ChargeGone'
  BY DEF Recoveries
<1>1. /\ TypeInv /\ Recoveries /\ run \in [Run -> RunForm] /\ run[r] \in RunForm /\ Place(run[r])
      /\ at \in [Id -> Row]
  BY WhatIsKnown DEF SendInv, CaptureInv, Certain, TypeInv, TypeOK
<1>2. ASSUME AtRecovery(r), MaxIds # 1, NothingPast PROVE NothingPast'
  <2>1. ASSUME NEW i \in Id, HorizonElapses(i) PROVE FALSE
    <3>1. CASE Unhurried
      BY <1>2, <2>1, <3>1 DEF Unhurried
    <3>2. CASE UNCHANGED vars
      <4>1. at'[i].horizon = "elapsed"
        BY <1>1, <2>1 DEF HorizonElapses, Row
      <4> QED
        BY <2>1, <3>2, <4>1 DEF HorizonElapses, vars
    <3> QED
      BY <1>2, <3>1, <3>2
  <2> QED
    BY <1>2, <2>1, NothingPastStays
<1>3. MaxIds = 1 => (ChargeQuiet => ChargeQuiet') /\ (ChargeGone => ChargeGone')
  BY ChargeStays
<1>4. Looked(r) => AtRecovery(r)
  BY DEF Looked, AtRecovery
<1>5. CASE run'[r].job = run[r].job /\ run'[r].pc = run[r].pc /\ run'[r].noted = run[r].noted
  <2>1. (Looked(r)' => Looked(r)) /\ (AtRecovery(r)' => AtRecovery(r))
    BY <1>5 DEF Looked, AtRecovery
  <2> QED
    BY <1>1, <1>2, <1>3, <1>4, <2>1 DEF Recoveries
<1>6. CASE ~Step(r)
  <2>1. run'[r] = run[r]
    BY <1>1, <1>6, OnlyOneMoves, EnvironmentRows DEF Next, Moves, vars
  <2> QED
    BY <1>5, <2>1
<1>7. CASE LeaseExpires(r)
  <2>1. run'[r].job = run[r].job /\ run'[r].pc = run[r].pc /\ run'[r].noted = run[r].noted
    BY <1>1, <1>7 DEF LeaseExpires, RunForm
  <2> QED
    BY <1>5, <2>1
<1>8. CASE FirstLook(r)
  <2>1. run[r].pc = "preflight"
    BY <1>8 DEF FirstLook, At
  <2>2. run'[r].job = run[r].job
    <3>1. CASE Open("recovery", at) # {}
      <4>1. Go(r, "begin") \/ Go(r, "sum")
        BY <1>8, <3>1 DEF FirstLook, Proceeds
      <4> QED
        BY <1>1, <4>1 DEF Go, RunForm
    <3>2. CASE Open("recovery", at) = {}
      <4> DEFINE e == Exact(Target)
      <4> DEFINE t == Target
      <4>1. PICK s \in Answers :
              run' = [run EXCEPT ![r].pc = "second_look", ![r].id = t, ![r].seen = s, ![r].noted = e]
        BY <1>8, <3>2 DEF FirstLook
      <4> HIDE DEF e, t
      <4> QED
        BY <1>1, <4>1 DEF RunForm
    <3> QED
      BY <3>1, <3>2
  <2>3. AtRecovery(r)' => AtRecovery(r)
    BY <2>1, <2>2 DEF AtRecovery
  <2>4. Looked(r)' => NothingPast /\ (MaxIds = 1 => ChargeGone) /\ AtRecovery(r)
    BY <1>8, <2>1, <2>2, FirstLookSees DEF AtRecovery, Looked
  <2> QED
    BY <1>1, <1>2, <1>3, <2>3, <2>4 DEF Recoveries
<1>9. CASE SecondLook(r)
  <2>1. run[r].pc = "second_look"
    BY <1>9 DEF SecondLook, At
  <2>2. run'[r].job = run[r].job /\ run'[r].pc \in {"failed", "begin", "sent", "sum"}
    <3>1. \E p \in {"failed", "begin", "sent", "sum"} : Go(r, p)
      BY <1>9 DEF SecondLook, Proceeds, LookCaptured
    <3> QED
      BY <1>1, <3>1 DEF Go, RunForm
  <2>3. AtRecovery(r)' => AtRecovery(r) /\ run'[r].pc = "begin"
    BY <2>1, <2>2 DEF AtRecovery
  <2>4. ASSUME AtRecovery(r)' PROVE Looked(r) \/ executed \cap CaptureIds = {}
    BY <1>1, <1>9, <2>1, <2>2, <2>3, <2>4, SecondLookSees DEF AtRecovery, Looked
  <2>5. ASSUME executed \cap CaptureIds = {} PROVE NothingPast
    BY <2>5 DEF NothingPast
  <2>6. ASSUME executed \cap CaptureIds = {}, ChargeQuiet, MaxIds = 1 PROVE ChargeGone
    BY <2>6, FirstCharge DEF ChargeQuiet, ChargeGone
  <2>7. Looked(r)' => AtRecovery(r)'
    BY DEF Looked, AtRecovery
  <2> QED
    BY <1>1, <1>2, <1>3, <2>3, <2>4, <2>5, <2>6, <2>7 DEF Recoveries
<1>10. CASE Step(r) /\ AtRecovery(r)' /\ ~(LeaseExpires(r) \/ FirstLook(r) \/ SecondLook(r))
  <2>1. run'[r].pc # "begin"
    BY <1>1, <1>10, ComesToBegin DEF AtRecovery
  <2>2. run'[r].pc = "preflight" /\ (RecoveryStarts(r) \/ FinalizeFence(r))
    <3>1. run'[r].pc \in Critical
      BY <1>10, <2>1 DEF AtRecovery, Critical
    <3>2. ~(BeginAgain(r) \/ BeginFresh(r))
      <4>1. ASSUME BeginAgain(r) \/ BeginFresh(r)
            PROVE  \E i : \E p \in {"arm", "resolve", "tail", "sent"} : run' = [run EXCEPT ![r].id = i, ![r].pc = p]
        BY <4>1 DEF BeginAgain, BeginFresh, Next1
      <4> QED
        BY <1>1, <1>10, <4>1 DEF RunForm, AtRecovery
    <3>3. ~ReadStatus(r)
      <4>1. ASSUME ReadStatus(r)
            PROVE  \/ \E s : run' = [run EXCEPT ![r].pc = "act", ![r].seen = s]
                   \/ \E p \in {"arm", "apply_release", "reconcile", "tail", "sent"} : Go(r, p)
        BY <4>1 DEF ReadStatus, Next1
      <4> QED
        BY <1>1, <1>10, <4>1 DEF Go, RunForm, AtRecovery
    <3>4. RecoveryStarts(r) \/ FinalizeFence(r)
      BY <1>1, <1>10, <2>1, <3>1, <3>2, <3>3, Arrivals DEF AtRecovery
    <3>5. \E p \in {"sent", "failed", "preflight", "sum"} : Go(r, p)
      BY <3>4 DEF RecoveryStarts, StartRail, FinalizeFence
    <3> QED
      BY <1>1, <1>10, <3>4, <3>5 DEF Go, RunForm, AtRecovery
  <2>3. ~FinalizeFence(r)
    <3>1. ASSUME FinalizeFence(r) PROVE run'[r].job = "finalize_deal"
      <4>1. run[r].job = "finalize_deal" /\ \E p : Go(r, p)
        BY <1>1, <3>1 DEF FinalizeFence, At, Place, Finalizing
      <4> QED
        BY <1>1, <4>1 DEF Go, RunForm
    <3> QED
      BY <1>10, <3>1 DEF AtRecovery
  <2>4. MaxIds = 1 => ChargeQuiet
    BY <2>2, <2>3, RecoveryFree
  <2>5. ~Looked(r)'
    BY <2>2 DEF Looked
  <2> QED
    BY <1>3, <2>4, <2>5
<1>11. Looked(r)' => AtRecovery(r)'
  BY DEF Looked, AtRecovery
<1> QED
  BY <1>6, <1>7, <1>8, <1>9, <1>10, <1>11

\* What is known of the captures in the beginning: nothing happened.
LEMMA CaptureInit == Init => CaptureInv
<1> SUFFICES ASSUME Init PROVE CaptureInv
  OBVIOUS
<1>1. \A i \in Id : at[i] = Absent /\ sent[i] = 0
  BY DEF Init
<1>2. \A r \in Run : run[r].pc = "free" /\ run[r].job = "none"
  BY DEF Init, Free
<1>3. wire = {} /\ executed = {} /\ buyer = "ChargingAttempt"
  BY DEF Init
<1>4. OnlyLatest
  BY <1>1, <1>2, <1>3, CapturesAreIds DEF OnlyLatest, Live, Unknown, Sending, Absent
<1>5. Closed
  BY <1>1, <1>3, CapturesAreIds DEF Closed, Exact, Absent
<1>6. (\A r \in Run : Answered(r)) /\ Recoveries
  BY <1>2 DEF Answered, Recoveries, Looked, AtRecovery
<1>7. Turns
  BY <1>1, <1>3, CapturesAreIds DEF Turns, Minted, Absent
<1> QED
  BY <1>4, <1>5, <1>6, <1>7 DEF CaptureInv, Certain

\* One live capture at most is one executed capture at most.
LEMMA OneExecuted ==
  ASSUME SendInv, CaptureInv
  PROVE  OneCapture
<1>1. TypeInv /\ Armed1 /\ OnlyLatest
  BY DEF SendInv, CaptureInv, Certain
<1>2. ASSUME NEW i \in executed \cap CaptureIds, NEW j \in executed \cap CaptureIds PROVE i = j
  BY <1>1, LiveAlone DEF Live
<1>3. CASE executed \cap CaptureIds = {}
  BY <1>3, FS_EmptySet DEF OneCapture
<1>4. CASE executed \cap CaptureIds # {}
  <2>1. PICK i : executed \cap CaptureIds = {i}
    BY <1>2, <1>4
  <2> QED
    BY <2>1, FS_Singleton DEF OneCapture
<1> QED
  BY <1>3, <1>4

\* The invariant of the captures is kept.
LEMMA CaptureStep ==
  ASSUME SendInv, Backed, CaptureInv, RecordedNeverSent, RecordedNeverSent', [Next]_vars,
         MaxIds = 1 \/ Unhurried \/ UNCHANGED vars
  PROVE  CaptureInv'
<1>1. TypeInv /\ Leases /\ Certain
  BY DEF SendInv, CaptureInv
<1>2. \A r \in Run : Answered(r)'
  BY <1>1, AnsweredStep
<1> QED
  BY <1>1, <1>2, OnlyLatestStep, ClosedStep, TurnsStep, RecoveriesStep DEF CaptureInv, Certain

\* An obligation is captured at most once, for any runs, losses, policies and jobs,
\* of a participant none of whose rows is recorded after it was sent (the note of
\* payment_attempt_helpers.ts), if there is one identity of a kind, or if no
\* settlement horizon ends between the first look of a recovery and its begin.
THEOREM CapturedOnce ==
  Spec /\ []RecordedNeverSent /\ [][MaxIds = 1 \/ Unhurried]_vars => []OneCapture
<1> DEFINE Inv == SendInv /\ Backed /\ CaptureInv
           Paced == MaxIds = 1 \/ Unhurried
<1>1. Init => Inv
  BY SendInit, BackedInit, CaptureInit
<1>2. Inv /\ RecordedNeverSent /\ RecordedNeverSent' /\ [Next]_vars /\ [Paced]_vars => Inv'
  <2>1. SendInv => TypeInv
    BY DEF SendInv
  <2> QED
    BY <2>1, SendStepInv, BackedStep, CaptureStep
<1>3. Inv => OneCapture
  BY OneExecuted
<1> HIDE DEF Inv, Paced
<1>4. Init /\ []RecordedNeverSent /\ [][Next]_vars /\ [][Paced]_vars => []OneCapture
  BY <1>1, <1>2, <1>3, PTL
<1> QED
  BY <1>4 DEF Spec, Paced

-----------------------------------------------------------------------------
(* A release is asked for when the participant is through *)

\* A participant who is through waits for no capture any more.
Through == {"Dropped", "DealFailed", "DealCompleted"}
ReleaseAsked ==
  \/ job["payment_release"] # "none"
  \/ \E r \in Run : run[r].job = "payment_release" \/ run[r].pc = "schedule_release"
  \/ Minted("release") # {}
\* A release is scheduled, begun and sent only for them, and a run that read
\* that the participant is through read the truth.
ReleaseLast ==
  /\ ReleaseAsked => buyer \in Through
  /\ \A r \in Run : run[r].seen \in Decided => buyer \in Through

\* When a release was minted no capture may happen any more.
Barred(i) == ~Unknown(i) /\ ~Sending(i) /\ i \notin wire
ReleaseBars == Minted("release") # {} => \A i \in CaptureIds : Barred(i)

\* Who is through stays so.
LEMMA ThroughStays ==
  ASSUME TypeInv, Backed, [Next]_vars, buyer \in Through
  PROVE  buyer' \in Through
<1>1. ASSUME NEW i PROVE ~Waits(i)
  BY DEF Waits, Through, participant
<1>2. CASE UNCHANGED buyer
  BY <1>2
<1>3. ASSUME NEW i, IngestCaptured(i) \/ IngestFailed(i) PROVE UNCHANGED buyer
  BY <1>1, <1>3 DEF IngestCaptured, IngestFailed, participant
<1>4. ASSUME NEW q \in Run, MoneyStep(q) PROVE UNCHANGED buyer
  BY <1>3, <1>4, MoneySpoken DEF ApplyRelease, participant
<1>5. ASSUME NEW q \in Run, Outcome(q) PROVE buyer' \in Through
  BY <1>5 DEF Outcome, Through
<1>6. ASSUME NEW q \in Run, Step(q), ~MoneyStep(q), ~Outcome(q) PROVE UNCHANGED buyer
  BY <1>6, Grouped, SilentStep, RowStepRest, EndStepRest, SendStepRest
     DEF JobStep, Claim, LeaseExpires, Reconcile, ScheduleRelease, ScheduleRecovery,
         FinalizeUnresolved, ToCompletionWindow, FinalizeDecides, BeginFresh, participant
<1>7. CASE UNCHANGED vars \/ Environment
  BY <1>3, <1>7 DEF vars, Environment, RescheduleStalledFinalizations, WindowCloses, ReconcileOrphan,
     HorizonElapses, Execute, Lose, CallbackCaptured, CallbackFailed, participant
<1> QED
  BY <1>2, <1>4, <1>5, <1>6, <1>7 DEF Next

\* A recovery that failed while the participant waited for it drops them.
LEMMA FailedDrops ==
  ASSUME NEW i, IngestFailed(i), Waits(i), i[1] = "recovery"
  PROVE  buyer' = "Dropped"
  BY DEF IngestFailed

\* How a run comes to schedule a release, and what it knows of the participant then.
LEMMA ComesToRelease ==
  ASSUME TypeInv, Backed, ReleaseLast, [Next]_vars, NEW r \in Run, Step(r),
         run'[r].pc = "schedule_release"
  PROVE  buyer' \in Through
<1>1. /\ run \in [Run -> RunForm] /\ run[r] \in RunForm /\ OwnRail(run[r]) /\ KnowsId(run[r])
      /\ (run[r].pc = "schedule_release" => buyer \in Through)
      /\ (run[r].seen \in Decided => buyer \in Through)
  BY WhatIsKnown DEF ReleaseLast, ReleaseAsked
<1>2. ASSUME NEW p, Go(r, p) PROVE run'[r].pc = p
  BY <1>1, <1>2 DEF Go, RunForm
<1>3. buyer \in Through => buyer' \in Through
  BY ThroughStays
<1>4. ASSUME NEW i \in Id, i[1] = "release", IsMinted(i) PROVE buyer \in Through
  BY <1>4 DEF ReleaseLast, ReleaseAsked, Minted, IsMinted
<1>5. ASSUME run[r].pc \in {"recorded", "conclude", "retire"} PROVE run[r].id \in Id /\ IsMinted(run[r].id)
  BY <1>1, <1>5 DEF KnowsId, Working, Reconciling, IsMinted
<1>6. CASE ReconcileRecorded(r)
  <2>1. run[r].id[1] = "release" /\ run[r].pc = "recorded"
    BY <1>2, <1>6 DEF ReconcileRecorded, At
  <2> QED
    BY <1>3, <1>4, <1>5, <2>1
<1>7. CASE ReconcileRetires(r)
  <2>1. run[r].seen = "DealFailed"
    BY <1>2, <1>7 DEF ReconcileRetires
  <2> QED
    BY <1>1, <1>3, <2>1 DEF Decided
<1>8. CASE ConcludeNotReleased(r)
  <2>1. run[r].id[1] = "release" /\ run[r].pc = "conclude"
    BY <1>8 DEF ConcludeNotReleased, At, IsRelease
  <2> QED
    BY <1>3, <1>4, <1>5, <2>1
<1>9. CASE ConcludeNotCaptured(r)
  <2>1. IngestFailed(run[r].id) /\ Waits(run[r].id) /\ run[r].id[1] = "recovery"
    BY <1>2, <1>9 DEF ConcludeNotCaptured
  <2> QED
    BY <2>1, FailedDrops DEF Through
<1>10. CASE ResolveFailed(r) \/ Ingest(r)
  <2>1. run[r].pc \in Operation
    BY <1>10 DEF ResolveFailed, Ingest, At, Operation
  <2>2. IngestFailed(run[r].id) /\ Waits(run[r].id) /\ Rail(r) = "recovery"
    BY <1>2, <1>10 DEF ResolveFailed, Ingest, Next1
  <2>3. run[r].id[1] = "recovery"
    BY <1>1, <2>1, <2>2 DEF OwnRail, Rail
  <2> QED
    BY <2>2, <2>3, FailedDrops DEF Through
<1>11. CASE Outcome(r)
  <2>1. run[r].seen \in Decided \/ buyer' \in {"DealFailed", "DealCompleted"}
    BY <1>2, <1>11 DEF Outcome
  <2> QED
    BY <1>1, <1>3, <2>1 DEF Through
<1>12. CASE LeaseExpires(r)
  <2>1. run'[r].pc = run[r].pc
    BY <1>1, <1>12 DEF LeaseExpires, RunForm
  <2> QED
    BY <1>1, <1>3, <2>1
<1>13. ASSUME NEW i, NEW p, NEW s, NEW n, p # "schedule_release",
              \/ run' = [run EXCEPT ![r].pc = p, ![r].seen = s]
              \/ run' = [run EXCEPT ![r].id = i, ![r].pc = p]
              \/ run' = [run EXCEPT ![r].pc = p, ![r].id = i, ![r].seen = s, ![r].noted = n]
              \/ run' = [run EXCEPT ![r].seen = s, ![r].noted = n, ![r].pc = p]
       PROVE  FALSE
  BY <1>1, <1>13 DEF RunForm
<1>14. ASSUME NEW p, p # "schedule_release", Go(r, p) PROVE FALSE
  BY <1>2, <1>14
<1>15. ~(\E j \in Job : Claim(r, j)) /\ ~EndStep(r)
  <2>1. ASSUME NEW j \in Job, Claim(r, j) PROVE run'[r].pc = "start"
    <3>1. \E i : run' = [run EXCEPT ![r] = [Free EXCEPT !.job = j, !.pc = "start", !.live = TRUE, !.id = i]]
      BY <2>1 DEF Claim
    <3> QED
      BY <1>1, <3>1 DEF Free
  <2>2. EndStep(r) => run'[r].pc = "free"
    BY <1>1 DEF EndStep, Acknowledge, FailAttempt, RunDies, Ends, Free
  <2> QED
    BY <2>1, <2>2
<1>16. ~HandlerThrows(r) /\ ~ChargeStarts(r) /\ ~ReleaseStarts(r) /\ ~RecoveryStarts(r) /\ ~FinalizeStarts(r)
  BY <1>14 DEF HandlerThrows, ChargeStarts, ReleaseStarts, RecoveryStarts, FinalizeStarts, StartRail
<1>17. ~ReconcileStarts(r)
  <2>1. ASSUME ReconcileStarts(r)
        PROVE  \E s, n : \E p \in {"sent", "recorded", "flight", "sibling"} :
                 run' = [run EXCEPT ![r].seen = s, ![r].noted = n, ![r].pc = p]
    BY <2>1 DEF ReconcileStarts
  <2> QED
    BY <1>13, <2>1
<1>18. ~BeginStateChanged(r) /\ ~BeginFenced(r)
  BY <1>2 DEF BeginStateChanged, BeginFenced, Next1
<1>19. ~BeginBlocked(r)
  <2>1. ASSUME BeginBlocked(r)
        PROVE  \E i : \E p \in {"apply_release", "reconcile", "tail", "sent"} :
                 run' = [run EXCEPT ![r].id = i, ![r].pc = p]
    BY <2>1 DEF BeginBlocked, Next1
  <2> QED
    BY <1>13, <2>1
<1>20. ~BeginAgain(r) /\ ~BeginFresh(r)
  <2>1. ASSUME BeginAgain(r) \/ BeginFresh(r)
        PROVE  \E i : \E p \in {"arm", "resolve", "tail", "sent"} : run' = [run EXCEPT ![r].id = i, ![r].pc = p]
    BY <2>1 DEF BeginAgain, BeginFresh, Next1
  <2> QED
    BY <1>13, <2>1
<1>21. ~ReadStatus(r) /\ ~ReconcileReads(r)
  <2>1. ASSUME ReadStatus(r) \/ ReconcileReads(r)
        PROVE  \/ \E p \in {"act", "conclude"} : \E s : run' = [run EXCEPT ![r].pc = p, ![r].seen = s]
               \/ \E p \in {"arm", "apply_release", "reconcile", "tail", "sent", "failed"} : Go(r, p)
    BY <2>1 DEF ReadStatus, ReconcileReads, Next1
  <2> QED
    BY <1>13, <1>14, <2>1
<1>22. ~ResolveCaptured(r) /\ ~ArmRefused(r) /\ ~Arm(r) /\ ~Send(r)
  BY <1>2 DEF ResolveCaptured, ArmRefused, Arm, Send, Next1
<1>23. ~NotSent(r) /\ ~(\E o \in Outcomes : Answer(r, o))
  BY <1>13 DEF NotSent, Answer
<1>24. ~SettleSuccess(r) /\ ~SettleNotSent(r) /\ ~SettleUnknown(r) /\ ~SettleDeclined(r)
  BY <1>2 DEF SettleSuccess, SettleNotSent, SettleUnknown, SettleDeclined
<1>25. ~Reconcile(r) /\ ~ApplyRelease(r) /\ ~ScheduleRelease(r) /\ ~ToCompletionWindow(r) /\ ~SecondLook(r)
  BY <1>2 DEF Reconcile, ApplyRelease, ScheduleRelease, ToCompletionWindow, SecondLook, Next1,
     Proceeds, LookCaptured
<1>26. ~FirstLook(r)
  <2> SUFFICES ASSUME FirstLook(r) PROVE FALSE
    OBVIOUS
  <2>1. CASE Open("recovery", at) # {}
    BY <1>2, <2>1 DEF FirstLook, Proceeds
  <2>2. CASE Open("recovery", at) = {}
    <3> DEFINE e == Exact(Target)
    <3> DEFINE t == Target
    <3>1. PICK s \in Answers :
            run' = [run EXCEPT ![r].pc = "second_look", ![r].id = t, ![r].seen = s, ![r].noted = e]
      BY <2>2 DEF FirstLook
    <3> HIDE DEF e, t
    <3>2. run'[r].pc = "second_look"
      BY <1>1, <3>1 DEF RunForm
    <3> QED
      BY <3>2
  <2> QED
    BY <2>1, <2>2
<1>27. ~ReconcileSibling(r) /\ ~ReconcileLooks(r) /\ ~ConcludeCaptured(r) /\ ~ScheduleRecovery(r)
       /\ ~ConcludePending(r)
  BY <1>2 DEF ReconcileSibling, ReconcileLooks, ConcludeCaptured, ScheduleRecovery, ConcludePending
<1>28. ~FinalizeUnresolved(r) /\ ~FinalizeFence(r) /\ ~FinalizeDecides(r)
  BY <1>2 DEF FinalizeUnresolved, FinalizeFence, FinalizeDecides
<1>29. ~FinalizeSums(r) /\ ~ListParticipants(r)
  BY <1>13 DEF FinalizeSums, ListParticipants
<1> QED
  BY <1>6, <1>7, <1>8, <1>9, <1>10, <1>11, <1>12, <1>15, <1>16, <1>17, <1>18, <1>19, <1>20, <1>21, <1>22,
     <1>23, <1>24, <1>25, <1>26, <1>27, <1>28, <1>29 DEF Step, EndStep

\* What a run read of a participant who is through, it read of one who was.
LEMMA SeenThrough ==
  ASSUME TypeInv, NEW r \in Run, Step(r), run'[r].seen \in Decided
  PROVE  run[r].seen \in Decided \/ buyer \in Through
<1>1. run \in [Run -> RunForm] /\ run[r] \in RunForm
  BY WhatIsKnown
<1> DEFINE Kept == run'[r].seen \in {run[r].seen, "none"}
<1> SUFFICES ASSUME ~(buyer \in Through) PROVE run[r].seen \in Decided
  OBVIOUS
<1> SUFFICES Kept
  BY DEF Decided
<1>2. ASSUME NEW p, Go(r, p) PROVE Kept
  BY <1>1, <1>2 DEF Go, RunForm
<1>3. ASSUME NEW i, NEW p, NEW s, NEW n, s \notin Decided,
             \/ run' = [run EXCEPT ![r].pc = p, ![r].seen = s]
             \/ run' = [run EXCEPT ![r].pc = p, ![r].id = i, ![r].seen = s, ![r].noted = n]
             \/ run' = [run EXCEPT ![r].seen = s, ![r].noted = n, ![r].pc = p]
      PROVE  FALSE
  BY <1>1, <1>3 DEF RunForm
<1>4. ASSUME NEW i, NEW p, run' = [run EXCEPT ![r].id = i, ![r].pc = p]
      PROVE  Kept
  BY <1>1, <1>4 DEF RunForm
<1>5. (Answers \cup Outcomes) \cap Decided = {}
  BY DEF Answers, Outcomes, Decided
<1>6. CASE HandlerThrows(r) \/ ChargeStarts(r) \/ ReleaseStarts(r) \/ RecoveryStarts(r) \/ FinalizeStarts(r)
  BY <1>2, <1>6 DEF HandlerThrows, ChargeStarts, ReleaseStarts, RecoveryStarts, FinalizeStarts, StartRail
<1>7. CASE ReconcileStarts(r)
  <2>1. \E n, p : \E s \in {"waiting", "not_waiting"} :
          run' = [run EXCEPT ![r].seen = s, ![r].noted = n, ![r].pc = p]
    BY <1>7 DEF ReconcileStarts, Through
  <2> QED
    BY <1>3, <2>1 DEF Decided
<1>8. CASE BeginStateChanged(r) \/ BeginFenced(r)
  <2>1. \E p : Go(r, p)
    BY <1>8 DEF BeginStateChanged, BeginFenced
  <2> QED
    BY <1>2, <2>1
<1>9. CASE BeginBlocked(r) \/ BeginAgain(r) \/ BeginFresh(r)
  BY <1>4, <1>9 DEF BeginBlocked, BeginAgain, BeginFresh
<1>10. CASE ReadStatus(r)
  BY <1>2, <1>3, <1>5, <1>10 DEF ReadStatus
<1>11. CASE ResolveCaptured(r) \/ ResolveFailed(r) \/ ArmRefused(r) \/ Arm(r) \/ Send(r)
  BY <1>2, <1>11 DEF ResolveCaptured, ResolveFailed, ArmRefused, Arm, Send
<1>12. CASE NotSent(r) \/ \E o \in Outcomes : Answer(r, o)
  <2>1. "pre_dispatch_failure" \in Outcomes
    BY DEF Outcomes
  <2> QED
    BY <1>3, <1>5, <1>12, <2>1 DEF NotSent, Answer
<1>13. CASE SettleSuccess(r) \/ SettleNotSent(r) \/ SettleUnknown(r) \/ SettleDeclined(r) \/ Ingest(r)
  BY <1>2, <1>13 DEF SettleSuccess, SettleNotSent, SettleUnknown, SettleDeclined, Ingest
<1>14. CASE Reconcile(r) \/ ApplyRelease(r) \/ ScheduleRelease(r) \/ ToCompletionWindow(r) \/ SecondLook(r)
  BY <1>2, <1>14 DEF Reconcile, ApplyRelease, ScheduleRelease, ToCompletionWindow, SecondLook
<1>15. CASE FirstLook(r)
  <2>1. CASE Open("recovery", at) # {}
    BY <1>2, <1>15, <2>1 DEF FirstLook
  <2>2. CASE Open("recovery", at) = {}
    <3> DEFINE e == Exact(Target)
    <3> DEFINE t == Target
    <3>1. PICK s \in Answers :
            run' = [run EXCEPT ![r].pc = "second_look", ![r].id = t, ![r].seen = s, ![r].noted = e]
      BY <1>15, <2>2 DEF FirstLook
    <3> HIDE DEF e, t
    <3>2. run'[r].seen = s
      BY <1>1, <3>1 DEF RunForm
    <3> QED
      BY <1>5, <3>2
  <2> QED
    BY <2>1, <2>2
<1>16. CASE ReconcileRecorded(r) \/ ReconcileRetires(r) \/ ReconcileSibling(r) \/ ReconcileLooks(r)
  <2>1. \E p : Go(r, p)
    BY <1>16 DEF ReconcileRecorded, ReconcileRetires, ReconcileSibling, ReconcileLooks
  <2> QED
    BY <1>2, <2>1
<1>17. CASE ReconcileReads(r)
  BY <1>2, <1>3, <1>5, <1>17 DEF ReconcileReads
<1>18. CASE ConcludeCaptured(r) \/ ConcludeNotCaptured(r) \/ ScheduleRecovery(r)
            \/ ConcludeNotReleased(r) \/ ConcludePending(r)
  <2>1. \E p : Go(r, p)
    BY <1>18 DEF ConcludeCaptured, ConcludeNotCaptured, ScheduleRecovery, ConcludeNotReleased,
         ConcludePending
  <2> QED
    BY <1>2, <2>1
<1>19. CASE FinalizeUnresolved(r) \/ FinalizeFence(r) \/ FinalizeDecides(r) \/ Outcome(r)
  <2>1. \E p : Go(r, p)
    BY <1>19 DEF FinalizeUnresolved, FinalizeFence, FinalizeDecides, Outcome
  <2> QED
    BY <1>2, <2>1
<1>20. CASE FinalizeSums(r)
  <2>1. \E s \in {"completes", "fails"} : run' = [run EXCEPT ![r].pc = "decide", ![r].seen = s]
    BY <1>20 DEF FinalizeSums
  <2> QED
    BY <1>3, <2>1 DEF Decided
<1>21. CASE ListParticipants(r)
  <2>1. buyer \notin Decided
    BY DEF Through, Decided
  <2> QED
    BY <1>3, <1>21, <2>1 DEF ListParticipants
<1>22. CASE LeaseExpires(r)
  BY <1>1, <1>22 DEF LeaseExpires, RunForm
<1>23. CASE EndStep(r)
  BY <1>1, <1>23 DEF EndStep, Acknowledge, FailAttempt, RunDies, Ends, Free
<1>24. ASSUME NEW j \in Job, Claim(r, j) PROVE Kept
  <2>1. \E i : run' = [run EXCEPT ![r] = [Free EXCEPT !.job = j, !.pc = "start", !.live = TRUE, !.id = i]]
    BY <1>24 DEF Claim
  <2> QED
    BY <1>1, <2>1 DEF Free
<1> QED
  BY <1>6, <1>7, <1>8, <1>9, <1>10, <1>11, <1>12, <1>13, <1>14, <1>15, <1>16, <1>17, <1>18, <1>19, <1>20,
     <1>21, <1>22, <1>23, <1>24 DEF Step, EndStep

\* How a job that releases comes to be.
LEMMA ReleaseScheduled ==
  ASSUME TypeInv, Leases, [Next]_vars, job'["payment_release"] # "none"
  PROVE  \/ job["payment_release"] # "none"
         \/ \E r \in Run : run[r].job = "payment_release" \/ run[r].pc = "schedule_release"
         \/ \E i \in Id : CallbackFailed(i) /\ i[1] = "recovery"
<1> DEFINE p == "payment_release"
<1>1. job \in [Job -> {"none", "pending", "held"}] /\ p \in Job
  BY DEF TypeInv, TypeOK, Job
<1>2. ASSUME NEW js, p \notin js, job' = Scheduled(js) PROVE job'[p] = job[p]
  BY <1>1, <1>2 DEF Scheduled
<1>3. ASSUME NEW i, ScheduleReconcile(i) PROVE job'[p] = job[p]
  BY <1>1, <1>3 DEF ScheduleReconcile, jobs
<1>4. ASSUME NEW r \in Run, NEW s, Left(run[r].job, s) PROVE job'[p] = job[p] \/ run[r].job = p
  BY <1>1, <1>4 DEF Left
<1>5. CASE job'[p] = job[p]
  BY <1>5
<1>6. ASSUME NEW r \in Run, Step(r)
      PROVE  job'[p] = job[p] \/ job[p] # "none" \/ run[r].job = p \/ run[r].pc = "schedule_release"
  <2>1. CASE Silent(r) \/ RowStep(r) \/ MoneyStep(r) \/ SendStep(r)
    BY <2>1, SilentStep, RowStepRest, MoneyStepRest, SendStepRest DEF jobs
  <2>2. CASE BeginFresh(r)
    BY <2>2 DEF BeginFresh, jobs
  <2>3. CASE EndStep(r)
    BY <1>4, <2>3 DEF EndStep, Acknowledge, FailAttempt, RunDies, jobs
  <2>4. CASE LeaseExpires(r)
    BY <1>4, <2>4 DEF LeaseExpires
  <2>5. ASSUME NEW j \in Job, Claim(r, j) PROVE job'[p] = job[p] \/ job[p] # "none"
    BY <1>1, <2>5 DEF Claim
  <2>6. CASE ScheduleRelease(r)
    BY <2>6 DEF ScheduleRelease, At
  <2>7. CASE Reconcile(r) \/ FinalizeUnresolved(r)
    BY <1>3, <2>7 DEF Reconcile, FinalizeUnresolved, jobs
  <2>8. CASE ScheduleRecovery(r)
    <3>1. p \notin {"recovery_deal"}
      OBVIOUS
    <3> QED
      BY <1>2, <2>8, <3>1 DEF ScheduleRecovery
  <2>9. CASE ToCompletionWindow(r)
    <3>1. \/ UNCHANGED job
          \/ \E js \in SUBSET {"finalize_deal", "recovery_deal"} : job' = Scheduled(js)
      BY <2>9 DEF ToCompletionWindow
    <3> QED
      BY <1>2, <3>1
  <2>10. CASE FinalizeDecides(r) \/ Outcome(r)
    BY <2>10 DEF FinalizeDecides, Outcome, jobs
  <2> QED
    BY <1>6, <2>1, <2>2, <2>3, <2>4, <2>5, <2>6, <2>7, <2>8, <2>9, <2>10, Grouped DEF JobStep
<1>7. ASSUME NEW i \in Id, CallbackFailed(i), i[1] # "recovery" PROVE job'[p] = job[p]
  BY <1>7 DEF CallbackFailed
<1>8. CASE UNCHANGED vars \/ WindowCloses
           \/ \E i \in Id : HorizonElapses(i) \/ Execute(i) \/ Lose(i) \/ CallbackCaptured(i)
  BY <1>8 DEF vars, WindowCloses, HorizonElapses, Execute, Lose, CallbackCaptured, jobs
<1>9. CASE RescheduleStalledFinalizations
  <2>1. p \notin {"finalize_deal"}
    OBVIOUS
  <2> QED
    BY <1>2, <1>9, <2>1 DEF RescheduleStalledFinalizations
<1>10. ASSUME NEW i \in Id, ReconcileOrphan(i) PROVE job'[p] = job[p]
  BY <1>3, <1>10 DEF ReconcileOrphan
<1> QED
  BY <1>5, <1>6, <1>7, <1>8, <1>9, <1>10 DEF Next, Environment

\* Releases come last, whatever step is taken.
LEMMA ReleaseLastStep ==
  ASSUME TypeInv, Leases, Backed, ReleaseLast, [Next]_vars
  PROVE  ReleaseLast'
<1>1. buyer \in Through => buyer' \in Through
  BY ThroughStays
<1>2. /\ run \in [Run -> RunForm] /\ (ReleaseAsked => buyer \in Through)
      /\ \A r \in Run : Place(run[r]) /\ (run[r].seen \in Decided => buyer \in Through)
  BY DEF TypeInv, TypeOK, RunForm, Places, ReleaseLast
<1>3. ASSUME NEW r \in Run, run'[r].seen \in Decided PROVE buyer' \in Through
  <2>1. CASE Step(r)
    BY <1>1, <1>2, <1>3, <2>1, SeenThrough
  <2>2. CASE ~Step(r)
    <3>1. run'[r] = run[r]
      BY <2>2, OnlyOneMoves, EnvironmentRows DEF Next, Moves, vars
    <3> QED
      BY <1>1, <1>2, <1>3, <3>1
  <2> QED
    BY <2>1, <2>2
<1>4. ASSUME job'["payment_release"] # "none" PROVE buyer' \in Through
  <2>1. ASSUME NEW i \in Id, CallbackFailed(i), i[1] = "recovery" PROVE buyer' \in Through
    <3>1. IngestFailed(i) /\ Waits(i)
      BY <2>1 DEF CallbackFailed
    <3> QED
      BY <2>1, <3>1, FailedDrops DEF Through
  <2> QED
    BY <1>1, <1>2, <1>4, <2>1, ReleaseScheduled DEF ReleaseAsked
<1>5. ASSUME NEW r \in Run, run'[r].job = "payment_release" \/ run'[r].pc = "schedule_release"
      PROVE  buyer' \in Through
  <2>1. CASE ~Step(r)
    <3>1. run'[r] = run[r]
      BY <2>1, OnlyOneMoves, EnvironmentRows DEF Next, Moves, vars
    <3> QED
      BY <1>1, <1>2, <1>5, <3>1 DEF ReleaseAsked
  <2>2. CASE run'[r].pc = "schedule_release" /\ Step(r)
    BY <2>2, ComesToRelease
  <2>3. CASE run'[r].job = "payment_release" /\ Step(r) /\ ~LeaseStep(r)
    BY <1>1, <1>2, <2>3, SameRun DEF Same, ReleaseAsked
  <2>4. CASE EndStep(r)
    BY <1>2, <1>5, <2>4 DEF EndStep, Acknowledge, FailAttempt, RunDies, Ends, Free
  <2>5. CASE LeaseExpires(r)
    <3>1. run'[r].job = run[r].job /\ run'[r].pc = run[r].pc
      BY <1>2, <2>5 DEF LeaseExpires, RunForm
    <3> QED
      BY <1>1, <1>2, <1>5, <3>1 DEF ReleaseAsked
  <2>6. ASSUME NEW j \in Job, Claim(r, j) PROVE buyer' \in Through
    <3>1. /\ \E i : run' = [run EXCEPT ![r] = [Free EXCEPT !.job = j, !.pc = "start", !.live = TRUE, !.id = i]]
          /\ job[j] = "pending"
      BY <2>6 DEF Claim
    <3>2. run'[r].job = j /\ run'[r].pc = "start"
      BY <1>2, <3>1 DEF Free
    <3>3. job["payment_release"] # "none"
      BY <1>5, <3>1, <3>2
    <3> QED
      BY <1>1, <1>2, <3>3 DEF ReleaseAsked
  <2> QED
    BY <1>5, <2>1, <2>2, <2>3, <2>4, <2>5, <2>6 DEF LeaseStep
<1>6. ASSUME Minted("release")' # {} PROVE buyer' \in Through
  <2>1. PICK i \in Id : i[1] = "release" /\ at'[i].result # "none"
    BY <1>6 DEF Minted
  <2>2. CASE at[i].result # "none"
    BY <1>1, <1>2, <2>1, <2>2 DEF ReleaseAsked, Minted
  <2>3. CASE at[i].result = "none"
    <3>1. PICK r \in Run, k \in Id :
            /\ BeginFresh(r) /\ k = <<Rail(r), Cardinality(Minted(Rail(r))) + 1>>
            /\ \A j \in Id \ {k} : at'[j].result = "none" <=> at[j].result = "none"
      BY <2>1, <2>3, Minting
    <3>2. k = i /\ Rail(r) = "release"
      BY <2>1, <2>3, <3>1
    <3>3. run[r].pc = "begin" /\ Place(run[r])
      BY <1>2, <3>1 DEF BeginFresh, At
    <3>4. run[r].job = "payment_release"
      BY <3>2, <3>3 DEF Place, RailJobs, Rail
    <3> QED
      BY <1>1, <1>2, <3>4 DEF ReleaseAsked
  <2> QED
    BY <2>2, <2>3
<1> QED
  BY <1>3, <1>4, <1>5, <1>6 DEF ReleaseLast, ReleaseAsked

\* Whom a release bars: a capture that is begun, armed or sent waits for the participant.
LEMMA ReleaseBarsStep ==
  ASSUME SendInv, Backed, Certain, RecordedNeverSent, ReleaseLast, ReleaseBars, [Next]_vars
  PROVE  ReleaseBars'
<1>1. /\ TypeInv /\ Leases /\ Armed1 /\ Closed /\ at \in [Id -> Row]
      /\ run \in [Run -> RunForm] /\ sent \in [Id -> 0..2]
  BY WhatIsKnown DEF SendInv, Certain, TypeInv, TypeOK, RunForm
<1> SUFFICES ASSUME Minted("release")' # {}, NEW i \in CaptureIds PROVE Barred(i)'
  BY DEF ReleaseBars
<1>2. i \in Id /\ i[1] \in Capture /\ at[i] \in Row
  BY <1>1, CapturesAreIds DEF CaptureIds
<1>3. CASE Minted("release") # {}
  <2>1. Barred(i) /\ buyer \in Through
    BY <1>3 DEF ReleaseBars, ReleaseLast, ReleaseAsked
  <2>2. ~Unknown(i)'
    <3> SUFFICES ASSUME Unknown(i)' PROVE FALSE
      OBVIOUS
    <3>1. at[i].result = "none" /\ at'[i].result # "none"
      BY <1>1, <1>2, <2>1, ResultMoves DEF Barred, Unknown
    <3>2. PICK r \in Run, k \in Id :
            /\ BeginFresh(r) /\ k = <<Rail(r), Cardinality(Minted(Rail(r))) + 1>>
            /\ \A j \in Id \ {k} : at'[j].result = "none" <=> at[j].result = "none"
      BY <1>1, <1>2, <3>1, Minting
    <3>3. Rail(r) = i[1]
      BY <1>2, <3>1, <3>2
    <3>4. Admitted(Rail(r)) /\ Rail(r) # "release"
      BY <1>2, <3>2, <3>3 DEF BeginFresh, Capture
    <3>5. Waits(<<Rail(r), 1>>)
      BY <3>4 DEF Admitted
    <3> QED
      BY <2>1, <3>5 DEF Waits, Through, participant
  <2>3. ~Sending(i)'
    BY <1>1, <1>2, <2>1, SendingMoves DEF Barred
  <2>4. i \notin wire'
    BY <1>1, <1>2, <2>1, WireMoves DEF Barred
  <2> QED
    BY <2>2, <2>3, <2>4 DEF Barred
<1>4. CASE Minted("release") = {}
  <2>1. PICK j \in Id : j[1] = "release" /\ at'[j].result # "none" /\ at[j].result = "none"
    BY <1>4 DEF Minted
  <2>2. PICK r \in Run, k \in Id :
          /\ BeginFresh(r) /\ k = <<Rail(r), Cardinality(Minted(Rail(r))) + 1>>
          /\ \A l \in Id \ {k} : at'[l].result = "none" <=> at[l].result = "none"
    BY <1>1, <2>1, Minting
  <2>3. Rail(r) = "release"
    BY <2>1, <2>2
  <2> DEFINE a == Retired(Capture)
  <2>4. /\ Blockers("release", a) = {} /\ Fence = "none" /\ wire' = wire
        /\ \E n : run' = [run EXCEPT ![r].id = n, ![r].pc = "arm"]
        /\ \E n, q : n[1] = "release" /\ at' = [a EXCEPT ![n] = q]
    BY <2>2, <2>3 DEF BeginFresh, Conflicting, FenceHolds, provider
  <2>5. a \in [Id -> Row] /\ a[i] = IF Recorded(i) /\ at[i].owner = "null"
                                    THEN [at[i] EXCEPT !.result = "temporary_fail"] ELSE at[i]
    BY <1>1, <1>2 DEF Retired, Row
  <2> HIDE DEF a
  <2>6. a[i].result \notin {"unknown", "success"}
    BY <1>2, <2>4 DEF Blockers, Conflicting
  <2>7. at'[i] = a[i]
    BY <1>2, <2>4, <2>5 DEF Capture
  <2>8. ~Unknown(i)'
    BY <2>6, <2>7 DEF Unknown
  <2>9. Sending(i)' => Sending(i)
    BY <1>1, <2>4 DEF Sending, RunForm
  <2>10. ~Sending(i) /\ i \notin wire
    <3>1. CASE Recorded(i)
      BY <1>1, <1>2, <3>1, SendingRow DEF Recorded, RecordedNeverSent, TypeInv, Requests
    <3>2. CASE at[i].result \in {"none", "temporary_fail"} \/ Exact(i)
      BY <1>1, <3>2, NotLive DEF Live
    <3>3. CASE Fenced(i)
      <4>1. at[i].horizon = "elapsed"
        BY <1>2, <2>4, <3>3 DEF Fence, Row
      <4> QED
        BY <1>1, <4>1 DEF Closed, Quiet
    <3>4. Recorded(i) \/ at[i].result \in {"none", "temporary_fail", "permanent_fail"}
      BY <1>2, <2>5, <2>6 DEF Row
    <3>5. at[i].result = "permanent_fail" => Exact(i) \/ Fenced(i)
      BY <1>1 DEF Closed, Exact, Fenced
    <3> QED
      BY <3>1, <3>2, <3>3, <3>4, <3>5
  <2> QED
    BY <2>4, <2>8, <2>9, <2>10 DEF Barred
<1> QED
  BY <1>3, <1>4

\* A capture that is executed was on the wire, and a release is executed only
\* when no capture was.
LEMMA NeverBothStep ==
  ASSUME TypeInv, ReleaseBars, NeverReleasedAndCaptured, [Next]_vars
  PROVE  NeverReleasedAndCaptured'
<1>1. CASE executed' = executed
  BY <1>1 DEF NeverReleasedAndCaptured
<1>2. ASSUME NEW i \in Id, Execute(i) PROVE NeverReleasedAndCaptured'
  <2>1. /\ executed' = executed \cup {i} /\ i \in wire
        /\ i[1] = "release" => executed \cap CaptureIds = {}
    BY <1>2 DEF Execute
  <2>2. CASE i[1] = "release"
    <3>1. i \notin CaptureIds
      BY <2>2, CaptureForm
    <3> QED
      BY <2>1, <2>2, <3>1 DEF NeverReleasedAndCaptured
  <2>3. CASE i[1] # "release"
    <3>1. i \in CaptureIds
      BY <2>3, CaptureForm
    <3>2. Minted("release") = {}
      BY <2>1, <3>1 DEF ReleaseBars, Barred
    <3>3. \A k \in executed : k[1] # "release"
      BY <3>2 DEF Minted, TypeInv, TypeOK, Requests
    <3> QED
      BY <2>1, <2>3, <3>3 DEF NeverReleasedAndCaptured
  <2> QED
    BY <2>2, <2>3
<1>3. ASSUME NEW r \in Run, Step(r) PROVE executed' = executed
  BY <1>3, Grouped, SilentStep, JobStepRows, RowStepRest, MoneyStepRest, EndStepRest
     DEF SendStep, Send, Answer, BeginFresh, provider
<1>4. CASE UNCHANGED vars \/ RescheduleStalledFinalizations \/ WindowCloses
           \/ \E i \in Id : \/ ReconcileOrphan(i) \/ HorizonElapses(i) \/ Lose(i)
                            \/ CallbackCaptured(i) \/ CallbackFailed(i)
  BY <1>1, <1>4 DEF vars, RescheduleStalledFinalizations, WindowCloses, ReconcileOrphan, HorizonElapses, Lose,
     CallbackCaptured, CallbackFailed, provider
<1> QED
  BY <1>1, <1>2, <1>3, <1>4 DEF Next, Environment

\* Nothing is released or asked for at first.
LEMMA EndInit == Init => ReleaseLast /\ ReleaseBars /\ NeverReleasedAndCaptured
<1> SUFFICES ASSUME Init PROVE ReleaseLast /\ ReleaseBars /\ NeverReleasedAndCaptured
  OBVIOUS
<1>1. /\ \A r \in Run : run[r].job = "none" /\ run[r].pc = "free" /\ run[r].seen = "none"
      /\ \A i \in Id : at[i].result = "none"
      /\ job["payment_release"] = "none" /\ executed = {}
  BY DEF Init, Free, Absent, Job
<1>2. Minted("release") = {}
  BY <1>1 DEF Minted
<1> QED
  BY <1>1, <1>2 DEF ReleaseLast, ReleaseAsked, ReleaseBars, Decided, NeverReleasedAndCaptured

\* What is released last stays so, and bars a capture.
LEMMA EndKept ==
  ASSUME SendInv, Backed, Certain, RecordedNeverSent, ReleaseLast, ReleaseBars,
         NeverReleasedAndCaptured, [Next]_vars
  PROVE  ReleaseLast' /\ ReleaseBars' /\ NeverReleasedAndCaptured'
<1>1. TypeInv /\ Leases
  BY DEF SendInv
<1> QED
  BY <1>1, ReleaseLastStep, ReleaseBarsStep, NeverBothStep

\* A hold is never both released and captured, for any runs, losses, identities,
\* policies and jobs, of a participant none of whose rows is recorded after it was
\* sent (the note of payment_attempt_helpers.ts).
THEOREM ReleasedOrCaptured == Spec /\ []RecordedNeverSent => []NeverReleasedAndCaptured
<1> DEFINE Inv == /\ SendInv /\ Backed /\ Certain
                  /\ ReleaseLast /\ ReleaseBars /\ NeverReleasedAndCaptured
<1>1. Init => Inv
  BY SendInit, BackedInit, CaptureInit, EndInit DEF CaptureInv
<1>2. Inv /\ RecordedNeverSent /\ RecordedNeverSent' /\ [Next]_vars => Inv'
  <2> SUFFICES ASSUME Inv, RecordedNeverSent, RecordedNeverSent', [Next]_vars PROVE Inv'
    OBVIOUS
  <2>1. TypeInv /\ Leases /\ SendInv' /\ Backed'
    BY SendStepInv, BackedStep DEF SendInv
  <2>2. Closed' /\ \A r \in Run : Answered(r)'
    BY <2>1, ClosedStep, AnsweredStep
  <2> QED
    BY <2>1, <2>2, EndKept DEF Certain
<1>3. Inv => NeverReleasedAndCaptured
  OBVIOUS
<1> HIDE DEF Inv
<1> QED
  BY <1>1, <1>2, <1>3, PTL DEF Spec

-----------------------------------------------------------------------------
(* When a recorded row never left the process *)

\* A run that has nothing sent to take back is one of an adapter that refuses.
Refused(r) ==
  run[r].pc = "settle" /\ run[r].seen = "pre_dispatch_failure" => policy \in Refusing

\* Only an adapter that refuses makes a run take a request back.
LEMMA RefusedStep ==
  ASSUME TypeInv, \A q \in Run : Refused(q), [Next]_vars, NEW r \in Run
  PROVE  Refused(r)'
<1>1. run \in [Run -> RunForm] /\ run[r] \in RunForm /\ policy' = policy /\ Refused(r)
  BY WhatIsKnown, SentOnly
<1>2. CASE run'[r].pc = run[r].pc /\ run'[r].seen = run[r].seen
  BY <1>1, <1>2 DEF Refused
<1>3. CASE ~Step(r)
  <2>1. run'[r] = run[r]
    BY <1>3, OnlyOneMoves, EnvironmentRows DEF Next, Moves, vars
  <2> QED
    BY <1>2, <2>1
<1>4. CASE LeaseExpires(r)
  <2>1. run'[r].pc = run[r].pc /\ run'[r].seen = run[r].seen
    BY <1>1, <1>4 DEF LeaseExpires, RunForm
  <2> QED
    BY <1>2, <2>1
<1>5. CASE NotSent(r)
  BY <1>1, <1>5 DEF NotSent, Refused
<1>6. ASSUME NEW o \in Outcomes, Answer(r, o) PROVE run'[r].seen # "pre_dispatch_failure"
  BY <1>1, <1>6 DEF Answer, RunForm
<1>7. ASSUME NEW p, Go(r, p) PROVE run'[r].pc = p
  BY <1>1, <1>7 DEF Go, RunForm
<1>8. ASSUME RecoveryStarts(r) \/ FinalizeFence(r) \/ BeginAgain(r) \/ BeginFresh(r) \/ ReadStatus(r)
      PROVE  run'[r].pc # "settle"
  <2>1. ASSUME BeginAgain(r) \/ BeginFresh(r)
        PROVE  \E i : \E p \in {"arm", "resolve", "tail", "sent"} : run' = [run EXCEPT ![r].id = i, ![r].pc = p]
    BY <2>1 DEF BeginAgain, BeginFresh, Next1
  <2>2. ASSUME ReadStatus(r) \/ RecoveryStarts(r) \/ FinalizeFence(r)
        PROVE  \/ \E s : run' = [run EXCEPT ![r].pc = "act", ![r].seen = s]
               \/ \E p \in {"arm", "apply_release", "reconcile", "tail", "sent", "failed", "preflight",
                            "sum"} : Go(r, p)
    BY <2>2 DEF ReadStatus, Next1, RecoveryStarts, StartRail, FinalizeFence
  <2> QED
    BY <1>1, <1>7, <1>8, <2>1, <2>2 DEF RunForm
<1> QED
  BY <1>3, <1>4, <1>5, <1>6, <1>8, Arrivals DEF Critical, Refused

\* Nothing that was sent becomes recorded again, but by an adapter that refuses and
\* deduplicates.
LEMMA RecordedUnsentStep ==
  ASSUME SendInv, RecordedNeverSent, \A q \in Run : Refused(q), [Next]_vars,
         \A p \in Refusing : ~p.repeatSafe
  PROVE  RecordedNeverSent'
<1>1. /\ TypeInv /\ Leases /\ Armed1 /\ Unrepeated /\ at \in [Id -> Row] /\ sent \in [Id -> 0..2]
      /\ policy' = policy
  BY SentOnly DEF SendInv, TypeInv, TypeOK
<1> SUFFICES ASSUME NEW i \in Id, Recorded(i)' PROVE sent'[i] = 0
  BY DEF RecordedNeverSent
<1>2. at[i] \in Row /\ at'[i].result = "unknown" /\ at'[i].dispatch = "recorded"
  BY <1>1 DEF Recorded, Unknown
<1>3. CASE ~policy.repeatSafe
  BY <1>1, <1>2, <1>3, RecordedStep
<1>4. CASE policy.repeatSafe
  <2>1. ASSUME NEW q \in Run, TakesBack(q, i) PROVE FALSE
    BY <1>4, <2>1 DEF TakesBack, SettleNotSent, At, Refused
  <2>2. ASSUME Recorded(i) \/ at[i].result = "none" PROVE sent'[i] = 0
    <3>1. sent[i] = 0
      BY <1>1, <2>2 DEF RecordedNeverSent, TypeInv, Requests
    <3>2. ~Sending(i)
      BY <1>1, <2>2, SendingRow DEF Recorded
    <3> QED
      BY <1>1, <3>1, <3>2, WireMoves
  <2>3. ASSUME Clocked(i) \/ Succeeds(i) \/ Infers(i) \/ Retires(i) \/ Mints(i)
        PROVE  Recorded(i) \/ at[i].result = "none"
    BY <1>2, <2>3 DEF Clocked, Succeeds, Infers, Retires, Mints, Row, Recorded, Unknown
  <2>4. ASSUME NEW q \in Run, Arms(q, i) \/ Disowns(q, i) PROVE Recorded(i)
    BY <1>2, <2>4 DEF Arms, Disowns, Row, Recorded, Unknown
  <2>5. ASSUME NEW q \in Run, Settles(q, i) PROVE FALSE
    <3>1. at'[i] = [at[i] EXCEPT !.dispatch = "responded", !.evidence = at'[i].evidence,
                                 !.result = at'[i].result]
      BY <2>5 DEF Settles
    <3>2. at'[i].dispatch = "responded"
      BY <1>2, <3>1 DEF Row
    <3> QED
      BY <1>2, <3>2
  <2> QED
    BY <1>1, <2>1, <2>2, <2>3, <2>4, <2>5, RowMoves DEF Written
<1> QED
  BY <1>3, <1>4

\* The note of payment_attempt_helpers.ts holds when no adapter that deduplicates
\* fails before it sends: a recorded row never left the process.
THEOREM NeverSent ==
  ASSUME \A p \in Refusing : ~p.repeatSafe
  PROVE  Spec => []RecordedNeverSent
<1> DEFINE Inv == TypeInv /\ Leases /\ SendInv /\ RecordedNeverSent /\ \A r \in Run : Refused(r)
<1>1. Init => Inv
  <2> SUFFICES ASSUME Init PROVE Inv
    OBVIOUS
  <2>1. \A r \in Run : run[r].pc = "free"
    BY DEF Init, Free
  <2>2. RecordedNeverSent
    BY DEF Init, RecordedNeverSent
  <2> QED
    BY <2>1, <2>2, TypeInit, SendInit DEF Refused
<1>2. Inv /\ [Next]_vars => Inv'
  <2> SUFFICES ASSUME Inv, [Next]_vars PROVE Inv'
    OBVIOUS
  <2> QED
    BY TypeStep, SendStepInv, RefusedStep, RecordedUnsentStep
<1>3. Inv => RecordedNeverSent
  OBVIOUS
<1> HIDE DEF Inv
<1> QED
  BY <1>1, <1>2, <1>3, PTL DEF Spec

-----------------------------------------------------------------------------
(* What a decision knows of the money *)

\* The places of a finalization before the deal is decided; it comes to them when
\* the window is over, and so is the window of a deal that is decided.
BeforeDecision == {"unresolved", "fence", "preflight", "second_look", "sum", "decide"}
Deciding(r) == run[r].job = "finalize_deal" /\ run[r].pc \in BeforeDecision
Windows ==
  /\ window # "unset" => deal # "Charging"
  /\ deal \in {"Completed", "Failed"} => window = "over"
  /\ \A r \in Run : Deciding(r) => window = "over"

\* A capture that is not under way: at most a recovery was minted and not sent.
Still(i) == ~Sending(i) /\ (Unknown(i) => i[1] = "recovery" /\ sent[i] = 0)
AllStill == \A i \in CaptureIds : Still(i)
NoneWired == \A i \in CaptureIds : i \notin wire
NothingDone == executed \cap CaptureIds = {}
CaptureKnown == money \in Captured \/ \E i \in CaptureIds : at[i].result = "success"

\* What a finalization knows where it stands, unless a capture is known.
Knows(r) ==
  Deciding(r) /\ run[r].pc # "unresolved" =>
    \/ CaptureKnown
    \/ /\ AllStill
       /\ run[r].pc # "fence" => NoneWired
       /\ run[r].pc \in {"sum", "decide"} \/ (run[r].pc = "second_look" /\ run[r].noted) => NothingDone
KnownAfter ==
  deal \in {"Completed", "Failed"} => money \in Captured \/ (AllStill /\ NoneWired /\ NothingDone)

\* The window opens for a participant who waits for a charge behind a charge.
ChargeBegun ==
  Waits(First) /\ (deal # "Charging" \/ \E r \in Run : run[r].pc = "tail") => Minted("charge_start") # {}

DecisionInv == Windows /\ (\A r \in Run : Knows(r)) /\ KnownAfter /\ ChargeBegun

\* No charge is begun when the window is over.
InTime == window = "over" => \A r \in Run : ~(BeginFresh(r) /\ Rail(r) = "charge_start")

\* How the deal and its window move.
LEMMA PhaseMoves ==
  ASSUME TypeInv, [Next]_vars
  PROVE  \/ UNCHANGED <<deal, window>>
         \/ WindowCloses
         \/ \E r \in Run : ToCompletionWindow(r) \/ FinalizeDecides(r)
<1>1. ASSUME NEW r \in Run, Step(r), ~ToCompletionWindow(r), ~FinalizeDecides(r)
      PROVE  UNCHANGED <<deal, window>>
  BY <1>1, Grouped, SilentStep, RowStepRest, MoneyStepRest, EndStepRest, SendStepRest
     DEF JobStep, Claim, LeaseExpires, Reconcile, ScheduleRelease, ScheduleRecovery, Outcome,
         FinalizeUnresolved, BeginFresh, SendStep, Send, Answer, phase
<1>2. CASE UNCHANGED vars \/ RescheduleStalledFinalizations
           \/ \E i \in Id : \/ ReconcileOrphan(i) \/ HorizonElapses(i) \/ Execute(i) \/ Lose(i)
                            \/ CallbackCaptured(i) \/ CallbackFailed(i)
  BY <1>2 DEF vars, RescheduleStalledFinalizations, ReconcileOrphan, HorizonElapses, Execute, Lose,
     CallbackCaptured, CallbackFailed, phase
<1> QED
  BY <1>1, <1>2 DEF Next, Environment

\* How a finalization comes to the places before its decision.
LEMMA ComesToDecide ==
  ASSUME TypeInv, NEW r \in Run, Step(r), Deciding(r)'
  PROVE  \/ /\ LeaseExpires(r) /\ Deciding(r)
            /\ run'[r].pc = run[r].pc /\ run'[r].noted = run[r].noted
         \/ FinalizeStarts(r) /\ run'[r].pc = "unresolved" /\ window = "over"
         \/ FinalizeUnresolved(r) /\ Deciding(r) /\ run'[r].pc = "fence"
         \/ FinalizeFence(r) /\ Deciding(r) /\ run'[r].pc \in {"preflight", "sum"}
         \/ FirstLook(r) /\ Deciding(r) /\ run'[r].pc \in {"second_look", "sum"}
         \/ SecondLook(r) /\ Deciding(r) /\ run'[r].pc = "sum"
         \/ FinalizeSums(r) /\ Deciding(r) /\ run'[r].pc = "decide"
<1>1. run \in [Run -> RunForm] /\ run[r] \in RunForm /\ Place(run[r])
  BY WhatIsKnown
<1>2. ASSUME NEW p, Go(r, p) PROVE run'[r].pc = p
  BY <1>1, <1>2 DEF Go, RunForm
<1>3. CASE LeaseExpires(r)
  <2>1. run'[r].pc = run[r].pc /\ run'[r].noted = run[r].noted /\ run'[r].job = run[r].job
    BY <1>1, <1>3 DEF LeaseExpires, RunForm
  <2> QED
    BY <1>3, <2>1 DEF Deciding
<1>4. ~EndStep(r)
  BY <1>1 DEF EndStep, Acknowledge, FailAttempt, RunDies, Ends, Free, Deciding, BeforeDecision
<1>5. ASSUME NEW j \in Job, Claim(r, j) PROVE FALSE
  <2>1. \E i : run' = [run EXCEPT ![r] = [Free EXCEPT !.job = j, !.pc = "start", !.live = TRUE, !.id = i]]
    BY <1>5 DEF Claim
  <2>2. run'[r].pc = "start"
    BY <1>1, <2>1 DEF Free
  <2> QED
    BY <2>2 DEF Deciding, BeforeDecision
<1>6. CASE ~LeaseStep(r)
  <2>1. run[r].job = "finalize_deal"
    BY <1>6, SameRun DEF Same, Deciding
  <2>2. /\ run[r].pc \notin Operation \cup {"begin", "reconcile", "apply_release", "tail", "schedule_recovery"}
        /\ run[r].pc \notin Reconciling
    BY <1>1, <2>1 DEF Place, RailJobs
  <2>3. ~HandlerThrows(r) /\ ~ScheduleRelease(r)
    BY <1>2, <2>1 DEF HandlerThrows, ScheduleRelease, Next1, Deciding, BeforeDecision
  <2>4. CASE FinalizeStarts(r)
    <3>1. run'[r].pc = "unresolved" /\ window = "over"
      BY <1>2, <2>4 DEF FinalizeStarts, StartRail, Deciding, BeforeDecision
    <3> QED
      BY <2>4, <3>1
  <2>5. CASE FinalizeUnresolved(r)
    BY <1>2, <2>1, <2>5 DEF FinalizeUnresolved, At, Deciding, BeforeDecision
  <2>6. CASE FinalizeFence(r)
    BY <1>2, <2>1, <2>6 DEF FinalizeFence, At, Deciding, BeforeDecision
  <2>7. CASE FirstLook(r)
    <3>1. Deciding(r)
      BY <2>1, <2>7 DEF FirstLook, At, Deciding, BeforeDecision
    <3>2. CASE Open("recovery", at) # {}
      BY <1>2, <2>1, <2>7, <3>1, <3>2 DEF FirstLook, Proceeds
    <3>3. CASE Open("recovery", at) = {}
      <4> DEFINE e == Exact(Target)
      <4> DEFINE t == Target
      <4>1. PICK s \in Answers :
              run' = [run EXCEPT ![r].pc = "second_look", ![r].id = t, ![r].seen = s, ![r].noted = e]
        BY <2>7, <3>3 DEF FirstLook
      <4> HIDE DEF e, t
      <4>2. run'[r].pc = "second_look"
        BY <1>1, <4>1 DEF RunForm
      <4> QED
        BY <2>7, <3>1, <4>2
    <3> QED
      BY <3>2, <3>3
  <2>8. CASE SecondLook(r)
    <3>1. run'[r].pc \in {"failed", "sum"}
      BY <1>2, <2>1, <2>8 DEF SecondLook, Proceeds, LookCaptured
    <3> QED
      BY <2>1, <2>8, <3>1 DEF SecondLook, At, Deciding, BeforeDecision
  <2>9. CASE FinalizeSums(r)
    <3>1. \E s : run' = [run EXCEPT ![r].pc = "decide", ![r].seen = s]
      BY <2>9 DEF FinalizeSums
    <3>2. run'[r].pc = "decide"
      BY <1>1, <3>1 DEF RunForm
    <3> QED
      BY <2>1, <2>9, <3>2 DEF FinalizeSums, At, Deciding, BeforeDecision
  <2>10. ~FinalizeDecides(r) /\ ~Outcome(r)
    BY <1>2 DEF FinalizeDecides, Outcome, Deciding, BeforeDecision
  <2>11. ~ListParticipants(r)
    BY <1>1 DEF ListParticipants, RunForm, Deciding, BeforeDecision
  <2>12. ~(ChargeStarts(r) \/ ReleaseStarts(r) \/ RecoveryStarts(r) \/ ReconcileStarts(r))
    BY <2>1 DEF ChargeStarts, ReleaseStarts, RecoveryStarts, ReconcileStarts
  <2>13. ~(\/ BeginStateChanged(r) \/ BeginBlocked(r) \/ BeginFenced(r) \/ BeginAgain(r) \/ BeginFresh(r)
           \/ Reconcile(r) \/ ApplyRelease(r) \/ ToCompletionWindow(r) \/ ScheduleRecovery(r))
    BY <2>2 DEF BeginStateChanged, BeginBlocked, BeginFenced, BeginAgain, BeginFresh, Begins, Reconcile,
       ApplyRelease, ToCompletionWindow, ScheduleRecovery, At
  <2>14. ~(\/ ReadStatus(r) \/ ResolveCaptured(r) \/ ResolveFailed(r) \/ ArmRefused(r) \/ Arm(r) \/ Send(r)
           \/ NotSent(r) \/ (\E o \in Outcomes : Answer(r, o)) \/ SettleSuccess(r) \/ SettleNotSent(r)
           \/ SettleUnknown(r) \/ SettleDeclined(r) \/ Ingest(r))
    BY <2>2 DEF ReadStatus, ResolveCaptured, ResolveFailed, ArmRefused, Arm, Send, NotSent, Answer,
       SettleSuccess, SettleNotSent, SettleUnknown, SettleDeclined, Ingest, At, Operation
  <2>15. ~(\/ ReconcileRecorded(r) \/ ReconcileRetires(r) \/ ReconcileSibling(r) \/ ReconcileLooks(r)
           \/ ReconcileReads(r) \/ ConcludeCaptured(r) \/ ConcludeNotCaptured(r)
           \/ ConcludeNotReleased(r) \/ ConcludePending(r))
    BY <2>2 DEF ReconcileRecorded, ReconcileRetires, ReconcileSibling, ReconcileLooks, ReconcileReads,
       ConcludeCaptured, ConcludeNotCaptured, ConcludeNotReleased, ConcludePending, At, Reconciling
  <2> QED
    BY <1>6, <2>3, <2>4, <2>5, <2>6, <2>7, <2>8, <2>9, <2>10, <2>11, <2>12, <2>13, <2>14, <2>15
       DEF Step, LeaseStep, EndStep
<1> QED
  BY <1>3, <1>4, <1>5, <1>6 DEF LeaseStep

\* The window is over, before a decision and for ever after.
LEMMA WindowsStep ==
  ASSUME TypeInv, Windows, [Next]_vars
  PROVE  Windows' /\ (window = "over" => window' = "over")
<1>1. window = "over" => window' = "over"
  BY PhaseMoves DEF WindowCloses, ToCompletionWindow, FinalizeDecides
<1> DEFINE Deals == /\ window' # "unset" => deal' # "Charging"
                    /\ deal' \in {"Completed", "Failed"} => window' = "over"
<1>2. Deals
  <2>1. CASE WindowCloses
    BY <2>1 DEF WindowCloses, Windows
  <2>2. ASSUME NEW r \in Run, ToCompletionWindow(r) PROVE Deals
    BY <2>2 DEF ToCompletionWindow, Windows
  <2>3. ASSUME NEW r \in Run, FinalizeDecides(r) PROVE Deals
    <3>1. Deciding(r)
      BY <2>3, WhatIsKnown DEF FinalizeDecides, At, Place, Finalizing, Deciding, BeforeDecision
    <3> QED
      BY <2>3, <3>1 DEF FinalizeDecides, Windows, Verdict
  <2> QED
    BY <2>1, <2>2, <2>3, PhaseMoves DEF Windows
<1>3. ASSUME NEW r \in Run, Deciding(r)' PROVE window' = "over"
  <2>1. CASE Step(r)
    BY <1>1, <1>3, <2>1, ComesToDecide DEF Windows
  <2>2. CASE ~Step(r)
    <3>1. run'[r] = run[r]
      BY <2>2, OnlyOneMoves, EnvironmentRows DEF Next, Moves, vars
    <3> QED
      BY <1>1, <1>3, <3>1 DEF Windows, Deciding
  <2> QED
    BY <2>1, <2>2
<1> QED
  BY <1>1, <1>2, <1>3 DEF Windows

-----------------------------------------------------------------------------
(* What a decision rests on stays *)

\* Captured money stays captured.
LEMMA MoneyStays ==
  ASSUME TypeInv, Backed, [Next]_vars, money \in Captured
  PROVE  money' \in Captured
<1>1. ~Releasable /\ \A i : ~Waits(i)
  BY DEF Captured, Releasable, Waits, participant
<1>2. CASE UNCHANGED money
  BY <1>2
<1>3. ASSUME NEW i, IngestCaptured(i) \/ IngestFailed(i) PROVE UNCHANGED money
  BY <1>1, <1>3 DEF IngestCaptured, IngestFailed, participant
<1>4. ASSUME NEW q \in Run, MoneyStep(q) PROVE UNCHANGED money
  BY <1>1, <1>3, <1>4, MoneySpoken DEF ApplyRelease, participant
<1>5. ASSUME NEW q \in Run, Step(q), ~MoneyStep(q) PROVE UNCHANGED money
  BY <1>5, Grouped, SilentStep, RowStepRest, EndStepRest, SendStepRest
     DEF JobStep, Claim, LeaseExpires, Reconcile, ScheduleRelease, ScheduleRecovery, Outcome,
         FinalizeUnresolved, ToCompletionWindow, FinalizeDecides, BeginFresh, participant
<1>6. CASE UNCHANGED vars \/ Environment
  BY <1>3, <1>6 DEF vars, Environment, RescheduleStalledFinalizations, WindowCloses, ReconcileOrphan,
     HorizonElapses, Execute, Lose, CallbackCaptured, CallbackFailed, participant
<1> QED
  BY <1>2, <1>4, <1>5, <1>6 DEF Next

\* A capture that is not under way when the window is over does not get under way.
LEMMA StillStays ==
  ASSUME SendInv, Certain, [Next]_vars, window = "over", InTime, NEW i \in CaptureIds, Still(i)
  PROVE  /\ Still(i)'
         /\ i \notin wire => i \notin wire'
         /\ i \notin wire \cup executed => i \notin (wire \cup executed)'
<1>1. /\ TypeInv /\ Leases /\ Armed1 /\ i \in Id /\ i[1] \in Capture /\ ~Sending(i)
      /\ sent[i] = 0 \/ at[i].result # "none"
  <2>1. i \in Id /\ i[1] \in Capture
    BY CapturesAreIds DEF CaptureIds
  <2>2. sent[i] \in 0..2
    BY <2>1 DEF SendInv, TypeInv, TypeOK
  <2> QED
    BY <2>1, <2>2 DEF SendInv, TypeInv, Requests, Still
<1>2. sent'[i] = sent[i]
  BY <1>1, WireMoves
<1>3. ~Sending(i)'
  <2> SUFFICES ASSUME NEW r \in Run, run'[r].pc = "io", run'[r].id = i PROVE FALSE
    BY DEF Sending
  <2>1. CASE Step(r)
    <3>1. Arm(r) /\ run[r].id = i /\ Unknown(i)
      BY <1>1, <2>1, ComesToSend
    <3>2. i[1] = "recovery" /\ run[r].pc = "arm" /\ OwnRail(run[r])
      BY <1>1, <3>1, WhatIsKnown DEF Still, Arm, At
    <3>3. Rail(r) = "recovery"
      BY <3>1, <3>2 DEF OwnRail, Operation, Rail
    <3> QED
      BY <3>1, <3>3 DEF Arm, PhaseOpen
  <2>2. CASE ~Step(r)
    <3>1. run'[r] = run[r]
      BY <1>1, <2>2, OnlyOneMoves, EnvironmentRows DEF Next, Moves, vars
    <3> QED
      BY <1>1, <3>1 DEF Sending
  <2> QED
    BY <2>1, <2>2
<1>4. ASSUME Unknown(i)' PROVE i[1] = "recovery" /\ sent'[i] = 0
  <2>1. CASE Unknown(i)
    BY <1>2, <2>1 DEF Still
  <2>2. CASE at[i].result = "none"
    <3>1. at'[i].result # "none"
      BY <1>4 DEF Unknown
    <3>2. PICK r \in Run : BeginFresh(r) /\ i[1] = Rail(r)
      BY <1>1, <2>2, <3>1, Minting
    <3>3. i[1] = "recovery"
      BY <1>1, <3>2 DEF InTime, Capture
    <3> QED
      BY <1>1, <1>2, <2>2, <3>3
  <2> QED
    BY <1>1, <1>4, <2>1, <2>2, ResultMoves
<1> QED
  BY <1>1, <1>3, <1>4, WireMoves DEF Still

\* So what a finalization knows stays true.
LEMMA KnownStays ==
  ASSUME SendInv, Backed, Certain, [Next]_vars
  PROVE  /\ CaptureKnown => CaptureKnown'
         /\ window = "over" /\ InTime /\ AllStill =>
              /\ AllStill'
              /\ NoneWired => NoneWired' /\ (NothingDone => NothingDone')
<1>1. TypeInv /\ CaptureIds \subseteq Id
  BY CapturesAreIds DEF SendInv
<1>2. CaptureKnown => CaptureKnown'
  <2>1. CASE money \in Captured
    BY <1>1, <2>1, MoneyStays DEF CaptureKnown
  <2>2. ASSUME NEW i \in CaptureIds, at[i].result = "success" PROVE CaptureKnown'
    <3>1. at'[i].result = "success"
      BY <1>1, <2>2, ResultMoves
    <3> QED
      BY <3>1 DEF CaptureKnown
  <2> QED
    BY <2>1, <2>2 DEF CaptureKnown
<1>3. ASSUME window = "over", InTime, AllStill
      PROVE  AllStill' /\ (NoneWired => NoneWired' /\ (NothingDone => NothingDone'))
  <2>1. ASSUME NEW i \in CaptureIds
        PROVE  /\ Still(i)'
               /\ i \notin wire => i \notin wire'
               /\ i \notin wire \cup executed => i \notin (wire \cup executed)'
    BY <1>3, <2>1, StillStays DEF AllStill
  <2> QED
    BY <2>1 DEF AllStill, NoneWired, NothingDone
<1> QED
  BY <1>2, <1>3

-----------------------------------------------------------------------------
(* What a finalization learns *)

\* Behind the look for what is unresolved nothing is under way.
LEMMA NothingUnresolved ==
  ASSUME TypeInv, Armed1, \A i \in CaptureIds : ~Hidden(i)
  PROVE  CaptureKnown \/ AllStill
<1>1. ASSUME NEW i \in CaptureIds, ~CaptureKnown PROVE Still(i)
  <2>1. i \in Id /\ ~Unknown(i) /\ at[i].result # "success"
    BY <1>1, CapturesAreIds DEF Hidden, CaptureKnown
  <2>2. ~Sending(i)
    BY <2>1, SendingRow DEF Unknown
  <2> QED
    BY <2>1, <2>2 DEF Still
<1> QED
  BY <1>1 DEF AllStill

\* Behind the fence nothing is on the wire, and where no failure was inferred
\* nothing was executed.
LEMMA FenceSees ==
  ASSUME SendInv, Backed, CaptureInv, NeverReleasedAndCaptured, AllStill, ~CaptureKnown,
         Fence = "none"
  PROVE  NoneWired /\ (~LateLook => NothingDone)
<1>1. /\ TypeInv /\ Armed1 /\ Closed /\ Requests
      /\ at \in [Id -> Row] /\ sent \in [Id -> 0..2] /\ money \in MoneyStates
  BY DEF SendInv, CaptureInv, Certain, TypeInv, TypeOK, MoneyStates
<1>2. ASSUME NEW i \in CaptureIds, Fenced(i) PROVE at[i].horizon = "elapsed"
  <2>1. at[i].horizon \in {"null", "open", "elapsed"}
    BY <1>1, CapturesAreIds DEF Row
  <2> QED
    BY <1>2, <2>1 DEF Fence
<1>3. ASSUME NEW i \in CaptureIds, ~Fenced(i) PROVE i \notin wire \cup executed
  <2>1. i \in Id /\ at[i] \in Row
    BY <1>1, CapturesAreIds
  <2>2. CASE Unknown(i)
    BY <1>1, <2>1, <2>2 DEF AllStill, Still, Requests
  <2>3. CASE at[i].result \in {"none", "temporary_fail"}
    BY <1>1, <2>3, NotLive DEF Live
  <2>4. CASE at[i].result = "permanent_fail"
    BY <1>1, <1>3, <2>4 DEF Closed, Exact, Fenced
  <2>5. at[i].result # "success"
    BY DEF CaptureKnown
  <2> QED
    BY <2>1, <2>2, <2>3, <2>4, <2>5 DEF Row, Unknown
<1>4. NoneWired
  BY <1>1, <1>2, <1>3 DEF Closed, Quiet, NoneWired
<1>5. ASSUME ~LateLook PROVE NothingDone
  <2>1. CASE money \notin Held
    <3>1. money = "AuthReleased"
      BY <1>1, <2>1 DEF MoneyStates, Held, CaptureKnown, Captured
    <3>2. \E i \in executed : i[1] = "release"
      BY <3>1 DEF Backed, MoneyFollowsProvider
    <3> QED
      BY <3>2 DEF NeverReleasedAndCaptured, NothingDone
  <2>2. CASE money \in Held
    <3>1. \A i \in CaptureIds : ~Fenced(i)
      BY <1>2, <1>5, <2>2 DEF LateLook
    <3> QED
      BY <1>3, <3>1 DEF NothingDone
  <2> QED
    BY <2>1, <2>2
<1> QED
  BY <1>4, <1>5

\* A recovery that is open and not sent is the only capture that may happen; a
\* target that was declined was the last.
LEMMA FirstLookKnows ==
  ASSUME SendInv, CaptureInv, NEW r \in Run, FirstLook(r), AllStill, NoneWired, ~CaptureKnown,
         Open("recovery", at) # {} \/ Exact(Target)
  PROVE  NothingDone
<1>1. TypeInv /\ Armed1 /\ OnlyLatest /\ Requests /\ sent \in [Id -> 0..2] /\ SomeCapture
  BY DEF SendInv, CaptureInv, TypeInv, TypeOK, Targets, FirstLook, At
<1>2. ASSUME NEW k \in Open("recovery", at) PROVE NothingDone
  <2>1. k \in CaptureIds /\ k \in Id /\ (at[k].result = "unknown" \/ at[k].result = "success")
    BY <1>2, CaptureForm DEF Open
  <2>2. Unknown(k) /\ Live(k)
    BY <2>1 DEF CaptureKnown, Unknown, Live
  <2>3. k \notin executed
    BY <1>1, <2>1, <2>2 DEF AllStill, Still, Requests
  <2>4. ASSUME NEW j \in CaptureIds, j \in executed PROVE FALSE
    <3>1. Live(j)
      BY <2>4 DEF Live
    <3>2. j = k
      BY <1>1, <2>1, <2>2, <3>1, LiveAlone
    <3> QED
      BY <2>3, <2>4, <3>2
  <2> QED
    BY <2>4 DEF NothingDone
<1>3. CASE Exact(Target)
  BY <1>1, <1>3, TargetGone DEF NothingDone
<1> QED
  BY <1>2, <1>3

\* A finalization knows what it should wherever it stands.
LEMMA KnowsStep ==
  ASSUME SendInv, Backed, CaptureInv, NeverReleasedAndCaptured, Windows, InTime, [Next]_vars,
         NEW r \in Run, Knows(r)
  PROVE  Knows(r)'
<1>1. /\ TypeInv /\ Armed1 /\ Certain
      /\ run \in [Run -> RunForm] /\ run[r] \in RunForm
      /\ CaptureKnown => CaptureKnown'
  BY WhatIsKnown, KnownStays DEF SendInv, CaptureInv
<1>2. ASSUME Deciding(r), AllStill
      PROVE  AllStill' /\ (NoneWired => NoneWired' /\ (NothingDone => NothingDone'))
  BY <1>1, <1>2, KnownStays DEF Windows
<1> SUFFICES ASSUME Deciding(r)', run'[r].pc # "unresolved", ~CaptureKnown'
    PROVE  /\ AllStill'
           /\ run'[r].pc # "fence" => NoneWired'
           /\ run'[r].pc \in {"sum", "decide"} \/ (run'[r].pc = "second_look" /\ run'[r].noted) => NothingDone'
  BY DEF Knows
<1>3. ASSUME run'[r].pc = run[r].pc, run'[r].noted = run[r].noted, Deciding(r) PROVE Knows(r)'
  <2>1. AllStill /\ (run[r].pc # "fence" => NoneWired)
        /\ (run[r].pc \in {"sum", "decide"} \/ (run[r].pc = "second_look" /\ run[r].noted) => NothingDone)
    BY <1>1, <1>3 DEF Knows
  <2> QED
    BY <1>2, <1>3, <2>1 DEF Knows, BeforeDecision
<1>4. ASSUME Deciding(r), run[r].pc \in {"preflight", "second_look", "sum"} PROVE AllStill /\ NoneWired
  BY <1>1, <1>4 DEF Knows
<1>5. CASE ~Step(r)
  <2>1. run'[r] = run[r]
    BY <1>1, <1>5, OnlyOneMoves, EnvironmentRows DEF Next, Moves, vars
  <2> QED
    BY <1>3, <2>1 DEF Knows, Deciding
<1>6. CASE LeaseExpires(r) /\ Deciding(r) /\ run'[r].pc = run[r].pc /\ run'[r].noted = run[r].noted
  BY <1>3, <1>6 DEF Knows
<1>7. CASE FinalizeUnresolved(r) /\ Deciding(r) /\ run'[r].pc = "fence"
  <2>1. \A i \in CaptureIds : ~Hidden(i)
    BY <1>1, <1>7 DEF FinalizeUnresolved, Go, RunForm
  <2>2. AllStill
    BY <1>1, <2>1, NothingUnresolved
  <2> QED
    BY <1>2, <1>7, <2>2
<1>8. CASE FinalizeFence(r) /\ Deciding(r) /\ run'[r].pc \in {"preflight", "sum"}
  <2>1. Fence = "none" /\ (run'[r].pc = "sum" => ~LateLook)
    <3>1. ASSUME NEW p, Go(r, p) PROVE run'[r].pc = p
      BY <1>1, <3>1 DEF Go, RunForm
    <3>2. Fence \in {"permanent", "open", "none"}
      BY DEF Fence
    <3> QED
      BY <1>8, <3>1, <3>2 DEF FinalizeFence
  <2>2. AllStill
    BY <1>1, <1>8 DEF Knows, FinalizeFence, At
  <2>3. NoneWired /\ (~LateLook => NothingDone)
    BY <1>1, <2>1, <2>2, FenceSees
  <2> QED
    BY <1>2, <1>8, <2>1, <2>2, <2>3
<1>9. CASE FirstLook(r) /\ Deciding(r) /\ run'[r].pc \in {"second_look", "sum"}
  <2>1. AllStill /\ NoneWired
    BY <1>4, <1>9 DEF FirstLook, At
  <2>2. ASSUME run'[r].pc = "sum" \/ run'[r].noted PROVE Open("recovery", at) # {} \/ Exact(Target)
    <3> SUFFICES ASSUME Open("recovery", at) = {} PROVE Exact(Target)
      OBVIOUS
    <3> DEFINE e == Exact(Target)
    <3> DEFINE t == Target
    <3>1. PICK s \in Answers :
            run' = [run EXCEPT ![r].pc = "second_look", ![r].id = t, ![r].seen = s, ![r].noted = e]
      BY <1>9 DEF FirstLook
    <3> HIDE DEF e, t
    <3>2. run'[r].pc = "second_look" /\ run'[r].noted = e
      BY <1>1, <3>1 DEF RunForm
    <3>3. e
      BY <2>2, <3>2
    <3> QED
      BY <3>3 DEF e
  <2>3. run'[r].pc = "sum" \/ run'[r].noted => NothingDone
    BY <1>1, <1>9, <2>1, <2>2, FirstLookKnows
  <2> QED
    BY <1>2, <1>9, <2>1, <2>3
<1>10. CASE SecondLook(r) /\ Deciding(r) /\ run'[r].pc = "sum"
  <2>1. AllStill /\ NoneWired /\ (run[r].noted => NothingDone)
    BY <1>1, <1>4, <1>10 DEF SecondLook, At, Knows
  <2>2. ~IngestCaptured(run[r].id)
    <3>1. run[r].id \in CaptureIds /\ run[r].id \in Id
      BY <1>10, CapturesAreIds DEF Backed, Told, SecondLook, At
    <3>2. at \in [Id -> Row]
      BY <1>1 DEF TypeInv, TypeOK
    <3>3. IngestCaptured(run[r].id) => at'[run[r].id].result = "success"
      BY <3>1, <3>2 DEF IngestCaptured, Succeeded, Row
    <3> QED
      BY <3>1, <3>3 DEF CaptureKnown
  <2>3. NothingDone
    BY <1>1, <1>10, <2>1, <2>2, SecondLookSees DEF NothingDone
  <2> QED
    BY <1>2, <1>10, <2>1, <2>3
<1>11. CASE FinalizeSums(r) /\ Deciding(r) /\ run'[r].pc = "decide"
  <2>1. AllStill /\ NoneWired /\ NothingDone
    BY <1>1, <1>4, <1>11 DEF FinalizeSums, At, Knows
  <2> QED
    BY <1>2, <1>11, <2>1
<1> QED
  BY <1>1, <1>5, <1>6, <1>7, <1>8, <1>9, <1>10, <1>11, ComesToDecide

-----------------------------------------------------------------------------
(* The decision *)

\* What is known of the money when the deal is decided is known for ever after.
LEMMA KnownAfterStep ==
  ASSUME SendInv, Backed, CaptureInv, Windows, \A r \in Run : Knows(r), KnownAfter, InTime, [Next]_vars
  PROVE  KnownAfter'
<1>1. TypeInv /\ Certain
  BY DEF SendInv, CaptureInv
<1>2. ASSUME window = "over", money \in Captured \/ (AllStill /\ NoneWired /\ NothingDone)
      PROVE  money' \in Captured \/ (AllStill /\ NoneWired /\ NothingDone)'
  BY <1>1, <1>2, MoneyStays, KnownStays
<1>3. ASSUME deal \in {"Completed", "Failed"} PROVE KnownAfter'
  BY <1>2, <1>3 DEF KnownAfter, Windows
<1>4. ASSUME NEW r \in Run, FinalizeDecides(r), deal' # deal PROVE KnownAfter'
  <2>1. StillTrue(r) /\ Deciding(r) /\ run[r].pc = "decide"
    BY <1>1, <1>4, WhatIsKnown DEF FinalizeDecides, At, Place, Finalizing, Deciding, BeforeDecision
  <2>2. CaptureKnown => money \in Captured
    BY <2>1 DEF StillTrue, Hidden, CaptureKnown
  <2>3. CaptureKnown \/ (AllStill /\ NoneWired /\ NothingDone)
    BY <2>1 DEF Knows
  <2> QED
    BY <1>2, <2>1, <2>2, <2>3 DEF KnownAfter, Windows
<1>5. CASE UNCHANGED deal
  BY <1>3, <1>5 DEF KnownAfter
<1>6. ASSUME NEW r \in Run, ToCompletionWindow(r), deal' # deal PROVE KnownAfter'
  BY <1>6 DEF ToCompletionWindow, KnownAfter
<1> QED
  BY <1>1, <1>4, <1>5, <1>6, PhaseMoves DEF WindowCloses

\* Decided, the deal knows the money.
LEMMA KnownIsEnough == KnownAfter => DecisionKnowsTheMoney
  BY DEF KnownAfter, NoneWired, NothingDone, DecisionKnowsTheMoney

\* How a run comes to the end of the charge.
LEMMA ComesToTail ==
  ASSUME TypeInv, NEW r \in Run, Step(r), run'[r].pc = "tail"
  PROVE  \/ run[r].pc = "tail" \/ run[r].pc \in Working \cup {"schedule_release"}
         \/ ~Waits(First) \/ BeginBlocked(r)
         \/ BeginAgain(r) /\ run[r].job = "charge_deal"
<1>1. run \in [Run -> RunForm] /\ run[r] \in RunForm
  BY WhatIsKnown
<1>2. ASSUME NEW p, Go(r, p) PROVE run'[r].pc = p /\ run'[r].job = run[r].job
  BY <1>1, <1>2 DEF Go, RunForm
<1> SUFFICES ASSUME run[r].pc \notin Working \cup {"tail", "schedule_release"}, Waits(First), ~BeginBlocked(r)
    PROVE  BeginAgain(r) /\ run[r].job = "charge_deal"
  OBVIOUS
<1>3. ~EndStep(r)
  BY <1>1 DEF EndStep, Acknowledge, FailAttempt, RunDies, Ends, Free
<1>4. ASSUME NEW j \in Job, Claim(r, j) PROVE FALSE
  <2>1. \E i : run' = [run EXCEPT ![r] = [Free EXCEPT !.job = j, !.pc = "start", !.live = TRUE, !.id = i]]
    BY <1>4 DEF Claim
  <2> QED
    BY <1>1, <2>1 DEF Free
<1>5. ~LeaseExpires(r)
  BY <1>1 DEF LeaseExpires, RunForm
<1>6. ~(HandlerThrows(r) \/ RecoveryStarts(r) \/ ReleaseStarts(r) \/ FinalizeStarts(r) \/ ChargeStarts(r))
  BY <1>2 DEF HandlerThrows, RecoveryStarts, ReleaseStarts, FinalizeStarts, ChargeStarts, StartRail, First
<1>7. ~ReconcileStarts(r)
  BY <1>1 DEF ReconcileStarts, RunForm
<1>8. ~(BeginFenced(r) \/ BeginFresh(r))
  <2>1. ~BeginFresh(r)
    BY FreshMoves
  <2> QED
    BY <1>2, <2>1 DEF BeginFenced
<1>9. ~BeginStateChanged(r)
  <2> SUFFICES ASSUME BeginStateChanged(r) PROVE FALSE
    OBVIOUS
  <2>1. Next1(r) = "tail"
    BY <1>2 DEF BeginStateChanged
  <2>2. run[r].job = "charge_deal"
    BY <2>1 DEF Next1
  <2> QED
    BY <2>2 DEF BeginStateChanged, Admitted, Rail, First
<1>10. BeginAgain(r) => run[r].job = "charge_deal"
  <2> SUFFICES ASSUME BeginAgain(r) PROVE run[r].job = "charge_deal"
    OBVIOUS
  <2>1. Place(run'[r]) /\ run'[r].job = run[r].job
    BY <1>3, <1>4, <1>5, BeginMoves, SameRun DEF Moved, Same, LeaseStep
  <2> QED
    BY <2>1 DEF Place
<1>11. ~(\/ ReadStatus(r) \/ ResolveCaptured(r) \/ ResolveFailed(r) \/ ArmRefused(r) \/ Arm(r) \/ Send(r)
         \/ NotSent(r) \/ (\E o \in Outcomes : Answer(r, o)) \/ SettleSuccess(r) \/ SettleNotSent(r)
         \/ SettleUnknown(r) \/ SettleDeclined(r) \/ Ingest(r))
  BY DEF ReadStatus, ResolveCaptured, ResolveFailed, ArmRefused, Arm, Send, NotSent, Answer,
     SettleSuccess, SettleNotSent, SettleUnknown, SettleDeclined, Ingest, At, Working, Operation
<1>12. ~(\/ Reconcile(r) \/ ApplyRelease(r) \/ ScheduleRelease(r) \/ ToCompletionWindow(r) \/ SecondLook(r)
         \/ ReconcileRecorded(r) \/ ReconcileRetires(r) \/ ReconcileSibling(r) \/ ReconcileLooks(r)
         \/ ReconcileReads(r) \/ ConcludeCaptured(r) \/ ConcludeNotCaptured(r)
         \/ ConcludeNotReleased(r) \/ ConcludePending(r))
  BY DEF Reconcile, ApplyRelease, ScheduleRelease, ToCompletionWindow, SecondLook, ReconcileRecorded,
     ReconcileRetires, ReconcileSibling, ReconcileLooks, ReconcileReads, ConcludeCaptured,
     ConcludeNotCaptured, ConcludeNotReleased, ConcludePending, At, Working, Reconciling
<1>13. ~FirstLook(r)
  <2>1. CASE Open("recovery", at) # {}
    BY <1>2, <2>1 DEF FirstLook, Proceeds
  <2>2. CASE Open("recovery", at) = {}
    <3> DEFINE e == Exact(Target)
    <3> DEFINE t == Target
    <3> SUFFICES ASSUME FirstLook(r) PROVE FALSE
      OBVIOUS
    <3>1. PICK s \in Answers :
            run' = [run EXCEPT ![r].pc = "second_look", ![r].id = t, ![r].seen = s, ![r].noted = e]
      BY <2>2 DEF FirstLook
    <3> HIDE DEF e, t
    <3>2. run'[r].pc = "second_look"
      BY <1>1, <3>1 DEF RunForm
    <3> QED
      BY <3>2
  <2> QED
    BY <2>1, <2>2
<1>14. ~(ScheduleRecovery(r) \/ FinalizeUnresolved(r) \/ FinalizeFence(r) \/ FinalizeDecides(r) \/ Outcome(r))
  <2>1. ~Outcome(r)
    BY <1>2 DEF Outcome
  <2> QED
    BY <1>2, <2>1 DEF ScheduleRecovery, FinalizeUnresolved, FinalizeFence, FinalizeDecides
<1>15. ~(FinalizeSums(r) \/ ListParticipants(r))
  <2>1. FinalizeSums(r) => \E s : run' = [run EXCEPT ![r].pc = "decide", ![r].seen = s]
    BY DEF FinalizeSums
  <2>2. ListParticipants(r) => \E s : run' = [run EXCEPT ![r].pc = "outcome", ![r].seen = s]
    BY DEF ListParticipants
  <2> QED
    BY <1>1, <2>1, <2>2 DEF RunForm
<1> QED
  BY <1>3, <1>4, <1>5, <1>6, <1>7, <1>8, <1>9, <1>10, <1>11, <1>12, <1>13, <1>14, <1>15
     DEF Step, EndStep

\* The charge is begun before its end, while the participant waits for it.
LEMMA ChargeBegunStep ==
  ASSUME TypeInv, Backed, Turns, ReleaseLast, ChargeBegun, [Next]_vars
  PROVE  ChargeBegun'
<1> SUFFICES ASSUME Waits(First)', (deal # "Charging" \/ \E r \in Run : run[r].pc = "tail")'
             PROVE  Minted("charge_start")' # {}
  BY DEF ChargeBegun
<1>1. Waits(First) /\ UNCHANGED participant
  BY FirstWaits
<1>2. Minted("charge_start") # {} => Minted("charge_start")' # {}
  BY RowsGrow DEF Minted, IsMinted
<1>3. ~ReleaseAsked /\ Minted("recovery") = {}
  BY <1>1 DEF ReleaseLast, Through, Waits, First, participant, Turns
<1>4. \A i : IsMinted(i) => i \in Minted("charge_start")
  <2> SUFFICES ASSUME NEW i, IsMinted(i) PROVE i \in Minted("charge_start")
    OBVIOUS
  <2>1. i \in Id /\ i[1] \in AttemptType
    BY DEF IsMinted, Id
  <2> QED
    BY <1>3, <2>1 DEF ReleaseAsked, Minted, IsMinted, AttemptType
<1>5. CASE deal # "Charging" \/ \E r \in Run : run[r].pc = "tail"
  BY <1>1, <1>2, <1>5 DEF ChargeBegun
<1>6. ASSUME NEW r \in Run, run'[r].pc = "tail", run[r].pc # "tail" PROVE Minted("charge_start") # {}
  <2>1. Step(r)
    BY <1>6, OnlyOneMoves, EnvironmentRows DEF Next, Moves, vars
  <2>2. run[r].pc # "schedule_release"
    BY <1>3 DEF ReleaseAsked
  <2>3. CASE run[r].pc \in Working
    <3>1. IsMinted(run[r].id)
      BY <2>3, WhatIsKnown DEF KnowsId
    <3> QED
      BY <1>4, <3>1
  <2>4. CASE BeginBlocked(r)
    <3>1. PICK i \in Id : Retired(Conflicting(Rail(r)))[i].result \in {"unknown", "success"}
      BY <2>4 DEF BeginBlocked, Blockers
    <3>2. IsMinted(i)
      BY <3>1, RetiredKeeps DEF TypeInv, SameMinted, IsMinted
    <3> QED
      BY <1>4, <3>2
  <2>5. CASE BeginAgain(r)
    <3>1. PICK i \in Id : Retired(Conflicting(Rail(r)))[i].result \in {"unknown", "success"}
      BY <2>5 DEF BeginAgain, Open
    <3>2. IsMinted(i)
      BY <3>1, RetiredKeeps DEF TypeInv, SameMinted, IsMinted
    <3> QED
      BY <1>4, <3>2
  <2> QED
    BY <1>1, <1>6, <2>1, <2>2, <2>3, <2>4, <2>5, ComesToTail
<1>7. ASSUME deal' # "Charging", deal = "Charging" PROVE \E r \in Run : run[r].pc = "tail"
  BY <1>7, PhaseMoves DEF WindowCloses, ToCompletionWindow, FinalizeDecides, At
<1> QED
  BY <1>2, <1>5, <1>6, <1>7

\* With one identity of a kind no charge is begun when the window is over.
LEMMA InTimeSmall ==
  ASSUME TypeInv, Windows, ChargeBegun, MaxIds = 1
  PROVE  InTime
<1> SUFFICES ASSUME window = "over", NEW r \in Run, BeginFresh(r), Rail(r) = "charge_start" PROVE FALSE
  BY DEF InTime
<1>1. Waits(First)
  BY DEF BeginFresh, Admitted, First
<1>2. PICK k \in Id : k[1] = "charge_start" /\ at[k].result # "none"
  BY <1>1 DEF ChargeBegun, Windows, Minted
<1>3. PICK i \in Id : i = <<Rail(r), Cardinality(Minted(Rail(r))) + 1>> /\ at[i].result = "none"
  BY FreshMoves
<1>4. i = First /\ k = First
  BY <1>2, <1>3, FirstCharge
<1> QED
  BY <1>2, <1>3, <1>4

\* The state in which nobody decided anything.
LEMMA DecisionInit == Init => DecisionInv
<1> SUFFICES ASSUME Init PROVE DecisionInv
  OBVIOUS
<1>1. deal = "Charging" /\ window = "unset" /\ \A r \in Run : run[r].pc = "free"
  BY DEF Init, Free
<1> QED
  BY <1>1 DEF DecisionInv, Windows, Knows, KnownAfter, ChargeBegun, Deciding, BeforeDecision

\* The invariant of the decision is kept.
LEMMA DecisionStep ==
  ASSUME SendInv, Backed, CaptureInv, ReleaseLast, NeverReleasedAndCaptured, DecisionInv, [Next]_vars,
         MaxIds = 1 \/ InTime \/ UNCHANGED vars
  PROVE  DecisionInv'
<1>1. TypeInv /\ Turns /\ Windows /\ KnownAfter /\ ChargeBegun /\ \A r \in Run : Knows(r)
  BY DEF SendInv, CaptureInv, DecisionInv
<1>2. InTime
  <2>1. ASSUME UNCHANGED vars, NEW r \in Run, BeginFresh(r) PROVE FALSE
    <3>1. PICK i \in Id : at[i].result = "none"
            /\ at' = [Retired(Conflicting(Rail(r))) EXCEPT ![i] = [Absent EXCEPT !.result = "unknown"]]
      BY <1>1, <2>1, FreshMoves
    <3>2. at'[i].result = "unknown"
      BY <3>1 DEF Absent, Retired
    <3> QED
      BY <2>1, <3>1, <3>2 DEF vars
  <2> QED
    BY <1>1, <2>1, InTimeSmall DEF InTime
<1>3. \A r \in Run : Knows(r)'
  BY <1>1, <1>2, KnowsStep
<1> QED
  BY <1>1, <1>2, <1>3, WindowsStep, KnownAfterStep, ChargeBegunStep DEF DecisionInv

\* Whatever the interleaving, a deal that is decided counts this participant's
\* money: no capture is executed, or can still be, that its state does not show
\* (finalizeDealAfterCompletionWindow with its second look at inferred failures).
\* As for CapturedOnce, with one identity of a kind, or where no settlement horizon
\* ends between a recovery's first look and its begin and no charge is begun when
\* the completion window is over.
THEOREM DecisionKnown ==
  Spec /\ []RecordedNeverSent /\ [][MaxIds = 1 \/ (Unhurried /\ InTime)]_vars => []DecisionKnowsTheMoney
<1> DEFINE Inv == /\ SendInv /\ Backed /\ CaptureInv
                  /\ ReleaseLast /\ ReleaseBars /\ NeverReleasedAndCaptured /\ DecisionInv
           Paced == MaxIds = 1 \/ (Unhurried /\ InTime)
<1>1. Init => Inv
  BY SendInit, BackedInit, CaptureInit, EndInit, DecisionInit
<1>2. Inv /\ RecordedNeverSent /\ RecordedNeverSent' /\ [Next]_vars /\ [Paced]_vars => Inv'
  <2> SUFFICES ASSUME Inv, RecordedNeverSent, RecordedNeverSent', [Next]_vars, [Paced]_vars PROVE Inv'
    OBVIOUS
  <2>1. SendInv' /\ Backed'
    BY SendStepInv, BackedStep DEF SendInv
  <2>2. CaptureInv'
    BY CaptureStep
  <2>3. ReleaseLast' /\ ReleaseBars' /\ NeverReleasedAndCaptured'
    BY EndKept DEF CaptureInv
  <2>4. DecisionInv'
    BY DecisionStep
  <2> QED
    BY <2>1, <2>2, <2>3, <2>4
<1>3. Inv => DecisionKnowsTheMoney
  BY KnownIsEnough DEF DecisionInv
<1> HIDE DEF Inv, Paced
<1>4. Init /\ []RecordedNeverSent /\ [][Next]_vars /\ [][Paced]_vars => []DecisionKnowsTheMoney
  BY <1>1, <1>2, <1>3, PTL
<1> QED
  BY <1>4 DEF Spec, Paced

\* What the four theorems say together where the jobs of a deal begin one capture
\* of a kind and no adapter that deduplicates fails before it sends: the money is
\* safe in every behaviour, without a condition on the hours.
THEOREM MoneySafe ==
  ASSUME MaxIds = 1, \A p \in Refusing : ~p.repeatSafe
  PROVE  Spec => [](OneCapture /\ NeverReleasedAndCaptured /\ DecisionKnowsTheMoney)
<1>1. Spec => []RecordedNeverSent
  BY NeverSent
<1>2. [MaxIds = 1 \/ Unhurried]_vars /\ [MaxIds = 1 \/ (Unhurried /\ InTime)]_vars
  OBVIOUS
<1> HIDE DEF OneCapture, NeverReleasedAndCaptured, DecisionKnowsTheMoney
<1>3. [][MaxIds = 1 \/ Unhurried]_vars /\ [][MaxIds = 1 \/ (Unhurried /\ InTime)]_vars
  BY <1>2, PTL
<1> QED
  BY <1>1, <1>3, CapturedOnce, ReleasedOrCaptured, DecisionKnown, PTL
=============================================================================
