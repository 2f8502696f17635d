------------------------ MODULE AuthorizationProofs ------------------------
(***************************************************************************)
(* Proofs about payment authorizations: the bindings of hosted pages       *)
(* (AuthorizationIntents), and the renewal before a capture                *)
(* (AuthorizationRenewal).                                                 *)
(*                                                                         *)
(* Intents: their types, that a hosted intent makes at most one page and   *)
(* knows the page that holds money, and that a Join has the proof of what  *)
(* it uses.  Everything hangs on who wrote a row: the row of a key is      *)
(* written by the one visit that reserved it, so that a page has one row,  *)
(* and what that row says of its page was looked up at the provider.       *)
(*                                                                         *)
(* Renewals: their types, and that the ledger, the binding and the state   *)
(* of the participant say only what the provider did.  What is decided     *)
(* there stays decided, and a run acts on what it was told of the request  *)
(* it works on; so its verdict is true however late it writes it.          *)
(*                                                                         *)
(* Nobody passed over: a participant who still waits, and for whom no      *)
(* capture was begun, has a job that will come for him.  The invariant     *)
(* relates the runs to the rows: a request that was begun and not answered *)
(* is owned by the run that works on it or is left to its job, a job has   *)
(* one live run at most, and what a run ends with follows from what it saw.*)
(*                                                                         *)
(* Renewed when expired: what a run read at the gate has expired, or was   *)
(* replaced, until it sends; only an older authorization that comes back   *)
(* undoes that, which takes two renewals, or a step that is not Forward.   *)
(***************************************************************************)
EXTENDS AuthorizationIntents, AuthorizationRenewal, FiniteSetTheorems, TLAPS

Proven == {"held", "lapsed"}

\* A visit has a key and a quantity once it came, and a page only after it asked
\* for one; without a hosted page the money of an answered visit is held.
Visits ==
  \A v \in Visit :
    /\ visit[v].pc # "free" => Key(v) \in IntentKey /\ visit[v].qty \in Quantity
    /\ page[v].state # "none" => visit[v].pc \notin {"free", "create"}
    /\ v \in shown => page[v].state # "none"
    /\ page[v].state = "open" => hosted
    /\ visit[v].pc = "answered" =>
         /\ page[v].state # "none"
         /\ ~hosted => page[v].state \in Proven /\ page[v].amount = visit[v].qty

\* A row names a page only of the visit that carries its key.
Rows ==
  \A k \in IntentKey :
    /\ intent[k].status = "absent" \/ intent[k].reason = "reserved" => intent[k].page = NoVisit
    /\ intent[k].page # NoVisit => Key(intent[k].page) = k /\ page[intent[k].page].state # "none"

\* The visits that may make a page, or did.
Owner(v) == visit[v].pc \in {"create", "answered", "refused", "unsure"} \/ page[v].state # "none"

\* A hosted intent belongs to one visit, and a page is shown when its row has it.
Owners ==
  hosted =>
    /\ \A v \in Visit : Owner(v) => intent[Key(v)].status # "absent"
    /\ \A v, w \in Visit : Owner(v) /\ Owner(w) /\ v # w => Key(v) # Key(w)
    /\ \A v \in shown : intent[Key(v)].page = v
    /\ \A v \in Visit : page[v].state = "held" => v \in shown

\* What a row or a lookup says of a page was so at the provider, and stays so.
Proofs ==
  /\ \A k \in IntentKey : intent[k].status \in {"authorized", "consumed"} =>
       /\ intent[k].page # NoVisit /\ page[intent[k].page].state \in Proven
       /\ intent[k].compared => page[intent[k].page].amount = intent[k].qty
  /\ \A a \in Asker : query[a] # NoQuery =>
       /\ query[a].page # NoVisit /\ page[query[a].page].state \in Proven
       /\ query[a].amount \in {0, page[query[a].page].amount}

\* Units were joined on a page when its row was consumed, and only then.
Joins ==
  \A v \in Visit : joined[v] # 0 =>
    /\ visit[v].pc # "free" /\ intent[Key(v)].page = v
    /\ intent[Key(v)].status = "consumed" /\ intent[Key(v)].qty = joined[v]

IntentInv == IntentTypeOK /\ Visits /\ Rows /\ Owners /\ Proofs /\ Joins

-----------------------------------------------------------------------------
(* What a step moves.                                                        *)

VisitRecord == [pc : {"free", "create", "await", "answered", "refused", "unsure", "done"},
                key : IntentKey \cup {"none"}, qty : Quantity \cup {0}]
RowRecord == [status : {"absent", "pending", "authorized", "consumed", "failed"},
              reason : {"none", "reserved", "unsure", "created"}, page : Visit \cup {NoVisit},
              qty : Quantity \cup {0}, expired : BOOLEAN, compared : BOOLEAN]
PageRecord == [state : {"none", "open", "held", "lapsed"}, amount : Quantity \cup {0}]
QueryRecord == [page : Visit \cup {NoVisit}, amount : Quantity \cup {0}]

\* The type of the state, by these names.
LEMMA Types ==
  ASSUME IntentTypeOK
  PROVE  /\ hosted \in BOOLEAN /\ intent \in [IntentKey -> RowRecord] /\ visit \in [Visit -> VisitRecord]
         /\ page \in [Visit -> PageRecord] /\ shown \subseteq Visit /\ query \in [Asker -> QueryRecord]
         /\ joined \in [Visit -> 0..4]
BY DEF IntentTypeOK, VisitRecord, RowRecord, PageRecord, QueryRecord

\* The type of the state after a step, by these names.
LEMMA TypesNext ==
  ASSUME hosted' \in BOOLEAN, intent' \in [IntentKey -> RowRecord], visit' \in [Visit -> VisitRecord],
         page' \in [Visit -> PageRecord], shown' \subseteq Visit, query' \in [Asker -> QueryRecord],
         joined' \in [Visit -> 0..4]
  PROVE  IntentTypeOK'
BY DEF IntentTypeOK, VisitRecord, RowRecord, PageRecord, QueryRecord

\* A visit arrives with a key and a quantity.
LEMMA Arriving ==
  ASSUME IntentTypeOK, NEW v \in Visit, NEW k \in IntentKey, NEW n \in Quantity,
         NEW pc \in {"create", "done"}, Arrives(v, k, n, pc)
  PROVE  /\ visit' \in [Visit -> VisitRecord]
         /\ visit'[v].pc = pc /\ visit'[v].key = k /\ visit'[v].qty = n
         /\ \A w \in Visit \ {v} : visit'[w] = visit[w]
<1>1. visit \in [Visit -> VisitRecord] BY Types
<1>2. QED BY <1>1 DEF Arrives, VisitRecord

\* A visit goes on, and keeps its key and its quantity.
LEMMA Proceeding ==
  ASSUME IntentTypeOK, NEW v \in Visit, NEW pc \in {"answered", "refused", "unsure", "done"}, Proceeds(v, pc)
  PROVE  /\ visit' \in [Visit -> VisitRecord]
         /\ visit'[v].pc = pc /\ visit'[v].key = visit[v].key /\ visit'[v].qty = visit[v].qty
         /\ \A w \in Visit \ {v} : visit'[w] = visit[w]
<1>1. visit \in [Visit -> VisitRecord] BY Types
<1>2. QED BY <1>1 DEF Proceeds, VisitRecord

\* What a reservation writes.
LEMMA Reserving ==
  ASSUME NEW n \in Quantity
  PROVE  /\ Reserved(n) \in RowRecord /\ Reserved(n).status = "pending" /\ Reserved(n).reason = "reserved"
         /\ Reserved(n).page = NoVisit /\ Reserved(n).qty = n
<1>1. Absent \in RowRecord /\ Absent.page = NoVisit BY DEF Absent, RowRecord
<1>2. QED BY <1>1 DEF Reserved, RowRecord

\* The row that a binding of the others writes, and what is in it.
BoundRow(n, v, status) ==
  [Reserved(n) EXCEPT !.status = status, !.reason = "created", !.page = v, !.compared = TRUE]

\* ... it has the page and the quantity of its visit.
LEMMA Binding ==
  ASSUME NEW n \in Quantity, NEW v \in Visit, NEW status \in {"pending", "authorized"}
  PROVE  /\ BoundRow(n, v, status) \in RowRecord /\ BoundRow(n, v, status).status = status
         /\ BoundRow(n, v, status).reason = "created" /\ BoundRow(n, v, status).page = v
         /\ BoundRow(n, v, status).qty = n
<1> DEFINE old == Reserved(n)
           row == [old EXCEPT !.status = status, !.reason = "created", !.page = v, !.compared = TRUE]
<1>1. old \in RowRecord /\ old.qty = n BY Reserving
<1> HIDE DEF old
<1>2. row \in RowRecord BY <1>1 DEF RowRecord
<1>3. row.status = status /\ row.reason = "created" /\ row.page = v /\ row.qty = n BY <1>1 DEF RowRecord
<1>4. BoundRow(n, v, status) = row BY DEF BoundRow, old
<1> HIDE DEF row
<1>5. QED BY <1>2, <1>3, <1>4

\* The row of a completed intent.
LEMMA Completing ==
  ASSUME NEW row \in RowRecord, NEW v \in Visit
  PROVE  LET new == [row EXCEPT !.reason = "created", !.page = v] IN
         /\ new \in RowRecord /\ new.status = row.status /\ new.reason = "created" /\ new.page = v
         /\ new.qty = row.qty
BY DEF RowRecord

\* A row that changes its status, its reason or its age, and not its page.
LEMMA Changing ==
  ASSUME NEW row \in RowRecord
  PROVE  /\ \A status \in {"failed", "consumed"} :
              LET new == [row EXCEPT !.status = status] IN
              /\ new \in RowRecord /\ new.status = status /\ new.reason = row.reason /\ new.page = row.page
              /\ new.qty = row.qty /\ new.compared = row.compared
         /\ LET new == [row EXCEPT !.reason = "unsure"] IN
              /\ new \in RowRecord /\ new.status = row.status /\ new.reason = "unsure" /\ new.page = row.page
              /\ new.qty = row.qty /\ new.compared = row.compared
         /\ LET new == [row EXCEPT !.expired = TRUE] IN
              /\ new \in RowRecord /\ new.status = row.status /\ new.reason = row.reason /\ new.page = row.page
              /\ new.qty = row.qty /\ new.compared = row.compared
BY DEF RowRecord

\* A row that is confirmed.
LEMMA Confirming ==
  ASSUME NEW row \in RowRecord, NEW b \in BOOLEAN
  PROVE  LET new == [row EXCEPT !.status = "authorized", !.compared = b] IN
         /\ new \in RowRecord /\ new.status = "authorized" /\ new.reason = row.reason /\ new.page = row.page
         /\ new.qty = row.qty /\ (new.compared <=> b)
<1> DEFINE new == [row EXCEPT !.status = "authorized", !.compared = b]
<1>1. new \in RowRecord BY DEF RowRecord
<1>2. new.status = "authorized" /\ new.reason = row.reason /\ new.page = row.page /\ new.qty = row.qty
  BY DEF RowRecord
<1>3. new.compared = b BY DEF RowRecord
<1>4. QED BY <1>1, <1>2, <1>3

\* One row changes; what it becomes and that the others stay.
LEMMA RowMoves ==
  ASSUME IntentTypeOK, NEW k \in IntentKey, NEW row \in RowRecord, intent' = [intent EXCEPT ![k] = row]
  PROVE  /\ intent' \in [IntentKey -> RowRecord] /\ intent'[k] = row
         /\ \A j \in IntentKey \ {k} : intent'[j] = intent[j]
BY Types

\* The visit's arrival, with a reservation, as a repetition, or directly.
LEMMA ArrivalMoves ==
  ASSUME IntentInv, NEW v \in Visit, NEW k \in IntentKey, NEW n \in Quantity,
         Reserve(v, k, n) \/ AskDirectly(v, k, n)
  PROVE  /\ UNCHANGED <<hosted, page, query, joined>>
         /\ visit[v].pc = "free" /\ visit'[v].key = k /\ visit'[v].qty = n
         /\ visit' \in [Visit -> VisitRecord] /\ intent' \in [IntentKey -> RowRecord] /\ shown' \subseteq Visit
         /\ \A w \in Visit \ {v} : visit'[w] = visit[w]
         /\ \/ /\ hosted /\ visit'[v].pc = "create" /\ intent[k].status = "absent" /\ shown' = shown
               /\ intent'[k].status = "pending" /\ intent'[k].reason = "reserved"
               /\ intent'[k].page = NoVisit /\ \A j \in IntentKey \ {k} : intent'[j] = intent[j]
            \/ /\ hosted /\ visit'[v].pc = "done" /\ intent' = intent
               /\ shown' = shown \/ (intent[k].page # NoVisit /\ shown' = shown \cup {intent[k].page})
            \/ ~hosted /\ visit'[v].pc = "create" /\ intent' = intent /\ shown' = shown
<1>1. intent \in [IntentKey -> RowRecord] /\ shown \subseteq Visit /\ IntentTypeOK BY Types DEF IntentInv
<1>2. \A pc \in {"create", "done"} : Arrives(v, k, n, pc) =>
        /\ visit' \in [Visit -> VisitRecord]
        /\ visit'[v].pc = pc /\ visit'[v].key = k /\ visit'[v].qty = n
        /\ \A w \in Visit \ {v} : visit'[w] = visit[w]
  BY <1>1, Arriving
<1>3. CASE AskDirectly(v, k, n) BY <1>1, <1>2, <1>3 DEF AskDirectly, supply
<1>4. CASE /\ hosted /\ visit[v].pc = "free" /\ intent[k].status = "absent" /\ intent' = [intent EXCEPT ![k] = Reserved(n)]
           /\ Arrives(v, k, n, "create") /\ UNCHANGED <<shown, hosted, page, query, joined>>
  BY <1>1, <1>2, <1>4, RowMoves, Reserving
<1>5. CASE hosted /\ visit[v].pc = "free" /\ Replays(v, k, n) /\ UNCHANGED <<hosted, page, query, joined>>
  <2>1. Arrives(v, k, n, "done") /\ intent' = intent
        /\ (shown' = shown \/ (intent[k].page # NoVisit /\ shown' = shown \cup {intent[k].page}))
    BY <1>5 DEF Replays
  <2>2. shown' \subseteq Visit BY <1>1, <2>1 DEF RowRecord
  <2>3. QED BY <1>1, <1>2, <1>5, <2>1, <2>2
<1>6. QED BY <1>3, <1>4, <1>5 DEF Reserve

\* A visit is through: it leaves the route, and its row may be what it learnt.
LEMMA LeavingMoves ==
  ASSUME IntentInv, NEW v \in Visit,
         CompleteCreation(v) \/ MarkOutcome(v) \/ BindDirectly(v) \/ VisitDies(v)
  PROVE  /\ UNCHANGED <<hosted, page, query, joined>>
         /\ visit[v].pc \notin {"free", "done"} /\ visit'[v].pc = "done"
         /\ visit'[v].key = visit[v].key /\ visit'[v].qty = visit[v].qty
         /\ visit' \in [Visit -> VisitRecord] /\ intent' \in [IntentKey -> RowRecord] /\ shown' \subseteq Visit
         /\ \A w \in Visit \ {v} : visit'[w] = visit[w]
         /\ \/ intent' = intent /\ (shown' = shown \/ (~hosted /\ visit[v].pc = "answered" /\ shown' = shown \cup {v}))
            \/ /\ hosted /\ visit[v].pc = "answered" /\ Completable(Key(v)) /\ shown' = shown \cup {v}
               /\ intent'[Key(v)].status = "pending" /\ intent'[Key(v)].reason = "created" /\ intent'[Key(v)].page = v
               /\ \A j \in IntentKey \ {Key(v)} : intent'[j] = intent[j]
            \/ /\ hosted /\ intent[Key(v)].status = "pending" /\ shown' = shown
               /\ intent'[Key(v)].status \in {"pending", "failed"} /\ intent'[Key(v)].page = intent[Key(v)].page
               /\ intent'[Key(v)].reason \in {"unsure", intent[Key(v)].reason}
               /\ \A j \in IntentKey \ {Key(v)} : intent'[j] = intent[j]
            \/ /\ ~hosted /\ visit[v].pc = "answered" /\ intent[Key(v)].status = "absent" /\ shown' = shown \cup {v}
               /\ intent'[Key(v)].status \in {"pending", "authorized"} /\ intent'[Key(v)].reason = "created"
               /\ intent'[Key(v)].page = v /\ intent'[Key(v)].qty = visit[v].qty
               /\ \A j \in IntentKey \ {Key(v)} : intent'[j] = intent[j]
<1> USE DEF supply
<1>1. /\ intent \in [IntentKey -> RowRecord] /\ shown \subseteq Visit /\ IntentTypeOK
      /\ visit[v].pc # "free" => Key(v) \in IntentKey /\ visit[v].qty \in Quantity
  BY Types DEF IntentInv, Visits
<1>2. /\ Proceeds(v, "done") /\ visit[v].pc \notin {"free", "done"} /\ UNCHANGED <<hosted, page, query, joined>>
  BY DEF CompleteCreation, MarkOutcome, BindDirectly, VisitDies
<1>3. /\ visit' \in [Visit -> VisitRecord] /\ visit'[v].pc = "done"
      /\ visit'[v].key = visit[v].key /\ visit'[v].qty = visit[v].qty
      /\ \A w \in Visit \ {v} : visit'[w] = visit[w]
  BY <1>1, <1>2, Proceeding
<1> DEFINE k == Key(v)
<1>4. k \in IntentKey /\ intent[k] \in RowRecord /\ visit[v].qty \in Quantity BY <1>1, <1>2
<1> HIDE DEF k
<1>5. CASE intent' = intent /\ (shown' = shown \/ (~hosted /\ visit[v].pc = "answered" /\ shown' = shown \cup {v}))
  BY <1>1, <1>2, <1>3, <1>5
<1>6. CASE /\ hosted /\ visit[v].pc = "answered" /\ Completable(k) /\ shown' = shown \cup {v}
           /\ intent' = [intent EXCEPT ![k].reason = "created", ![k].page = v]
  <2> DEFINE new == [intent[k] EXCEPT !.reason = "created", !.page = v]
  <2>1. intent' = [intent EXCEPT ![k] = new] BY <1>1, <1>6
  <2>2. new \in RowRecord /\ new.status = "pending" /\ new.reason = "created" /\ new.page = v
    BY <1>4, <1>6, Completing DEF Completable
  <2> HIDE DEF new
  <2>3. /\ intent' \in [IntentKey -> RowRecord] /\ intent'[k].status = "pending" /\ intent'[k].reason = "created"
        /\ intent'[k].page = v /\ \A j \in IntentKey \ {k} : intent'[j] = intent[j]
    BY <1>1, <1>4, <2>1, <2>2, RowMoves
  <2>4. QED BY <1>1, <1>2, <1>3, <1>6, <2>3 DEF k
<1>7. CASE /\ hosted /\ intent[k].status = "pending" /\ shown' = shown
           /\ \/ intent' = [intent EXCEPT ![k].status = "failed"]
              \/ intent' = [intent EXCEPT ![k].reason = "unsure"]
  <2>1. \/ intent' = [intent EXCEPT ![k] = [intent[k] EXCEPT !.status = "failed"]]
        \/ intent' = [intent EXCEPT ![k] = [intent[k] EXCEPT !.reason = "unsure"]]
    BY <1>1, <1>7
  <2>2. /\ intent' \in [IntentKey -> RowRecord] /\ intent'[k].status \in {"pending", "failed"}
        /\ intent'[k].reason \in {"unsure", intent[k].reason}
        /\ intent'[k].page = intent[k].page /\ \A j \in IntentKey \ {k} : intent'[j] = intent[j]
    <3>1. CASE intent' = [intent EXCEPT ![k] = [intent[k] EXCEPT !.status = "failed"]]
      BY <1>1, <1>4, <3>1, Changing, RowMoves
    <3>2. CASE intent' = [intent EXCEPT ![k] = [intent[k] EXCEPT !.reason = "unsure"]]
      BY <1>1, <1>4, <1>7, <3>2, Changing, RowMoves
    <3>3. QED BY <2>1, <3>1, <3>2
  <2>3. QED BY <1>1, <1>2, <1>3, <1>7, <2>2 DEF k
<1>8. ASSUME ~hosted, visit[v].pc = "answered", intent[k].status = "absent", shown' = shown \cup {v},
             NEW status \in {"pending", "authorized"},
             intent' = [intent EXCEPT ![k] = [Reserved(visit[v].qty) EXCEPT
                          !.status = status, !.reason = "created", !.page = v, !.compared = TRUE]]
      PROVE  /\ intent' \in [IntentKey -> RowRecord]
             /\ intent'[k].status = status /\ intent'[k].reason = "created"
             /\ intent'[k].page = v /\ intent'[k].qty = visit[v].qty
             /\ \A j \in IntentKey \ {k} : intent'[j] = intent[j]
  <2> DEFINE new == BoundRow(visit[v].qty, v, status)
  <2>1. new \in RowRecord /\ new.status = status /\ new.reason = "created" /\ new.page = v
        /\ new.qty = visit[v].qty
    BY <1>4, Binding
  <2>2. intent' = [intent EXCEPT ![k] = new] BY <1>8 DEF BoundRow
  <2> HIDE DEF new
  <2>3. QED BY <1>1, <1>4, <2>1, <2>2, RowMoves
<1>9. CASE ~hosted /\ visit[v].pc = "answered" /\ intent[k].status = "absent" /\ shown' = shown \cup {v}
           /\ \E status \in {"pending", "authorized"} :
                intent' = [intent EXCEPT ![k] = [Reserved(visit[v].qty) EXCEPT
                             !.status = status, !.reason = "created", !.page = v, !.compared = TRUE]]
  BY <1>1, <1>2, <1>3, <1>8, <1>9 DEF k
<1>10. QED
  <2>1. ASSUME CompleteCreation(v) PROVE <1>5!1 \/ <1>6!1 BY <2>1 DEF CompleteCreation, k
  <2>2. ASSUME MarkOutcome(v) PROVE <1>5!1 \/ <1>7!1 BY <2>2 DEF MarkOutcome, k
  <2>3. ASSUME BindDirectly(v) PROVE <1>5!1 \/ <1>9!1 BY <2>3 DEF BindDirectly, k
  <2>4. ASSUME VisitDies(v) PROVE <1>5!1 BY <2>4 DEF VisitDies
  <2>5. QED BY <1>5, <1>6, <1>7, <1>9, <2>1, <2>2, <2>3, <2>4

\* What the provider makes of a request.
LEMMA CreateMoves ==
  ASSUME IntentInv, NEW v \in Visit, CreateHold(v)
  PROVE  /\ UNCHANGED <<hosted, intent, shown, query, joined>>
         /\ visit[v].pc = "create" /\ visit'[v].key = visit[v].key /\ visit'[v].qty = visit[v].qty
         /\ visit' \in [Visit -> VisitRecord] /\ page' \in [Visit -> PageRecord]
         /\ \A w \in Visit \ {v} : visit'[w] = visit[w] /\ page'[w] = page[w]
         /\ \/ /\ visit'[v].pc \in {"answered", "unsure"}
               /\ page'[v].state = (IF hosted THEN "open" ELSE "held") /\ page'[v].amount = visit[v].qty
            \/ visit'[v].pc \in {"refused", "unsure"} /\ page'[v] = page[v]
<1>1. /\ page \in [Visit -> PageRecord] /\ IntentTypeOK /\ visit[v].pc = "create"
      /\ visit[v].qty \in Quantity
  BY Types DEF IntentInv, Visits, CreateHold
<1> DEFINE new == [state |-> IF hosted THEN "open" ELSE "held", amount |-> visit[v].qty]
<1>2. new \in PageRecord BY <1>1 DEF PageRecord
<1>3. \A pc \in {"answered", "refused", "unsure"} : Proceeds(v, pc) =>
        /\ visit' \in [Visit -> VisitRecord] /\ visit'[v].pc = pc
        /\ visit'[v].key = visit[v].key /\ visit'[v].qty = visit[v].qty
        /\ \A w \in Visit \ {v} : visit'[w] = visit[w]
  BY <1>1, Proceeding
<1>4. CASE page' = [page EXCEPT ![v] = new] /\ \E pc \in {"answered", "unsure"} : Proceeds(v, pc)
  <2>1. page' \in [Visit -> PageRecord] /\ page'[v] = new /\ \A w \in Visit \ {v} : page'[w] = page[w]
    BY <1>1, <1>2, <1>4
  <2>2. QED BY <1>1, <1>3, <1>4, <2>1 DEF CreateHold
<1>5. CASE page' = page /\ \E pc \in {"refused", "unsure"} : Proceeds(v, pc)
  BY <1>1, <1>3, <1>5 DEF CreateHold
<1>6. QED BY <1>4, <1>5 DEF CreateHold

\* What the buyer and time make of a page.
LEMMA PageMoves ==
  ASSUME IntentInv, NEW v \in Visit, (\E n \in Quantity : Approves(v, n)) \/ HoldEnds(v)
  PROVE  /\ UNCHANGED <<hosted, intent, visit, shown, query, joined>>
         /\ page' \in [Visit -> PageRecord]
         /\ \A w \in Visit \ {v} : page'[w] = page[w]
         /\ \/ page[v].state = "open" /\ v \in shown /\ page'[v].state = "held"
            \/ page[v].state \in {"open", "held"} /\ page'[v].state = "lapsed" /\ page'[v].amount = page[v].amount
<1>1. page \in [Visit -> PageRecord] BY Types DEF IntentInv
<1>2. QED BY <1>1 DEF Approves, HoldEnds, PageRecord

\* What a lookup brings.
LEMMA LookUpMoves ==
  ASSUME IntentInv, NEW a \in Asker, NEW k \in IntentKey, LookUp(a, k)
  PROVE  /\ UNCHANGED <<hosted, intent, visit, page, shown, joined>>
         /\ query' \in [Asker -> QueryRecord]
         /\ \A b \in Asker \ {a} : query'[b] = query[b]
         /\ query'[a].page = intent[k].page /\ query'[a].page # NoVisit
         /\ page[query'[a].page].state = "held" /\ query'[a].amount \in {0, page[query'[a].page].amount}
<1>1. /\ intent \in [IntentKey -> RowRecord] /\ page \in [Visit -> PageRecord] /\ query \in [Asker -> QueryRecord]
      /\ intent[k].page # NoVisit /\ page[intent[k].page].state = "held"
  BY Types DEF IntentInv, LookUp
<1>2. intent[k].page \in Visit BY <1>1 DEF RowRecord
<1>3. PICK stated \in {0, page[intent[k].page].amount} :
        query' = [query EXCEPT ![a] = [page |-> intent[k].page, amount |-> stated]]
  BY DEF LookUp
<1> DEFINE new == [page |-> intent[k].page, amount |-> stated]
<1>4. stated \in Quantity \cup {0} BY <1>1, <1>2, <1>3 DEF PageRecord
<1>5. new \in QueryRecord BY <1>2, <1>4 DEF QueryRecord
<1>6. query' \in [Asker -> QueryRecord] /\ query'[a] = new /\ \A b \in Asker \ {a} : query'[b] = query[b]
  BY <1>1, <1>3, <1>5
<1>7. QED BY <1>1, <1>3, <1>6 DEF LookUp, supply

\* What a confirmation books, of the row that names the page it is about.
LEMMA ConfirmMoves ==
  ASSUME IntentInv, NEW a \in Asker, Confirm(a)
  PROVE  /\ UNCHANGED <<hosted, visit, page, shown, joined>>
         /\ query' \in [Asker -> QueryRecord] /\ query'[a] = NoQuery
         /\ \A b \in Asker \ {a} : query'[b] = query[b]
         /\ query[a] # NoQuery
         /\ intent' \in [IntentKey -> RowRecord]
         /\ \/ intent' = intent
            \/ \E k \in IntentKey :
                 /\ intent[k].page = query[a].page /\ intent[k].status = "pending"
                 /\ \A j \in IntentKey \ {k} : intent'[j] = intent[j]
                 /\ intent'[k].page = intent[k].page /\ intent'[k].reason = intent[k].reason
                 /\ intent'[k].qty = intent[k].qty
                 /\ \/ intent'[k].status = "failed"
                    \/ /\ intent'[k].status = "authorized"
                       /\ intent'[k].compared => query[a].amount # 0 /\ query[a].amount = intent[k].qty
<1>1. /\ intent \in [IntentKey -> RowRecord] /\ query \in [Asker -> QueryRecord] /\ IntentTypeOK
      /\ query[a] # NoQuery
  BY Types DEF IntentInv, Confirm
<1>2. NoQuery \in QueryRecord BY DEF NoQuery, QueryRecord
<1>3. query' \in [Asker -> QueryRecord] /\ query'[a] = NoQuery /\ \A b \in Asker \ {a} : query'[b] = query[b]
  BY <1>1, <1>2 DEF Confirm
<1>4. PICK k \in IntentKey : intent[k].page = query[a].page /\
        intent' = IF intent[k].status # "pending" THEN intent
                  ELSE IF query[a].amount \notin {0, intent[k].qty} THEN [intent EXCEPT ![k].status = "failed"]
                  ELSE Confirmed(k, query[a].amount)
  BY DEF Confirm
<1>5. intent[k] \in RowRecord BY <1>1
<1>6. CASE intent' = intent BY <1>1, <1>3, <1>6 DEF Confirm, supply
<1>7. CASE intent[k].status = "pending" /\ intent' = [intent EXCEPT ![k].status = "failed"]
  <2> DEFINE new == [intent[k] EXCEPT !.status = "failed"]
  <2>1. new \in RowRecord /\ new.status = "failed" /\ new.page = intent[k].page /\ new.reason = intent[k].reason
        /\ new.qty = intent[k].qty
    BY <1>5, Changing
  <2>2. intent' = [intent EXCEPT ![k] = new] BY <1>1, <1>7
  <2> HIDE DEF new
  <2>3. intent' \in [IntentKey -> RowRecord] /\ intent'[k] = new /\ \A j \in IntentKey \ {k} : intent'[j] = intent[j]
    BY <1>1, <2>1, <2>2, RowMoves
  <2>4. QED BY <1>1, <1>3, <1>4, <1>7, <2>1, <2>3 DEF Confirm, supply
<1>8. CASE intent[k].status = "pending" /\ query[a].amount \in {0, intent[k].qty}
           /\ intent' = Confirmed(k, query[a].amount)
  <2> DEFINE b == query[a].amount # 0
             new == [intent[k] EXCEPT !.status = "authorized", !.compared = b]
  <2>1. b \in BOOLEAN /\ (b => query[a].amount # 0 /\ query[a].amount = intent[k].qty) BY <1>8
  <2> HIDE DEF b
  <2>2. new \in RowRecord /\ new.status = "authorized" /\ new.page = intent[k].page /\ new.reason = intent[k].reason
        /\ new.qty = intent[k].qty /\ (new.compared <=> b)
    BY <1>5, <2>1, Confirming
  <2>3. intent' = [intent EXCEPT ![k] = new] BY <1>1, <1>8 DEF Confirmed, b
  <2> HIDE DEF new
  <2>4. intent' \in [IntentKey -> RowRecord] /\ intent'[k] = new /\ \A j \in IntentKey \ {k} : intent'[j] = intent[j]
    BY <1>1, <2>2, <2>3, RowMoves
  <2>5. QED BY <1>1, <1>3, <1>4, <1>8, <2>1, <2>2, <2>4 DEF Confirm, supply
<1>9. QED BY <1>4, <1>6, <1>7, <1>8

\* What becomes of a row that grows old, or that a Join consumes.
LEMMA EndMoves ==
  ASSUME IntentInv, NEW k \in IntentKey
  PROVE  /\ Expires(k) =>
              /\ UNCHANGED <<hosted, visit, page, shown, query, joined>>
              /\ intent' \in [IntentKey -> RowRecord] /\ \A j \in IntentKey \ {k} : intent'[j] = intent[j]
              /\ intent'[k].status = intent[k].status /\ intent'[k].reason = intent[k].reason
              /\ intent'[k].page = intent[k].page /\ intent'[k].qty = intent[k].qty
              /\ intent'[k].compared = intent[k].compared
         /\ intent[k].status = "authorized" /\ intent' = [intent EXCEPT ![k].status = "consumed"] =>
              /\ intent' \in [IntentKey -> RowRecord] /\ \A j \in IntentKey \ {k} : intent'[j] = intent[j]
              /\ intent'[k].status = "consumed" /\ intent'[k].reason = intent[k].reason
              /\ intent'[k].page = intent[k].page /\ intent'[k].qty = intent[k].qty
              /\ intent'[k].compared = intent[k].compared
<1>1. intent \in [IntentKey -> RowRecord] /\ intent[k] \in RowRecord /\ IntentTypeOK BY Types DEF IntentInv
<1> DEFINE old == [intent[k] EXCEPT !.expired = TRUE]
           used == [intent[k] EXCEPT !.status = "consumed"]
<1>2. /\ old \in RowRecord /\ old.status = intent[k].status /\ old.reason = intent[k].reason
      /\ old.page = intent[k].page /\ old.qty = intent[k].qty /\ old.compared = intent[k].compared
  BY <1>1, Changing
<1>3. /\ used \in RowRecord /\ used.status = "consumed" /\ used.reason = intent[k].reason
      /\ used.page = intent[k].page /\ used.qty = intent[k].qty /\ used.compared = intent[k].compared
  BY <1>1, Changing
<1>4. Expires(k) => intent' = [intent EXCEPT ![k] = old] /\ UNCHANGED <<hosted, visit, page, shown, query, joined>>
  BY <1>1 DEF Expires, supply
<1>5. intent' = [intent EXCEPT ![k].status = "consumed"] => intent' = [intent EXCEPT ![k] = used] BY <1>1
<1> HIDE DEF old, used
<1>6. \A row \in {old, used} : intent' = [intent EXCEPT ![k] = row] =>
        /\ intent' \in [IntentKey -> RowRecord] /\ intent'[k] = row
        /\ \A j \in IntentKey \ {k} : intent'[j] = intent[j]
  BY <1>1, <1>2, <1>3, RowMoves
<1>7. QED BY <1>2, <1>3, <1>4, <1>5, <1>6

-----------------------------------------------------------------------------
(* The invariant is kept.                                                    *)

\* The facts about one row, as the proofs use them.
LEMMA PageKnown ==
  ASSUME IntentInv, NEW k \in IntentKey, intent[k].page # NoVisit
  PROVE  /\ intent[k].page \in Visit /\ visit[intent[k].page].key = k /\ page[intent[k].page].state # "none"
         /\ visit[intent[k].page].pc \notin {"free", "create"}
         /\ intent[k].status # "absent" /\ intent[k].reason # "reserved"
<1>1. intent[k] \in RowRecord BY Types DEF IntentInv
<1>2. intent[k].page \in Visit BY <1>1 DEF RowRecord
<1>3. QED BY <1>2 DEF IntentInv, Rows, Visits, Key

\* A visit that comes.
LEMMA ArrivalKeeps ==
  ASSUME IntentInv, NEW v \in Visit, NEW k \in IntentKey, NEW n \in Quantity,
         Reserve(v, k, n) \/ AskDirectly(v, k, n)
  PROVE  IntentInv'
<1>1. /\ UNCHANGED <<hosted, page, query, joined>>
      /\ visit[v].pc = "free" /\ visit'[v].key = k /\ visit'[v].qty = n
      /\ visit' \in [Visit -> VisitRecord] /\ intent' \in [IntentKey -> RowRecord] /\ shown' \subseteq Visit
      /\ \A w \in Visit \ {v} : visit'[w] = visit[w]
      /\ \/ /\ hosted /\ visit'[v].pc = "create" /\ intent[k].status = "absent" /\ shown' = shown
            /\ intent'[k].status = "pending" /\ intent'[k].reason = "reserved"
            /\ intent'[k].page = NoVisit /\ \A j \in IntentKey \ {k} : intent'[j] = intent[j]
         \/ /\ hosted /\ visit'[v].pc = "done" /\ intent' = intent
            /\ shown' = shown \/ (intent[k].page # NoVisit /\ shown' = shown \cup {intent[k].page})
         \/ ~hosted /\ visit'[v].pc = "create" /\ intent' = intent /\ shown' = shown
  BY ArrivalMoves
<1>2. /\ page[v].state = "none" /\ joined[v] = 0
      /\ \A j \in IntentKey : intent[j].page # v
  <2>1. page[v].state = "none" BY <1>1 DEF IntentInv, Visits
  <2>2. joined[v] = 0 BY <1>1 DEF IntentInv, Joins
  <2>3. v # NoVisit BY IntentAssumption
  <2>4. QED BY <1>1, <2>1, <2>2, <2>3, PageKnown
<1>3. IntentTypeOK' BY <1>1, Types, TypesNext DEF IntentInv
<1>4. Visits' BY <1>1, <1>2, PageKnown DEF IntentInv, Visits, Key
<1>5. Rows'
  <2>1. ASSUME NEW j \in IntentKey, intent'[j].page # NoVisit PROVE visit'[intent'[j].page].key = j
    BY <1>1, <1>2, <2>1, PageKnown
  <2>2. QED BY <1>1, <2>1, PageKnown DEF IntentInv, Rows, Key
<1>6. Owners'
  <2>1. SUFFICES ASSUME hosted PROVE Owners' BY <1>1 DEF Owners
  <2>2. ASSUME NEW w \in Visit, Owner(w)' PROVE intent'[visit'[w].key].status # "absent"
    BY <1>1, <1>2, <2>1, <2>2 DEF IntentInv, Owners, Owner, Visits, Key
  <2>3. ASSUME NEW w \in Visit, NEW x \in Visit, Owner(w)', Owner(x)', w # x
        PROVE  visit'[w].key # visit'[x].key
    BY <1>1, <1>2, <2>1, <2>3 DEF IntentInv, Owners, Owner, Visits, Key
  <2>4. ASSUME NEW w \in shown' PROVE intent'[visit'[w].key].page = w
    <3>1. CASE w \in shown
      <4>1. intent[visit[w].key].page = w BY <2>1, <3>1 DEF IntentInv, Owners, Key
      <4>2. w \in Visit /\ w # NoVisit BY <3>1, Types, IntentAssumption DEF IntentInv
      <4>3. visit[w].key \in IntentKey /\ w # v BY <1>1, <3>1, <4>2 DEF IntentInv, Visits, Key
      <4>4. intent[visit[w].key].status # "absent" BY <4>1, <4>2, <4>3, PageKnown
      <4>5. QED BY <1>1, <4>1, <4>2, <4>3, <4>4
    <3>2. CASE w \notin shown
      <4>1. intent' = intent /\ intent[k].page = w /\ w # NoVisit BY <1>1, <2>4, <3>2
      <4>2. QED BY <1>1, <1>2, <4>1, PageKnown
    <3>3. QED BY <3>1, <3>2
  <2>5. QED BY <1>1, <2>1, <2>2, <2>3, <2>4 DEF IntentInv, Owners, Key
<1>7. Proofs' BY <1>1 DEF IntentInv, Proofs
<1>8. Joins' BY <1>1, <1>2 DEF IntentInv, Joins, Key, Visits
<1>9. QED BY <1>3, <1>4, <1>5, <1>6, <1>7, <1>8 DEF IntentInv

\* A visit that leaves.
LEMMA LeavingKeeps ==
  ASSUME IntentInv, NEW v \in Visit,
         CompleteCreation(v) \/ MarkOutcome(v) \/ BindDirectly(v) \/ VisitDies(v)
  PROVE  IntentInv'
<1> DEFINE k == visit[v].key
<1>1. /\ UNCHANGED <<hosted, page, query, joined>>
      /\ visit[v].pc \notin {"free", "done"} /\ visit'[v].pc = "done"
      /\ visit'[v].key = k /\ visit'[v].qty = visit[v].qty
      /\ visit' \in [Visit -> VisitRecord] /\ intent' \in [IntentKey -> RowRecord] /\ shown' \subseteq Visit
      /\ \A w \in Visit \ {v} : visit'[w] = visit[w]
  BY LeavingMoves
<1>2. \/ intent' = intent /\ (shown' = shown \/ (~hosted /\ visit[v].pc = "answered" /\ shown' = shown \cup {v}))
      \/ /\ hosted /\ visit[v].pc = "answered" /\ intent[k].status = "pending" /\ intent[k].reason = "reserved"
         /\ shown' = shown \cup {v}
         /\ intent'[k].status = "pending" /\ intent'[k].reason = "created" /\ intent'[k].page = v
         /\ \A j \in IntentKey \ {k} : intent'[j] = intent[j]
      \/ /\ hosted /\ intent[k].status = "pending" /\ shown' = shown
         /\ intent'[k].status \in {"pending", "failed"} /\ intent'[k].page = intent[k].page
         /\ intent'[k].reason \in {"unsure", intent[k].reason}
         /\ \A j \in IntentKey \ {k} : intent'[j] = intent[j]
      \/ /\ ~hosted /\ visit[v].pc = "answered" /\ intent[k].status = "absent" /\ shown' = shown \cup {v}
         /\ intent'[k].status \in {"pending", "authorized"} /\ intent'[k].reason = "created"
         /\ intent'[k].page = v /\ intent'[k].qty = visit[v].qty
         /\ \A j \in IntentKey \ {k} : intent'[j] = intent[j]
  BY LeavingMoves DEF Key, Completable
<1>3. /\ k \in IntentKey /\ visit[v].qty \in Quantity /\ v # NoVisit
      /\ visit[v].pc = "answered" => page[v].state # "none"
      /\ ~hosted /\ visit[v].pc = "answered" => page[v].state \in Proven /\ page[v].amount = visit[v].qty
  BY <1>1, IntentAssumption DEF IntentInv, Visits, Key
<1>4. intent[k].status = "absent" \/ intent[k].reason = "reserved" => intent[k].page = NoVisit
  BY <1>3 DEF IntentInv, Rows
<1>5. \A w \in Visit : joined[w] # 0 => visit[w].key \in IntentKey /\ intent[visit[w].key].page = w
        /\ intent[visit[w].key].status = "consumed"
  BY DEF IntentInv, Joins, Visits, Key
<1>6. \A w \in Visit : visit'[w].key = visit[w].key /\ visit'[w].qty = visit[w].qty BY <1>1
<1> HIDE DEF k
<1>7. IntentTypeOK' BY <1>1, Types, TypesNext DEF IntentInv
<1>8. Visits' BY <1>1, <1>2, <1>3 DEF IntentInv, Visits, Key
<1>9. Rows'
  <2>1. ASSUME NEW j \in IntentKey, j # k PROVE intent'[j] = intent[j] BY <1>2, <2>1
  <2>2. ASSUME NEW j \in IntentKey, j # k, intent[j].page # NoVisit
        PROVE  visit'[intent[j].page].key = j /\ page[intent[j].page].state # "none"
    BY <1>6, <2>2, PageKnown
  <2>3. intent'[k].status = "absent" \/ intent'[k].reason = "reserved" => intent'[k].page = NoVisit
    BY <1>2, <1>4
  <2>4. intent'[k].page # NoVisit => visit'[intent'[k].page].key = k /\ page[intent'[k].page].state # "none"
    <3>1. CASE intent'[k].page = intent[k].page BY <1>3, <1>6, <3>1, PageKnown
    <3>2. CASE visit[v].pc = "answered" /\ intent'[k].page = v BY <1>1, <1>3, <3>2
    <3>3. QED BY <1>2, <3>1, <3>2
  <2>5. QED BY <1>1, <2>1, <2>2, <2>3, <2>4 DEF IntentInv, Rows, Key
<1>10. Owners'
  <2>1. SUFFICES ASSUME hosted PROVE Owners' BY <1>1 DEF Owners
  <2>2. \A w \in Visit : Owner(w)' => Owner(w) BY <1>1 DEF Owner
  <2>3. \A j \in IntentKey : intent[j].status # "absent" => intent'[j].status # "absent" BY <1>2, <2>1
  <2>4. \A w \in Visit : Owner(w) => visit[w].key \in IntentKey
    BY DEF IntentInv, Owner, Visits, Key
  <2>5. ASSUME NEW w \in shown' PROVE intent'[visit[w].key].page = w
    <3>1. CASE w \in shown
      <4>1. w \in Visit /\ w # NoVisit BY <3>1, Types, IntentAssumption DEF IntentInv
      <4>2. visit[w].key \in IntentKey BY <3>1, <4>1 DEF IntentInv, Visits, Key
      <4>3. intent[visit[w].key].page = w BY <2>1, <3>1 DEF IntentInv, Owners, Key
      <4>4. intent[visit[w].key].reason # "reserved" BY <4>1, <4>2, <4>3, PageKnown
      <4>5. QED BY <1>2, <2>1, <4>2, <4>3, <4>4
    <3>2. CASE w \notin shown BY <1>2, <2>1, <2>5, <3>2 DEF k
    <3>3. QED BY <3>1, <3>2
  <2>6. \A w \in Visit : page[w].state = "held" => w \in shown' BY <1>2, <2>1 DEF IntentInv, Owners
  <2>7. QED BY <1>1, <1>6, <2>1, <2>2, <2>3, <2>4, <2>5, <2>6 DEF IntentInv, Owners, Key
<1>11. Proofs'
  <2>1. ASSUME NEW j \in IntentKey, intent'[j].status \in {"authorized", "consumed"}
        PROVE  /\ intent'[j].page # NoVisit /\ page[intent'[j].page].state \in Proven
               /\ intent'[j].compared => page[intent'[j].page].amount = intent'[j].qty
    <3>1. CASE intent'[j] = intent[j] BY <2>1, <3>1 DEF IntentInv, Proofs
    <3>2. CASE j = k /\ intent'[j] # intent[j]
      <4>1. intent'[k].page = v /\ intent'[k].qty = visit[v].qty /\ ~hosted /\ visit[v].pc = "answered"
        BY <1>2, <2>1, <3>2
      <4>2. QED BY <1>3, <3>2, <4>1
    <3>3. QED BY <1>2, <3>1, <3>2
  <2>2. QED BY <1>1, <2>1 DEF IntentInv, Proofs
<1>12. Joins'
  <2>1. ASSUME NEW w \in Visit, joined[w] # 0 PROVE intent'[visit[w].key] = intent[visit[w].key]
    BY <1>2, <1>5, <2>1
  <2>2. QED BY <1>1, <1>6, <2>1 DEF IntentInv, Joins, Key
<1>13. QED BY <1>7, <1>8, <1>9, <1>10, <1>11, <1>12 DEF IntentInv

\* The provider, the buyer and time.
LEMMA PageKeeps ==
  ASSUME IntentInv, NEW v \in Visit,
         CreateHold(v) \/ (\E n \in Quantity : Approves(v, n)) \/ HoldEnds(v)
  PROVE  IntentInv'
<1>1. /\ UNCHANGED <<hosted, intent, shown, query, joined>>
      /\ visit' \in [Visit -> VisitRecord] /\ page' \in [Visit -> PageRecord]
      /\ visit[v].pc # "free" /\ visit'[v].pc # "free"
      /\ visit'[v].key = visit[v].key /\ visit'[v].qty = visit[v].qty
      /\ \A w \in Visit \ {v} : visit'[w] = visit[w] /\ page'[w] = page[w]
      /\ \/ /\ visit[v].pc = "create" /\ visit'[v].pc \in {"answered", "unsure"}
            /\ page'[v].state = (IF hosted THEN "open" ELSE "held") /\ page'[v].amount = visit[v].qty
         \/ /\ visit[v].pc = "create" /\ visit'[v].pc \in {"refused", "unsure"} /\ page'[v] = page[v]
         \/ /\ visit' = visit /\ page[v].state = "open" /\ v \in shown /\ page'[v].state = "held"
         \/ /\ visit' = visit /\ page[v].state \in {"open", "held"}
            /\ page'[v].state = "lapsed" /\ page'[v].amount = page[v].amount
  BY CreateMoves, PageMoves, Types DEF IntentInv, Visits
<1>2. visit[v].pc = "create" => page[v].state = "none" BY DEF IntentInv, Visits
<1>3. \A w \in Visit : /\ visit'[w].key = visit[w].key /\ visit'[w].qty = visit[w].qty
                       /\ page[w].state # "none" => page'[w].state # "none"
                       /\ page[w].state \in Proven => page'[w].state \in Proven /\ page'[w].amount = page[w].amount
  BY <1>1, <1>2 DEF Proven
<1>4. IntentTypeOK' BY <1>1, Types, TypesNext DEF IntentInv
<1>5. Visits' BY <1>1, <1>2, <1>3 DEF IntentInv, Visits, Key, Proven
<1>6. Rows' BY <1>1, <1>3, PageKnown DEF IntentInv, Rows, Key
<1>7. Owners'
  <2>1. \A w \in Visit : Owner(w)' => Owner(w) BY <1>1, <1>2 DEF Owner
  <2>2. hosted => \A w \in Visit : page'[w].state = "held" => w \in shown BY <1>1, <1>2 DEF IntentInv, Owners
  <2>3. shown \subseteq Visit BY Types DEF IntentInv
  <2>4. QED BY <1>1, <1>3, <2>1, <2>2, <2>3 DEF IntentInv, Owners, Key
<1>8. Proofs'
  <2>1. \A k \in IntentKey : intent[k].page # NoVisit => intent[k].page \in Visit BY PageKnown
  <2>2. \A a \in Asker : query[a].page # NoVisit => query[a].page \in Visit BY Types DEF IntentInv, QueryRecord
  <2>3. QED BY <1>1, <1>3, <2>1, <2>2 DEF IntentInv, Proofs
<1>9. Joins' BY <1>1, <1>3 DEF IntentInv, Joins, Key
<1>10. QED BY <1>4, <1>5, <1>6, <1>7, <1>8, <1>9 DEF IntentInv

\* A row that changes its status, its age or what was compared, of the same page.
LEMMA RowKeeps ==
  ASSUME IntentInv, NEW k \in IntentKey,
         UNCHANGED <<hosted, visit, page, shown, joined>>,
         intent' \in [IntentKey -> RowRecord], query' \in [Asker -> QueryRecord],
         \A j \in IntentKey \ {k} : intent'[j] = intent[j],
         intent'[k].page = intent[k].page, intent'[k].reason = intent[k].reason, intent'[k].qty = intent[k].qty,
         intent[k].page # NoVisit, intent'[k].status # "absent",
         intent[k].status = "consumed" => intent'[k].status = "consumed",
         intent'[k].status \in {"authorized", "consumed"} =>
           /\ page[intent[k].page].state \in Proven
           /\ intent'[k].compared => page[intent[k].page].amount = intent[k].qty,
         \A a \in Asker : query'[a] = query[a] \/ query'[a] = NoQuery
  PROVE  IntentInv'
<1>1. IntentTypeOK' BY Types, TypesNext DEF IntentInv
<1>2. Visits' BY DEF IntentInv, Visits, Key
<1>3. Rows' BY PageKnown DEF IntentInv, Rows, Key
<1>4. Owners'
  <2>1. \A w \in Visit : Owner(w)' <=> Owner(w) BY DEF Owner
  <2>2. \A w \in Visit : Owner(w) => visit[w].key \in IntentKey BY DEF IntentInv, Owner, Visits, Key
  <2>3. \A w \in shown : visit[w].key \in IntentKey BY Types DEF IntentInv, Visits, Key
  <2>4. QED BY <2>1, <2>2, <2>3 DEF IntentInv, Owners, Key
<1>5. Proofs' BY DEF IntentInv, Proofs
<1>6. Joins'
  <2>1. \A w \in Visit : joined[w] # 0 => visit[w].key \in IntentKey BY DEF IntentInv, Joins, Visits, Key
  <2>2. QED BY <2>1 DEF IntentInv, Joins, Key
<1>7. QED BY <1>1, <1>2, <1>3, <1>4, <1>5, <1>6 DEF IntentInv

\* What the server learns at the provider, and a row's expiry.
LEMMA LearningKeeps ==
  ASSUME IntentInv,
         \/ \E a \in Asker, k \in IntentKey : LookUp(a, k)
         \/ \E a \in Asker : Confirm(a)
         \/ \E k \in IntentKey : Expires(k)
  PROVE  IntentInv'
<1>1. ASSUME NEW a \in Asker, NEW k \in IntentKey, LookUp(a, k) PROVE IntentInv'
  <2>1. /\ UNCHANGED <<hosted, intent, visit, page, shown, joined>>
        /\ query' \in [Asker -> QueryRecord]
        /\ \A b \in Asker \ {a} : query'[b] = query[b]
        /\ query'[a].page # NoVisit
        /\ page[query'[a].page].state = "held" /\ query'[a].amount \in {0, page[query'[a].page].amount}
    BY <1>1, LookUpMoves
  <2>2. IntentTypeOK' BY <2>1, Types, TypesNext DEF IntentInv
  <2>3. Visits' BY <2>1 DEF IntentInv, Visits, Key
  <2>4. Rows' BY <2>1 DEF IntentInv, Rows, Key
  <2>5. Owners' BY <2>1 DEF IntentInv, Owners, Owner, Key
  <2>6. Proofs' BY <2>1 DEF IntentInv, Proofs, Proven
  <2>7. Joins' BY <2>1 DEF IntentInv, Joins, Key
  <2>8. QED BY <2>2, <2>3, <2>4, <2>5, <2>6, <2>7 DEF IntentInv
<1>2. ASSUME NEW a \in Asker, Confirm(a) PROVE IntentInv'
  <2>1. /\ UNCHANGED <<hosted, visit, page, shown, joined>>
        /\ query' \in [Asker -> QueryRecord] /\ query'[a] = NoQuery
        /\ \A b \in Asker \ {a} : query'[b] = query[b]
        /\ query[a] # NoQuery /\ intent' \in [IntentKey -> RowRecord]
    BY <1>2, ConfirmMoves
  <2>2. /\ query[a].page # NoVisit /\ page[query[a].page].state \in Proven
        /\ query[a].amount \in {0, page[query[a].page].amount}
    BY <2>1 DEF IntentInv, Proofs
  <2>3. CASE intent' = intent
    <3>1. IntentTypeOK' BY <2>1, Types, TypesNext DEF IntentInv
    <3>2. Visits' BY <2>1 DEF IntentInv, Visits, Key
    <3>3. Rows' BY <2>1, <2>3 DEF IntentInv, Rows, Key
    <3>4. Owners' BY <2>1, <2>3 DEF IntentInv, Owners, Owner, Key
    <3>5. Proofs' BY <2>1, <2>3 DEF IntentInv, Proofs
    <3>6. Joins' BY <2>1, <2>3 DEF IntentInv, Joins, Key
    <3>7. QED BY <3>1, <3>2, <3>3, <3>4, <3>5, <3>6 DEF IntentInv
  <2>4. ASSUME NEW k \in IntentKey,
               intent[k].page = query[a].page, intent[k].status = "pending",
               \A j \in IntentKey \ {k} : intent'[j] = intent[j],
               intent'[k].page = intent[k].page, intent'[k].reason = intent[k].reason,
               intent'[k].qty = intent[k].qty,
               \/ intent'[k].status = "failed"
               \/ /\ intent'[k].status = "authorized"
                  /\ intent'[k].compared => query[a].amount # 0 /\ query[a].amount = intent[k].qty
        PROVE  IntentInv'
    BY <2>1, <2>2, <2>4, RowKeeps
  <2>5. QED BY <1>2, <2>3, <2>4, ConfirmMoves
<1>3. ASSUME NEW k \in IntentKey, Expires(k) PROVE IntentInv'
  <2>1. intent[k].page # NoVisit BY <1>3 DEF Expires
  <2>2. QED BY <1>3, <2>1, EndMoves, RowKeeps, PageKnown, Types DEF IntentInv, Proofs
<1>4. QED BY <1>1, <1>2, <1>3

\* A Join consumes the row of the page it names.
LEMMA ConsumeKeeps ==
  ASSUME IntentInv, NEW v \in Visit, NEW n \in Quantity, ConsumeForJoin(v, n)
  PROVE  IntentInv'
<1>1. PICK k \in IntentKey :
        /\ intent[k].page = v /\ intent[k].status = "authorized" /\ intent[k].qty = n
        /\ intent' = [intent EXCEPT ![k].status = "consumed"]
  BY DEF ConsumeForJoin
<1>2. /\ UNCHANGED <<hosted, visit, page, shown, query>> /\ joined' = [joined EXCEPT ![v] = @ + n]
      /\ v # NoVisit
  BY IntentAssumption DEF ConsumeForJoin, supply
<1>3. visit[v].key = k /\ visit[v].pc # "free" BY <1>1, <1>2, PageKnown
<1>4. joined[v] = 0 BY <1>1, <1>3 DEF IntentInv, Joins, Key
<1>5. joined \in [Visit -> 0..4] BY Types DEF IntentInv
<1>6. joined'[v] = n /\ (\A w \in Visit \ {v} : joined'[w] = joined[w]) /\ joined' \in [Visit -> 0..4]
  BY <1>2, <1>4, <1>5 DEF Quantity
<1>7. /\ intent' \in [IntentKey -> RowRecord] /\ \A j \in IntentKey \ {k} : intent'[j] = intent[j]
      /\ intent'[k].status = "consumed" /\ intent'[k].reason = intent[k].reason
      /\ intent'[k].page = intent[k].page /\ intent'[k].qty = intent[k].qty
      /\ intent'[k].compared = intent[k].compared
  BY <1>1, EndMoves
<1>8. IntentTypeOK' BY <1>2, <1>6, <1>7, Types, TypesNext DEF IntentInv
<1>9. Visits' BY <1>2 DEF IntentInv, Visits, Key
<1>10. Rows' BY <1>1, <1>2, <1>7 DEF IntentInv, Rows, Key
<1>11. Owners'
  <2>1. \A w \in Visit : Owner(w)' <=> Owner(w) BY <1>2 DEF Owner
  <2>2. \A w \in Visit : Owner(w) => visit[w].key \in IntentKey BY DEF IntentInv, Owner, Visits, Key
  <2>3. \A w \in shown : visit[w].key \in IntentKey BY Types DEF IntentInv, Visits, Key
  <2>4. QED BY <1>2, <1>7, <2>1, <2>2, <2>3 DEF IntentInv, Owners, Key
<1>12. Proofs' BY <1>1, <1>2, <1>7 DEF IntentInv, Proofs
<1>13. Joins'
  <2>1. \A w \in Visit \ {v} : joined[w] # 0 => visit[w].key \in IntentKey /\ visit[w].key # k
    BY <1>1 DEF IntentInv, Joins, Visits, Key
  <2>2. QED BY <1>1, <1>2, <1>3, <1>6, <1>7, <2>1 DEF IntentInv, Joins, Key
<1>14. QED BY <1>8, <1>9, <1>10, <1>11, <1>12, <1>13 DEF IntentInv

\* The invariant is kept by every step.
LEMMA IntentStep == IntentInv /\ [IntentNext]_intentVars => IntentInv'
<1> SUFFICES ASSUME IntentInv, [IntentNext]_intentVars PROVE IntentInv'
  OBVIOUS
<1>1. CASE IntentNext
  BY <1>1, ArrivalKeeps, LeavingKeeps, PageKeeps, LearningKeeps, ConsumeKeeps DEF IntentNext
<1>2. CASE UNCHANGED intentVars
  <2>1. IntentTypeOK' BY <1>2, Types, TypesNext DEF IntentInv, intentVars
  <2>2. QED
    BY <1>2, <2>1
    DEF intentVars, IntentInv, Visits, Rows, Owners, Owner, Proofs, Joins, Key
<1>3. QED BY <1>1, <1>2

\* It holds in the beginning.
LEMMA IntentStart == IntentInit => IntentInv
<1> SUFFICES ASSUME IntentInit PROVE IntentInv
  OBVIOUS
<1>1. /\ \A k \in IntentKey : intent[k] = Absent
      /\ \A v \in Visit : visit[v].pc = "free" /\ page[v].state = "none" /\ joined[v] = 0
      /\ \A a \in Asker : query[a] = NoQuery
      /\ shown = {}
  BY DEF IntentInit
<1>2. Absent \in RowRecord BY DEF Absent, RowRecord
<1>3. IntentTypeOK
  <2>1. intent \in [IntentKey -> RowRecord] BY <1>2 DEF IntentInit
  <2>2. visit \in [Visit -> VisitRecord] BY DEF IntentInit, VisitRecord
  <2>3. page \in [Visit -> PageRecord] BY DEF IntentInit, PageRecord
  <2>4. query \in [Asker -> QueryRecord] BY DEF IntentInit, NoQuery, QueryRecord
  <2>5. joined \in [Visit -> 0..4] /\ shown \subseteq Visit BY DEF IntentInit
  <2>6. hosted \in BOOLEAN BY DEF IntentInit
  <2>7. QED BY <2>1, <2>2, <2>3, <2>4, <2>5, <2>6
        DEF IntentTypeOK, VisitRecord, RowRecord, PageRecord, QueryRecord
<1>4. Visits BY <1>1 DEF Visits
<1>5. Rows
  <2>1. Absent.page = NoVisit BY DEF Absent
  <2>2. QED BY <1>1, <2>1 DEF Rows
<1>6. Owners BY <1>1 DEF Owners, Owner
<1>7. Proofs
  <2>1. Absent.status = "absent" BY DEF Absent
  <2>2. QED BY <1>1, <2>1 DEF Proofs
<1>8. Joins BY <1>1 DEF Joins
<1>9. QED BY <1>3, <1>4, <1>5, <1>6, <1>7, <1>8 DEF IntentInv

-----------------------------------------------------------------------------
(* What it gives.                                                            *)

\* The state of the bindings has its types, for any number of visits, keys and
\* lookups at once.
THEOREM IntentTypes == IntentSpec => []IntentTypeOK
<1>1. IntentInv => IntentTypeOK BY DEF IntentInv
<1>2. QED BY <1>1, IntentStart, IntentStep, PTL DEF IntentSpec

\* A hosted intent makes at most one page, and money is held only on a page that
\* the intent's binding names: a reservation is made once and never made again,
\* and a page is shown to its buyer only after the binding has it.
THEOREM HoldsAreKnown == IntentSpec => []OneKnownHold
<1>1. ASSUME IntentInv PROVE OneKnownHold
  <2>1. SUFFICES ASSUME hosted, NEW v \in Visit, page[v].state # "none"
                 PROVE  /\ \A w \in Visit \ {v} : page[w].state # "none" => Key(w) # Key(v)
                        /\ page[v].state = "held" => intent[Key(v)].page = v
    BY DEF OneKnownHold
  <2>2. QED BY <1>1, <2>1 DEF IntentInv, Owners, Owner
<1>2. QED BY <1>1, IntentStart, IntentStep, PTL DEF IntentSpec

\* An authorization carries the units of at most one Join, and they are those
\* its buyer approved the money of, unless the provider stated no amount: a row
\* names the page of its own visit only, and is consumed once.
THEOREM JoinsHaveProof == IntentSpec => []JoinedOnProof
<1>1. ASSUME IntentInv PROVE JoinedOnProof
  <2>1. SUFFICES ASSUME NEW v \in Visit, joined[v] > 0
                 PROVE  \E k \in IntentKey :
                          /\ intent[k].page = v /\ intent[k].status = "consumed" /\ joined[v] = intent[k].qty
                          /\ page[v].state \in {"held", "lapsed"}
                          /\ intent[k].compared => page[v].amount = joined[v]
    BY DEF JoinedOnProof
  <2>2. joined[v] # 0 BY <2>1, <1>1, Types DEF IntentInv
  <2>3. Key(v) \in IntentKey /\ intent[Key(v)].page = v /\ intent[Key(v)].status = "consumed"
        /\ joined[v] = intent[Key(v)].qty
    BY <1>1, <2>2 DEF IntentInv, Joins, Visits
  <2>4. page[v].state \in Proven /\ (intent[Key(v)].compared => page[v].amount = joined[v])
    BY <1>1, <2>3 DEF IntentInv, Proofs
  <2>5. QED BY <2>3, <2>4 DEF Proven
<1>2. QED BY <1>1, IntentStart, IntentStep, PTL DEF IntentSpec

-----------------------------------------------------------------------------
(* Renewals: the invariant.                                                  *)

Decided == {"done", "declined"}

\* Where a run has read the binding: between the gate and what comes of it.
Bound == {"renew", "prove", "apply", "close", "arm", "send", "await", "settle", "capture", "resolve", "ingest"}

\* A run has a request wherever it works on one, of the kind it works on there,
\* and an authorization wherever it may send a capture.
AtPlace(q) ==
  /\ q.pc \in {"prove", "apply", "close"} => q.on \in Renewal
  /\ q.pc \in {"resolve", "ingest"} => q.on \in Capture
  /\ q.pc \in {"arm", "send", "await", "settle", "schedule", "begin", "flight", "status", "conclude"} => q.on \in Identity
  /\ q.pc \in Bound => q.auth \in Authorization

\* What a run was told of its request is what became of it.
ToldOf(q) ==
  /\ q.pc = "settle" /\ q.seen \in Decided => request[q.on].fate = q.seen
  /\ q.pc = "apply" \/ (q.pc = "ingest" /\ q.seen = "done") => request[q.on].fate = "done"
  /\ q.pc = "close" => request[q.on].fate \in Decided
  /\ q.pc = "conclude" /\ q.on \in Renewal =>
       /\ q.seen = "done" => request[q.on].fate = "done"
       /\ q.seen = "negative" => request[q.on].fate \in Decided
       /\ q.seen # "authorized"
  /\ q.pc = "conclude" /\ q.on \in Capture /\ q.seen = "done" => Done(Capture) # {}
Standing == \A c \in Clerk : AtPlace(clerk[c]) /\ ToldOf(clerk[c])

\* A reconcile job is about a request.
SubjectKnown ==
  /\ chore["payment_reconcile"] # "none" => subject.of \in Identity
  /\ \A c \in Clerk : clerk[c].chore = "payment_reconcile" => subject.of \in Identity

RenewalInv == RenewalTypeOK /\ Standing /\ SubjectKnown /\ RenewalsAreTrue

-----------------------------------------------------------------------------
(* Renewals: what a step moves.                                              *)

RenewalPoint == {"free", "gate", "renew", "prove", "apply", "close", "arm", "send", "await", "settle", "capture",
                 "resolve", "ingest", "schedule", "end", "begin", "flight", "status", "conclude",
                 "wake", "ack", "throw", "give_up"}
Sight == {"none", "done", "pending", "declined", "unusable", "unknown", "unsent", "negative", "authorized"}
ClerkRecord == [chore : Chore \cup {"none"}, pc : RenewalPoint, live : BOOLEAN, on : Identity \cup {Nothing},
                auth : Authorization \cup {None}, retry : BOOLEAN, hold : BOOLEAN, seen : Sight]
AttemptRecord == [result : {"none", "unknown", "success", "permanent_fail", "temporary_fail"},
                  dispatch : {"recorded", "dispatching", "responded"},
                  owner : Clerk \cup {"null", "gone"}, ref : Authorization \cup {None}]
BindingRecord == [auth : Authorization, expires : {"null", "declared", "past"}, since : 0..MaxRenewals]
ChoreTable == [Chore -> {"none", "pending", "processing", "sent", "dlq"}]
SubjectRecord == [of : Identity \cup {Nothing}, ref : Authorization \cup {None}]
RequestRecord == [fate : {"unsent", "wire", "pending", "done", "declined", "unusable"}, on : Authorization]

\* The type of the state, by these names.
LEMMA RenewalForms ==
  ASSUME RenewalTypeOK
  PROVE  /\ conclusive \in BOOLEAN /\ declares \in BOOLEAN /\ binding \in BindingRecord
         /\ ledger \in [Identity -> AttemptRecord]
         /\ charged \in {"ChargeAttempt", "ChargedSuccess", "ChargeFailedRecovery"} /\ windowOpen \in BOOLEAN
         /\ chore \in ChoreTable /\ subject \in SubjectRecord /\ clerk \in [Clerk -> ClerkRecord]
         /\ reported \in BOOLEAN /\ stalls \in 0..MaxTurns
         /\ request \in [Identity -> RequestRecord] /\ lapsed \subseteq Authorization
BY DEF RenewalTypeOK, BindingRecord, AttemptRecord, ChoreTable, SubjectRecord, ClerkRecord, RenewalPoint, Sight, RequestRecord

\* The same of the next state.
LEMMA RenewalFormsNext ==
  ASSUME conclusive' \in BOOLEAN, declares' \in BOOLEAN, binding' \in BindingRecord,
         ledger' \in [Identity -> AttemptRecord],
         charged' \in {"ChargeAttempt", "ChargedSuccess", "ChargeFailedRecovery"}, windowOpen' \in BOOLEAN,
         chore' \in ChoreTable, subject' \in SubjectRecord, clerk' \in [Clerk -> ClerkRecord],
         reported' \in BOOLEAN, stalls' \in 0..MaxTurns,
         request' \in [Identity -> RequestRecord], lapsed' \subseteq Authorization
  PROVE  RenewalTypeOK'
BY DEF RenewalTypeOK, BindingRecord, AttemptRecord, ChoreTable, SubjectRecord, ClerkRecord, RenewalPoint, Sight, RequestRecord

\* Identities are pairs of a type and a number.
LEMMA Pairs ==
  /\ MaxRenewals \in Nat \ {0} /\ MaxCaptures \in Nat \ {0} /\ MaxTurns \in Nat
  /\ \A i \in Renewal : i[1] = "reauthorize" /\ i[2] \in 1..MaxRenewals /\ i[2] \in Authorization /\ i = <<"reauthorize", i[2]>>
  /\ \A i \in Capture : i[1] = "charge_start"
  /\ Renewal \cap Capture = {} /\ Identity = Capture \cup Renewal
BY RenewalAssumption DEF Renewal, Capture, Identity, Authorization

\* As many renewals are minted as there are numbers for them, at most, and there
\* is a next one unless all are; so it is with captures.
LEMMA Column ==
  ASSUME NEW type \in {Renewal, Capture}
  PROVE  /\ Cardinality(Minted(type)) \in Nat
         /\ type = Renewal => Cardinality(Minted(type)) \in 0..MaxRenewals
         /\ Minted(type) # type => NextOf(type) \in type
<1> DEFINE name == IF type = Renewal THEN "reauthorize" ELSE "charge_start"
           max == IF type = Renewal THEN MaxRenewals ELSE MaxCaptures
           f == [k \in 1..max |-> <<name, k>>]
<1>1. max \in Nat /\ type = {name} \X (1..max) BY Pairs DEF Renewal, Capture
<1> HIDE DEF max, name
<1>2. f \in [1..max -> type] BY <1>1
<1>3. \A a, b \in 1..max : f[a] = f[b] => a = b OBVIOUS
<1>4. \A i \in type : \E k \in 1..max : f[k] = i BY <1>1
<1>5. f \in Bijection(1..max, type) BY <1>2, <1>3, <1>4 DEF Bijection, Injection, Surjection, IsInjective
<1>6. ExistsBijection(1..max, type) BY <1>5 DEF ExistsBijection
<1>7. IsFiniteSet(1..max) /\ Cardinality(1..max) = max BY <1>1, FS_Interval
<1>8. IsFiniteSet(type) /\ Cardinality(type) = max BY <1>6, <1>7, FS_Bijection
<1>9. Minted(type) \in SUBSET type BY DEF Minted
<1>10. /\ IsFiniteSet(Minted(type)) /\ Cardinality(Minted(type)) <= max
       /\ Cardinality(Minted(type)) = max => Minted(type) = type
  BY <1>8, <1>9, FS_Subset
<1>11. Cardinality(Minted(type)) \in Nat BY <1>10, FS_CardinalityType
<1>12. ASSUME Minted(type) # type PROVE NextOf(type) \in type
  <2>1. Cardinality(Minted(type)) + 1 \in 1..max BY <1>1, <1>10, <1>11, <1>12
  <2>2. <<name, Cardinality(Minted(type)) + 1>> \in type BY <1>1, <2>1
  <2>3. \E i \in type : i[2] = Cardinality(Minted(type)) + 1 BY <2>2
  <2>4. QED BY <2>3 DEF NextOf
<1>13. type = Renewal => max = MaxRenewals BY DEF max
<1>14. QED BY <1>1, <1>10, <1>11, <1>12, <1>13, Pairs

\* What is spent is a number, and one more is within the bound.
LEMMA SpentCounted ==
  ASSUME RenewalTypeOK, Spent < MaxTurns
  PROVE  stalls + 1 \in 0..MaxTurns
<1> DEFINE S == {i \in Identity : i[2] > 1 /\ ledger[i].result # "none"}
<1>1. IsFiniteSet(1..MaxRenewals) /\ IsFiniteSet(1..MaxCaptures) BY Pairs, FS_Interval
<1>2. IsFiniteSet({"reauthorize"}) /\ IsFiniteSet({"charge_start"}) BY FS_Singleton
<1>3. IsFiniteSet(Renewal) /\ IsFiniteSet(Capture) BY <1>1, <1>2, FS_Product DEF Renewal, Capture
<1>4. IsFiniteSet(Identity) BY <1>3, FS_Union DEF Identity
<1>5. S \in SUBSET Identity OBVIOUS
<1>6. Spent = stalls + Cardinality(S) BY DEF Spent
<1> HIDE DEF S
<1>7. Cardinality(S) \in Nat BY <1>4, <1>5, FS_Subset, FS_CardinalityType
<1>8. QED BY <1>6, <1>7, Pairs, RenewalForms


\* What a step of run c, or of no run, may do to the rows, the binding and the
\* provider's side, in whatever order it comes.
Follows(c) ==
  /\ \A d \in Clerk \ {c} : clerk'[d] = clerk[d]
  /\ \A i \in Identity : request[i].fate \in Decided => request'[i].fate = request[i].fate
  /\ \A i \in Renewal : \/ ledger'[i].result \notin {"success", "permanent_fail"}
                        \/ ledger'[i].result = ledger[i].result
                        \/ ledger'[i].result = "success" /\ request'[i].fate = "done"
                        \/ ledger'[i].result = "permanent_fail" /\ request'[i].fate \in Decided
  /\ charged' = "ChargedSuccess" => charged = "ChargedSuccess" \/ \E i \in Capture : request'[i].fate = "done"
  /\ \/ binding'.auth = binding.auth
     \/ <<"reauthorize", binding'.auth>> \in Renewal /\ request'[<<"reauthorize", binding'.auth>>].fate = "done"
  /\ subject' = subject \/ subject'.of \in Identity
  /\ chore'["payment_reconcile"] # "none" => chore["payment_reconcile"] # "none" \/ subject'.of \in Identity
  /\ c \in Clerk /\ clerk'[c].chore = "payment_reconcile" =>
       clerk[c].chore = "payment_reconcile" \/ chore["payment_reconcile"] # "none"

\* Then the invariant holds again, if it does for the run itself.
LEMMA RenewalFollows ==
  ASSUME RenewalInv, RenewalTypeOK', NEW c, Follows(c),
         c \in Clerk => AtPlace(clerk[c])' /\ ToldOf(clerk[c])'
  PROVE  RenewalInv'
<1>1. RenewalTypeOK BY DEF RenewalInv
<1>2. \A i \in Identity : request[i].fate = "done" => request'[i].fate = "done" BY DEF Follows, Decided
<1>3. \A i \in Identity : request[i].fate \in Decided => request'[i].fate \in Decided /\ request'[i].fate = request[i].fate
  BY DEF Follows
<1>4. Done(Capture) # {} => Done(Capture)' # {} BY <1>2, Pairs DEF Done
<1>5. Standing'
  <2>1. SUFFICES ASSUME NEW d \in Clerk, d # c PROVE AtPlace(clerk[d])' /\ ToldOf(clerk[d])'
    BY DEF Standing
  <2>2. clerk'[d] = clerk[d] BY <2>1 DEF Follows
  <2>3. AtPlace(clerk[d]) /\ ToldOf(clerk[d]) BY DEF RenewalInv, Standing
  <2>4. AtPlace(clerk[d])' BY <2>2, <2>3 DEF AtPlace
  <2>5. \A p : p = "done" => p \in Decided BY DEF Decided
  <2>6. ToldOf(clerk[d])'
    <3>1. clerk[d].pc = "settle" /\ clerk[d].seen \in Decided => request'[clerk[d].on].fate = clerk[d].seen
      BY <1>3, <2>3 DEF AtPlace, ToldOf
    <3>2. clerk[d].pc = "apply" \/ (clerk[d].pc = "ingest" /\ clerk[d].seen = "done") => request'[clerk[d].on].fate = "done"
      BY <1>2, <2>3, Pairs DEF AtPlace, ToldOf
    <3>3. clerk[d].pc = "close" => request'[clerk[d].on].fate \in Decided
      BY <1>3, <2>3, Pairs DEF AtPlace, ToldOf
    <3>4. clerk[d].pc = "conclude" /\ clerk[d].on \in Renewal =>
            /\ clerk[d].seen = "done" => request'[clerk[d].on].fate = "done"
            /\ clerk[d].seen = "negative" => request'[clerk[d].on].fate \in Decided
            /\ clerk[d].seen # "authorized"
      BY <1>2, <1>3, <2>3, Pairs DEF ToldOf
    <3>5. clerk[d].pc = "conclude" /\ clerk[d].on \in Capture /\ clerk[d].seen = "done" => Done(Capture)' # {}
      BY <1>4, <2>3 DEF ToldOf
    <3>6. QED BY <2>2, <3>1, <3>2, <3>3, <3>4, <3>5 DEF ToldOf
  <2>7. QED BY <2>4, <2>6
<1>6. SubjectKnown'
  <2>1. chore["payment_reconcile"] # "none" => subject.of \in Identity BY DEF RenewalInv, SubjectKnown
  <2>2. \A d \in Clerk : clerk[d].chore = "payment_reconcile" => subject.of \in Identity
    BY DEF RenewalInv, SubjectKnown
  <2>3. subject.of \in Identity => subject'.of \in Identity BY DEF Follows
  <2>4. chore'["payment_reconcile"] # "none" => subject'.of \in Identity BY <2>1, <2>3 DEF Follows
  <2>5. \A d \in Clerk : clerk'[d].chore = "payment_reconcile" => subject'.of \in Identity
    BY <2>1, <2>2, <2>3 DEF Follows
  <2>6. QED BY <2>4, <2>5 DEF SubjectKnown
<1>7. RenewalsAreTrue'
  <2>1. charged' = "ChargedSuccess" => Done(Capture)' # {}
    BY <1>4 DEF Follows, RenewalInv, RenewalsAreTrue, Done
  <2>2. binding'.auth > 0 => <<"reauthorize", binding'.auth>> \in Done(Renewal)'
    BY <1>2, Pairs DEF Follows, RenewalInv, RenewalsAreTrue, Done
  <2>3. ASSUME NEW i \in Renewal, Terminal(i)'
        PROVE  request'[i].fate \in (IF ledger'[i].result = "success" THEN {"done"} ELSE {"declined", "done"})
    <3>1. ledger'[i].result \in {"success", "permanent_fail"} BY <2>3 DEF Terminal
    <3>2. CASE ledger'[i].result = ledger[i].result
      <4>1. request[i].fate \in (IF ledger[i].result = "success" THEN {"done"} ELSE {"declined", "done"})
        BY <3>1, <3>2 DEF RenewalInv, RenewalsAreTrue, Terminal
      <4>2. QED BY <1>3, <3>2, <4>1, Pairs DEF Decided
    <3>3. CASE ledger'[i].result # ledger[i].result BY <3>1, <3>3 DEF Follows, Decided
    <3>4. QED BY <3>2, <3>3
  <2>4. QED BY <2>1, <2>2, <2>3 DEF RenewalsAreTrue
<1>8. QED BY <1>5, <1>6, <1>7 DEF RenewalInv

-----------------------------------------------------------------------------
(* Renewals: how a run goes on.                                              *)

Ending == {"ack", "throw", "give_up"}

\* Run c is at p, of the same job and as live as before; it does not forget the
\* authorization it may capture from, nor that it holds the window.  The others
\* stay.
Goes(c, p) ==
  /\ clerk' \in [Clerk -> ClerkRecord] /\ clerk'[c].pc = p /\ clerk'[c].chore = clerk[c].chore
  /\ clerk'[c].live = clerk[c].live /\ (clerk[c].hold => clerk'[c].hold \/ p \in Ending)
  /\ p \in Bound => clerk'[c].auth \in Authorization \/ clerk'[c].auth = clerk[c].auth
  /\ \A d \in Clerk \ {c} : clerk'[d] = clerk[d]

\* A record of one run is replaced.
LEMMA ClerkReplaced ==
  ASSUME RenewalTypeOK, NEW c \in Clerk, NEW q \in ClerkRecord, clerk' = [clerk EXCEPT ![c] = q]
  PROVE  clerk' \in [Clerk -> ClerkRecord] /\ clerk'[c] = q /\ \A d \in Clerk \ {c} : clerk'[d] = clerk[d]
<1>1. clerk \in [Clerk -> ClerkRecord] BY RenewalForms
<1>2. QED BY <1>1

\* A run that turns goes where it turns; it keeps its request unless it ends.
LEMMA TurnsGoes ==
  ASSUME RenewalTypeOK, NEW c \in Clerk, NEW p \in RenewalPoint, Turns(c, p)
  PROVE  /\ Goes(c, p) /\ clerk'[c].seen = "none"
         /\ p \notin Ending => clerk'[c].on = clerk[c].on /\ clerk'[c].auth = clerk[c].auth
<1>1. clerk[c] \in ClerkRecord BY RenewalForms
<1>2. CASE p \in Ending
  <2> DEFINE q == Closed(c, p)
  <2>1. q \in ClerkRecord /\ q.pc = p /\ q.chore = clerk[c].chore /\ q.live = clerk[c].live /\ q.seen = "none"
    BY <1>1 DEF Closed, Idle, ClerkRecord, Sight
  <2>0. p \notin Bound BY <1>2 DEF Ending, Bound
  <2>2. clerk' = [clerk EXCEPT ![c] = q] BY <1>2 DEF Turns, Ending
  <2> HIDE DEF q
  <2>3. QED BY <1>2, <2>0, <2>1, <2>2, ClerkReplaced DEF Goes
<1>3. CASE p \notin Ending
  <2> DEFINE q == [clerk[c] EXCEPT !.pc = p, !.seen = "none"]
  <2>1. /\ q \in ClerkRecord /\ q.pc = p /\ q.chore = clerk[c].chore /\ q.live = clerk[c].live /\ q.seen = "none" /\ q.on = clerk[c].on
        /\ q.auth = clerk[c].auth /\ q.hold = clerk[c].hold
    BY <1>1 DEF ClerkRecord, Sight
  <2>2. clerk' = [clerk EXCEPT ![c] = q] BY <1>3 DEF Turns, Ending
  <2> HIDE DEF q
  <2>3. QED BY <2>1, <2>2, ClerkReplaced DEF Goes
<1>4. QED BY <1>2, <1>3

\* It goes on with request i.
LEMMA TurnsToGoes ==
  ASSUME RenewalTypeOK, NEW c \in Clerk, NEW p \in RenewalPoint, NEW i \in Identity, TurnsTo(c, p, i)
  PROVE  Goes(c, p) /\ clerk'[c].on = i
<1> DEFINE q == [clerk[c] EXCEPT !.pc = p, !.on = i]
<1>1. clerk[c] \in ClerkRecord BY RenewalForms
<1>2. /\ q \in ClerkRecord /\ q.pc = p /\ q.chore = clerk[c].chore /\ q.live = clerk[c].live /\ q.on = i
      /\ q.auth = clerk[c].auth /\ q.hold = clerk[c].hold
  BY <1>1 DEF ClerkRecord
<1>3. clerk' = [clerk EXCEPT ![c] = q] BY <1>1 DEF TurnsTo
<1> HIDE DEF q
<1>4. QED BY <1>2, <1>3, ClerkReplaced DEF Goes

\* It goes on with what it was told of its request.
LEMMA TurnsKnowingGoes ==
  ASSUME RenewalTypeOK, NEW c \in Clerk, NEW p \in RenewalPoint, NEW v \in Sight, TurnsKnowing(c, p, v)
  PROVE  Goes(c, p) /\ clerk'[c].on = clerk[c].on /\ clerk'[c].seen = v
<1> DEFINE q == [clerk[c] EXCEPT !.pc = p, !.seen = v]
<1>1. clerk[c] \in ClerkRecord BY RenewalForms
<1>2. /\ q \in ClerkRecord /\ q.pc = p /\ q.chore = clerk[c].chore /\ q.live = clerk[c].live /\ q.on = clerk[c].on /\ q.seen = v
      /\ q.auth = clerk[c].auth /\ q.hold = clerk[c].hold
  BY <1>1 DEF ClerkRecord
<1>3. clerk' = [clerk EXCEPT ![c] = q] BY <1>1 DEF TurnsKnowing
<1> HIDE DEF q
<1>4. QED BY <1>2, <1>3, ClerkReplaced DEF Goes

\* It goes on and holds the window.
LEMMA WaitsGoes ==
  ASSUME RenewalTypeOK, NEW c \in Clerk, NEW p \in RenewalPoint, NEW i \in Identity \cup {Nothing}, Waits(c, p, i)
  PROVE  Goes(c, p) /\ clerk'[c].on = i /\ clerk'[c].hold
<1> DEFINE q == [clerk[c] EXCEPT !.pc = p, !.on = i, !.seen = "none", !.hold = TRUE]
<1>1. clerk[c] \in ClerkRecord BY RenewalForms
<1>2. /\ q \in ClerkRecord /\ q.pc = p /\ q.chore = clerk[c].chore /\ q.live = clerk[c].live /\ q.on = i
      /\ q.auth = clerk[c].auth /\ q.hold
  BY <1>1 DEF ClerkRecord, Sight
<1>3. clerk' = [clerk EXCEPT ![c] = q] BY <1>1 DEF Waits
<1> HIDE DEF q
<1>4. QED BY <1>2, <1>3, ClerkReplaced DEF Goes

\* Where a run has nothing it was told, and its request, if it needs one.
Plain(c, p) ==
  /\ \/ p \in {"free", "gate", "renew", "capture", "end", "wake", "ack", "throw", "give_up"}
     \/ p \in {"arm", "send", "await", "schedule", "begin", "flight", "status"} /\ clerk'[c].on \in Identity
     \/ p = "prove" /\ clerk'[c].on \in Renewal
     \/ p = "resolve" /\ clerk'[c].on \in Capture
  /\ p \in Bound => clerk'[c].auth \in Authorization

\* Then it stands rightly.
LEMMA PlainStands ==
  ASSUME NEW c, NEW p, clerk'[c].pc = p, Plain(c, p)
  PROVE  AtPlace(clerk[c])' /\ ToldOf(clerk[c])'
BY Pairs DEF Plain, AtPlace, ToldOf

\* A run that has read the binding goes on with an authorization.
LEMMA KeepsBound ==
  ASSUME NEW c \in Clerk, NEW p, AtPlace(clerk[c]), clerk[c].pc \in Bound, Goes(c, p)
  PROVE  p \in Bound => clerk'[c].auth \in Authorization
BY DEF AtPlace, Goes

\* A step of a run that leaves the books and the provider as they are, but for
\* rows it does not close.
LEMMA PlainKeeps ==
  ASSUME RenewalInv, NEW c \in Clerk, NEW p, Goes(c, p), AtPlace(clerk[c])' /\ ToldOf(clerk[c])',
         UNCHANGED <<provider, binding, charged, subject, stalls>>,
         windowOpen' \in BOOLEAN, reported' \in BOOLEAN, chore' \in ChoreTable,
         chore'["payment_reconcile"] = "none" \/ chore["payment_reconcile"] # "none" \/ subject.of \in Identity,
         ledger' \in [Identity -> AttemptRecord],
         \A i \in Renewal : ledger'[i].result \in {ledger[i].result, "none", "unknown", "temporary_fail"}
  PROVE  RenewalInv'
<1>1. RenewalTypeOK BY DEF RenewalInv
<1>2. RenewalTypeOK' BY <1>1, RenewalForms, RenewalFormsNext DEF Goes, provider
<1>3. Follows(c) BY DEF Follows, Goes, provider
<1>4. QED BY <1>2, <1>3, RenewalFollows

\* ... and of one that leaves the rows too.
LEMMA IdleKeeps ==
  ASSUME RenewalInv, NEW c \in Clerk, NEW p, Goes(c, p), AtPlace(clerk[c])' /\ ToldOf(clerk[c])',
         UNCHANGED <<provider, binding, ledger, charged, queue, stalls>>,
         windowOpen' \in BOOLEAN, reported' \in BOOLEAN
  PROVE  RenewalInv'
<1>1. RenewalTypeOK BY DEF RenewalInv
<1>2. /\ chore' = chore /\ chore' \in ChoreTable /\ ledger' \in [Identity -> AttemptRecord]
      /\ chore'["payment_reconcile"] = "none" \/ chore["payment_reconcile"] # "none"
  BY <1>1, RenewalForms DEF queue
<1>3. UNCHANGED <<provider, binding, charged, subject, stalls>> /\ \A i \in Renewal : ledger'[i].result = ledger[i].result
  BY DEF queue
<1>4. QED BY <1>2, <1>3, PlainKeeps

-----------------------------------------------------------------------------
(* Renewals: how a row is written.                                           *)

\* One row is replaced.
LEMMA RowReplaced ==
  ASSUME RenewalTypeOK, NEW i \in Identity, NEW w \in AttemptRecord, ledger' = [ledger EXCEPT ![i] = w]
  PROVE  ledger' \in [Identity -> AttemptRecord] /\ ledger'[i] = w /\ \A k \in Identity \ {i} : ledger'[k] = ledger[k]
<1>1. ledger \in [Identity -> AttemptRecord] BY RenewalForms
<1>2. QED BY <1>1

Result == {"none", "unknown", "success", "permanent_fail", "temporary_fail"}
\* A row is answered.
LEMMA RespondedRow ==
  ASSUME RenewalTypeOK, NEW i \in Identity, NEW result \in Result, ledger' = Responded(i, result)
  PROVE  /\ ledger' \in [Identity -> AttemptRecord] /\ ledger'[i].result = result
         /\ \A k \in Identity \ {i} : ledger'[k] = ledger[k]
<1> DEFINE w == [ledger[i] EXCEPT !.result = result, !.dispatch = "responded"]
<1>1. ledger \in [Identity -> AttemptRecord] BY RenewalForms
<1>2. w \in AttemptRecord /\ w.result = result BY <1>1 DEF AttemptRecord, Result
<1>3. ledger' = [ledger EXCEPT ![i] = w] BY <1>1 DEF Responded
<1> HIDE DEF w
<1>4. QED BY <1>2, <1>3, RowReplaced

\* A row is a success, with its authorization.
LEMMA SucceededRow ==
  ASSUME RenewalTypeOK, NEW i \in Identity, NEW a \in Authorization, ledger' = Succeeded(i, a)
  PROVE  /\ ledger' \in [Identity -> AttemptRecord] /\ ledger'[i].result = "success"
         /\ \A k \in Identity \ {i} : ledger'[k] = ledger[k]
<1> DEFINE w == [ledger[i] EXCEPT !.result = "success", !.dispatch = "responded", !.ref = a]
<1>1. ledger \in [Identity -> AttemptRecord] BY RenewalForms
<1>2. w \in AttemptRecord /\ w.result = "success" BY <1>1 DEF AttemptRecord
<1>3. ledger' = [ledger EXCEPT ![i] = w] BY <1>1 DEF Succeeded
<1> HIDE DEF w
<1>4. QED BY <1>2, <1>3, RowReplaced

\* Retiring decides no row.
LEMMA RetiredRows ==
  ASSUME RenewalTypeOK, NEW type, ledger' = Retired(type)
  PROVE  /\ ledger' \in [Identity -> AttemptRecord]
         /\ \A k \in Identity : ledger'[k].result \in {ledger[k].result, "temporary_fail"}
<1>1. ledger \in [Identity -> AttemptRecord] BY RenewalForms
<1>2. ASSUME NEW k \in Identity
      PROVE  /\ ledger'[k] \in AttemptRecord
             /\ ledger'[k].result \in {ledger[k].result, "temporary_fail"}
  <2> DEFINE w == [ledger[k] EXCEPT !.result = "temporary_fail"]
  <2>1. w \in AttemptRecord /\ w.result = "temporary_fail" BY <1>1 DEF AttemptRecord
  <2>2. ledger'[k] = w \/ ledger'[k] = ledger[k] BY DEF Retired
  <2> HIDE DEF w
  <2>3. QED BY <1>1, <2>1, <2>2
<1>3. ledger' = [k \in Identity |-> ledger'[k]] BY DEF Retired
<1>4. QED BY <1>2, <1>3

\* Nor does disarming.
LEMMA DisarmedRow ==
  ASSUME RenewalTypeOK, NEW c \in Clerk, clerk[c].on \in Identity, ledger' = Disarmed(c)
  PROVE  /\ ledger' \in [Identity -> AttemptRecord]
         /\ \A k \in Identity : ledger'[k].result = ledger[k].result
<1> DEFINE i == Its(c)
           w == [ledger[i] EXCEPT !.dispatch = "recorded", !.owner = "null"]
<1>1. ledger \in [Identity -> AttemptRecord] /\ i \in Identity BY RenewalForms DEF Its
<1>2. w \in AttemptRecord /\ w.result = ledger[i].result BY <1>1 DEF AttemptRecord
<1>3. ledger' = [ledger EXCEPT ![i] = w] \/ ledger' = ledger BY <1>1 DEF Disarmed
<1> HIDE DEF w
<1>4. QED BY <1>1, <1>2, <1>3, RowReplaced

\* A row that was decided stays as it was decided.
LEMMA SettledRow ==
  ASSUME RenewalTypeOK, NEW c \in Clerk, clerk[c].on \in Identity, NEW result \in Result, Settled(c, result)
  PROVE  /\ ledger' \in [Identity -> AttemptRecord]
         /\ \A k \in Identity : \/ ledger'[k].result = ledger[k].result
                                \/ k = clerk[c].on /\ ledger'[k].result = result
<1>1. ledger \in [Identity -> AttemptRecord] /\ Its(c) \in Identity BY RenewalForms DEF Its
<1>2. ledger[Its(c)].result \in Result BY <1>1 DEF AttemptRecord, Result
<1>3. \/ ledger' = ledger
      \/ ledger' = Responded(Its(c), ledger[Its(c)].result)
      \/ ledger' = Responded(Its(c), result)
  BY DEF Settled
<1>4. QED BY <1>1, <1>2, <1>3, RespondedRow DEF Its

-----------------------------------------------------------------------------
(* Renewals: jobs and runs.                                                  *)

\* The state of one job is replaced.
LEMMA ChoreWritten ==
  ASSUME RenewalTypeOK, NEW j, NEW s \in {"none", "pending", "processing", "sent", "dlq"},
         chore' = [chore EXCEPT ![j] = s]
  PROVE  chore' \in ChoreTable /\ \A k \in Chore : chore'[k] = chore[k] \/ (k = j /\ chore'[k] = s)
<1>1. chore \in ChoreTable BY RenewalForms
<1>2. QED BY <1>1 DEF ChoreTable

\* A run takes a job.
LEMMA TakeChoreKeeps ==
  ASSUME RenewalInv, NEW c \in Clerk, NEW j \in Chore, TakeChore(c, j)
  PROVE  RenewalInv'
<1> DEFINE q == [Idle EXCEPT !.chore = j, !.live = TRUE, !.retry = (j = "charge_deal"),
                    !.pc = IF j = "payment_reconcile" THEN "begin" ELSE IF charged = "ChargeAttempt" THEN "gate" ELSE "end",
                    !.on = IF j = "payment_reconcile" THEN subject.of ELSE Nothing]
<1>1. RenewalTypeOK BY DEF RenewalInv
<1>2. subject.of \in Identity \cup {Nothing} BY <1>1, RenewalForms DEF SubjectRecord
<1>3. /\ q \in ClerkRecord /\ q.chore = j
      /\ q.pc \in {"gate", "end"} \/ (j = "payment_reconcile" /\ q.pc = "begin" /\ q.on = subject.of)
  BY <1>2 DEF Idle, ClerkRecord, RenewalPoint, Sight, Chore
<1>4. clerk' = [clerk EXCEPT ![c] = q] /\ chore' = [chore EXCEPT ![j] = "processing"] /\ chore[j] = "pending"
      /\ UNCHANGED <<provider, records, subject, reported, stalls>>
  BY DEF TakeChore
<1> HIDE DEF q
<1>5. clerk' \in [Clerk -> ClerkRecord] /\ clerk'[c] = q /\ \A d \in Clerk \ {c} : clerk'[d] = clerk[d]
  BY <1>1, <1>3, <1>4, ClerkReplaced
<1>6. chore' \in ChoreTable /\ \A k \in Chore : chore'[k] = chore[k] \/ (k = j /\ chore'[k] = "processing")
  BY <1>1, <1>4, ChoreWritten
<1>7. RenewalTypeOK' BY <1>1, <1>4, <1>5, <1>6, RenewalForms, RenewalFormsNext DEF provider, records
<1>8. Follows(c) BY <1>3, <1>4, <1>5, <1>6 DEF Follows, provider, records, Chore
<1>9. j = "payment_reconcile" => subject.of \in Identity BY <1>4 DEF RenewalInv, SubjectKnown
<1>10. AtPlace(clerk[c])' /\ ToldOf(clerk[c])'
  <2>1. Plain(c, q.pc) BY <1>3, <1>5, <1>9 DEF Plain, Bound
  <2>2. QED BY <1>5, <2>1, PlainStands
<1>11. QED BY <1>7, <1>8, <1>10, RenewalFollows

\* A run leaves its job.
LEMMA LeavesKeeps ==
  ASSUME RenewalInv, NEW c \in Clerk, NEW s \in {"none", "pending", "sent", "dlq"}, LeavesWith(c, s),
         stalls' \in 0..MaxTurns
  PROVE  RenewalInv'
<1>1. RenewalTypeOK BY DEF RenewalInv
<1>2. UNCHANGED <<provider, binding, charged, windowOpen, subject, reported>> /\ clerk' = [clerk EXCEPT ![c] = Idle]
  BY DEF LeavesWith
<1>3. Idle \in ClerkRecord /\ Idle.pc = "free" /\ Idle.chore = "none"
  BY DEF Idle, ClerkRecord, RenewalPoint, Sight
<1>4. clerk' \in [Clerk -> ClerkRecord] /\ clerk'[c] = Idle /\ \A d \in Clerk \ {c} : clerk'[d] = clerk[d]
  BY <1>1, <1>2, <1>3, ClerkReplaced
<1>5. chore' \in ChoreTable /\ \A k \in Chore : chore'[k] = chore[k] \/ k = clerk[c].chore
  <2>1. CASE chore' = chore BY <1>1, <2>1, RenewalForms
  <2>2. CASE chore' = [chore EXCEPT ![clerk[c].chore] = s]
    <3> DEFINE j == clerk[c].chore
    <3>1. chore' = [chore EXCEPT ![j] = s] BY <2>2
    <3> HIDE DEF j
    <3>2. chore' \in ChoreTable /\ \A k \in Chore : chore'[k] = chore[k] \/ (k = j /\ chore'[k] = s)
      <4>1. s \in {"none", "pending", "processing", "sent", "dlq"} OBVIOUS
      <4>2. chore \in ChoreTable BY <1>1, RenewalForms
      <4>3. QED BY <3>1, <4>1, <4>2 DEF ChoreTable
    <3>3. QED BY <3>2 DEF j
  <2>3. QED BY <2>1, <2>2 DEF LeavesWith
<1>6. ledger' \in [Identity -> AttemptRecord] /\ \A i \in Identity : ledger'[i].result = ledger[i].result
  <2>1. ledger \in [Identity -> AttemptRecord] BY <1>1, RenewalForms
  <2>2. ASSUME NEW i \in Identity PROVE ledger'[i] \in AttemptRecord /\ ledger'[i].result = ledger[i].result
    <3> DEFINE w == [ledger[i] EXCEPT !.owner = "gone"]
    <3>1. w \in AttemptRecord /\ w.result = ledger[i].result BY <2>1 DEF AttemptRecord
    <3>2. ledger'[i] = w \/ ledger'[i] = ledger[i] BY DEF LeavesWith
    <3> HIDE DEF w
    <3>3. QED BY <2>1, <3>1, <3>2
  <2>3. ledger' = [i \in Identity |-> ledger'[i]] BY DEF LeavesWith
  <2>4. QED BY <2>2, <2>3
<1>7. RenewalTypeOK' BY <1>1, <1>2, <1>4, <1>5, <1>6, RenewalForms, RenewalFormsNext DEF provider
<1>8. clerk[c].chore = "payment_reconcile" => subject.of \in Identity BY DEF RenewalInv, SubjectKnown
<1>9. Follows(c) BY <1>2, <1>3, <1>4, <1>5, <1>6, <1>8, Pairs DEF Follows, provider, Chore
<1>10. AtPlace(clerk[c])' /\ ToldOf(clerk[c])' BY <1>3, <1>4, PlainStands DEF Plain, Bound
<1>11. QED BY <1>7, <1>9, <1>10, RenewalFollows

\* It ends, fails, dies or loses its lease.
LEMMA EndingKeeps ==
  ASSUME RenewalInv, NEW c \in Clerk,
         ClerkAcks(c) \/ ClerkRetries(c) \/ ClerkGivesUp(c) \/ OutOfAttempts(c) \/ ClerkDies(c) \/ ClerkThrows(c) \/ ClerkStalls(c)
  PROVE  RenewalInv'
<1>1. RenewalTypeOK /\ stalls \in 0..MaxTurns BY RenewalForms DEF RenewalInv
<1>2. CASE ClerkAcks(c) BY <1>1, <1>2, LeavesKeeps DEF ClerkAcks
<1>3. CASE ClerkRetries(c) BY <1>1, <1>3, LeavesKeeps DEF ClerkRetries
<1>4. CASE ClerkGivesUp(c) BY <1>1, <1>4, LeavesKeeps DEF ClerkGivesUp
<1>5. CASE OutOfAttempts(c) BY <1>1, <1>5, LeavesKeeps, SpentCounted DEF OutOfAttempts
<1>6. CASE ClerkDies(c) BY <1>1, <1>6, LeavesKeeps DEF ClerkDies
<1>7. CASE ClerkThrows(c)
  <2>1. Goes(c, "throw") BY <1>1, <1>7, TurnsGoes DEF ClerkThrows, RenewalPoint
  <2>2. AtPlace(clerk[c])' /\ ToldOf(clerk[c])' BY <2>1, PlainStands DEF Plain, Bound, Goes
  <2>3. UNCHANGED <<provider, binding, ledger, charged, queue, stalls>> /\ windowOpen' \in BOOLEAN /\ reported' \in BOOLEAN
    BY <1>1, <1>7, RenewalForms DEF ClerkThrows, records
  <2>4. QED BY <2>1, <2>2, <2>3, IdleKeeps
<1>8. CASE ClerkStalls(c)
  <2> DEFINE q == [clerk[c] EXCEPT !.live = FALSE]
  <2>1. clerk[c] \in ClerkRecord /\ chore \in ChoreTable BY <1>1, RenewalForms
  <2>2. /\ q \in ClerkRecord /\ q.pc = clerk[c].pc /\ q.on = clerk[c].on /\ q.seen = clerk[c].seen
        /\ q.chore = clerk[c].chore /\ q.auth = clerk[c].auth
    BY <2>1 DEF ClerkRecord
  <2>3. /\ clerk' = [clerk EXCEPT ![c] = q] /\ chore' = [chore EXCEPT ![clerk[c].chore] = "pending"]
        /\ UNCHANGED <<provider, records, subject, reported>> /\ stalls' = stalls + 1 /\ Spent < MaxTurns
    BY <1>8, <2>1 DEF ClerkStalls
  <2> HIDE DEF q
  <2>4. clerk' \in [Clerk -> ClerkRecord] /\ clerk'[c] = q /\ \A d \in Clerk \ {c} : clerk'[d] = clerk[d]
    BY <1>1, <2>2, <2>3, ClerkReplaced
  <2>5. chore' \in ChoreTable /\ \A k \in Chore : chore'[k] = chore[k] \/ k = clerk[c].chore
    <3> DEFINE j == clerk[c].chore
    <3>1. chore' = [chore EXCEPT ![j] = "pending"] BY <2>3
    <3> HIDE DEF j
    <3>2. chore' \in ChoreTable /\ \A k \in Chore : chore'[k] = chore[k] \/ (k = j /\ chore'[k] = "pending")
      BY <1>1, <3>1, ChoreWritten
    <3>3. QED BY <3>2 DEF j
  <2>6. stalls' \in 0..MaxTurns BY <1>1, <2>3, SpentCounted
  <2>7. RenewalTypeOK' BY <1>1, <2>3, <2>4, <2>5, <2>6, RenewalForms, RenewalFormsNext DEF provider, records
  <2>8. clerk[c].chore = "payment_reconcile" => subject.of \in Identity BY DEF RenewalInv, SubjectKnown
  <2>9. Follows(c) BY <2>2, <2>3, <2>4, <2>5, <2>8 DEF Follows, provider, records, Chore
  <2>10. AtPlace(clerk[c]) /\ ToldOf(clerk[c]) BY DEF RenewalInv, Standing
  <2>11. AtPlace(clerk[c])' BY <2>2, <2>4, <2>10 DEF AtPlace
  <2>12. ToldOf(clerk[c])' BY <2>2, <2>3, <2>4, <2>10 DEF ToldOf, Done, provider
  <2>13. QED BY <2>7, <2>9, <2>11, <2>12, RenewalFollows
<1>9. QED BY <1>2, <1>3, <1>4, <1>5, <1>6, <1>7, <1>8

-----------------------------------------------------------------------------
(* Renewals: the gate.                                                       *)

\* The run goes on to p with the authorization a.
LEMMA GoesWithAuthorization ==
  ASSUME RenewalTypeOK, NEW c \in Clerk, NEW p \in RenewalPoint, NEW a \in Authorization \cup {None},
         p \in Bound => a \in Authorization,
         \/ clerk' = [clerk EXCEPT ![c].auth = a, ![c].pc = p]
         \/ clerk' = [clerk EXCEPT ![c].pc = p, ![c].auth = a]
         \/ clerk' = [clerk EXCEPT ![c].pc = p, ![c].auth = a, ![c].seen = "none"]
  PROVE  Goes(c, p) /\ clerk'[c].on = clerk[c].on /\ clerk'[c].auth = a
<1> DEFINE q == [clerk[c] EXCEPT !.pc = p, !.auth = a]
           w == [clerk[c] EXCEPT !.pc = p, !.auth = a, !.seen = "none"]
<1>1. clerk[c] \in ClerkRecord BY RenewalForms
<1>2. /\ q \in ClerkRecord /\ q.pc = p /\ q.chore = clerk[c].chore /\ q.live = clerk[c].live /\ q.on = clerk[c].on
      /\ w \in ClerkRecord /\ w.pc = p /\ w.chore = clerk[c].chore /\ w.live = clerk[c].live /\ w.on = clerk[c].on
      /\ q.auth = a /\ w.auth = a /\ q.hold = clerk[c].hold /\ w.hold = clerk[c].hold
  BY <1>1 DEF ClerkRecord, Sight
<1>3. clerk' = [clerk EXCEPT ![c] = q] \/ clerk' = [clerk EXCEPT ![c] = w] BY <1>1
<1> HIDE DEF q, w
<1>4. QED BY <1>2, <1>3, ClerkReplaced DEF Goes

\* A row is there or begun, but not decided.
LEMMA BegunRow ==
  ASSUME RenewalTypeOK, NEW i \in Identity, ledger' = [ledger EXCEPT ![i].result = "unknown"]
  PROVE  /\ ledger' \in [Identity -> AttemptRecord]
         /\ \A k \in Identity : ledger'[k].result \in {ledger[k].result, "unknown"}
<1> DEFINE w == [ledger[i] EXCEPT !.result = "unknown"]
<1>1. ledger \in [Identity -> AttemptRecord] BY RenewalForms
<1>2. w \in AttemptRecord /\ w.result = "unknown" BY <1>1 DEF AttemptRecord
<1>3. ledger' = [ledger EXCEPT ![i] = w] BY <1>1
<1> HIDE DEF w
<1>4. QED BY <1>2, <1>3, RowReplaced

\* It passes the gate, begins or resumes a renewal, or looks up an unresolved one.
LEMMA RenewKeeps ==
  ASSUME RenewalInv, NEW c \in Clerk,
         Gate(c) \/ RenewalNotAdmitted(c) \/ RenewalBlocked(c) \/ RenewalAgain(c) \/ RenewalFresh(c) \/ ProveRenewal(c)
  PROVE  RenewalInv'
<1>1. RenewalTypeOK /\ AtPlace(clerk[c]) /\ ToldOf(clerk[c]) BY DEF RenewalInv, Standing
<1>2. /\ binding \in BindingRecord /\ ledger \in [Identity -> AttemptRecord] /\ windowOpen \in BOOLEAN
      /\ reported \in BOOLEAN /\ chore \in ChoreTable
  BY <1>1, RenewalForms
<1>0. ASSUME NEW p, Goes(c, p), clerk[c].pc \in {"renew", "prove"} PROVE p \in Bound => clerk'[c].auth \in Authorization
  BY <1>0, <1>1, KeepsBound DEF Bound
<1>3. CASE Gate(c)
  <2>1. PICK p \in {"renew", "capture"} : clerk' = [clerk EXCEPT ![c].auth = binding.auth, ![c].pc = p]
    BY <1>3 DEF Gate
  <2> DEFINE a == binding.auth
  <2>2. a \in Authorization /\ a \in Authorization \cup {None} BY <1>2 DEF BindingRecord
  <2>6. p \in RenewalPoint /\ clerk' = [clerk EXCEPT ![c].auth = a, ![c].pc = p] BY <2>1 DEF RenewalPoint
  <2> HIDE DEF a
  <2>3. Goes(c, p) /\ clerk'[c].auth = a BY <1>1, <2>2, <2>6, GoesWithAuthorization
  <2>4. AtPlace(clerk[c])' /\ ToldOf(clerk[c])' BY <2>2, <2>3, PlainStands DEF Plain, Bound, Goes
  <2>5. QED BY <1>2, <1>3, <2>3, <2>4, IdleKeeps DEF Gate, records
<1>4. CASE RenewalNotAdmitted(c)
  <2>1. Goes(c, "end") BY <1>1, <1>4, TurnsGoes DEF RenewalNotAdmitted, RenewalPoint
  <2>2. AtPlace(clerk[c])' /\ ToldOf(clerk[c])' BY <2>1, PlainStands DEF Plain, Bound, Goes
  <2>3. /\ ledger' \in [Identity -> AttemptRecord]
        /\ \A i \in Identity : ledger'[i].result \in {ledger[i].result, "temporary_fail"}
    BY <1>1, <1>4, RetiredRows DEF RenewalNotAdmitted
  <2>4. QED BY <1>2, <1>4, <2>1, <2>2, <2>3, PlainKeeps, Pairs DEF RenewalNotAdmitted, queue
<1>5. CASE RenewalBlocked(c)
  <2>1. PICK i \in Unknown(Capture) : Waits(c, "schedule", i) BY <1>5 DEF RenewalBlocked
  <2>2. i \in Identity BY Pairs DEF Unknown
  <2>3. Goes(c, "schedule") /\ clerk'[c].on = i BY <1>1, <2>1, <2>2, WaitsGoes DEF RenewalPoint
  <2>4. AtPlace(clerk[c])' /\ ToldOf(clerk[c])' BY <2>2, <2>3, PlainStands DEF Plain, Bound, Goes
  <2>5. QED BY <1>2, <1>5, <2>3, <2>4, IdleKeeps DEF RenewalBlocked, records
<1>6. CASE RenewalAgain(c)
  <2>0. clerk[c].pc \in {"renew", "prove"} BY <1>6 DEF RenewalAgain, Is
  <2>1. PICK i \in Unknown(Renewal) :
          IF InFlight(i) THEN Waits(c, "end", Nothing)
          ELSE TurnsTo(c, IF ledger[i].dispatch = "recorded" THEN "arm" ELSE "prove", i)
    BY <1>6 DEF RenewalAgain
  <2>2. i \in Renewal /\ i \in Identity BY Pairs DEF Unknown
  <2>3. UNCHANGED <<provider, binding, ledger, charged, queue, stalls>> /\ windowOpen' \in BOOLEAN /\ reported' \in BOOLEAN
    BY <1>2, <1>6 DEF RenewalAgain, records
  <2>4. CASE Waits(c, "end", Nothing)
    <3>1. Goes(c, "end") BY <1>1, <2>4, WaitsGoes DEF RenewalPoint
    <3>2. AtPlace(clerk[c])' /\ ToldOf(clerk[c])' BY <1>0, <2>0, <3>1, PlainStands DEF Plain, Bound, Goes
    <3>3. QED BY <2>3, <3>1, <3>2, IdleKeeps
  <2>5. ASSUME NEW p \in {"arm", "prove"}, TurnsTo(c, p, i) PROVE RenewalInv'
    <3>1. Goes(c, p) /\ clerk'[c].on = i BY <1>1, <2>2, <2>5, TurnsToGoes DEF RenewalPoint
    <3>2. AtPlace(clerk[c])' /\ ToldOf(clerk[c])' BY <1>0, <2>0, <2>2, <3>1, PlainStands DEF Plain, Bound, Goes
    <3>3. QED BY <2>3, <3>1, <3>2, IdleKeeps
  <2>6. QED BY <2>1, <2>4, <2>5
<1>7. CASE RenewalFresh(c)
  <2>0. clerk[c].pc \in {"renew", "prove"} BY <1>7 DEF RenewalFresh, Is
  <2> DEFINE i == NextOf(Renewal)
  <2>1. i \in Renewal /\ i \in Identity BY <1>7, Column, Pairs DEF RenewalFresh
  <2>2. ledger' = [ledger EXCEPT ![i].result = "unknown"] /\ TurnsTo(c, "arm", i) BY <1>7 DEF RenewalFresh
  <2> HIDE DEF i
  <2>3. Goes(c, "arm") /\ clerk'[c].on = i BY <1>1, <2>1, <2>2, TurnsToGoes DEF RenewalPoint
  <2>4. AtPlace(clerk[c])' /\ ToldOf(clerk[c])' BY <1>0, <2>0, <2>1, <2>3, PlainStands DEF Plain, Bound, Goes
  <2>5. /\ ledger' \in [Identity -> AttemptRecord]
        /\ \A k \in Identity : ledger'[k].result \in {ledger[k].result, "unknown"}
    BY <1>1, <2>1, <2>2, BegunRow
  <2>6. QED BY <1>2, <1>7, <2>3, <2>4, <2>5, PlainKeeps, Pairs DEF RenewalFresh, queue
<1>8. CASE ProveRenewal(c)
  <2>0. clerk[c].pc \in {"renew", "prove"} BY <1>8 DEF ProveRenewal, Is
  <2>1. Its(c) \in Renewal /\ Its(c) \in Identity /\ Its(c) = clerk[c].on
    BY <1>1, <1>8, Pairs DEF AtPlace, ProveRenewal, Is, Its
  <2>2. UNCHANGED <<provider, binding, ledger, charged, queue, stalls>> /\ windowOpen' \in BOOLEAN /\ reported' \in BOOLEAN
    BY <1>2, <1>8 DEF ProveRenewal, records
  <2>3. CASE Turns(c, "arm")
    <3>1. Goes(c, "arm") /\ clerk'[c].on = clerk[c].on BY <1>1, <2>3, TurnsGoes DEF RenewalPoint, Ending
    <3>2. AtPlace(clerk[c])' /\ ToldOf(clerk[c])' BY <1>0, <2>0, <2>1, <3>1, PlainStands DEF Plain, Bound, Goes
    <3>3. QED BY <2>2, <3>1, <3>2, IdleKeeps
  <2>4. CASE Turns(c, "apply") /\ request[Its(c)].fate = "done"
    <3>1. Goes(c, "apply") /\ clerk'[c].on = clerk[c].on BY <1>1, <2>4, TurnsGoes DEF RenewalPoint, Ending
    <3>2. AtPlace(clerk[c])' /\ ToldOf(clerk[c])' BY <1>0, <2>0, <2>1, <2>2, <2>4, <3>1 DEF AtPlace, ToldOf, Goes, Bound, provider
    <3>3. QED BY <2>2, <3>1, <3>2, IdleKeeps
  <2>5. CASE Turns(c, "close") /\ request[Its(c)].fate \in Decided
    <3>1. Goes(c, "close") /\ clerk'[c].on = clerk[c].on BY <1>1, <2>5, TurnsGoes DEF RenewalPoint, Ending
    <3>2. AtPlace(clerk[c])' /\ ToldOf(clerk[c])' BY <1>0, <2>0, <2>1, <2>2, <2>5, <3>1 DEF AtPlace, ToldOf, Goes, Bound, provider
    <3>3. QED BY <2>2, <3>1, <3>2, IdleKeeps
  <2>6. CASE Waits(c, "schedule", Its(c))
    <3>1. Goes(c, "schedule") /\ clerk'[c].on = Its(c) BY <1>1, <2>1, <2>6, WaitsGoes DEF RenewalPoint
    <3>2. AtPlace(clerk[c])' /\ ToldOf(clerk[c])' BY <1>0, <2>0, <2>1, <3>1, PlainStands DEF Plain, Bound, Goes
    <3>3. QED BY <2>2, <3>1, <3>2, IdleKeeps
  <2>7. QED
    <3>1. CASE ledger[Its(c)].ref = None BY <1>8, <2>3, <3>1 DEF ProveRenewal
    <3>2. CASE ledger[Its(c)].ref # None
      <4>1. PICK v \in RenewalStatus(Its(c)) :
              CASE v = "done" -> Turns(c, "apply")
                [] v = "negative" /\ conclusive -> Turns(c, "close")
                [] OTHER -> Waits(c, "schedule", Its(c))
        BY <1>8, <3>2 DEF ProveRenewal
      <4>2. /\ v = "done" => request[Its(c)].fate = "done"
            /\ v = "negative" => request[Its(c)].fate \in Decided
        BY DEF RenewalStatus, Decided
      <4>3. QED BY <2>4, <2>5, <2>6, <4>1, <4>2
    <3>3. QED BY <3>1, <3>2
<1>9. QED BY <1>3, <1>4, <1>5, <1>6, <1>7, <1>8

-----------------------------------------------------------------------------
(* Renewals: answers and verdicts.                                           *)

\* What may be written of renewal i.
Rightly(i) ==
  \/ ledger'[i].result \in {ledger[i].result, "none", "unknown", "temporary_fail"}
  \/ ledger'[i].result = "success" /\ request[i].fate = "done"
  \/ ledger'[i].result = "permanent_fail" /\ request[i].fate \in Decided

\* A step of a run that books what the provider decided.
LEMMA BooksKeep ==
  ASSUME RenewalInv, NEW c \in Clerk, NEW p, Goes(c, p), AtPlace(clerk[c])' /\ ToldOf(clerk[c])',
         UNCHANGED <<provider, queue, stalls>>, windowOpen' \in BOOLEAN, reported' \in BOOLEAN,
         binding' \in BindingRecord,
         \/ binding'.auth = binding.auth
         \/ <<"reauthorize", binding'.auth>> \in Renewal /\ request[<<"reauthorize", binding'.auth>>].fate = "done",
         charged' \in {"ChargeAttempt", "ChargedSuccess", "ChargeFailedRecovery"},
         charged' = "ChargedSuccess" => charged = "ChargedSuccess" \/ Done(Capture) # {},
         ledger' \in [Identity -> AttemptRecord], \A i \in Renewal : Rightly(i)
  PROVE  RenewalInv'
<1>1. RenewalTypeOK BY DEF RenewalInv
<1>2. request' = request /\ UNCHANGED <<conclusive, declares, lapsed, chore, subject, stalls>> BY DEF provider, queue
<1>3. RenewalTypeOK' BY <1>1, <1>2, RenewalForms, RenewalFormsNext DEF Goes
<1>4. charged' = "ChargedSuccess" => charged = "ChargedSuccess" \/ \E i \in Capture : request'[i].fate = "done"
  BY <1>2 DEF Done
<1>5. Follows(c) BY <1>2, <1>4 DEF Follows, Goes, Rightly
<1>6. QED BY <1>3, <1>5, RenewalFollows

\* The binding that a renewal is applied to.
LEMMA AppliedBinding ==
  ASSUME RenewalTypeOK, NEW a \in Authorization, NEW expires \in {"null", "declared"}, binding' = Applied(a, expires)
  PROVE  binding' \in BindingRecord /\ binding'.auth = a
<1>1. binding \in BindingRecord /\ Cardinality(Minted(Renewal)) \in 0..MaxRenewals BY RenewalForms, Column
<1>2. CASE binding.auth = a BY <1>1, <1>2 DEF Applied
<1>3. CASE binding.auth # a BY <1>1, <1>3 DEF Applied, BindingRecord
<1>4. QED BY <1>2, <1>3

\* A renewal that the provider made is applied.
LEMMA SuccessKeeps ==
  ASSUME RenewalInv, NEW c \in Clerk, ApplyProven(c) \/ RenewalDone(c) \/ ConcludeRenewed(c)
  PROVE  RenewalInv'
<1> DEFINE i == Its(c)
<1>1. RenewalTypeOK /\ AtPlace(clerk[c]) /\ ToldOf(clerk[c]) BY DEF RenewalInv, Standing
<1>2. windowOpen \in BOOLEAN /\ reported \in BOOLEAN /\ charged \in {"ChargeAttempt", "ChargedSuccess", "ChargeFailedRecovery"}
  BY <1>1, RenewalForms
<1>3. i \in Renewal /\ i = clerk[c].on /\ request[i].fate = "done"
  BY <1>1, Pairs DEF ApplyProven, RenewalDone, ConcludeRenewed, Is, Saw, Its, AtPlace, ToldOf, Decided
<1>4. i \in Identity /\ i[2] \in Authorization /\ i = <<"reauthorize", i[2]>> BY <1>3, Pairs
<1>5. /\ ledger' = Succeeded(i, i[2]) /\ UNCHANGED <<provider, charged, windowOpen, queue, reported, stalls>>
      /\ binding' = Applied(i[2], "null") \/ binding' = Applied(i[2], DeclaredExpiry)
  BY DEF ApplyProven, RenewalDone, ConcludeRenewed
<1> HIDE DEF i
<1>6. binding' \in BindingRecord /\ binding'.auth = i[2]
  <2>1. DeclaredExpiry \in {"null", "declared"} BY DEF DeclaredExpiry
  <2>2. QED BY <1>1, <1>4, <1>5, <2>1, AppliedBinding
<1>7. /\ ledger' \in [Identity -> AttemptRecord] /\ ledger'[i].result = "success"
      /\ \A k \in Identity \ {i} : ledger'[k] = ledger[k]
  BY <1>1, <1>4, <1>5, SucceededRow
<1>8. \A k \in Renewal : Rightly(k) BY <1>3, <1>7, Pairs DEF Rightly
<1>9. PICK p \in {"capture", "wake"} : Goes(c, p) /\ (p = "capture" => clerk'[c].auth \in Authorization)
  <2>1. CASE ConcludeRenewed(c) BY <1>1, <2>1, TurnsGoes DEF ConcludeRenewed, RenewalPoint
  <2>2. CASE ApplyProven(c) \/ RenewalDone(c)
    <3>1. \/ clerk' = [clerk EXCEPT ![c].pc = "capture", ![c].auth = i[2]]
          \/ clerk' = [clerk EXCEPT ![c].pc = "capture", ![c].auth = i[2], ![c].seen = "none"]
      BY <2>2 DEF ApplyProven, RenewalDone, i
    <3>2. "capture" \in RenewalPoint /\ i[2] \in Authorization BY <1>4 DEF RenewalPoint
    <3> DEFINE a == i[2]
    <3> HIDE DEF a
    <3>3. /\ a \in Authorization /\ a \in Authorization \cup {None}
          /\ \/ clerk' = [clerk EXCEPT ![c].pc = "capture", ![c].auth = a]
             \/ clerk' = [clerk EXCEPT ![c].pc = "capture", ![c].auth = a, ![c].seen = "none"]
      BY <3>1, <3>2 DEF a
    <3> DEFINE p == "capture"
    <3>4. p \in RenewalPoint BY <3>2
    <3>5. \/ clerk' = [clerk EXCEPT ![c].pc = p, ![c].auth = a]
          \/ clerk' = [clerk EXCEPT ![c].pc = p, ![c].auth = a, ![c].seen = "none"]
      BY <3>3
    <3>6. p = "capture" OBVIOUS
    <3> HIDE DEF p
    <3>7. p \in Bound => a \in Authorization BY <3>3
    <3>8. Goes(c, p) /\ clerk'[c].auth = a BY <1>1, <3>3, <3>4, <3>5, <3>7, GoesWithAuthorization, ZenonT(60)
    <3>9. QED BY <3>3, <3>6, <3>8
  <2>3. QED BY <2>1, <2>2
<1>10. AtPlace(clerk[c])' /\ ToldOf(clerk[c])' BY <1>9, PlainStands DEF Plain, Bound, Goes
<1>11. <<"reauthorize", binding'.auth>> \in Renewal /\ request[<<"reauthorize", binding'.auth>>].fate = "done"
  BY <1>3, <1>4, <1>6
<1>12. UNCHANGED <<provider, queue, stalls>> /\ charged' = charged /\ windowOpen' = windowOpen /\ reported' = reported
  BY <1>5
<1>13. QED BY <1>2, <1>6, <1>7, <1>8, <1>9, <1>10, <1>11, <1>12, BooksKeep

\* A run that writes rows goes on where it is told nothing.
LEMMA RowsKeep ==
  ASSUME RenewalInv, NEW c \in Clerk, NEW p, Goes(c, p), Plain(c, p),
         UNCHANGED <<provider, binding, charged, windowOpen, queue, stalls>>, reported' \in BOOLEAN,
         ledger' \in [Identity -> AttemptRecord], \A i \in Renewal : Rightly(i)
  PROVE  RenewalInv'
<1>1. RenewalTypeOK BY DEF RenewalInv
<1>2. AtPlace(clerk[c])' /\ ToldOf(clerk[c])' BY PlainStands DEF Goes
<1>3. /\ binding \in BindingRecord /\ charged \in {"ChargeAttempt", "ChargedSuccess", "ChargeFailedRecovery"}
      /\ windowOpen \in BOOLEAN
  BY <1>1, RenewalForms
<1>4. /\ UNCHANGED <<provider, queue, stalls>> /\ windowOpen' \in BOOLEAN
      /\ binding' \in BindingRecord /\ binding'.auth = binding.auth
      /\ charged' \in {"ChargeAttempt", "ChargedSuccess", "ChargeFailedRecovery"} /\ charged' = charged
  BY <1>3
<1>5. QED BY <1>2, <1>4, BooksKeep

\* A renewal is pending, unanswered, declined, not sent or closed.
LEMMA VerdictKeeps ==
  ASSUME RenewalInv, NEW c \in Clerk,
         CloseUnexecuted(c) \/ RenewalPending(c) \/ RenewalUnanswered(c) \/ RenewalDeclined(c) \/ RenewalUnsent(c)
  PROVE  RenewalInv'
<1> DEFINE i == Its(c)
<1>1. RenewalTypeOK /\ AtPlace(clerk[c]) /\ ToldOf(clerk[c]) BY DEF RenewalInv, Standing
<1>2. ledger \in [Identity -> AttemptRecord] /\ reported \in BOOLEAN BY <1>1, RenewalForms
<1>3. i = clerk[c].on /\ i \in Renewal /\ i \in Identity /\ i[2] \in Authorization
  BY <1>1, Pairs DEF CloseUnexecuted, RenewalPending, RenewalUnanswered, RenewalDeclined, RenewalUnsent, Is, Its, AtPlace
<1>4. UNCHANGED <<provider, binding, charged, windowOpen, queue, stalls>> /\ reported' \in BOOLEAN
  BY <1>2 DEF CloseUnexecuted, RenewalPending, RenewalUnanswered, RenewalDeclined, RenewalUnsent
<1>5. \A v : v \in {"unknown", "permanent_fail"} => v \in Result BY DEF Result
<1>0. clerk[c].pc \in Bound
  BY DEF CloseUnexecuted, RenewalPending, RenewalUnanswered, RenewalDeclined, RenewalUnsent, Is, Saw, Bound
<1> HIDE DEF i
<1>6. CASE CloseUnexecuted(c)
  <2>1. request[i].fate \in Decided BY <1>1, <1>3, <1>6 DEF CloseUnexecuted, Is, ToldOf
  <2>2. CASE Turns(c, "throw") /\ ledger' = ledger
    <3>1. Goes(c, "throw") BY <1>1, <2>2, TurnsGoes DEF RenewalPoint
    <3>2. \A k \in Renewal : Rightly(k) BY <2>2 DEF Rightly
    <3>3. Plain(c, "throw") BY DEF Plain, Bound
    <3>4. QED BY <1>2, <1>4, <2>2, <3>1, <3>2, <3>3, RowsKeep
  <2>3. CASE Turns(c, "capture") /\ (ledger' = ledger \/ ledger' = Responded(i, "permanent_fail"))
    <3>1. Goes(c, "capture") BY <1>1, <2>3, TurnsGoes DEF RenewalPoint
    <3>2. ledger' \in [Identity -> AttemptRecord] /\ \A k \in Renewal : Rightly(k)
      <4>1. CASE ledger' = ledger BY <1>2, <4>1 DEF Rightly
      <4>2. CASE ledger' = Responded(i, "permanent_fail")
        <5>1. /\ ledger' \in [Identity -> AttemptRecord] /\ ledger'[i].result = "permanent_fail"
              /\ \A k \in Identity \ {i} : ledger'[k] = ledger[k]
          BY <1>1, <1>3, <1>5, <4>2, RespondedRow
        <5>2. QED BY <2>1, <5>1, Pairs DEF Rightly
      <4>3. QED BY <2>3, <4>1, <4>2
    <3>3. Plain(c, "capture") BY <1>0, <1>1, <3>1, KeepsBound DEF Plain
    <3>4. QED BY <1>4, <3>1, <3>2, <3>3, RowsKeep
  <2>4. QED BY <1>6, <2>2, <2>3 DEF CloseUnexecuted, i
<1>7. CASE RenewalPending(c)
  <2>1. Waits(c, "schedule", i) BY <1>7 DEF RenewalPending, i
  <2>2. Goes(c, "schedule") /\ clerk'[c].on = i BY <1>1, <1>3, <2>1, WaitsGoes DEF RenewalPoint
  <2>3. ledger' \in [Identity -> AttemptRecord] /\ \A k \in Renewal : Rightly(k)
    <3> DEFINE w == [ledger[i] EXCEPT !.dispatch = "responded", !.ref = i[2]]
    <3>1. w \in AttemptRecord /\ w.result = ledger[i].result BY <1>2, <1>3 DEF AttemptRecord
    <3>2. ledger' = [ledger EXCEPT ![i] = w] \/ ledger' = ledger BY <1>2, <1>3, <1>7 DEF RenewalPending, i
    <3> HIDE DEF w
    <3>3. ledger' \in [Identity -> AttemptRecord] /\ \A k \in Identity : ledger'[k].result = ledger[k].result
      BY <1>1, <1>2, <1>3, <3>1, <3>2, RowReplaced
    <3>4. QED BY <3>3, Pairs DEF Rightly
  <2>4. Plain(c, "schedule") BY <1>3, <2>2 DEF Plain, Bound
  <2>5. QED BY <1>4, <2>2, <2>3, <2>4, RowsKeep
<1>8. CASE RenewalUnanswered(c)
  <2>1. Waits(c, "end", Nothing) /\ Settled(c, "unknown") BY <1>8 DEF RenewalUnanswered
  <2>2. Goes(c, "end") BY <1>1, <2>1, WaitsGoes DEF RenewalPoint
  <2>3. /\ ledger' \in [Identity -> AttemptRecord]
        /\ \A k \in Identity : ledger'[k].result = ledger[k].result \/ ledger'[k].result = "unknown"
    BY <1>1, <1>3, <1>5, <2>1, SettledRow
  <2>4. \A k \in Renewal : Rightly(k) BY <2>3, Pairs DEF Rightly
  <2>5. Plain(c, "end") BY DEF Plain, Bound
  <2>6. QED BY <1>4, <2>2, <2>3, <2>4, <2>5, RowsKeep
<1>9. CASE RenewalDeclined(c)
  <2>1. Turns(c, "capture") /\ Settled(c, "permanent_fail") /\ request[i].fate = "declined"
    BY <1>1, <1>3, <1>9 DEF RenewalDeclined, Saw, Is, ToldOf, Decided
  <2>2. Goes(c, "capture") BY <1>1, <2>1, TurnsGoes DEF RenewalPoint
  <2>3. /\ ledger' \in [Identity -> AttemptRecord]
        /\ \A k \in Identity : ledger'[k].result = ledger[k].result \/ (k = i /\ ledger'[k].result = "permanent_fail")
    BY <1>1, <1>3, <1>5, <2>1, SettledRow
  <2>4. \A k \in Renewal : Rightly(k) BY <2>1, <2>3, Pairs DEF Rightly, Decided
  <2>5. Plain(c, "capture") BY <1>0, <1>1, <2>2, KeepsBound DEF Plain
  <2>6. QED BY <1>4, <2>2, <2>3, <2>4, <2>5, RowsKeep
<1>10. CASE RenewalUnsent(c)
  <2>1. Turns(c, "capture") /\ ledger' = Disarmed(c) BY <1>10 DEF RenewalUnsent
  <2>2. Goes(c, "capture") BY <1>1, <2>1, TurnsGoes DEF RenewalPoint
  <2>3. ledger' \in [Identity -> AttemptRecord] /\ \A k \in Identity : ledger'[k].result = ledger[k].result
    BY <1>1, <1>3, <2>1, DisarmedRow
  <2>4. \A k \in Renewal : Rightly(k) BY <2>3, Pairs DEF Rightly
  <2>5. Plain(c, "capture") BY <1>0, <1>1, <2>2, KeepsBound DEF Plain
  <2>6. QED BY <1>4, <2>2, <2>3, <2>4, <2>5, RowsKeep
<1>11. QED BY <1>6, <1>7, <1>8, <1>9, <1>10

-----------------------------------------------------------------------------
(* Renewals: arming, sending and the answer.                                 *)

\* A request is armed.
LEMMA ArmKeeps ==
  ASSUME RenewalInv, NEW c \in Clerk, ArmRequest(c)
  PROVE  RenewalInv'
<1> DEFINE i == Its(c)
<1>1. RenewalTypeOK /\ AtPlace(clerk[c]) /\ clerk[c] \in ClerkRecord BY RenewalForms DEF RenewalInv, Standing
<1>2. ledger \in [Identity -> AttemptRecord] /\ reported \in BOOLEAN BY <1>1, RenewalForms
<1>3. i = clerk[c].on /\ i \in Identity BY <1>1 DEF ArmRequest, Is, Its, AtPlace
<1>4. UNCHANGED <<provider, binding, charged, windowOpen, queue, stalls>> /\ reported' \in BOOLEAN
  BY <1>2 DEF ArmRequest
<1>5. \/ ledger' = ledger /\ \E p \in {"throw", "end"} : Turns(c, p)
      \/ /\ Turns(c, "send")
         /\ ledger' = [ledger EXCEPT ![i].dispatch = "dispatching", ![i].owner = c,
                                     ![i].ref = IF i \in Capture THEN clerk[c].auth ELSE @]
  BY DEF ArmRequest
<1>6. CASE ledger' = ledger /\ \E p \in {"throw", "end"} : Turns(c, p)
  <2>1. PICK p \in {"throw", "end"} : Turns(c, p) BY <1>6
  <2>2. Goes(c, p) BY <1>1, <2>1, TurnsGoes DEF RenewalPoint
  <2>3. Plain(c, p) BY DEF Plain, Bound
  <2>4. \A k \in Renewal : Rightly(k) BY <1>6 DEF Rightly
  <2>5. QED BY <1>2, <1>4, <1>6, <2>2, <2>3, <2>4, RowsKeep
<1>7. CASE /\ Turns(c, "send")
           /\ ledger' = [ledger EXCEPT ![i].dispatch = "dispatching", ![i].owner = c,
                                       ![i].ref = IF i \in Capture THEN clerk[c].auth ELSE @]
  <2> DEFINE a == IF i \in Capture THEN clerk[c].auth ELSE ledger[i].ref
             w == [ledger[i] EXCEPT !.dispatch = "dispatching", !.owner = c, !.ref = a]
  <2>1. a \in Authorization \cup {None} BY <1>1, <1>2, <1>3 DEF ClerkRecord, AttemptRecord
  <2>2. ledger' = [ledger EXCEPT ![i] = w] BY <1>2, <1>3, <1>7
  <2> HIDE DEF a
  <2>3. w \in AttemptRecord /\ w.result = ledger[i].result BY <1>2, <1>3, <2>1 DEF AttemptRecord
  <2> HIDE DEF w, i
  <2>4. ledger' \in [Identity -> AttemptRecord] /\ \A k \in Identity : ledger'[k].result = ledger[k].result
    BY <1>1, <1>3, <2>2, <2>3, RowReplaced
  <2>5. \A k \in Renewal : Rightly(k) BY <2>4, Pairs DEF Rightly
  <2>6. Goes(c, "send") /\ clerk'[c].on = i BY <1>1, <1>3, <1>7, TurnsGoes DEF RenewalPoint, Ending
  <2>7. clerk[c].pc \in Bound BY DEF ArmRequest, Is, Bound
  <2>9. Plain(c, "send") BY <1>1, <1>3, <2>6, <2>7, KeepsBound DEF Plain
  <2>10. QED BY <1>4, <2>4, <2>5, <2>6, <2>9, RowsKeep
<1>8. QED BY <1>5, <1>6, <1>7

\* An answer comes, or its settlement is refused.
LEMMA AnswerKeeps ==
  ASSUME RenewalInv, NEW c \in Clerk, Answered(c) \/ SettleRefused(c)
  PROVE  RenewalInv'
<1>1. RenewalTypeOK /\ AtPlace(clerk[c]) BY DEF RenewalInv, Standing
<1>2. UNCHANGED <<provider, binding, ledger, charged, queue, stalls>> /\ windowOpen' \in BOOLEAN /\ reported' \in BOOLEAN
  BY <1>1, RenewalForms DEF Answered, SettleRefused, records
<1>3. CASE Answered(c)
  <2>1. clerk[c].on \in Identity BY <1>1, <1>3 DEF Answered, Is, AtPlace
  <2>2. PICK v \in {"unknown"} \cup ({request[Its(c)].fate} \cap {"done", "pending", "declined", "unusable"}) :
          TurnsKnowing(c, "settle", v)
    BY <1>3 DEF Answered
  <2>3. v \in Sight /\ "settle" \in RenewalPoint BY <2>2 DEF Sight, RenewalPoint
  <2>4. Goes(c, "settle") /\ clerk'[c].on = clerk[c].on /\ clerk'[c].seen = v BY <1>1, <2>2, <2>3, TurnsKnowingGoes
  <2>5. v \in Decided => request[clerk[c].on].fate = v BY <2>2 DEF Decided, Its
  <2>8. clerk[c].pc \in Bound BY <1>3 DEF Answered, Is, Bound
  <2>9. clerk'[c].auth \in Authorization BY <1>1, <2>4, <2>8, KeepsBound DEF Bound
  <2>6. AtPlace(clerk[c])' /\ ToldOf(clerk[c])' BY <1>2, <2>1, <2>4, <2>5, <2>9 DEF AtPlace, ToldOf, Goes, provider
  <2>7. QED BY <1>2, <2>4, <2>6, IdleKeeps
<1>4. CASE SettleRefused(c)
  <2>1. Goes(c, "throw") BY <1>1, <1>4, TurnsGoes DEF SettleRefused, RenewalPoint
  <2>2. AtPlace(clerk[c])' /\ ToldOf(clerk[c])' BY <2>1, PlainStands DEF Plain, Bound, Goes
  <2>3. QED BY <1>2, <2>1, <2>2, IdleKeeps
<1>5. QED BY <1>3, <1>4

\* A request is sent: it was not decided before.
LEMMA SendKeeps ==
  ASSUME RenewalInv, NEW c \in Clerk, SendRequest(c)
  PROVE  RenewalInv'
<1> DEFINE i == Its(c)
<1>1. RenewalTypeOK /\ AtPlace(clerk[c]) /\ clerk[c] \in ClerkRecord BY RenewalForms DEF RenewalInv, Standing
<1>2. i = clerk[c].on /\ i \in Identity BY <1>1 DEF SendRequest, Is, Its, AtPlace
<1>3. request \in [Identity -> RequestRecord] BY <1>1, RenewalForms
<1>4. UNCHANGED <<conclusive, declares, lapsed, records, queue, reported, stalls>> BY DEF SendRequest
<1>0. clerk[c].pc \in Bound /\ clerk[c].auth \in Authorization BY <1>1 DEF SendRequest, Is, Bound, AtPlace
<1>5. CASE TurnsKnowing(c, "settle", "unsent") /\ UNCHANGED request
  <2>1. "settle" \in RenewalPoint /\ "unsent" \in Sight BY DEF RenewalPoint, Sight
  <2>2. Goes(c, "settle") /\ clerk'[c].on = i /\ clerk'[c].seen = "unsent" BY <1>1, <1>2, <1>5, <2>1, TurnsKnowingGoes
  <2>6. clerk'[c].auth \in Authorization BY <1>0, <1>1, <2>2, KeepsBound DEF Bound
  <2>3. AtPlace(clerk[c])' /\ ToldOf(clerk[c])' BY <1>2, <2>2, <2>6 DEF AtPlace, ToldOf, Goes, Decided
  <2>4. UNCHANGED <<provider, binding, ledger, charged, queue, stalls>> /\ windowOpen' \in BOOLEAN /\ reported' \in BOOLEAN
    BY <1>1, <1>4, <1>5, RenewalForms DEF provider, records
  <2>5. QED BY <2>2, <2>3, <2>4, IdleKeeps
<1>6. CASE /\ Turns(c, "await")
           /\ request' = IF request[i].fate # "unsent" THEN request
                         ELSE [request EXCEPT ![i] = [fate |-> "wire", on |-> IF i \in Capture THEN clerk[c].auth ELSE 0]]
  <2> DEFINE a == IF i \in Capture THEN clerk[c].auth ELSE 0
  <2>1. Goes(c, "await") /\ clerk'[c].on = i BY <1>1, <1>2, <1>6, TurnsGoes DEF RenewalPoint, Ending
  <2>2. Plain(c, "await") BY <1>0, <1>1, <1>2, <2>1, KeepsBound DEF Plain
  <2>3. AtPlace(clerk[c])' /\ ToldOf(clerk[c])' BY <2>1, <2>2, PlainStands DEF Goes
  <2>4. request' = request \/ (request[i].fate = "unsent" /\ request' = [request EXCEPT ![i] = [fate |-> "wire", on |-> a]])
    BY <1>6
  <2>5. a \in Authorization BY <1>0, Pairs DEF Authorization
  <2> HIDE DEF a, i
  <2>6. /\ request' \in [Identity -> RequestRecord]
        /\ \A k \in Identity : request[k].fate \in Decided => request'[k].fate = request[k].fate
    BY <1>2, <1>3, <2>4, <2>5 DEF RequestRecord, Decided
  <2>7. RenewalTypeOK' BY <1>1, <1>4, <2>1, <2>6, RenewalForms, RenewalFormsNext DEF Goes, records, queue
  <2>8. Follows(c) BY <1>4, <2>1, <2>6 DEF Follows, Goes, records, queue
  <2>9. QED BY <2>3, <2>7, <2>8, RenewalFollows
<1>7. QED BY <1>5, <1>6 DEF SendRequest


-----------------------------------------------------------------------------
(* Renewals: the capture.                                                    *)

\* A run goes on to a capture, or ends.
LEMMA CaptureKeeps ==
  ASSUME RenewalInv, NEW c \in Clerk,
         \/ CaptureNotAdmitted(c) \/ CaptureBlocked(c) \/ CaptureAgain(c) \/ CaptureFresh(c)
         \/ ResolveUnsettled(c) \/ CaptureUnanswered(c) \/ CaptureUnsent(c)
  PROVE  RenewalInv'
<1>1. RenewalTypeOK /\ AtPlace(clerk[c]) BY DEF RenewalInv, Standing
<1>2. /\ ledger \in [Identity -> AttemptRecord] /\ reported \in BOOLEAN /\ Its(c) = clerk[c].on
      /\ Is(c, "resolve") => clerk[c].on \in Capture /\ clerk[c].on \in Identity
  BY <1>1, RenewalForms, Pairs DEF Its, Is, AtPlace
<1>3. UNCHANGED <<provider, binding, charged, windowOpen, queue, stalls>> /\ reported' \in BOOLEAN
  BY <1>2 DEF CaptureNotAdmitted, CaptureBlocked, CaptureAgain, CaptureFresh, ResolveUnsettled, CaptureUnanswered,
              CaptureUnsent, records
<1>4. clerk[c].pc \in Bound
  BY DEF CaptureNotAdmitted, CaptureBlocked, CaptureAgain, CaptureFresh, ResolveUnsettled, CaptureUnanswered,
         CaptureUnsent, Is, Saw, Bound
<1>5. \A k \in Renewal : ledger' = ledger => Rightly(k) BY DEF Rightly
<1>6. CASE CaptureNotAdmitted(c)
  <2>1. Goes(c, "end") BY <1>1, <1>6, TurnsGoes DEF CaptureNotAdmitted, RenewalPoint
  <2>2. /\ ledger' \in [Identity -> AttemptRecord]
        /\ \A k \in Identity : ledger'[k].result \in {ledger[k].result, "temporary_fail"}
    BY <1>1, <1>6, RetiredRows DEF CaptureNotAdmitted
  <2>3. Plain(c, "end") /\ \A k \in Renewal : Rightly(k) BY <2>2, Pairs DEF Plain, Bound, Rightly
  <2>4. QED BY <1>3, <2>1, <2>2, <2>3, RowsKeep
<1>7. CASE CaptureBlocked(c)
  <2>1. PICK i \in Unknown(Renewal) : TurnsTo(c, "schedule", i) BY <1>7 DEF CaptureBlocked
  <2>2. i \in Identity BY Pairs DEF Unknown
  <2>3. Goes(c, "schedule") /\ clerk'[c].on = i BY <1>1, <2>1, <2>2, TurnsToGoes DEF RenewalPoint
  <2>4. Plain(c, "schedule") BY <2>2, <2>3 DEF Plain, Bound
  <2>5. QED BY <1>2, <1>3, <1>5, <1>7, <2>3, <2>4, RowsKeep DEF CaptureBlocked, records
<1>8. CASE CaptureAgain(c)
  <2>1. PICK i \in Minted(Capture), p \in {"end", "arm", "resolve"} : TurnsTo(c, p, i) BY <1>8 DEF CaptureAgain
  <2>2. i \in Capture /\ i \in Identity /\ p \in RenewalPoint BY Pairs DEF Minted, RenewalPoint
  <2>3. Goes(c, p) /\ clerk'[c].on = i BY <1>1, <2>1, <2>2, TurnsToGoes
  <2>4. p \in Bound => clerk'[c].auth \in Authorization BY <1>1, <1>4, <2>3, KeepsBound
  <2>5. Plain(c, p) BY <2>2, <2>3, <2>4 DEF Plain
  <2>6. QED BY <1>2, <1>3, <1>5, <1>8, <2>3, <2>5, RowsKeep DEF CaptureAgain, records
<1>9. CASE CaptureFresh(c)
  <2> DEFINE i == NextOf(Capture)
  <2>1. i \in Capture /\ i \in Identity BY <1>9, Column, Pairs DEF CaptureFresh
  <2>2. ledger' = [ledger EXCEPT ![i].result = "unknown"] /\ TurnsTo(c, "arm", i) BY <1>9 DEF CaptureFresh
  <2> HIDE DEF i
  <2>3. Goes(c, "arm") /\ clerk'[c].on = i BY <1>1, <2>1, <2>2, TurnsToGoes DEF RenewalPoint
  <2>4. Plain(c, "arm") BY <1>1, <1>4, <2>1, <2>3, KeepsBound DEF Plain
  <2>5. /\ ledger' \in [Identity -> AttemptRecord]
        /\ \A k \in Identity : ledger'[k].result \in {ledger[k].result, "unknown"}
    BY <1>1, <2>1, <2>2, BegunRow
  <2>6. \A k \in Renewal : Rightly(k) BY <2>5, Pairs DEF Rightly
  <2>7. QED BY <1>3, <2>3, <2>4, <2>5, <2>6, RowsKeep
<1>10. CASE ResolveUnsettled(c)
  <2>1. PICK p \in {"arm", "schedule"} : Turns(c, p) BY <1>10 DEF ResolveUnsettled
  <2>2. p \in RenewalPoint /\ p \notin Ending BY DEF RenewalPoint, Ending
  <2>3. Goes(c, p) /\ clerk'[c].on = clerk[c].on BY <1>1, <2>1, <2>2, TurnsGoes
  <2>4. p \in Bound => clerk'[c].auth \in Authorization BY <1>1, <1>4, <2>3, KeepsBound
  <2>5. Plain(c, p) BY <1>2, <1>10, <2>3, <2>4 DEF Plain, ResolveUnsettled
  <2>6. QED BY <1>2, <1>3, <1>5, <1>10, <2>3, <2>5, RowsKeep DEF ResolveUnsettled, records
<1>11. CASE CaptureUnanswered(c)
  <2>1. Turns(c, "schedule") /\ Settled(c, "unknown") /\ clerk[c].on \in Identity /\ "unknown" \in Result
    BY <1>2, <1>11, Pairs DEF CaptureUnanswered, Result
  <2>2. Goes(c, "schedule") /\ clerk'[c].on = clerk[c].on BY <1>1, <2>1, TurnsGoes DEF RenewalPoint, Ending
  <2>3. /\ ledger' \in [Identity -> AttemptRecord]
        /\ \A k \in Identity : ledger'[k].result = ledger[k].result \/ ledger'[k].result = "unknown"
    BY <1>1, <2>1, SettledRow
  <2>4. Plain(c, "schedule") /\ \A k \in Renewal : Rightly(k) BY <2>1, <2>2, <2>3, Pairs DEF Plain, Bound, Rightly
  <2>5. QED BY <1>3, <2>2, <2>3, <2>4, RowsKeep
<1>12. CASE CaptureUnsent(c)
  <2>1. Turns(c, "throw") /\ ledger' = Disarmed(c) /\ clerk[c].on \in Identity
    BY <1>2, <1>12, Pairs DEF CaptureUnsent
  <2>2. Goes(c, "throw") BY <1>1, <2>1, TurnsGoes DEF RenewalPoint
  <2>3. ledger' \in [Identity -> AttemptRecord] /\ \A k \in Identity : ledger'[k].result = ledger[k].result
    BY <1>1, <2>1, DisarmedRow
  <2>4. Plain(c, "throw") /\ \A k \in Renewal : Rightly(k) BY <2>3, Pairs DEF Plain, Bound, Rightly
  <2>5. QED BY <1>3, <2>2, <2>3, <2>4, RowsKeep
<1>13. QED BY <1>6, <1>7, <1>8, <1>9, <1>10, <1>11, <1>12


\* The answer to a capture is booked.
LEMMA CaptureAnswerKeeps ==
  ASSUME RenewalInv, NEW c \in Clerk, CaptureDone(c) \/ CaptureUnusable(c) \/ CaptureDeclined(c)
  PROVE  RenewalInv'
<1> DEFINE i == Its(c)
<1>1. RenewalTypeOK /\ AtPlace(clerk[c]) /\ ToldOf(clerk[c]) BY DEF RenewalInv, Standing
<1>2. /\ ledger \in [Identity -> AttemptRecord] /\ reported \in BOOLEAN /\ windowOpen \in BOOLEAN
      /\ binding \in BindingRecord /\ clerk[c] \in ClerkRecord
      /\ charged \in {"ChargeAttempt", "ChargedSuccess", "ChargeFailedRecovery"}
  BY <1>1, RenewalForms
<1>3. i = clerk[c].on /\ i \in Capture /\ i \in Identity
  BY Pairs DEF CaptureDone, CaptureUnusable, CaptureDeclined, Its
<1>4. UNCHANGED <<provider, charged, windowOpen, queue, reported, stalls>>
  BY DEF CaptureDone, CaptureUnusable, CaptureDeclined
<1>5. binding' \in BindingRecord /\ binding'.auth = binding.auth
  <2> DEFINE b == [binding EXCEPT !.expires = "past"]
  <2>1. b \in BindingRecord /\ b.auth = binding.auth BY <1>2 DEF BindingRecord
  <2>2. binding' = binding \/ binding' = b BY DEF CaptureDone, CaptureUnusable, CaptureDeclined
  <2> HIDE DEF b
  <2>3. QED BY <1>2, <2>1, <2>2
<1>6. clerk[c].pc \in Bound /\ clerk[c].pc = "settle"
  BY DEF CaptureDone, CaptureUnusable, CaptureDeclined, Saw, Is, Bound
<1> HIDE DEF i
<1>7. ledger' \in [Identity -> AttemptRecord] /\ \A k \in Renewal : Rightly(k)
  <2>1. "success" \in Result /\ "permanent_fail" \in Result BY DEF Result
  <2>2. CASE CaptureDone(c)
    <3>1. ledger' = Responded(i, "success") BY <2>2 DEF CaptureDone, i
    <3>2. ledger' \in [Identity -> AttemptRecord] /\ \A k \in Identity \ {i} : ledger'[k] = ledger[k]
      BY <1>1, <1>3, <2>1, <3>1, RespondedRow
    <3>3. QED BY <1>3, <3>2, Pairs DEF Rightly
  <2>3. CASE CaptureUnusable(c) \/ CaptureDeclined(c)
    <3>1. Settled(c, "permanent_fail") BY <2>3 DEF CaptureUnusable, CaptureDeclined
    <3>2. /\ ledger' \in [Identity -> AttemptRecord]
          /\ \A k \in Identity : ledger'[k].result = ledger[k].result \/ k = i
      BY <1>1, <1>3, <2>1, <3>1, SettledRow
    <3>3. QED BY <1>3, <3>2, Pairs DEF Rightly
  <2>4. QED BY <2>2, <2>3
<1>8. PICK p \in {"ingest", "gate"} : Goes(c, p) /\ AtPlace(clerk[c])' /\ ToldOf(clerk[c])'
  <2>1. ASSUME NEW v \in {"done", "declined"}, TurnsKnowing(c, "ingest", v), v = "done" => request[i].fate = "done"
        PROVE  Goes(c, "ingest") /\ AtPlace(clerk[c])' /\ ToldOf(clerk[c])'
    <3>1. v \in Sight /\ "ingest" \in RenewalPoint BY DEF Sight, RenewalPoint
    <3>2. Goes(c, "ingest") /\ clerk'[c].on = i /\ clerk'[c].seen = v BY <1>1, <1>3, <2>1, <3>1, TurnsKnowingGoes
    <3>3. clerk'[c].auth \in Authorization BY <1>1, <1>6, <3>2, KeepsBound DEF Bound
    <3>4. request' = request BY <1>4 DEF provider
    <3>5. AtPlace(clerk[c])' BY <1>3, <3>2, <3>3 DEF AtPlace, Goes
    <3>6. ToldOf(clerk[c])' BY <2>1, <3>2, <3>4 DEF ToldOf, Goes
    <3>7. QED BY <3>2, <3>5, <3>6
  <2>2. CASE CaptureDone(c)
    <3>1. TurnsKnowing(c, "ingest", "done") /\ request[i].fate = "done"
      BY <1>1, <1>3, <2>2 DEF CaptureDone, Saw, Is, ToldOf, Decided
    <3>2. QED BY <2>1, <3>1
  <2>3. CASE CaptureDeclined(c) BY <2>1, <2>3 DEF CaptureDeclined
  <2>4. CASE CaptureUnusable(c)
    <3> DEFINE q == [clerk[c] EXCEPT !.pc = "gate", !.retry = FALSE, !.seen = "none"]
    <3>1. /\ q \in ClerkRecord /\ q.pc = "gate" /\ q.chore = clerk[c].chore /\ q.live = clerk[c].live
          /\ q.hold = clerk[c].hold
      BY <1>2 DEF ClerkRecord, RenewalPoint, Sight
    <3>2. clerk' = [clerk EXCEPT ![c] = q] BY <1>2, <2>4 DEF CaptureUnusable
    <3> HIDE DEF q
    <3>3. Goes(c, "gate") BY <1>1, <3>1, <3>2, ClerkReplaced DEF Goes, Bound
    <3>4. Plain(c, "gate") BY DEF Plain, Bound
    <3>5. QED BY <3>3, <3>4, PlainStands DEF Goes
  <2>5. QED BY <2>2, <2>3, <2>4
<1>9. UNCHANGED <<provider, queue, stalls>> /\ charged' = charged /\ windowOpen' = windowOpen /\ reported' = reported
  BY <1>4
<1>10. QED BY <1>2, <1>5, <1>7, <1>8, <1>9, BooksKeep

\* The outcome of a capture is booked, and the run ends.
LEMMA OutcomeKeeps ==
  ASSUME RenewalInv, NEW c \in Clerk, NEW p \in {"end", "ack"}, Turns(c, p), NEW i \in Capture,
         \/ Captured(i) /\ Done(Capture) # {}
         \/ NotCaptured(i) /\ UNCHANGED reported,
         UNCHANGED <<provider, binding, windowOpen, queue, stalls>>
  PROVE  RenewalInv'
<1>1. RenewalTypeOK BY DEF RenewalInv
<1>2. /\ ledger \in [Identity -> AttemptRecord] /\ reported \in BOOLEAN /\ windowOpen \in BOOLEAN
      /\ binding \in BindingRecord /\ charged \in {"ChargeAttempt", "ChargedSuccess", "ChargeFailedRecovery"}
  BY <1>1, RenewalForms
<1>3. /\ charged' \in {"ChargeAttempt", "ChargedSuccess", "ChargeFailedRecovery"} /\ reported' \in BOOLEAN
      /\ charged' = "ChargedSuccess" => charged = "ChargedSuccess" \/ Done(Capture) # {}
  BY <1>2 DEF Captured, NotCaptured
<1>4. ledger' \in [Identity -> AttemptRecord] /\ \A k \in Renewal : Rightly(k)
  <2>1. "success" \in Result /\ "permanent_fail" \in Result /\ i \in Identity BY Pairs DEF Result
  <2>2. ledger' = ledger \/ ledger' = Responded(i, "success") \/ ledger' = Responded(i, "permanent_fail")
    BY DEF Captured, NotCaptured
  <2>3. CASE ledger' = ledger BY <1>2, <2>3 DEF Rightly
  <2>4. ASSUME NEW result \in Result, ledger' = Responded(i, result)
        PROVE  ledger' \in [Identity -> AttemptRecord] /\ \A k \in Renewal : Rightly(k)
    <3>1. ledger' \in [Identity -> AttemptRecord] /\ \A k \in Identity \ {i} : ledger'[k] = ledger[k]
      BY <1>1, <2>1, <2>4, RespondedRow
    <3>2. QED BY <3>1, Pairs DEF Rightly
  <2>5. QED BY <2>1, <2>2, <2>3, <2>4
<1>5. Goes(c, p) BY <1>1, TurnsGoes DEF RenewalPoint
<1>6. AtPlace(clerk[c])' /\ ToldOf(clerk[c])' BY <1>5, PlainStands DEF Plain, Bound, Goes
<1>7. QED BY <1>2, <1>3, <1>4, <1>5, <1>6, BooksKeep

\* A run only ends.
LEMMA EndsKeep ==
  ASSUME RenewalInv, NEW c \in Clerk, NEW p \in {"end", "ack", "throw", "give_up"}, Turns(c, p),
         UNCHANGED <<provider, binding, ledger, charged, queue, stalls>>,
         windowOpen' \in BOOLEAN, reported' \in BOOLEAN
  PROVE  RenewalInv'
<1>1. RenewalTypeOK BY DEF RenewalInv
<1>2. Goes(c, p) BY <1>1, TurnsGoes DEF RenewalPoint
<1>3. AtPlace(clerk[c])' /\ ToldOf(clerk[c])' BY <1>2, PlainStands DEF Plain, Bound, Goes
<1>4. QED BY <1>2, <1>3, IdleKeeps

\* What a status says is true.
LEMMA StatusTrue ==
  /\ \A i \in Renewal : /\ "done" \in RenewalStatus(i) => request[i].fate = "done"
                        /\ "negative" \in RenewalStatus(i) => request[i].fate \in Decided
                        /\ RenewalStatus(i) \subseteq {"pending", "done", "negative"}
  /\ \A a : /\ "done" \in CaptureStatus(a) => Done(Capture) # {}
            /\ CaptureStatus(a) \subseteq {"pending", "done", "negative", "authorized"}
<1>1. ASSUME NEW i \in Renewal
      PROVE  /\ "done" \in RenewalStatus(i) => request[i].fate = "done"
             /\ "negative" \in RenewalStatus(i) => request[i].fate \in Decided
             /\ RenewalStatus(i) \subseteq {"pending", "done", "negative"}
  BY DEF RenewalStatus, Decided
<1>2. ASSUME NEW a
      PROVE  /\ "done" \in CaptureStatus(a) => Done(Capture) # {}
             /\ CaptureStatus(a) \subseteq {"pending", "done", "negative", "authorized"}
  <2> DEFINE fates == {request[i].fate : i \in {k \in Capture : request[k].on = a}}
  <2>1. CaptureStatus(a) =
          {"pending"} \cup (IF "done" \in fates THEN {"done"}
                            ELSE IF "wire" \in fates THEN {}
                            ELSE IF a \in lapsed \/ fates \cap {"declined", "unusable"} # {} THEN {"negative"} ELSE {"authorized"})
    BY DEF CaptureStatus
  <2>2. "done" \in fates => Done(Capture) # {} BY DEF Done
  <2> HIDE DEF fates
  <2>3. QED BY <2>1, <2>2
<1>3. QED BY <1>1, <1>2


\* What became of a capture is concluded from an answer or a status.
LEMMA ConclusionKeeps ==
  ASSUME RenewalInv, NEW c \in Clerk,
         ResolveCaptured(c) \/ ResolveFailed(c) \/ IngestOutcome(c) \/ ConcludeCaptured(c) \/ ConcludeNegative(c)
  PROVE  RenewalInv'
<1>1. RenewalTypeOK /\ AtPlace(clerk[c]) /\ ToldOf(clerk[c]) BY DEF RenewalInv, Standing
<1>2. /\ ledger \in [Identity -> AttemptRecord] /\ reported \in BOOLEAN /\ windowOpen \in BOOLEAN /\ Its(c) = clerk[c].on
  BY <1>1, RenewalForms DEF Its
<1>3. UNCHANGED <<provider, binding, windowOpen, queue, stalls>>
  BY DEF ResolveCaptured, ResolveFailed, IngestOutcome, ConcludeCaptured, ConcludeNegative
<1>4. windowOpen' \in BOOLEAN BY <1>2, <1>3
<1>5. CASE ResolveCaptured(c)
  <2>1. Its(c) \in Capture BY <1>1, <1>2, <1>5 DEF ResolveCaptured, Is, AtPlace
  <2>2. Captured(Its(c)) /\ Turns(c, "end") /\ Done(Capture) # {} BY <1>5, StatusTrue DEF ResolveCaptured
  <2>3. QED BY <1>3, <2>1, <2>2, OutcomeKeeps
<1>6. CASE ResolveFailed(c)
  <2>1. Its(c) \in Capture BY <1>1, <1>2, <1>6 DEF ResolveFailed, Is, AtPlace
  <2>2. \/ Turns(c, "throw") /\ UNCHANGED <<charged, ledger, reported>>
        \/ NotCaptured(Its(c)) /\ Turns(c, "end") /\ UNCHANGED reported
    BY <1>6 DEF ResolveFailed
  <2>3. CASE Turns(c, "throw") /\ UNCHANGED <<charged, ledger, reported>> BY <1>2, <1>3, <1>4, <2>3, EndsKeep
  <2>4. CASE NotCaptured(Its(c)) /\ Turns(c, "end") /\ UNCHANGED reported BY <1>3, <2>1, <2>4, OutcomeKeeps
  <2>5. QED BY <2>2, <2>3, <2>4
<1>7. CASE IngestOutcome(c)
  <2>1. Its(c) \in Capture BY <1>1, <1>2, <1>7 DEF IngestOutcome, Is, AtPlace
  <2>2. clerk[c].seen = "done" => Done(Capture) # {} BY <1>1, <1>2, <1>7, <2>1 DEF IngestOutcome, Is, ToldOf, Done
  <2>3. QED BY <1>3, <1>7, <2>1, <2>2, OutcomeKeeps DEF IngestOutcome
<1>8. CASE ConcludeCaptured(c)
  <2>1. Its(c) \in Capture /\ Captured(Its(c)) /\ Turns(c, "ack") BY <1>8 DEF ConcludeCaptured
  <2>2. Done(Capture) # {} BY <1>1, <1>2, <1>8 DEF ConcludeCaptured, Is, ToldOf
  <2>3. QED BY <1>3, <2>1, <2>2, OutcomeKeeps
<1>9. CASE ConcludeNegative(c)
  <2>1. Its(c) \in Identity BY <1>1, <1>2, <1>9 DEF ConcludeNegative, Is, AtPlace
  <2>2. \/ \E p \in {"give_up", "throw"} : Turns(c, p) /\ UNCHANGED <<charged, ledger>> /\ reported' \in BOOLEAN
        \/ Turns(c, "ack") /\ Its(c) \in Capture /\ NotCaptured(Its(c)) /\ UNCHANGED reported
        \/ /\ Turns(c, "ack") /\ Its(c) \in Renewal /\ UNCHANGED <<charged, reported>>
           /\ ledger' = ledger \/ ledger' = Responded(Its(c), "permanent_fail")
    BY <1>2, <1>9, <2>1, Pairs DEF ConcludeNegative
  <2>3. ASSUME NEW p \in {"give_up", "throw"}, Turns(c, p), UNCHANGED <<charged, ledger>>, reported' \in BOOLEAN
        PROVE  RenewalInv'
    BY <1>3, <1>4, <2>3, EndsKeep
  <2>4. CASE Turns(c, "ack") /\ Its(c) \in Capture /\ NotCaptured(Its(c)) /\ UNCHANGED reported
    BY <1>3, <2>4, OutcomeKeeps
  <2>5. CASE /\ Turns(c, "ack") /\ Its(c) \in Renewal /\ UNCHANGED <<charged, reported>>
             /\ ledger' = ledger \/ ledger' = Responded(Its(c), "permanent_fail")
    <3> DEFINE i == Its(c)
    <3>1. i \in Renewal /\ i \in Identity /\ request[i].fate \in Decided
      BY <1>1, <1>2, <1>9, <2>5, Pairs DEF ConcludeNegative, Is, ToldOf, Decided
    <3>2. Goes(c, "ack") BY <1>1, <2>5, TurnsGoes DEF RenewalPoint
    <3>3. Plain(c, "ack") BY DEF Plain, Bound
    <3>4. ledger' = ledger \/ ledger' = Responded(i, "permanent_fail") BY <2>5
    <3>5. "permanent_fail" \in Result BY DEF Result
    <3> HIDE DEF i
    <3>6. ledger' \in [Identity -> AttemptRecord] /\ \A k \in Renewal : Rightly(k)
      <4>1. CASE ledger' = ledger BY <1>2, <4>1 DEF Rightly
      <4>2. CASE ledger' = Responded(i, "permanent_fail")
        <5>1. /\ ledger' \in [Identity -> AttemptRecord] /\ ledger'[i].result = "permanent_fail"
              /\ \A k \in Identity \ {i} : ledger'[k] = ledger[k]
          BY <1>1, <3>1, <3>5, <4>2, RespondedRow
        <5>2. QED BY <3>1, <5>1, Pairs DEF Rightly
      <4>3. QED BY <3>4, <4>1, <4>2
    <3>7. QED BY <1>2, <1>3, <2>5, <3>2, <3>3, <3>6, RowsKeep
  <2>6. QED BY <2>2, <2>3, <2>4, <2>5
<1>10. QED BY <1>5, <1>6, <1>7, <1>8, <1>9

-----------------------------------------------------------------------------
(* Renewals: the reconcile job.                                              *)

\* A reconcile job is enqueued for a request.
LEMMA ScheduledWrites ==
  ASSUME RenewalTypeOK, NEW i \in Identity, NEW ref \in Authorization \cup {None}, Scheduled(i, ref)
  PROVE  /\ chore' \in ChoreTable /\ subject' \in SubjectRecord /\ reported' \in BOOLEAN
         /\ subject' = subject \/ subject'.of \in Identity
         /\ chore["payment_reconcile"] # "none" \/ subject'.of \in Identity
<1>1. chore \in ChoreTable /\ subject \in SubjectRecord /\ reported \in BOOLEAN BY RenewalForms
<1>2. chore' = chore \/ chore' = [chore EXCEPT !["payment_reconcile"] = "pending"] BY DEF Scheduled, Enqueued
<1>3. chore' \in ChoreTable BY <1>1, <1>2 DEF ChoreTable
<1>4. (subject' = subject /\ Alive("payment_reconcile")) \/ subject' = [of |-> i, ref |-> ref] BY DEF Scheduled
<1>5. [of |-> i, ref |-> ref] \in SubjectRecord BY DEF SubjectRecord
<1>6. reported' \in BOOLEAN BY <1>1 DEF Scheduled
<1>7. QED BY <1>1, <1>3, <1>4, <1>5, <1>6 DEF Alive

\* A charge_deal run ends, or asks for a look at the request.
LEMMA ChargeEndKeeps ==
  ASSUME RenewalInv, NEW c \in Clerk, ScheduleReconcile(c) \/ EndOfCharge(c) \/ WakeCharge(c)
  PROVE  RenewalInv'
<1>1. RenewalTypeOK /\ AtPlace(clerk[c]) BY DEF RenewalInv, Standing
<1>2. /\ ledger \in [Identity -> AttemptRecord] /\ reported \in BOOLEAN /\ windowOpen \in BOOLEAN
      /\ clerk[c] \in ClerkRecord /\ chore \in ChoreTable
  BY <1>1, RenewalForms
<1>3. CASE ScheduleReconcile(c)
  <2> DEFINE i == Its(c)
             ref == IF i \in Renewal THEN ledger[i].ref ELSE clerk[c].auth
  <2>1. i \in Identity /\ ref \in Authorization \cup {None}
    BY <1>1, <1>2, <1>3 DEF ScheduleReconcile, Is, Its, AtPlace, AttemptRecord, ClerkRecord
  <2>2. Scheduled(i, ref) /\ Turns(c, "end") /\ UNCHANGED <<provider, records, stalls>> BY <1>3 DEF ScheduleReconcile
  <2> HIDE DEF i, ref
  <2>3. /\ chore' \in ChoreTable /\ subject' \in SubjectRecord /\ reported' \in BOOLEAN
        /\ subject' = subject \/ subject'.of \in Identity
        /\ chore["payment_reconcile"] # "none" \/ subject'.of \in Identity
    BY <1>1, <2>1, <2>2, ScheduledWrites
  <2>4. Goes(c, "end") BY <1>1, <2>2, TurnsGoes DEF RenewalPoint
  <2>5. RenewalTypeOK' BY <1>1, <2>2, <2>3, <2>4, RenewalForms, RenewalFormsNext DEF Goes, provider, records
  <2>6. Follows(c) BY <2>2, <2>3, <2>4 DEF Follows, Goes, provider, records
  <2>7. AtPlace(clerk[c])' /\ ToldOf(clerk[c])' BY <2>4, PlainStands DEF Plain, Bound, Goes
  <2>8. QED BY <2>5, <2>6, <2>7, RenewalFollows
<1>4. CASE EndOfCharge(c)
  <2>1. PICK p \in {"ack", "throw"} : Turns(c, p) BY <1>4 DEF EndOfCharge
  <2>2. QED BY <1>2, <1>4, <2>1, EndsKeep DEF EndOfCharge
<1>5. CASE WakeCharge(c)
  <2>1. Goes(c, "ack") BY <1>1, <1>5, TurnsGoes DEF WakeCharge, RenewalPoint
  <2>2. AtPlace(clerk[c])' /\ ToldOf(clerk[c])' BY <2>1, PlainStands DEF Plain, Bound, Goes
  <2>3. chore' = chore \/ chore' = [chore EXCEPT !["charge_deal"] = "pending"] BY <1>5 DEF WakeCharge, Enqueued
  <2>4. chore' \in ChoreTable /\ chore'["payment_reconcile"] = chore["payment_reconcile"] BY <1>2, <2>3 DEF ChoreTable, Chore
  <2>5. QED BY <1>2, <1>5, <2>1, <2>2, <2>4, PlainKeeps DEF WakeCharge, records
<1>6. QED BY <1>3, <1>4, <1>5


\* The reconcile run begins, looks and reads.
LEMMA ReconcileKeeps ==
  ASSUME RenewalInv, NEW c \in Clerk, ReconcileBegins(c) \/ ReconcileLooks(c) \/ ReconcileReads(c)
  PROVE  RenewalInv'
<1>1. RenewalTypeOK /\ AtPlace(clerk[c]) /\ Its(c) = clerk[c].on BY DEF RenewalInv, Standing, Its
<1>2. /\ ledger \in [Identity -> AttemptRecord] /\ reported \in BOOLEAN /\ windowOpen \in BOOLEAN
      /\ binding \in BindingRecord /\ subject \in SubjectRecord
  BY <1>1, RenewalForms
<1>3. Its(c) \in Identity
  BY <1>1 DEF ReconcileBegins, ReconcileLooks, ReconcileReads, Is, AtPlace
<1>4. CASE ReconcileBegins(c)
  <2> DEFINE i == Its(c)
  <2>1. UNCHANGED <<provider, binding, charged, windowOpen, queue, stalls>> BY <1>4 DEF ReconcileBegins
  <2>2. \/ /\ Turns(c, "ack") /\ reported' \in BOOLEAN
           /\ ledger' = ledger \/ \E type \in {Capture, Renewal} : ledger' = Retired(type)
        \/ /\ UNCHANGED <<ledger, reported>>
           /\ clerk' = [clerk EXCEPT ![c].pc = "flight",
                ![c].auth = IF i \in Renewal
                            THEN IF ledger[i].ref = binding.auth THEN None ELSE ledger[i].ref
                            ELSE IF subject.ref = None THEN binding.auth ELSE subject.ref]
    BY <1>2, <1>4 DEF ReconcileBegins
  <2>3. CASE /\ Turns(c, "ack") /\ reported' \in BOOLEAN
             /\ ledger' = ledger \/ \E type \in {Capture, Renewal} : ledger' = Retired(type)
    <3>1. Goes(c, "ack") BY <1>1, <2>3, TurnsGoes DEF RenewalPoint
    <3>2. Plain(c, "ack") BY DEF Plain, Bound
    <3>3. /\ ledger' \in [Identity -> AttemptRecord]
          /\ \A k \in Identity : ledger'[k].result \in {ledger[k].result, "temporary_fail"}
      BY <1>1, <1>2, <2>3, RetiredRows
    <3>4. \A k \in Renewal : Rightly(k) BY <3>3, Pairs DEF Rightly
    <3>5. QED BY <2>1, <2>3, <3>1, <3>2, <3>3, <3>4, RowsKeep
  <2>4. CASE /\ UNCHANGED <<ledger, reported>>
             /\ clerk' = [clerk EXCEPT ![c].pc = "flight",
                  ![c].auth = IF i \in Renewal
                              THEN IF ledger[i].ref = binding.auth THEN None ELSE ledger[i].ref
                              ELSE IF subject.ref = None THEN binding.auth ELSE subject.ref]
    <3> DEFINE a == IF i \in Renewal
                    THEN IF ledger[i].ref = binding.auth THEN None ELSE ledger[i].ref
                    ELSE IF subject.ref = None THEN binding.auth ELSE subject.ref
               p == "flight"
    <3>1. a \in Authorization \cup {None} BY <1>2, <1>3 DEF AttemptRecord, BindingRecord, SubjectRecord
    <3>2. p \in RenewalPoint /\ p \notin Bound /\ p = "flight" BY DEF RenewalPoint, Bound
    <3>3. clerk' = [clerk EXCEPT ![c].pc = p, ![c].auth = a] BY <2>4
    <3> HIDE DEF a, p, i
    <3>4. Goes(c, p) /\ clerk'[c].on = clerk[c].on BY <1>1, <3>1, <3>2, <3>3, GoesWithAuthorization
    <3>5. Plain(c, p) BY <1>1, <1>3, <3>2, <3>4 DEF Plain
    <3>6. AtPlace(clerk[c])' /\ ToldOf(clerk[c])' BY <3>4, <3>5, PlainStands DEF Goes
    <3>7. QED BY <1>2, <2>1, <2>4, <3>4, <3>6, IdleKeeps
  <2>5. QED BY <2>2, <2>3, <2>4
<1>5. CASE ReconcileLooks(c)
  <2>1. UNCHANGED <<provider, binding, ledger, charged, queue, stalls>> /\ windowOpen' \in BOOLEAN /\ reported' \in BOOLEAN
    BY <1>2, <1>5 DEF ReconcileLooks, records
  <2>2. Turns(c, "throw") \/ Turns(c, "ack") \/ Turns(c, "status") BY <1>5 DEF ReconcileLooks
  <2>3. CASE Turns(c, "throw") \/ Turns(c, "ack") BY <2>1, <2>3, EndsKeep
  <2>4. CASE Turns(c, "status")
    <3>1. Goes(c, "status") /\ clerk'[c].on = clerk[c].on BY <1>1, <2>4, TurnsGoes DEF RenewalPoint, Ending
    <3>2. AtPlace(clerk[c])' /\ ToldOf(clerk[c])' BY <1>1, <1>3, <3>1, PlainStands DEF Plain, Bound, Goes
    <3>3. QED BY <2>1, <3>1, <3>2, IdleKeeps
  <2>5. QED BY <2>2, <2>3, <2>4
<1>6. CASE ReconcileReads(c)
  <2>1. UNCHANGED <<provider, binding, ledger, charged, queue, stalls>> /\ windowOpen' \in BOOLEAN /\ reported' \in BOOLEAN
    BY <1>2, <1>6 DEF ReconcileReads, records
  <2>2. PICK v \in (IF Its(c) \in Renewal THEN RenewalStatus(Its(c)) ELSE CaptureStatus(clerk[c].auth)) :
          IF v = "pending" THEN Turns(c, "throw") ELSE TurnsKnowing(c, "conclude", v)
    BY <1>6 DEF ReconcileReads
  <2>3. CASE Turns(c, "throw") BY <2>1, <2>3, EndsKeep
  <2>4. CASE TurnsKnowing(c, "conclude", v) /\ v # "pending"
    <3>1. /\ Its(c) \in Renewal => /\ v = "done" => request[Its(c)].fate = "done"
                                   /\ v = "negative" => request[Its(c)].fate \in Decided
                                   /\ v # "authorized"
          /\ Its(c) \in Capture => (v = "done" => Done(Capture) # {})
          /\ v \in Sight
      BY <1>3, <2>2, StatusTrue, Pairs DEF Sight
    <3>2. Goes(c, "conclude") /\ clerk'[c].on = Its(c) /\ clerk'[c].seen = v
      BY <1>1, <2>4, <3>1, TurnsKnowingGoes DEF RenewalPoint
    <3>3. AtPlace(clerk[c])' BY <1>3, <3>2 DEF AtPlace, Goes, Bound
    <3>4. request' = request BY <2>1 DEF provider
    <3>5. ToldOf(clerk[c])' BY <3>1, <3>2, <3>4 DEF ToldOf, Goes, Done
    <3>6. QED BY <2>1, <3>2, <3>3, <3>5, IdleKeeps
  <2>5. QED BY <2>2, <2>3, <2>4
<1>7. QED BY <1>4, <1>5, <1>6

-----------------------------------------------------------------------------
(* Renewals: the sweep and the provider.                                     *)

\* A step of no run.
LEMMA OutsideKeeps ==
  ASSUME RenewalInv,
         \/ \E i \in Identity : SweepOrphan(i) \/ LoseRequest(i)
         \/ \E i \in Renewal : ExecuteRenewal(i)
         \/ \E i \in Capture : ExecuteCapture(i)
         \/ \E a \in Authorization : Lapses(a)
  PROVE  RenewalInv'
<1>1. RenewalTypeOK BY DEF RenewalInv
<1>2. /\ ledger \in [Identity -> AttemptRecord] /\ binding \in BindingRecord
      /\ request \in [Identity -> RequestRecord] /\ lapsed \subseteq Authorization
  BY <1>1, RenewalForms
<1>3. "null" \notin Clerk /\ Clerk \ {"null"} = Clerk BY RenewalAssumption
<1>4. ASSUME NEW i \in Identity, SweepOrphan(i) PROVE RenewalInv'
  <2> DEFINE ref == IF i \in Renewal THEN ledger[i].ref ELSE binding.auth
  <2>1. ref \in Authorization \cup {None} BY <1>2 DEF AttemptRecord, BindingRecord
  <2>2. Scheduled(i, ref) /\ UNCHANGED <<provider, records, clerk, stalls>> BY <1>4 DEF SweepOrphan
  <2> HIDE DEF ref
  <2>3. /\ chore' \in ChoreTable /\ subject' \in SubjectRecord /\ reported' \in BOOLEAN
        /\ subject' = subject \/ subject'.of \in Identity
        /\ chore["payment_reconcile"] # "none" \/ subject'.of \in Identity
    BY <1>1, <2>1, <2>2, ScheduledWrites
  <2>4. RenewalTypeOK' BY <1>1, <2>2, <2>3, RenewalForms, RenewalFormsNext DEF provider, records
  <2>5. Follows("null") BY <1>3, <2>2, <2>3 DEF Follows, provider, records
  <2>6. QED BY <1>3, <2>4, <2>5, RenewalFollows
<1>5. ASSUME NEW i \in Identity, NEW f \in {"unsent", "done", "pending", "declined", "unusable"}, Becomes(i, f),
             request[i].fate \in {"wire", "pending"}
      PROVE  RenewalInv'
  <2> DEFINE w == [request[i] EXCEPT !.fate = f]
  <2>1. w \in RequestRecord BY <1>2 DEF RequestRecord
  <2>2. request' = [request EXCEPT ![i] = w] /\ UNCHANGED <<conclusive, declares, lapsed, records, queue, clerk, reported, stalls>>
    BY <1>2, <1>5 DEF Becomes
  <2> HIDE DEF w
  <2>3. /\ request' \in [Identity -> RequestRecord]
        /\ \A k \in Identity : request[k].fate \in Decided => request'[k].fate = request[k].fate
    BY <1>2, <1>5, <2>1, <2>2 DEF Decided
  <2>4. RenewalTypeOK' BY <1>1, <2>2, <2>3, RenewalForms, RenewalFormsNext DEF records, queue
  <2>5. Follows("null") BY <1>3, <2>2, <2>3 DEF Follows, records, queue
  <2>6. QED BY <1>3, <2>4, <2>5, RenewalFollows
<1>6. ASSUME NEW a \in Authorization, Lapses(a) PROVE RenewalInv'
  <2>1. lapsed' \subseteq Authorization /\ UNCHANGED <<conclusive, declares, request, records, queue, clerk, reported, stalls>>
    BY <1>2, <1>6 DEF Lapses
  <2>2. RenewalTypeOK' BY <1>1, <2>1, RenewalForms, RenewalFormsNext DEF records, queue
  <2>3. Follows("null") BY <1>3, <2>1 DEF Follows, records, queue
  <2>4. QED BY <1>3, <2>2, <2>3, RenewalFollows
<1>7. ASSUME NEW i \in Identity, LoseRequest(i) PROVE RenewalInv' BY <1>5, <1>7 DEF LoseRequest
<1>8. ASSUME NEW i \in Renewal, ExecuteRenewal(i) PROVE RenewalInv' BY <1>5, <1>8, Pairs DEF ExecuteRenewal
<1>9. ASSUME NEW i \in Capture, ExecuteCapture(i) PROVE RenewalInv'
  <2>1. PICK f \in {"unusable", "done", "declined"} : Becomes(i, f) BY <1>9 DEF ExecuteCapture
  <2>2. QED BY <1>5, <1>9, <2>1, Pairs DEF ExecuteCapture
<1>10. QED BY <1>4, <1>6, <1>7, <1>8, <1>9

-----------------------------------------------------------------------------
(* Renewals: the theorems.                                                   *)

\* It holds at the start: nothing is sent, nothing decided.
LEMMA RenewalBegins == RenewalInit => RenewalInv
<1> SUFFICES ASSUME RenewalInit PROVE RenewalInv OBVIOUS
<1>2. RenewalTypeOK
  <2>1. conclusive \in BOOLEAN /\ declares \in BOOLEAN BY RenewalAssumption DEF RenewalInit
  <2>2. 0 \in Authorization /\ 0 \in 0..MaxRenewals /\ 0 \in 0..MaxTurns BY Pairs DEF Authorization
  <2>3. Idle \in ClerkRecord BY DEF Idle, ClerkRecord, RenewalPoint, Sight
  <2>4. NoAttempt \in AttemptRecord BY DEF NoAttempt, AttemptRecord
  <2>5. NoSubject \in SubjectRecord BY DEF NoSubject, SubjectRecord
  <2>6. binding \in BindingRecord BY <2>2 DEF RenewalInit, BindingRecord
  <2>7. request \in [Identity -> RequestRecord] BY <2>2 DEF RenewalInit, RequestRecord
  <2>8. chore \in ChoreTable BY DEF RenewalInit, ChoreTable
  <2>9. clerk \in [Clerk -> ClerkRecord] /\ ledger \in [Identity -> AttemptRecord] /\ subject \in SubjectRecord
    BY <2>3, <2>4, <2>5 DEF RenewalInit
  <2>10. QED BY <2>1, <2>2, <2>6, <2>7, <2>8, <2>9
      DEF RenewalInit, RenewalTypeOK, BindingRecord, AttemptRecord, ChoreTable, SubjectRecord, ClerkRecord, RenewalPoint,
          Sight, RequestRecord
<1>3. \A c \in Clerk : clerk[c] = Idle BY DEF RenewalInit
<1>4. Standing BY <1>3 DEF Standing, AtPlace, ToldOf, Idle, Bound
<1>5. SubjectKnown BY <1>3 DEF SubjectKnown, RenewalInit, Chore, Idle
<1>6. RenewalsAreTrue BY Pairs DEF RenewalInit, RenewalsAreTrue, Terminal, NoAttempt
<1>7. QED BY <1>2, <1>4, <1>5, <1>6 DEF RenewalInv

\* Every step keeps it.
LEMMA RenewalStep == RenewalInv /\ [RenewalNext]_renewalVars => RenewalInv'
<1> SUFFICES ASSUME RenewalInv, [RenewalNext]_renewalVars PROVE RenewalInv' OBVIOUS
<1>1. CASE UNCHANGED renewalVars
  BY <1>1 DEF renewalVars, RenewalInv, RenewalTypeOK, Standing, AtPlace, ToldOf, Done, SubjectKnown, RenewalsAreTrue, Terminal
<1>2. ASSUME NEW c \in Clerk, ClerkSteps(c) PROVE RenewalInv'
  BY <1>2, TakeChoreKeeps, EndingKeeps, RenewKeeps, SuccessKeeps, VerdictKeeps, ArmKeeps, SendKeeps, AnswerKeeps, CaptureKeeps,
     CaptureAnswerKeeps, ConclusionKeeps, ChargeEndKeeps, ReconcileKeeps DEF ClerkSteps
<1>3. QED BY <1>1, <1>2, OutsideKeeps DEF RenewalNext

\* So it always holds.
LEMMA RenewalAlways == RenewalSpec => []RenewalInv
BY RenewalBegins, RenewalStep, PTL DEF RenewalSpec

\* Every variable of AuthorizationRenewal has its type.
THEOREM RenewalTypes == RenewalSpec => []RenewalTypeOK
<1>1. RenewalInv => RenewalTypeOK BY DEF RenewalInv
<1>2. QED BY <1>1, RenewalAlways, PTL

\* Whatever runs lose their lease, stop or answer late, however often: the ledger
\* closes a renewal, and the binding refers to one, only as the provider decided
\* it, and the participant is charged in the books only when he was (the
\* settlement by the run, by ApplyProven and by payment_reconcile).
THEOREM RenewalsTrue == RenewalSpec => []RenewalsAreTrue
<1>1. RenewalInv => RenewalsAreTrue BY DEF RenewalInv
<1>2. QED BY <1>1, RenewalAlways, PTL

-----------------------------------------------------------------------------
(* Nobody passed over: the invariant.                                        *)

ChargePlace == Bound \cup {"gate", "schedule", "end"}
ReconcilePlace == {"begin", "flight", "status", "conclude", "wake", "give_up"}

\* The rows of the participant: what was not begun is blank; what is dispatching
\* is unresolved; while no lease was lost a renewal that is recorded was not
\* answered; renewals are minted in order.
BlankRows == \A i \in Identity : ledger[i].result = "none" => ledger[i].dispatch = "recorded" /\ ledger[i].ref = None
OpenRows == \A i \in Identity : ledger[i].dispatch = "dispatching" => ledger[i].result = "unknown"
FreshRows == stalls = 0 => \A i \in Renewal : ledger[i].dispatch = "recorded" => ledger[i].ref = None
Numbered == \E n \in 0..MaxRenewals : Minted(Renewal) = {"reauthorize"} \X (1..n)
RowsStand == BlankRows /\ OpenRows /\ FreshRows /\ Numbered

\* A job has one live run at most.
LiveOne ==
  \A c \in Clerk : clerk[c].live =>
    /\ clerk[c].chore \in Chore /\ chore[clerk[c].chore] = "processing"
    /\ \A d \in Clerk : clerk[d].live /\ clerk[d].chore = clerk[c].chore => d = c

\* Why charge_deal may be over for a participant who waits.
Excused == reported \/ (stalls > 0 /\ \E i \in Renewal : Terminal(i))
Waiting == charged = "ChargeAttempt" /\ Minted(Capture) = {}
JobsStand ==
  /\ LiveOne /\ chore["charge_deal"] # "none"
  /\ chore["charge_deal"] = "sent" /\ Waiting => Excused

\* A run: it has its lease or some lease was lost; it is where its job leads; what
\* it works on was begun; what it owns it is sending, or it failed.
StallCounted(c) == clerk[c].pc # "free" /\ ~clerk[c].live => stalls > 0
OnSide(c) ==
  /\ clerk[c].pc \in ChargePlace => clerk[c].chore = "charge_deal"
  /\ clerk[c].pc \in ReconcilePlace => clerk[c].chore = "payment_reconcile"
  /\ clerk[c].pc = "free" => ~clerk[c].live
BegunAt(c) ==
  /\ clerk[c].pc \in {"prove", "arm", "send", "await", "settle", "resolve"} => ledger[clerk[c].on].result # "none"
  /\ clerk[c].on \in Renewal /\ clerk[c].pc \in {"apply", "close", "flight", "status", "conclude"} => ledger[clerk[c].on].result # "none"
OwnsAt(c) ==
  \A i \in Identity : ledger[i].dispatch = "dispatching" /\ ledger[i].owner = c =>
    /\ clerk[c].chore = "charge_deal"
    /\ clerk[c].pc = "throw" \/ (clerk[c].pc \in {"send", "await", "settle"} /\ clerk[c].on = i)
\* While no lease was lost only a renewal that was not answered is sent, and it is
\* not decided when it is armed: a reconcile run looks only at answered ones.
UnnamedAt(c) ==
  stalls = 0 /\ clerk[c].on \in Renewal =>
    /\ clerk[c].pc \in {"arm", "send", "await", "settle"} => ledger[clerk[c].on].ref = None
    /\ clerk[c].pc = "arm" \/ (clerk[c].pc = "prove" /\ ledger[clerk[c].on].ref = None) => ~Terminal(clerk[c].on)
LookedAt(c) ==
  clerk[c].on \in Renewal =>
    /\ clerk[c].pc \in {"status", "conclude"} => ledger[clerk[c].on].ref # None
    /\ clerk[c].pc = "flight" /\ clerk[c].auth # None => ledger[clerk[c].on].ref # None
\* A live charge_deal keeps its renewal from being retired.
NotRetiredAt(c) ==
  clerk[c].live /\ clerk[c].pc \in {"prove", "arm"} /\ clerk[c].on \in Renewal /\ charged = "ChargeAttempt" =>
    ledger[clerk[c].on].result # "temporary_fail"
EndsAt(c) ==
  clerk[c].chore = "charge_deal" /\ (clerk[c].pc = "ack" \/ (clerk[c].pc \in {"end", "schedule"} /\ ~clerk[c].hold)) /\ Waiting =>
    Excused
RunStands(c) ==
  StallCounted(c) /\ OnSide(c) /\ BegunAt(c) /\ OwnsAt(c) /\ UnnamedAt(c) /\ LookedAt(c) /\ NotRetiredAt(c) /\ EndsAt(c)

PassInv == RowsStand /\ JobsStand /\ \A c \in Clerk : RunStands(c)

-----------------------------------------------------------------------------
(* Nobody passed over: what a step moves.                                    *)

\* What a step of run c, or of no run, may do to row i.
RowGoes(c, i) ==
  /\ ledger[i].result # "none" => ledger'[i].result # "none"
  /\ ledger'[i].result = "none" => ledger'[i].dispatch = "recorded" /\ ledger'[i].ref = None
  /\ ledger'[i].dispatch = "dispatching" => ledger'[i].result = "unknown"
  /\ i \in Renewal =>
       /\ stalls' = 0 /\ ledger'[i].dispatch = "recorded" => ledger'[i].ref = None
       /\ Terminal(i) => Terminal(i)'
       /\ ledger[i].ref # None => ledger'[i].ref # None
       /\ (ledger[i].ref = None /\ ledger'[i].ref # None) \/ (~Terminal(i) /\ Terminal(i)') =>
            c \in Clerk /\ clerk[c].on = i /\ clerk[c].pc \in {"apply", "close", "settle", "conclude"}
       /\ ledger'[i].result = "temporary_fail" =>
            ledger[i].result = "temporary_fail" \/ charged # "ChargeAttempt" \/ ~Alive("charge_deal")
  /\ \A d \in Clerk : ledger'[i].dispatch = "dispatching" /\ ledger'[i].owner = d =>
       \/ ledger[i].dispatch = "dispatching" /\ ledger[i].owner = d
       \/ d = c /\ clerk'[c].pc = "send" /\ clerk'[c].on = i
RowsGo(c) == Numbered' /\ \A i \in Identity : RowGoes(c, i)

\* Then the invariant holds again, if it does for the run itself.
LEMMA PassFollows ==
  ASSUME RenewalInv, PassInv, NEW c, RowsGo(c), \A d \in Clerk \ {c} : clerk'[d] = clerk[d],
         stalls' = 0 => stalls = 0, stalls' \in Nat, reported => reported',
         charged' = "ChargeAttempt" => charged = "ChargeAttempt",
         LiveOne', chore'["charge_deal"] # "none",
         chore'["charge_deal"] = "sent" =>
           chore["charge_deal"] = "sent" \/ (c \in Clerk /\ clerk[c].pc = "ack" /\ clerk[c].chore = "charge_deal"),
         c \in Clerk => RunStands(c)'
  PROVE  PassInv'
<1>0. RenewalTypeOK BY DEF RenewalInv
<1>1. RowsStand'
  BY Pairs DEF RowsGo, RowGoes, RowsStand, BlankRows, OpenRows, FreshRows
<1>2. Waiting' => Waiting
  <2>1. \A i \in Capture : ledger[i].result # "none" => ledger'[i].result # "none" BY Pairs DEF RowsGo, RowGoes
  <2>2. QED BY <2>1 DEF Waiting, Minted
<1>3. stalls \in Nat BY <1>0, Pairs, RenewalForms
<1>4. \A i \in Renewal : Terminal(i) => Terminal(i)' BY Pairs DEF RowsGo, RowGoes
<1>5. Excused => Excused' BY <1>3, <1>4 DEF Excused
<1>6. JobsStand' BY <1>2, <1>5 DEF JobsStand, PassInv, RunStands, EndsAt
<1>7. ASSUME NEW d \in Clerk, d # c PROVE RunStands(d)'
  <2>1. clerk'[d] = clerk[d] /\ RunStands(d) BY <1>7 DEF PassInv
  <2>2. StallCounted(d)' /\ OnSide(d)' BY <1>3, <2>1 DEF RunStands, StallCounted, OnSide
  <2>3. BegunAt(d)'
    <3>1. AtPlace(clerk[d]) BY DEF RenewalInv, Standing
    <3>2. \A i \in Identity : ledger[i].result # "none" => ledger'[i].result # "none" BY DEF RowsGo, RowGoes
    <3>3. QED BY <2>1, <3>1, <3>2, Pairs DEF RunStands, BegunAt, AtPlace
  <2>4. OwnsAt(d)'
    <3>1. \A i \in Identity : ledger'[i].dispatch = "dispatching" /\ ledger'[i].owner = d =>
            ledger[i].dispatch = "dispatching" /\ ledger[i].owner = d
      BY <1>7 DEF RowsGo, RowGoes
    <3>2. QED BY <2>1, <3>1 DEF RunStands, OwnsAt
  <2>5. UnnamedAt(d)'
    <3> SUFFICES ASSUME stalls' = 0, clerk[d].on \in Renewal, clerk[d].pc \in {"arm", "send", "await", "settle", "prove"}
                 PROVE  /\ clerk[d].pc # "prove" => ledger'[clerk[d].on].ref = None
                        /\ clerk[d].pc = "arm" \/ (clerk[d].pc = "prove" /\ ledger'[clerk[d].on].ref = None) =>
                             ~Terminal(clerk[d].on)'
      BY <2>1 DEF UnnamedAt
    <3> DEFINE i == clerk[d].on
    <3>1. i \in Renewal /\ i \in Identity /\ stalls = 0 BY Pairs
    <3>2. /\ clerk[d].pc # "prove" => ledger[i].ref = None
          /\ clerk[d].pc = "arm" \/ (clerk[d].pc = "prove" /\ ledger[i].ref = None) => ~Terminal(i)
      BY <2>1, <3>1 DEF RunStands, UnnamedAt
    <3>3. ledger[i].ref # None => ledger'[i].ref # None BY <3>1 DEF RowsGo, RowGoes
    <3>4. CASE ledger[i].ref # None BY <3>2, <3>3, <3>4
    <3>5. CASE ledger[i].ref = None /\ (ledger'[i].ref = None /\ (Terminal(i)' => Terminal(i)))
      BY <3>2, <3>5
    <3>6. CASE ledger[i].ref = None /\ ~(ledger'[i].ref = None /\ (Terminal(i)' => Terminal(i)))
      <4>0. /\ RowGoes(c, i)
            /\ (ledger[i].ref = None /\ ledger'[i].ref # None) \/ (~Terminal(i) /\ Terminal(i)')
        BY <3>1, <3>6 DEF RowsGo
      <4>1. c \in Clerk /\ clerk[c].on = i /\ clerk[c].pc \in {"apply", "close", "settle", "conclude"}
        BY <3>1, <4>0 DEF RowGoes, Terminal
      <4>2. RunStands(c) BY <4>1 DEF PassInv
      <4>3. clerk[c].pc # "conclude" BY <3>1, <3>6, <4>1, <4>2 DEF RunStands, LookedAt
      <4>4. clerk[c].chore = "charge_deal" BY <4>1, <4>2, <4>3 DEF RunStands, OnSide, ChargePlace, Bound
      <4>5. clerk[d].chore = "charge_deal" BY <2>1 DEF RunStands, OnSide, ChargePlace, Bound
      <4>6. clerk[c].live \in BOOLEAN /\ clerk[d].live \in BOOLEAN BY <1>0, <4>1, RenewalForms DEF ClerkRecord
      <4>7. clerk[c].live /\ clerk[d].live BY <2>1, <3>1, <4>1, <4>2, <4>6 DEF RunStands, StallCounted
      <4>8. QED BY <1>7, <4>1, <4>4, <4>5, <4>7 DEF PassInv, JobsStand, LiveOne
    <3>7. QED BY <3>4, <3>5, <3>6
  <2>6. LookedAt(d)'
    <3>1. \A i \in Renewal : ledger[i].ref # None => ledger'[i].ref # None BY Pairs DEF RowsGo, RowGoes
    <3>2. QED BY <2>1, <3>1 DEF RunStands, LookedAt
  <2>7. NotRetiredAt(d)'
    <3> SUFFICES ASSUME clerk[d].live, clerk[d].pc \in {"prove", "arm"}, clerk[d].on \in Renewal, charged' = "ChargeAttempt",
                        ledger'[clerk[d].on].result = "temporary_fail"
                 PROVE  FALSE
      BY <2>1 DEF NotRetiredAt
    <3>1. clerk[d].chore = "charge_deal" BY <2>1 DEF RunStands, OnSide, ChargePlace, Bound
    <3>2. Alive("charge_deal") BY <3>1 DEF PassInv, JobsStand, LiveOne, Alive
    <3>3. ledger[clerk[d].on].result = "temporary_fail" BY <3>2, Pairs DEF RowsGo, RowGoes
    <3>4. QED BY <2>1, <3>3 DEF RunStands, NotRetiredAt
  <2>8. EndsAt(d)' BY <1>2, <1>5, <2>1 DEF RunStands, EndsAt
  <2>9. QED BY <2>2, <2>3, <2>4, <2>5, <2>6, <2>7, <2>8 DEF RunStands
<1>8. QED BY <1>1, <1>6, <1>7 DEF PassInv

\* A live run keeps its job when nothing but a dead job is enqueued.
LEMMA LiveStays ==
  ASSUME RenewalTypeOK, LiveOne, NEW c \in Clerk, NEW p, Goes(c, p),
         chore' = chore \/ \E j \in Chore : chore' = Enqueued(j)
  PROVE  /\ LiveOne' /\ (chore["charge_deal"] # "none" => chore'["charge_deal"] # "none")
         /\ chore'["charge_deal"] = "sent" => chore["charge_deal"] = "sent"
<1>1. chore \in ChoreTable BY RenewalForms
<1>2. \A j \in Chore : chore'[j] = chore[j] \/ (~Alive(j) /\ chore'[j] = "pending")
  BY <1>1 DEF Enqueued, Alive, ChoreTable
<1>3. \A d \in Clerk : clerk'[d].live = clerk[d].live /\ clerk'[d].chore = clerk[d].chore BY DEF Goes
<1>4. LiveOne' BY <1>2, <1>3 DEF LiveOne, Alive
<1>5. QED BY <1>2, <1>4 DEF Chore

\* Where a run has nothing to answer for.
Quiet == {"gate", "renew", "capture", "throw", "wake", "give_up", "begin"}

\* A step of a run that goes on.
LEMMA RunGoes ==
  ASSUME RenewalInv, PassInv, NEW c \in Clerk, NEW p, Goes(c, p), RowsGo(c), clerk[c].pc # "free",
         stalls' = stalls, reported => reported', charged' = "ChargeAttempt" => charged = "ChargeAttempt",
         chore' = chore \/ \E j \in Chore : chore' = Enqueued(j),
         \/ p = "throw"
         \/ clerk[c].pc \in ChargePlace /\ p \in ChargePlace \cup {"ack"}
         \/ clerk[c].pc \in ReconcilePlace /\ p \in ReconcilePlace \cup {"ack"},
         OwnsAt(c)',
         p \in Quiet \/ (BegunAt(c)' /\ UnnamedAt(c)' /\ LookedAt(c)' /\ NotRetiredAt(c)' /\ EndsAt(c)')
  PROVE  PassInv'
<1>1. RenewalTypeOK /\ LiveOne /\ chore["charge_deal"] # "none" /\ RunStands(c) BY DEF RenewalInv, PassInv, JobsStand
<1>2. /\ LiveOne' /\ chore'["charge_deal"] # "none"
      /\ chore'["charge_deal"] = "sent" => chore["charge_deal"] = "sent"
  BY <1>1, LiveStays
<1>3. stalls \in Nat BY <1>1, Pairs, RenewalForms
<1>4. clerk'[c].pc = p /\ clerk'[c].chore = clerk[c].chore /\ clerk'[c].live = clerk[c].live BY DEF Goes
<1>5. StallCounted(c)' BY <1>1, <1>4 DEF RunStands, StallCounted
<1>6. OnSide(c)' BY <1>1, <1>4 DEF RunStands, OnSide, ChargePlace, ReconcilePlace, Bound
<1>7. p \in Quiet => BegunAt(c)' /\ UnnamedAt(c)' /\ LookedAt(c)' /\ NotRetiredAt(c)' /\ EndsAt(c)'
  BY <1>4 DEF Quiet, BegunAt, UnnamedAt, LookedAt, NotRetiredAt, EndsAt
<1>8. RunStands(c)' BY <1>5, <1>6, <1>7 DEF RunStands
<1>9. \A d \in Clerk \ {c} : clerk'[d] = clerk[d] BY DEF Goes
<1>10. QED BY <1>2, <1>3, <1>8, <1>9, PassFollows

\* What a run owns: nothing outside the sending of a request, and there only that.
LEMMA OwnsStays ==
  ASSUME PassInv, NEW c \in Clerk, NEW p, Goes(c, p), RowsGo(c), p # "send",
         \/ clerk[c].pc \notin {"send", "await", "settle", "throw"}
         \/ p = "throw"
         \/ clerk[c].pc \in {"send", "await"} /\ p \in {"await", "settle"} /\ clerk'[c].on = clerk[c].on
         \/ clerk[c].pc = "settle" /\ ~(ledger'[clerk[c].on].dispatch = "dispatching" /\ ledger'[clerk[c].on].owner = c)
  PROVE  OwnsAt(c)'
<1>1. OwnsAt(c) BY DEF PassInv, RunStands
<1>2. clerk'[c].pc = p /\ clerk'[c].chore = clerk[c].chore BY DEF Goes
<1>3. \A i \in Identity : ledger'[i].dispatch = "dispatching" /\ ledger'[i].owner = c =>
        ledger[i].dispatch = "dispatching" /\ ledger[i].owner = c
  BY <1>2 DEF RowsGo, RowGoes
<1>4. QED BY <1>1, <1>2, <1>3 DEF OwnsAt

-----------------------------------------------------------------------------
(* Nobody passed over: how rows are written.                                 *)

\* A row that is left as it is.
LEMMA RowStill ==
  ASSUME PassInv, NEW c, NEW i \in Identity, ledger'[i] = ledger[i], stalls' = 0 => stalls = 0
  PROVE  RowGoes(c, i)
<1>1. BlankRows /\ OpenRows /\ FreshRows BY DEF PassInv, RowsStand
<1>2. Terminal(i)' <=> Terminal(i) BY DEF Terminal
<1>3. QED BY <1>1, <1>2 DEF RowGoes, BlankRows, OpenRows, FreshRows

\* No row is written.
LEMMA RowsStill ==
  ASSUME PassInv, NEW c, ledger' = ledger, stalls' = 0 => stalls = 0
  PROVE  RowsGo(c)
<1>1. \A i \in Identity : RowGoes(c, i) BY RowStill
<1>2. Numbered' BY DEF PassInv, RowsStand, Numbered, Minted
<1>3. QED BY <1>1, <1>2 DEF RowsGo

\* One row is written, and it was begun before if it is a renewal.
LEMMA OneRowGoes ==
  ASSUME PassInv, NEW c, NEW i \in Identity, \A k \in Identity \ {i} : ledger'[k] = ledger[k], stalls' = 0 => stalls = 0,
         RowGoes(c, i), i \in Renewal => ledger[i].result # "none"
  PROVE  RowsGo(c)
<1>1. \A k \in Identity : RowGoes(c, k) BY RowStill
<1>2. \A k \in Renewal : ledger'[k].result = "none" <=> ledger[k].result = "none"
  BY <1>1, Pairs DEF RowGoes
<1>3. Numbered' BY <1>2 DEF PassInv, RowsStand, Numbered, Minted
<1>4. QED BY <1>1, <1>3 DEF RowsGo

\* Renewal i is settled by the run that works on it.
Settling(c, i) == c \in Clerk /\ clerk[c].on = i /\ clerk[c].pc \in {"apply", "close", "settle", "conclude"}

\* A row is answered; what was decided stays decided.
LEMMA RespondedGoes ==
  ASSUME RenewalTypeOK, PassInv, NEW c, NEW i \in Identity, NEW result \in Result \ {"none", "temporary_fail"},
         ledger' = Responded(i, result), stalls' = 0 => stalls = 0,
         i \in Renewal => /\ Settling(c, i) /\ ledger[i].result # "none"
                          /\ Terminal(i) => result \in {"success", "permanent_fail"}
  PROVE  RowsGo(c) /\ ledger'[i].dispatch = "responded"
<1> DEFINE w == [ledger[i] EXCEPT !.result = result, !.dispatch = "responded"]
<1>1. ledger \in [Identity -> AttemptRecord] BY RenewalForms
<1>2. w \in AttemptRecord /\ w.result = result /\ w.dispatch = "responded" /\ w.ref = ledger[i].ref /\ w.owner = ledger[i].owner
  BY <1>1 DEF AttemptRecord, Result
<1>3. ledger' = [ledger EXCEPT ![i] = w] BY <1>1 DEF Responded
<1> HIDE DEF w
<1>4. ledger'[i] = w /\ \A k \in Identity \ {i} : ledger'[k] = ledger[k] BY <1>2, <1>3, RowReplaced
<1>5. RowGoes(c, i) BY <1>2, <1>4 DEF RowGoes, Settling, Terminal
<1>6. QED BY <1>2, <1>4, <1>5, OneRowGoes

\* A renewal is a success.
LEMMA SucceededGoes ==
  ASSUME RenewalTypeOK, PassInv, NEW c, NEW i \in Renewal, NEW a \in Authorization, ledger' = Succeeded(i, a), stalls' = 0 => stalls = 0,
         Settling(c, i), ledger[i].result # "none"
  PROVE  RowsGo(c) /\ ledger'[i].dispatch = "responded"
<1> DEFINE w == [ledger[i] EXCEPT !.result = "success", !.dispatch = "responded", !.ref = a]
<1>1. ledger \in [Identity -> AttemptRecord] /\ i \in Identity /\ a # None BY RenewalForms, Pairs DEF None, Authorization
<1>2. w \in AttemptRecord /\ w.result = "success" /\ w.dispatch = "responded" /\ w.ref = a BY <1>1 DEF AttemptRecord
<1>3. ledger' = [ledger EXCEPT ![i] = w] BY <1>1 DEF Succeeded
<1> HIDE DEF w
<1>4. ledger'[i] = w /\ \A k \in Identity \ {i} : ledger'[k] = ledger[k] BY <1>1, <1>2, <1>3, RowReplaced
<1>5. RowGoes(c, i) BY <1>1, <1>2, <1>4 DEF RowGoes, Settling, Terminal
<1>6. QED BY <1>1, <1>2, <1>4, <1>5, OneRowGoes

\* Rows that were never sent are retired: captures, or renewals that no charge
\* can be about.
LEMMA RetiredGoes ==
  ASSUME RenewalTypeOK, PassInv, NEW c, NEW type, ledger' = Retired(type), stalls' = 0 => stalls = 0,
         type = Capture \/ (type = Renewal /\ (charged # "ChargeAttempt" \/ ~Alive("charge_deal")))
  PROVE  RowsGo(c)
<1>1. ledger \in [Identity -> AttemptRecord] BY RenewalForms
<1>2. ASSUME NEW k \in Identity
      PROVE  RowGoes(c, k) /\ (ledger'[k].result = "none" <=> ledger[k].result = "none")
  <2> DEFINE w == [ledger[k] EXCEPT !.result = "temporary_fail"]
  <2>1. w.result = "temporary_fail" /\ w.dispatch = ledger[k].dispatch /\ w.ref = ledger[k].ref /\ w.owner = ledger[k].owner
    BY <1>1 DEF AttemptRecord
  <2>2. \/ ledger'[k] = ledger[k]
        \/ ledger'[k] = w /\ k \in type /\ ledger[k].result = "unknown" /\ ledger[k].dispatch = "recorded"
    BY DEF Retired
  <2> HIDE DEF w
  <2>3. CASE ledger'[k] = ledger[k] BY <2>3, RowStill
  <2>4. CASE ledger'[k] = w /\ k \in type /\ ledger[k].result = "unknown" /\ ledger[k].dispatch = "recorded"
    <3>1. k \in Renewal /\ stalls = 0 => ledger[k].ref = None BY <2>4 DEF PassInv, RowsStand, FreshRows
    <3>2. k \in Renewal => charged # "ChargeAttempt" \/ ~Alive("charge_deal") BY <2>4, Pairs
    <3>3. RowGoes(c, k) BY <2>1, <2>4, <3>1, <3>2 DEF RowGoes, Terminal
    <3>4. QED BY <2>1, <2>4, <3>3
  <2>5. QED BY <2>2, <2>3, <2>4
<1>3. Numbered' BY <1>2, Pairs DEF PassInv, RowsStand, Numbered, Minted
<1>4. QED BY <1>2, <1>3 DEF RowsGo

\* A request that was not sent is recorded again; while no lease was lost its run
\* knows no answer to it.
LEMMA DisarmedGoes ==
  ASSUME RenewalTypeOK, PassInv, NEW c \in Clerk, clerk[c].pc = "settle", clerk[c].on \in Identity, ledger' = Disarmed(c),
         stalls' = stalls
  PROVE  RowsGo(c) /\ ~(ledger'[clerk[c].on].dispatch = "dispatching" /\ ledger'[clerk[c].on].owner = c)
<1>0. PICK i \in Identity : i = clerk[c].on OBVIOUS
<1> DEFINE w == [ledger[i] EXCEPT !.dispatch = "recorded", !.owner = "null"]
           mine == ledger[i].result = "unknown" /\ ledger[i].dispatch = "dispatching" /\ ledger[i].owner = c
<1>1. ledger \in [Identity -> AttemptRecord] /\ "null" # c BY RenewalForms, RenewalAssumption
<1>2. /\ w \in AttemptRecord /\ w.result = ledger[i].result /\ w.ref = ledger[i].ref /\ w.dispatch = "recorded"
      /\ w.owner = "null"
  BY <1>1 DEF AttemptRecord
<1>3. (mine /\ ledger' = [ledger EXCEPT ![i] = w]) \/ (~mine /\ ledger' = ledger)
  <2>1. Its(c) = i BY <1>0 DEF Its
  <2>2. CASE mine BY <1>1, <2>1, <2>2 DEF Disarmed
  <2>3. CASE ~mine BY <2>1, <2>3 DEF Disarmed
  <2>4. QED BY <2>2, <2>3
<1>4. UnnamedAt(c) /\ BegunAt(c) /\ OpenRows BY DEF PassInv, RunStands, RowsStand
<1>5. (i \in Renewal /\ stalls = 0 => ledger[i].ref = None) /\ ledger[i].result # "none"
  BY <1>0, <1>4 DEF UnnamedAt, BegunAt
<1>6. ledger[i].dispatch = "dispatching" => ledger[i].result = "unknown" BY <1>4 DEF OpenRows
<1> HIDE DEF w
<1>7. CASE mine /\ ledger' = [ledger EXCEPT ![i] = w]
  <2>1. ledger'[i] = w /\ \A k \in Identity \ {i} : ledger'[k] = ledger[k] BY <1>2, <1>7, RowReplaced
  <2>2. RowGoes(c, i) BY <1>2, <1>5, <1>7, <2>1 DEF RowGoes, Terminal
  <2>3. RowsGo(c) BY <1>5, <2>1, <2>2, OneRowGoes
  <2>4. QED BY <1>0, <1>2, <2>1, <2>3
<1>8. CASE ~mine /\ ledger' = ledger BY <1>0, <1>6, <1>8, RowsStill
<1>9. QED BY <1>3, <1>7, <1>8

\* A request is armed.
LEMMA ArmedGoes ==
  ASSUME RenewalTypeOK, PassInv, NEW c \in Clerk, NEW i \in Identity, NEW a \in Authorization \cup {None}, ledger[i].result = "unknown",
         ledger' = [ledger EXCEPT ![i].dispatch = "dispatching", ![i].owner = c, ![i].ref = a],
         i \in Renewal => a = ledger[i].ref, clerk'[c].pc = "send", clerk'[c].on = i, stalls' = stalls
  PROVE  RowsGo(c) /\ ledger'[i].result = "unknown" /\ (i \in Renewal => ledger'[i].ref = ledger[i].ref)
<1> DEFINE w == [ledger[i] EXCEPT !.dispatch = "dispatching", !.owner = c, !.ref = a]
<1>1. ledger \in [Identity -> AttemptRecord] BY RenewalForms
<1>2. w \in AttemptRecord /\ w.result = "unknown" /\ w.ref = a /\ w.dispatch = "dispatching" /\ w.owner = c
  BY <1>1 DEF AttemptRecord
<1>3. ledger' = [ledger EXCEPT ![i] = w] BY <1>1
<1> HIDE DEF w
<1>4. ledger'[i] = w /\ \A k \in Identity \ {i} : ledger'[k] = ledger[k] BY <1>2, <1>3, RowReplaced
<1>5. RowGoes(c, i) BY <1>2, <1>4 DEF RowGoes, Terminal
<1>6. QED BY <1>2, <1>4, <1>5, OneRowGoes

\* A run settles a request: by the owner only, and never what was decided.
LEMMA SettledGoes ==
  ASSUME RenewalTypeOK, PassInv, NEW c \in Clerk, clerk[c].pc = "settle", clerk[c].on \in Identity,
         NEW result \in Result \ {"none", "temporary_fail"}, Settled(c, result), stalls' = stalls
  PROVE  RowsGo(c) /\ ~(ledger'[clerk[c].on].dispatch = "dispatching" /\ ledger'[clerk[c].on].owner = c)
<1> DEFINE i == clerk[c].on
           r == IF Terminal(i) THEN ledger[i].result ELSE result
<1>1. i \in Identity /\ Its(c) = i BY DEF Its
<1>2. r \in Result \ {"none", "temporary_fail"} /\ (Terminal(i) => r \in {"success", "permanent_fail"})
  BY DEF Terminal, Result
<1>3. (ledger' = ledger /\ ledger[i].owner # c) \/ ledger' = Responded(i, r) BY <1>1 DEF Settled, Owns
<1>4. ledger[i].result # "none" BY DEF PassInv, RunStands, BegunAt
<1>5. Settling(c, i) BY DEF Settling
<1> HIDE DEF i, r
<1>6. CASE ledger' = ledger /\ ledger[i].owner # c BY <1>6, RowsStill DEF i
<1>7. CASE ledger' = Responded(i, r)
  <2>1. RowsGo(c) /\ ledger'[i].dispatch = "responded" BY <1>1, <1>2, <1>4, <1>5, <1>7, RespondedGoes
  <2>2. QED BY <2>1 DEF i
<1>8. QED BY <1>3, <1>6, <1>7

\* As many elements as numbers.
LEMMA Tally ==
  ASSUME NEW n \in Nat, NEW name
  PROVE  Cardinality({name} \X (1..n)) = n
<1> DEFINE f == [k \in 1..n |-> <<name, k>>]
           S == {name} \X (1..n)
<1>1. f \in [1..n -> S] OBVIOUS
<1>2. \A a, b \in 1..n : f[a] = f[b] => a = b OBVIOUS
<1>3. \A i \in S : \E k \in 1..n : f[k] = i OBVIOUS
<1>4. f \in Bijection(1..n, S) BY <1>1, <1>2, <1>3 DEF Bijection, Injection, Surjection, IsInjective
<1>5. ExistsBijection(1..n, S) BY <1>4 DEF ExistsBijection
<1>6. IsFiniteSet(1..n) /\ Cardinality(1..n) = n BY FS_Interval
<1>7. QED BY <1>5, <1>6, FS_Bijection

\* The next renewal was not begun.
LEMMA FreshGoes ==
  ASSUME RenewalTypeOK, PassInv, NEW c \in Clerk, Minted(Renewal) # Renewal, stalls' = stalls,
         ledger' = [ledger EXCEPT ![NextOf(Renewal)].result = "unknown"]
  PROVE  /\ RowsGo(c) /\ NextOf(Renewal) \in Renewal /\ ledger'[NextOf(Renewal)].result = "unknown"
         /\ ledger'[NextOf(Renewal)].ref = None
<1>0. PICK i \in Renewal : i = NextOf(Renewal) BY Column
<1> DEFINE w == [ledger[i] EXCEPT !.result = "unknown"]
<1>1. i \in Renewal /\ i \in Identity BY Pairs
<1>2. PICK n \in 0..MaxRenewals : Minted(Renewal) = {"reauthorize"} \X (1..n)
  BY DEF PassInv, RowsStand, Numbered
<1>3. Cardinality(Minted(Renewal)) = n /\ n \in Nat
  <2>1. n \in Nat BY Pairs
  <2>2. Cardinality({"reauthorize"} \X (1..n)) = n BY <2>1, Tally
  <2>3. QED BY <1>2, <2>1, <2>2
<1>4. \E k \in Renewal : k[2] = n + 1
  <2>1. n # MaxRenewals BY <1>2 DEF Renewal
  <2>2. n + 1 \in 1..MaxRenewals BY <2>1, Pairs
  <2>3. <<"reauthorize", n + 1>> \in Renewal BY <2>2 DEF Renewal
  <2>4. QED BY <2>3
<1>5. i[2] = n + 1 BY <1>0, <1>3, <1>4 DEF NextOf
<1>6. i = <<"reauthorize", n + 1>> /\ n + 1 \in 0..MaxRenewals BY <1>1, <1>5, Pairs
<1>7. i \notin Minted(Renewal) BY <1>2, <1>3, <1>6
<1>8. ledger[i].result = "none" BY <1>1, <1>7 DEF Minted
<1>9. ledger[i].dispatch = "recorded" /\ ledger[i].ref = None BY <1>1, <1>8 DEF PassInv, RowsStand, BlankRows
<1>10. ledger \in [Identity -> AttemptRecord] BY RenewalForms
<1>11. w \in AttemptRecord /\ w.result = "unknown" /\ w.ref = None /\ w.dispatch = "recorded" /\ w.owner = ledger[i].owner
  BY <1>1, <1>9, <1>10 DEF AttemptRecord
<1>12. ledger' = [ledger EXCEPT ![i] = w] BY <1>0, <1>1, <1>10
<1> HIDE DEF w
<1>13. ledger'[i] = w /\ \A k \in Identity \ {i} : ledger'[k] = ledger[k] BY <1>1, <1>11, <1>12, RowReplaced
<1>14. RowGoes(c, i) BY <1>8, <1>9, <1>11, <1>13 DEF RowGoes, Terminal
<1>15. \A k \in Identity : RowGoes(c, k) BY <1>13, <1>14, RowStill
<1>16. Numbered'
  <2>1. Minted(Renewal)' = Minted(Renewal) \cup {i} BY <1>1, <1>11, <1>13, Pairs DEF Minted
  <2>2. Minted(Renewal)' = {"reauthorize"} \X (1..(n + 1)) BY <1>2, <1>3, <1>6, <2>1
  <2>3. QED BY <1>6, <2>2 DEF Numbered
<1>17. QED BY <1>0, <1>1, <1>11, <1>13, <1>15, <1>16 DEF RowsGo

\* A capture is begun where none is unresolved.
LEMMA FreshCaptureGoes ==
  ASSUME RenewalTypeOK, PassInv, NEW c \in Clerk, NEW i \in Capture, ledger[i].result # "unknown", stalls' = stalls,
         ledger' = [ledger EXCEPT ![i].result = "unknown"]
  PROVE  RowsGo(c) /\ ledger'[i].result = "unknown"
<1> DEFINE w == [ledger[i] EXCEPT !.result = "unknown"]
<1>1. ledger \in [Identity -> AttemptRecord] /\ i \in Identity /\ i \notin Renewal BY RenewalForms, Pairs
<1>2. ledger[i].dispatch # "dispatching" BY <1>1 DEF PassInv, RowsStand, OpenRows
<1>3. w \in AttemptRecord /\ w.result = "unknown" /\ w.dispatch = ledger[i].dispatch BY <1>1 DEF AttemptRecord
<1>4. ledger' = [ledger EXCEPT ![i] = w] BY <1>1
<1> HIDE DEF w
<1>5. ledger'[i] = w /\ \A k \in Identity \ {i} : ledger'[k] = ledger[k] BY <1>1, <1>3, <1>4, RowReplaced
<1>6. RowGoes(c, i) BY <1>1, <1>2, <1>3, <1>5 DEF RowGoes
<1>7. QED BY <1>1, <1>3, <1>5, <1>6, OneRowGoes


-----------------------------------------------------------------------------
(* Nobody passed over: the steps of a run.                                   *)

\* What most steps leave as it is, or move one way.
Onward ==
  /\ stalls' = stalls /\ (reported => reported') /\ (charged' = "ChargeAttempt" => charged = "ChargeAttempt")
  /\ chore' = chore \/ \E j \in Chore : chore' = Enqueued(j)
\* A run stays with its job.
Routed(c, p) ==
  /\ clerk[c].pc # "free"
  /\ \/ p = "throw"
     \/ clerk[c].pc \in ChargePlace /\ p \in ChargePlace \cup {"ack"}
     \/ clerk[c].pc \in ReconcilePlace /\ p \in ReconcilePlace \cup {"ack"}
\* It owns nothing but what it is sending.
Disowns(c, p) ==
  \/ clerk[c].pc \notin {"send", "await", "settle", "throw"}
  \/ p = "throw"
  \/ clerk[c].pc \in {"send", "await"} /\ p \in {"await", "settle"} /\ clerk'[c].on = clerk[c].on
  \/ clerk[c].pc = "settle" /\ ~(ledger'[clerk[c].on].dispatch = "dispatching" /\ ledger'[clerk[c].on].owner = c)
\* It may be where it goes.
Lands(c) == BegunAt(c)' /\ UnnamedAt(c)' /\ LookedAt(c)' /\ NotRetiredAt(c)' /\ EndsAt(c)'

\* A run goes on, but for an arm.
LEMMA StepGoes ==
  ASSUME RenewalInv, PassInv, NEW c \in Clerk, NEW p, Goes(c, p), RowsGo(c), Onward, Routed(c, p), p # "send", Disowns(c, p),
         p \in Quiet \/ Lands(c)
  PROVE  PassInv'
<1>1. OwnsAt(c)' BY OwnsStays DEF Disowns
<1>2. QED BY <1>1, RunGoes DEF Onward, Routed, Lands

\* A run that ends, or goes to an end, excuses itself if it is not held.
LEMMA Rests ==
  ASSUME NEW c \in Clerk, NEW p \in {"end", "schedule", "ack", "ingest"}, clerk'[c].pc = p,
         p = "ack" \/ (p # "ingest" /\ ~clerk'[c].hold) => ~Waiting' \/ Excused'
  PROVE  Lands(c)
BY DEF Lands, BegunAt, UnnamedAt, LookedAt, NotRetiredAt, EndsAt

\* Who has a capture does not wait.
LEMMA HasCapture ==
  ASSUME NEW c, RowsGo(c), NEW i \in Capture, ledger[i].result # "none"
  PROVE  ~Waiting'
<1>1. ledger'[i].result # "none" BY Pairs DEF RowsGo, RowGoes
<1>2. QED BY <1>1 DEF Waiting, Minted

\* It passes the gate, begins or resumes a renewal, or looks up an unresolved one.
LEMMA RenewPasses ==
  ASSUME RenewalInv, PassInv, NEW c \in Clerk,
         \/ ClerkThrows(c) \/ Gate(c) \/ RenewalNotAdmitted(c) \/ RenewalBlocked(c) \/ RenewalAgain(c) \/ RenewalFresh(c)
         \/ ProveRenewal(c)
  PROVE  PassInv'
<1>1. RenewalTypeOK /\ AtPlace(clerk[c]) /\ RunStands(c) /\ RowsStand BY DEF RenewalInv, Standing, PassInv
<1>2. binding \in BindingRecord BY <1>1, RenewalForms
<1>3. /\ UNCHANGED <<charged, queue, stalls>> /\ Onward
      /\ ~(RenewalNotAdmitted(c) \/ RenewalFresh(c)) => RowsGo(c)
  <2>1. UNCHANGED <<charged, queue, stalls>> /\ (reported => reported')
    BY DEF ClerkThrows, Gate, RenewalNotAdmitted, RenewalBlocked, RenewalAgain, RenewalFresh, ProveRenewal, records
  <2>2. ~(RenewalNotAdmitted(c) \/ RenewalFresh(c)) => ledger' = ledger
    BY DEF ClerkThrows, Gate, RenewalBlocked, RenewalAgain, ProveRenewal, records
  <2>3. QED BY <2>1, <2>2, RowsStill DEF Onward, queue
<1>4. CASE ClerkThrows(c)
  <2>1. Goes(c, "throw") BY <1>1, <1>4, TurnsGoes DEF ClerkThrows, RenewalPoint
  <2>2. Routed(c, "throw") /\ Disowns(c, "throw") BY <1>4 DEF ClerkThrows, Routed, Disowns
  <2>3. RowsGo(c) BY <1>3, <1>4, RowsStill DEF ClerkThrows, records
  <2>4. QED BY <1>3, <2>1, <2>2, <2>3, StepGoes DEF Quiet
<1>5. CASE Gate(c)
  <2>1. PICK p \in {"renew", "capture"} : clerk' = [clerk EXCEPT ![c].auth = binding.auth, ![c].pc = p]
    BY <1>5 DEF Gate
  <2> DEFINE a == binding.auth
  <2>2. a \in Authorization /\ a \in Authorization \cup {None} BY <1>2 DEF BindingRecord
  <2>3. p \in RenewalPoint /\ clerk' = [clerk EXCEPT ![c].auth = a, ![c].pc = p] BY <2>1 DEF RenewalPoint
  <2> HIDE DEF a
  <2>4. Goes(c, p) BY <1>1, <2>2, <2>3, GoesWithAuthorization
  <2>5. Routed(c, p) /\ Disowns(c, p) /\ p # "send" /\ p \in Quiet
    BY <1>5 DEF Gate, Is, Routed, Disowns, ChargePlace, Bound, Quiet
  <2>6. RowsGo(c) BY <1>3, <1>5 DEF Gate, RenewalNotAdmitted, RenewalFresh, Is
  <2>7. QED BY <1>3, <2>4, <2>5, <2>6, StepGoes
<1>6. CASE RenewalNotAdmitted(c)
  <2>1. Goes(c, "end") BY <1>1, <1>6, TurnsGoes DEF RenewalNotAdmitted, RenewalPoint
  <2>2. RowsGo(c) BY <1>1, <1>3, <1>6, RetiredGoes DEF RenewalNotAdmitted
  <2>3. ~Waiting' BY <1>3, <1>6 DEF RenewalNotAdmitted, Waiting
  <2>4. Lands(c) BY <2>1, <2>3, Rests DEF Goes
  <2>5. Routed(c, "end") /\ Disowns(c, "end") BY <1>6 DEF RenewalNotAdmitted, Is, Routed, Disowns, ChargePlace, Bound
  <2>6. QED BY <1>3, <2>1, <2>2, <2>4, <2>5, StepGoes
<1>7. ASSUME NEW p \in {"arm", "prove", "apply", "close", "end", "schedule"}, clerk[c].pc \in {"renew", "prove"}, Goes(c, p),
             RowsGo(c), Lands(c)
      PROVE  PassInv'
  <2>1. Routed(c, p) /\ Disowns(c, p) /\ p # "send" BY <1>7 DEF Routed, Disowns, ChargePlace, Bound
  <2>2. QED BY <1>3, <1>7, <2>1, StepGoes
<1>8. CASE RenewalBlocked(c)
  <2>1. PICK i \in Unknown(Capture) : Waits(c, "schedule", i) BY <1>8 DEF RenewalBlocked
  <2>2. i \in Identity BY Pairs DEF Unknown
  <2>3. Goes(c, "schedule") /\ clerk'[c].hold BY <1>1, <2>1, <2>2, WaitsGoes DEF RenewalPoint
  <2>4. Lands(c) BY <2>3, Rests DEF Goes
  <2>5. RowsGo(c) BY <1>3, <1>8 DEF RenewalBlocked, RenewalNotAdmitted, RenewalFresh, Unknown
  <2>6. QED BY <1>7, <1>8, <2>3, <2>4, <2>5 DEF RenewalBlocked, Is
<1>9. CASE RenewalAgain(c)
  <2>1. PICK i \in Unknown(Renewal) :
          IF InFlight(i) THEN Waits(c, "end", Nothing)
          ELSE TurnsTo(c, IF ledger[i].dispatch = "recorded" THEN "arm" ELSE "prove", i)
    BY <1>9 DEF RenewalAgain
  <2>2. i \in Renewal /\ i \in Identity /\ ledger[i].result = "unknown" BY Pairs DEF Unknown
  <2>3. RowsGo(c) /\ ledger' = ledger /\ stalls' = stalls BY <1>3, <1>9, RowsStill DEF RenewalAgain, records
  <2>4. CASE Waits(c, "end", Nothing)
    <3>1. Goes(c, "end") /\ clerk'[c].hold BY <1>1, <2>4, WaitsGoes DEF RenewalPoint
    <3>2. Lands(c) BY <3>1, Rests DEF Goes
    <3>3. QED BY <1>7, <1>9, <2>3, <3>1, <3>2 DEF RenewalAgain, Is
  <2>5. ASSUME NEW p \in {"arm", "prove"}, TurnsTo(c, p, i), p = "arm" => ledger[i].dispatch = "recorded" PROVE PassInv'
    <3>1. Goes(c, p) /\ clerk'[c].on = i /\ clerk'[c].pc = p BY <1>1, <2>2, <2>5, TurnsToGoes DEF RenewalPoint, Goes
    <3>2. ~Terminal(i)' BY <2>2, <2>3 DEF Terminal
    <3>3. BegunAt(c)' BY <2>2, <2>3, <3>1 DEF BegunAt
    <3>4. stalls = 0 /\ p = "arm" => ledger[i].ref = None BY <1>1, <2>2, <2>5 DEF RowsStand, FreshRows
    <3>5. UnnamedAt(c)' BY <2>3, <3>1, <3>2, <3>4 DEF UnnamedAt, Terminal
    <3>6. Lands(c) BY <2>2, <2>3, <3>1, <3>3, <3>5 DEF Lands, LookedAt, NotRetiredAt, EndsAt
    <3>7. QED BY <1>7, <1>9, <2>3, <3>1, <3>6 DEF RenewalAgain, Is
  <2>6. QED BY <2>1, <2>4, <2>5
<1>10. CASE RenewalFresh(c)
  <2>1. PICK i \in Renewal : i = NextOf(Renewal) BY <1>10, Column DEF RenewalFresh
  <2>2. ledger' = [ledger EXCEPT ![NextOf(Renewal)].result = "unknown"] /\ TurnsTo(c, "arm", i) /\ Minted(Renewal) # Renewal
    BY <1>10, <2>1 DEF RenewalFresh
  <2>3. RowsGo(c) /\ ledger'[i].result = "unknown" /\ ledger'[i].ref = None BY <1>1, <1>3, <2>1, <2>2, FreshGoes
  <2>4. i \in Identity BY Pairs
  <2>5. Goes(c, "arm") /\ clerk'[c].on = i /\ clerk'[c].pc = "arm" BY <1>1, <2>2, <2>4, TurnsToGoes DEF RenewalPoint, Goes
  <2>6. Lands(c) BY <2>3, <2>5 DEF Lands, BegunAt, UnnamedAt, LookedAt, NotRetiredAt, EndsAt, Terminal
  <2>7. QED BY <1>7, <1>10, <2>3, <2>5, <2>6 DEF RenewalFresh, Is
<1>11. CASE ProveRenewal(c)
  <2>1. PICK i \in Renewal : i = clerk[c].on BY <1>1, <1>11 DEF AtPlace, ProveRenewal, Is
  <2>2. i \in Identity /\ Its(c) = i /\ clerk[c].pc = "prove" BY <1>11, <2>1, Pairs DEF ProveRenewal, Is, Its
  <2>3. RowsGo(c) /\ ledger' = ledger /\ stalls' = stalls /\ charged' = charged
    BY <1>3, <1>11, RowsStill DEF ProveRenewal, records
  <2>4. ledger[i].result # "none" BY <1>1, <2>1, <2>2 DEF RunStands, BegunAt
  <2>5. CASE Turns(c, "arm") /\ ledger[i].ref = None
    <3>1. Goes(c, "arm") /\ clerk'[c].on = i BY <1>1, <2>1, <2>5, TurnsGoes DEF RenewalPoint, Ending
    <3>2. clerk'[c].pc = "arm" /\ clerk'[c].live = clerk[c].live BY <3>1 DEF Goes
    <3>3. stalls = 0 => ~Terminal(i) BY <1>1, <2>1, <2>2, <2>5 DEF RunStands, UnnamedAt
    <3>4. UnnamedAt(c)' BY <2>3, <2>5, <3>1, <3>2, <3>3 DEF UnnamedAt, Terminal
    <3>5. NotRetiredAt(c)' BY <1>1, <2>1, <2>2, <2>3, <3>1, <3>2 DEF RunStands, NotRetiredAt
    <3>6. Lands(c) BY <2>3, <2>4, <3>1, <3>2, <3>4, <3>5 DEF Lands, BegunAt, LookedAt, EndsAt
    <3>7. QED BY <1>7, <2>2, <2>3, <3>1, <3>6
  <2>6. ASSUME NEW p \in {"apply", "close"}, Turns(c, p) PROVE PassInv'
    <3>1. Goes(c, p) /\ clerk'[c].on = i /\ clerk'[c].pc = p BY <1>1, <2>1, <2>6, TurnsGoes DEF RenewalPoint, Ending, Goes
    <3>2. Lands(c) BY <2>3, <2>4, <3>1 DEF Lands, BegunAt, UnnamedAt, LookedAt, NotRetiredAt, EndsAt
    <3>3. QED BY <1>7, <2>2, <2>3, <3>1, <3>2
  <2>7. CASE Waits(c, "schedule", i)
    <3>1. Goes(c, "schedule") /\ clerk'[c].hold BY <1>1, <2>2, <2>7, WaitsGoes DEF RenewalPoint
    <3>2. Lands(c) BY <3>1, Rests DEF Goes
    <3>3. QED BY <1>7, <2>2, <2>3, <3>1, <3>2
  <2>8. QED
    <3>1. CASE ledger[i].ref = None BY <1>11, <2>2, <2>5, <3>1 DEF ProveRenewal
    <3>2. CASE ledger[i].ref # None
      <4>1. PICK v \in RenewalStatus(i) :
              CASE v = "done" -> Turns(c, "apply")
                [] v = "negative" /\ conclusive -> Turns(c, "close")
                [] OTHER -> Waits(c, "schedule", i)
        BY <1>11, <2>2, <3>2 DEF ProveRenewal
      <4>2. QED BY <2>6, <2>7, <4>1
    <3>3. QED BY <3>1, <3>2
<1>12. QED BY <1>4, <1>5, <1>6, <1>8, <1>9, <1>10, <1>11


\* Row i is answered as pending; nothing is decided by it.
LEMMA PendingGoes ==
  ASSUME RenewalTypeOK, PassInv, NEW c \in Clerk, NEW i \in Renewal, Settling(c, i), ledger[i].result # "none", stalls' = stalls,
         ledger' = [ledger EXCEPT ![i].dispatch = "responded", ![i].ref = i[2]]
  PROVE  RowsGo(c) /\ ledger'[i].dispatch = "responded"
<1> DEFINE w == [ledger[i] EXCEPT !.dispatch = "responded", !.ref = i[2]]
<1>1. /\ ledger \in [Identity -> AttemptRecord] /\ i \in Identity /\ i[2] # None /\ i[2] \in Authorization
  BY RenewalForms, Pairs DEF None, Authorization
<1>2. w \in AttemptRecord /\ w.result = ledger[i].result /\ w.dispatch = "responded" /\ w.ref = i[2] BY <1>1 DEF AttemptRecord
<1>3. ledger' = [ledger EXCEPT ![i] = w] BY <1>1
<1> HIDE DEF w
<1>4. ledger'[i] = w /\ \A k \in Identity \ {i} : ledger'[k] = ledger[k] BY <1>1, <1>2, <1>3, RowReplaced
<1>5. RowGoes(c, i) BY <1>1, <1>2, <1>4 DEF RowGoes, Settling, Terminal
<1>6. QED BY <1>1, <1>2, <1>4, <1>5, OneRowGoes

\* A renewal is applied, pending, unanswered, declined, not sent or closed.
LEMMA VerdictPasses ==
  ASSUME RenewalInv, PassInv, NEW c \in Clerk,
         \/ ApplyProven(c) \/ CloseUnexecuted(c)
         \/ RenewalDone(c) \/ RenewalPending(c) \/ RenewalUnanswered(c) \/ RenewalDeclined(c) \/ RenewalUnsent(c)
  PROVE  PassInv'
<1>1. RenewalTypeOK /\ AtPlace(clerk[c]) /\ RunStands(c) BY DEF RenewalInv, Standing, PassInv
<1>2. PICK i \in Renewal : i = clerk[c].on
  BY <1>1 DEF AtPlace, ApplyProven, CloseUnexecuted, RenewalDone, RenewalPending, RenewalUnanswered, RenewalDeclined,
              RenewalUnsent, Is, Its
<1>3. Its(c) = i /\ i \in Identity /\ i[2] \in Authorization BY <1>2, Pairs DEF Its
<1>4. UNCHANGED <<charged, queue, stalls>> /\ Onward
  <2>1. UNCHANGED <<charged, queue, stalls>> /\ (reported => reported')
    BY DEF ApplyProven, CloseUnexecuted, RenewalDone, RenewalPending, RenewalUnanswered, RenewalDeclined, RenewalUnsent
  <2>2. QED BY <2>1 DEF Onward, queue
<1>5. clerk[c].pc \in {"apply", "close", "settle"} /\ (ApplyProven(c) => clerk[c].pc = "apply") /\ (CloseUnexecuted(c) => clerk[c].pc = "close")
  BY DEF ApplyProven, CloseUnexecuted, RenewalDone, RenewalPending, RenewalUnanswered, RenewalDeclined, RenewalUnsent, Is, Saw
<1>6. Settling(c, i) /\ ledger[i].result # "none" BY <1>1, <1>2, <1>5 DEF Settling, RunStands, BegunAt
<1>7. ASSUME NEW p \in {"capture", "throw", "end", "schedule"}, Goes(c, p), RowsGo(c),
             clerk[c].pc = "settle" => ~(ledger'[i].dispatch = "dispatching" /\ ledger'[i].owner = c),
             p \in {"end", "schedule"} => clerk'[c].hold
      PROVE  PassInv'
  <2>1. Routed(c, p) /\ Disowns(c, p) /\ p # "send" BY <1>2, <1>5, <1>7 DEF Routed, Disowns, ChargePlace, Bound
  <2>2. p \in Quiet \/ Lands(c) BY <1>7, Rests DEF Quiet, Goes
  <2>3. QED BY <1>4, <1>7, <2>1, <2>2, StepGoes
<1>8. CASE ApplyProven(c) \/ RenewalDone(c)
  <2>1. ledger' = Succeeded(i, i[2]) BY <1>3, <1>8 DEF ApplyProven, RenewalDone
  <2>2. RowsGo(c) /\ ledger'[i].dispatch = "responded" BY <1>1, <1>3, <1>4, <1>6, <2>1, SucceededGoes
  <2> DEFINE a == i[2]
  <2>3. a \in Authorization /\ a \in Authorization \cup {None} /\ "capture" \in RenewalPoint BY <1>3 DEF RenewalPoint
  <2>4. \/ clerk' = [clerk EXCEPT ![c].pc = "capture", ![c].auth = a]
        \/ clerk' = [clerk EXCEPT ![c].pc = "capture", ![c].auth = a, ![c].seen = "none"]
    BY <1>3, <1>8 DEF ApplyProven, RenewalDone
  <2> HIDE DEF a
  <2>5. Goes(c, "capture") BY <1>1, <2>3, <2>4, GoesWithAuthorization
  <2>6. QED BY <1>7, <2>2, <2>5
<1>9. CASE CloseUnexecuted(c)
  <2>1. CASE Turns(c, "throw") /\ ledger' = ledger
    <3>1. Goes(c, "throw") BY <1>1, <2>1, TurnsGoes DEF RenewalPoint
    <3>2. RowsGo(c) BY <1>4, <2>1, RowsStill
    <3>3. QED BY <1>5, <1>7, <1>9, <3>1, <3>2
  <2>2. CASE Turns(c, "capture") /\ ledger' = IF Terminal(i) THEN ledger ELSE Responded(i, "permanent_fail")
    <3>1. Goes(c, "capture") BY <1>1, <2>2, TurnsGoes DEF RenewalPoint
    <3>2. CASE ledger' = ledger BY <1>4, <1>5, <1>7, <1>9, <3>1, <3>2, RowsStill
    <3>3. CASE ledger' = Responded(i, "permanent_fail")
      <4>1. "permanent_fail" \in Result \ {"none", "temporary_fail"} BY DEF Result
      <4>2. RowsGo(c) BY <1>1, <1>3, <1>4, <1>6, <3>3, <4>1, RespondedGoes
      <4>3. QED BY <1>5, <1>7, <1>9, <3>1, <4>2
    <3>4. QED BY <2>2, <3>2, <3>3
  <2>3. QED BY <1>3, <1>9, <2>1, <2>2 DEF CloseUnexecuted
<1>10. CASE RenewalPending(c)
  <2>1. Waits(c, "schedule", i) BY <1>3, <1>10 DEF RenewalPending
  <2>2. Goes(c, "schedule") /\ clerk'[c].hold BY <1>1, <1>3, <2>1, WaitsGoes DEF RenewalPoint
  <2>3. CASE ~Owns(c) /\ ledger' = ledger
    <3>1. RowsGo(c) BY <1>4, <2>3, RowsStill
    <3>2. QED BY <1>3, <1>7, <2>2, <2>3, <3>1 DEF Owns
  <2>4. CASE ledger' = [ledger EXCEPT ![i].dispatch = "responded", ![i].ref = i[2]]
    <3>1. RowsGo(c) /\ ledger'[i].dispatch = "responded" BY <1>1, <1>4, <1>6, <2>4, PendingGoes
    <3>2. QED BY <1>7, <2>2, <3>1
  <2>5. QED BY <1>3, <1>10, <2>3, <2>4 DEF RenewalPending
<1>11. ASSUME NEW result \in {"unknown", "permanent_fail"}, NEW p \in {"capture", "end"}, Settled(c, result), Goes(c, p),
              p = "end" => clerk'[c].hold, clerk[c].pc = "settle"
       PROVE  PassInv'
  <2>1. result \in Result \ {"none", "temporary_fail"} BY DEF Result
  <2>2. RowsGo(c) /\ ~(ledger'[clerk[c].on].dispatch = "dispatching" /\ ledger'[clerk[c].on].owner = c)
    BY <1>1, <1>2, <1>3, <1>4, <1>11, <2>1, SettledGoes
  <2>3. QED BY <1>2, <1>7, <1>11, <2>2
<1>12. CASE RenewalUnanswered(c)
  <2>1. Goes(c, "end") /\ clerk'[c].hold BY <1>1, <1>12, WaitsGoes DEF RenewalUnanswered, RenewalPoint
  <2>2. QED BY <1>11, <1>12, <2>1 DEF RenewalUnanswered, Saw, Is
<1>13. CASE RenewalDeclined(c)
  <2>1. Goes(c, "capture") BY <1>1, <1>13, TurnsGoes DEF RenewalDeclined, RenewalPoint
  <2>2. QED BY <1>11, <1>13, <2>1 DEF RenewalDeclined, Saw, Is
<1>14. CASE RenewalUnsent(c)
  <2>1. Goes(c, "capture") BY <1>1, <1>14, TurnsGoes DEF RenewalUnsent, RenewalPoint
  <2>2. RowsGo(c) /\ ~(ledger'[clerk[c].on].dispatch = "dispatching" /\ ledger'[clerk[c].on].owner = c)
    BY <1>1, <1>2, <1>3, <1>4, <1>14, DisarmedGoes DEF RenewalUnsent, Saw, Is
  <2>3. QED BY <1>2, <1>7, <2>1, <2>2
<1>15. QED BY <1>8, <1>9, <1>10, <1>12, <1>13, <1>14


\* A request is armed, or its run ends because it cannot be: for a renewal of one
\* who waits, because a run that lost its lease has settled it.
LEMMA ArmPasses ==
  ASSUME RenewalInv, PassInv, NEW c \in Clerk, ArmRequest(c)
  PROVE  PassInv'
<1>1. RenewalTypeOK /\ AtPlace(clerk[c]) /\ RunStands(c) /\ LiveOne BY DEF RenewalInv, Standing, PassInv, JobsStand
<1>2. PICK i \in Identity : i = clerk[c].on BY <1>1 DEF AtPlace, ArmRequest, Is
<1>3. Its(c) = i /\ clerk[c].pc = "arm" BY <1>2 DEF ArmRequest, Is, Its
<1>4. UNCHANGED <<charged, queue, reported, stalls>> /\ Onward BY DEF ArmRequest, Onward, queue
<1>5. clerk[c].chore = "charge_deal" /\ ledger[i].result # "none"
  BY <1>1, <1>2, <1>3 DEF RunStands, OnSide, BegunAt, ChargePlace, Bound
<1>6. CASE Turns(c, "throw") /\ ledger' = ledger
  <2>1. Goes(c, "throw") BY <1>1, <1>6, TurnsGoes DEF RenewalPoint
  <2>2. RowsGo(c) BY <1>4, <1>6, RowsStill
  <2>3. Routed(c, "throw") /\ Disowns(c, "throw") BY <1>3 DEF Routed, Disowns
  <2>4. QED BY <1>4, <2>1, <2>2, <2>3, StepGoes DEF Quiet
<1>7. CASE /\ Turns(c, "send") /\ ledger[i].result = "unknown"
           /\ ledger' = [ledger EXCEPT ![i].dispatch = "dispatching", ![i].owner = c,
                                       ![i].ref = IF i \in Capture THEN clerk[c].auth ELSE @]
  <2>1. /\ Goes(c, "send") /\ clerk'[c].on = i /\ clerk'[c].pc = "send" /\ clerk'[c].chore = "charge_deal"
    BY <1>1, <1>2, <1>5, <1>7, TurnsGoes DEF RenewalPoint, Ending, Goes
  <2> DEFINE a == IF i \in Capture THEN clerk[c].auth ELSE ledger[i].ref
  <2>2. clerk[c] \in ClerkRecord /\ ledger \in [Identity -> AttemptRecord] BY <1>1, RenewalForms
  <2>3. a \in Authorization \cup {None} BY <2>2 DEF ClerkRecord, AttemptRecord
  <2>4. i \in Renewal => a = ledger[i].ref BY Pairs
  <2>5. ledger' = [ledger EXCEPT ![i].dispatch = "dispatching", ![i].owner = c, ![i].ref = a] BY <1>7, <2>2
  <2> HIDE DEF a
  <2>6. RowsGo(c) /\ ledger'[i].result = "unknown" /\ (i \in Renewal => ledger'[i].ref = ledger[i].ref)
    <3>1. ledger[i].result = "unknown" BY <1>7
    <3>2. stalls' = stalls BY <1>4
    <3>3. QED BY <1>1, <2>1, <2>3, <2>4, <2>5, <3>1, <3>2, ArmedGoes
  <2>7. OwnsAt(c)'
    <3>1. \A k \in Identity : ~(ledger[k].dispatch = "dispatching" /\ ledger[k].owner = c)
      BY <1>1, <1>3 DEF RunStands, OwnsAt
    <3>2. \A k \in Identity : ledger'[k].dispatch = "dispatching" /\ ledger'[k].owner = c => k = i
      BY <2>1, <2>6, <3>1 DEF RowsGo, RowGoes
    <3>3. QED BY <2>1, <3>2 DEF OwnsAt
  <2>8. i \in Renewal /\ stalls = 0 => ledger[i].ref = None BY <1>1, <1>2, <1>3 DEF RunStands, UnnamedAt
  <2>9. BegunAt(c)' /\ UnnamedAt(c)' BY <1>4, <2>1, <2>6, <2>8 DEF BegunAt, UnnamedAt
  <2>10. LookedAt(c)' /\ NotRetiredAt(c)' /\ EndsAt(c)' BY <2>1 DEF LookedAt, NotRetiredAt, EndsAt
  <2>11. clerk[c].pc # "free" /\ clerk[c].pc \in ChargePlace /\ "send" \in ChargePlace \cup {"ack"}
    BY <1>3 DEF ChargePlace, Bound
  <2>12. QED BY <2>1, <2>6, <2>7, <2>9, <2>10, <2>11, RunGoes, <1>4 DEF Onward
<1>8. CASE /\ Turns(c, "end") /\ ledger' = ledger /\ clerk[c].live
           /\ ~(charged = "ChargeAttempt" /\ ledger[i].result = "unknown" /\ ~InFlight(i))
  <2>1. Goes(c, "end") BY <1>1, <1>8, TurnsGoes DEF RenewalPoint
  <2>2. RowsGo(c) BY <1>4, <1>8, RowsStill
  <2>3. ~InFlight(i)
    <3>1. SUFFICES ASSUME InFlight(i) PROVE FALSE OBVIOUS
    <3>2. PICK d \in Clerk : d = ledger[i].owner /\ clerk[d].live /\ ledger[i].dispatch = "dispatching" BY <3>1 DEF InFlight
    <3>3. OwnsAt(d) /\ OwnsAt(c) BY DEF PassInv, RunStands
    <3>4. clerk[d].chore = "charge_deal" BY <3>2, <3>3 DEF OwnsAt
    <3>5. d = c BY <1>1, <1>5, <1>8, <3>2, <3>4 DEF LiveOne
    <3>6. QED BY <1>3, <3>2, <3>3, <3>5 DEF OwnsAt
  <2>4. Waiting' => Excused'
    <3>1. SUFFICES ASSUME Waiting' PROVE Excused' OBVIOUS
    <3>2. i \in Renewal BY <1>5, <2>2, <3>1, HasCapture, Pairs
    <3>3. charged = "ChargeAttempt" BY <1>4, <3>1 DEF Waiting
    <3>4. ledger[i].result # "unknown" BY <1>8, <2>3, <3>3
    <3>5. ledger[i].result # "temporary_fail" BY <1>1, <1>2, <1>3, <1>8, <3>2, <3>3 DEF RunStands, NotRetiredAt
    <3>6. ledger \in [Identity -> AttemptRecord] /\ stalls \in 0..MaxTurns /\ MaxTurns \in Nat BY <1>1, RenewalForms, Pairs
    <3>7. Terminal(i) BY <1>5, <3>4, <3>5, <3>6 DEF AttemptRecord, Terminal
    <3>8. stalls # 0 BY <1>1, <1>2, <1>3, <3>2, <3>7 DEF RunStands, UnnamedAt
    <3>9. stalls' > 0 BY <1>4, <3>6, <3>8
    <3>10. Terminal(i)' BY <1>8, <3>7 DEF Terminal
    <3>11. QED BY <3>2, <3>9, <3>10 DEF Excused
  <2>5. Lands(c) BY <2>1, <2>4, Rests DEF Goes
  <2>6. Routed(c, "end") /\ Disowns(c, "end") BY <1>3 DEF Routed, Disowns, ChargePlace, Bound
  <2>7. QED BY <1>4, <2>1, <2>2, <2>5, <2>6, StepGoes
<1>9. QED BY <1>3, <1>6, <1>7, <1>8 DEF ArmRequest

\* A request is sent and an answer comes, or its settlement is refused.
LEMMA SendPasses ==
  ASSUME RenewalInv, PassInv, NEW c \in Clerk, SendRequest(c) \/ Answered(c) \/ SettleRefused(c)
  PROVE  PassInv'
<1>1. RenewalTypeOK /\ AtPlace(clerk[c]) /\ RunStands(c) BY DEF RenewalInv, Standing, PassInv
<1>2. PICK i \in Identity : i = clerk[c].on BY <1>1 DEF AtPlace, SendRequest, Answered, SettleRefused, Is
<1>3. UNCHANGED <<ledger, charged, queue, reported, stalls>> /\ Onward /\ RowsGo(c)
  <2>1. UNCHANGED <<ledger, charged, queue, reported, stalls>> BY DEF SendRequest, Answered, SettleRefused, records
  <2>2. QED BY <2>1, RowsStill DEF Onward, queue
<1>4. CASE SettleRefused(c)
  <2>1. Goes(c, "throw") BY <1>1, <1>4, TurnsGoes DEF SettleRefused, RenewalPoint
  <2>2. Routed(c, "throw") /\ Disowns(c, "throw") BY <1>4 DEF SettleRefused, Is, Routed, Disowns
  <2>3. QED BY <1>3, <2>1, <2>2, StepGoes DEF Quiet
<1>5. ASSUME NEW p \in {"await", "settle"}, Goes(c, p), clerk'[c].on = i, clerk[c].pc \in {"send", "await"}
      PROVE  PassInv'
  <2>1. Routed(c, p) /\ Disowns(c, p) /\ p # "send" BY <1>2, <1>5 DEF Routed, Disowns, ChargePlace, Bound
  <2>2. clerk'[c].pc = p BY <1>5 DEF Goes
  <2>3. BegunAt(c)' BY <1>1, <1>2, <1>3, <1>5, <2>2 DEF RunStands, BegunAt
  <2>4. UnnamedAt(c)' BY <1>1, <1>2, <1>3, <1>5, <2>2 DEF RunStands, UnnamedAt
  <2>5. Lands(c) BY <1>5, <2>2, <2>3, <2>4 DEF Lands, LookedAt, NotRetiredAt, EndsAt
  <2>6. QED BY <1>3, <1>5, <2>1, <2>5, StepGoes
<1>6. CASE SendRequest(c)
  <2>1. Turns(c, "await") \/ TurnsKnowing(c, "settle", "unsent") BY <1>6 DEF SendRequest
  <2>2. "settle" \in RenewalPoint /\ "await" \in RenewalPoint /\ "unsent" \in Sight /\ "await" \notin Ending
    BY DEF RenewalPoint, Sight, Ending
  <2>3. CASE Turns(c, "await") BY <1>1, <1>2, <1>5, <1>6, <2>2, <2>3, TurnsGoes DEF SendRequest, Is
  <2>4. CASE TurnsKnowing(c, "settle", "unsent")
    <3>1. Goes(c, "settle") /\ clerk'[c].on = clerk[c].on BY <1>1, <2>2, <2>4, TurnsKnowingGoes
    <3>2. QED BY <1>2, <1>5, <1>6, <3>1 DEF SendRequest, Is
  <2>5. QED BY <2>1, <2>3, <2>4
<1>7. CASE Answered(c)
  <2>1. PICK v \in Sight : TurnsKnowing(c, "settle", v) BY <1>7 DEF Answered, Sight
  <2>2. "settle" \in RenewalPoint BY DEF RenewalPoint
  <2>3. Goes(c, "settle") /\ clerk'[c].on = clerk[c].on BY <1>1, <2>1, <2>2, TurnsKnowingGoes
  <2>4. QED BY <1>2, <1>5, <1>7, <2>3 DEF Answered, Is
<1>8. QED BY <1>4, <1>6, <1>7


\* A run goes on to a capture, or ends.
LEMMA CapturePasses ==
  ASSUME RenewalInv, PassInv, NEW c \in Clerk,
         \/ CaptureNotAdmitted(c) \/ CaptureBlocked(c) \/ CaptureAgain(c) \/ CaptureFresh(c)
         \/ ResolveUnsettled(c) \/ CaptureUnanswered(c) \/ CaptureUnsent(c)
  PROVE  PassInv'
<1>1. RenewalTypeOK /\ AtPlace(clerk[c]) /\ RunStands(c) /\ RowsStand BY DEF RenewalInv, Standing, PassInv
<1>2. UNCHANGED <<charged, queue, stalls>> /\ Onward
  <2>1. UNCHANGED <<charged, queue, stalls>> /\ (reported => reported')
    BY DEF CaptureNotAdmitted, CaptureBlocked, CaptureAgain, CaptureFresh, ResolveUnsettled, CaptureUnanswered,
           CaptureUnsent, records
  <2>2. QED BY <2>1 DEF Onward, queue
<1>3. clerk[c].pc \in {"capture", "resolve", "settle"}
  BY DEF CaptureNotAdmitted, CaptureBlocked, CaptureAgain, CaptureFresh, ResolveUnsettled, CaptureUnanswered,
         CaptureUnsent, Is, Saw
<1>4. ASSUME NEW p \in {"arm", "resolve", "schedule", "end", "throw"}, Goes(c, p), RowsGo(c),
             clerk[c].pc = "settle" => ~(ledger'[clerk[c].on].dispatch = "dispatching" /\ ledger'[clerk[c].on].owner = c),
             p \in {"schedule", "end"} => ~Waiting' \/ Excused',
             p \in {"arm", "resolve"} => clerk'[c].on \in Capture /\ ledger'[clerk'[c].on].result # "none"
      PROVE  PassInv'
  <2>1. Routed(c, p) /\ Disowns(c, p) /\ p # "send" BY <1>3, <1>4 DEF Routed, Disowns, ChargePlace, Bound
  <2>2. clerk'[c].pc = p BY <1>4 DEF Goes
  <2>3. CASE p \in {"arm", "resolve"}
    <3>1. Lands(c) BY <1>4, <2>2, <2>3, Pairs DEF Lands, BegunAt, UnnamedAt, LookedAt, NotRetiredAt, EndsAt
    <3>2. QED BY <1>2, <1>4, <2>1, <3>1, StepGoes
  <2>4. CASE p \in {"schedule", "end"}
    <3>1. Lands(c) BY <1>4, <2>2, <2>4, Rests
    <3>2. QED BY <1>2, <1>4, <2>1, <3>1, StepGoes
  <2>5. CASE p = "throw" BY <1>2, <1>4, <2>1, <2>5, StepGoes DEF Quiet
  <2>6. QED BY <2>3, <2>4, <2>5
<1>5. CASE CaptureNotAdmitted(c)
  <2>1. Goes(c, "end") BY <1>1, <1>5, TurnsGoes DEF CaptureNotAdmitted, RenewalPoint
  <2>2. RowsGo(c) BY <1>1, <1>2, <1>5, RetiredGoes DEF CaptureNotAdmitted
  <2>3. ~Waiting' BY <1>2, <1>5 DEF CaptureNotAdmitted, Waiting
  <2>4. QED BY <1>4, <1>5, <2>1, <2>2, <2>3 DEF CaptureNotAdmitted, Is
<1>6. CASE CaptureBlocked(c)
  <2>1. PICK i \in Unknown(Renewal) : TurnsTo(c, "schedule", i) BY <1>6 DEF CaptureBlocked
  <2>2. i \in Identity BY Pairs DEF Unknown
  <2>3. Goes(c, "schedule") BY <1>1, <2>1, <2>2, TurnsToGoes DEF RenewalPoint
  <2>4. RowsGo(c) /\ Excused' BY <1>2, <1>6, RowsStill DEF CaptureBlocked, records, Excused
  <2>5. QED BY <1>4, <1>6, <2>3, <2>4 DEF CaptureBlocked, Is
<1>7. CASE CaptureAgain(c)
  <2>1. PICK i \in Minted(Capture), p \in {"end", "arm", "resolve"} : TurnsTo(c, p, i) BY <1>7 DEF CaptureAgain
  <2>2. i \in Capture /\ i \in Identity /\ ledger[i].result # "none" /\ p \in RenewalPoint BY Pairs DEF Minted, RenewalPoint
  <2>3. Goes(c, p) /\ clerk'[c].on = i BY <1>1, <2>1, <2>2, TurnsToGoes
  <2>4. RowsGo(c) /\ ledger' = ledger BY <1>2, <1>7, RowsStill DEF CaptureAgain, records
  <2>5. ~Waiting' BY <2>2, <2>4, HasCapture
  <2>6. QED BY <1>4, <1>7, <2>2, <2>3, <2>4, <2>5 DEF CaptureAgain, Is
<1>8. CASE CaptureFresh(c)
  <2>1. PICK i \in Capture : i = NextOf(Capture) BY <1>8, Column DEF CaptureFresh
  <2>2. i \in Identity /\ ledger' = [ledger EXCEPT ![i].result = "unknown"] /\ TurnsTo(c, "arm", i) /\ ledger[i].result # "unknown"
    BY <1>8, <2>1, Pairs DEF CaptureFresh
  <2>3. Goes(c, "arm") /\ clerk'[c].on = i BY <1>1, <2>2, TurnsToGoes DEF RenewalPoint
  <2>4. RowsGo(c) /\ ledger'[i].result = "unknown" BY <1>1, <1>2, <2>2, FreshCaptureGoes
  <2>5. QED BY <1>4, <1>8, <2>3, <2>4 DEF CaptureFresh, Is
<1>9. CASE ResolveUnsettled(c)
  <2>1. PICK p \in {"arm", "schedule"} : Turns(c, p) BY <1>9 DEF ResolveUnsettled
  <2>2. p \in RenewalPoint /\ p \notin Ending BY DEF RenewalPoint, Ending
  <2>3. Goes(c, p) /\ clerk'[c].on = clerk[c].on BY <1>1, <2>1, <2>2, TurnsGoes
  <2>4. RowsGo(c) /\ ledger' = ledger BY <1>2, <1>9, RowsStill DEF ResolveUnsettled, records
  <2>5. clerk[c].on \in Capture /\ ledger[clerk[c].on].result # "none" /\ clerk[c].pc = "resolve"
    BY <1>1, <1>9 DEF ResolveUnsettled, Is, AtPlace, RunStands, BegunAt
  <2>6. PICK i \in Capture : i = clerk[c].on BY <2>5
  <2>7. ~Waiting' BY <2>4, <2>5, <2>6, HasCapture
  <2>8. QED BY <1>4, <2>3, <2>4, <2>5, <2>7
<1>10. CASE CaptureUnanswered(c)
  <2>1. /\ Turns(c, "schedule") /\ Settled(c, "unknown") /\ clerk[c].on \in Capture /\ clerk[c].on \in Identity
        /\ clerk[c].pc = "settle" /\ "unknown" \in Result \ {"none", "temporary_fail"}
    BY <1>10, Pairs DEF CaptureUnanswered, Its, Saw, Is, Result
  <2>2. Goes(c, "schedule") BY <1>1, <2>1, TurnsGoes DEF RenewalPoint
  <2>3. RowsGo(c) /\ ~(ledger'[clerk[c].on].dispatch = "dispatching" /\ ledger'[clerk[c].on].owner = c)
    BY <1>1, <1>2, <2>1, SettledGoes
  <2>4. ledger[clerk[c].on].result # "none" BY <1>1, <2>1 DEF RunStands, BegunAt
  <2>5. PICK i \in Capture : i = clerk[c].on BY <2>1
  <2>6. ~Waiting' BY <2>3, <2>4, <2>5, HasCapture
  <2>7. QED BY <1>4, <2>2, <2>3, <2>6
<1>11. CASE CaptureUnsent(c)
  <2>1. Goes(c, "throw") BY <1>1, <1>11, TurnsGoes DEF CaptureUnsent, RenewalPoint
  <2>2. RowsGo(c) /\ ~(ledger'[clerk[c].on].dispatch = "dispatching" /\ ledger'[clerk[c].on].owner = c)
    BY <1>1, <1>2, <1>11, DisarmedGoes, Pairs DEF CaptureUnsent, Its, Saw, Is
  <2>3. QED BY <1>4, <2>1, <2>2
<1>12. QED BY <1>5, <1>6, <1>7, <1>8, <1>9, <1>10, <1>11

\* What became of a capture is written by whoever learns it.
LEMMA CapturedGoes ==
  ASSUME RenewalTypeOK, PassInv, NEW c, NEW i \in Capture, stalls' = stalls,
         Captured(i) \/ (NotCaptured(i) /\ (reported => reported'))
  PROVE  RowsGo(c) /\ ~Waiting' /\ (charged' = "ChargeAttempt" => charged = "ChargeAttempt") /\ (reported => reported')
<1>1. i \in Identity /\ i \notin Renewal /\ {"success", "permanent_fail"} \subseteq Result \ {"none", "temporary_fail"}
  BY Pairs DEF Result
<1>2. ledger' = ledger \/ ledger' = Responded(i, "success") \/ ledger' = Responded(i, "permanent_fail")
  BY DEF Captured, NotCaptured
<1>3. CASE ledger' = ledger BY <1>3, RowsStill DEF Captured, NotCaptured, Waiting
<1>4. CASE ledger' = Responded(i, "success") BY <1>1, <1>4, RespondedGoes DEF Captured, NotCaptured, Waiting
<1>5. CASE ledger' = Responded(i, "permanent_fail") BY <1>1, <1>5, RespondedGoes DEF Captured, NotCaptured, Waiting
<1>6. QED BY <1>2, <1>3, <1>4, <1>5

\* A capture is looked up or ingested.
LEMMA ResolvePasses ==
  ASSUME RenewalInv, PassInv, NEW c \in Clerk, ResolveCaptured(c) \/ ResolveFailed(c) \/ IngestOutcome(c)
  PROVE  PassInv'
<1>1. RenewalTypeOK /\ AtPlace(clerk[c]) /\ RunStands(c) BY DEF RenewalInv, Standing, PassInv
<1>2. clerk[c].pc \in {"resolve", "ingest"} BY DEF ResolveCaptured, ResolveFailed, IngestOutcome, Is
<1>3. PICK i \in Capture : i = clerk[c].on BY <1>1, <1>2 DEF AtPlace
<1>4. Its(c) = i /\ UNCHANGED <<queue, stalls>> BY <1>3 DEF ResolveCaptured, ResolveFailed, IngestOutcome, Its
<1>5. CASE Turns(c, "throw") /\ UNCHANGED <<charged, ledger, reported>>
  <2>1. Goes(c, "throw") BY <1>1, <1>5, TurnsGoes DEF RenewalPoint
  <2>2. RowsGo(c) /\ Onward BY <1>4, <1>5, RowsStill DEF Onward, queue
  <2>3. Routed(c, "throw") /\ Disowns(c, "throw") BY <1>2 DEF Routed, Disowns
  <2>4. QED BY <2>1, <2>2, <2>3, StepGoes DEF Quiet
<1>6. CASE Turns(c, "end") /\ (Captured(i) \/ (NotCaptured(i) /\ (reported => reported')))
  <2>1. Goes(c, "end") BY <1>1, <1>6, TurnsGoes DEF RenewalPoint
  <2>2. RowsGo(c) /\ ~Waiting' /\ (charged' = "ChargeAttempt" => charged = "ChargeAttempt") /\ (reported => reported')
    BY <1>1, <1>4, <1>6, CapturedGoes
  <2>3. Onward BY <1>4, <2>2 DEF Onward, queue
  <2>4. Routed(c, "end") /\ Disowns(c, "end") BY <1>2 DEF Routed, Disowns, ChargePlace, Bound
  <2>5. Lands(c) BY <2>1, <2>2, Rests DEF Goes
  <2>6. QED BY <2>1, <2>2, <2>3, <2>4, <2>5, StepGoes
<1>7. CASE ResolveCaptured(c) BY <1>4, <1>6, <1>7 DEF ResolveCaptured
<1>8. CASE ResolveFailed(c)
  <2>1. reported' = reported BY <1>8 DEF ResolveFailed
  <2>2. QED BY <1>4, <1>5, <1>6, <1>8, <2>1 DEF ResolveFailed
<1>9. CASE IngestOutcome(c) BY <1>4, <1>6, <1>9 DEF IngestOutcome
<1>10. QED BY <1>7, <1>8, <1>9

\* The answer to a capture is booked.
LEMMA CaptureAnswerPasses ==
  ASSUME RenewalInv, PassInv, NEW c \in Clerk, CaptureDone(c) \/ CaptureUnusable(c) \/ CaptureDeclined(c)
  PROVE  PassInv'
<1>1. RenewalTypeOK /\ RunStands(c) /\ clerk[c] \in ClerkRecord BY RenewalForms DEF RenewalInv, PassInv
<1>2. PICK i \in Capture : i = clerk[c].on BY DEF CaptureDone, CaptureUnusable, CaptureDeclined, Its
<1>3. i \in Identity /\ i \notin Renewal /\ Its(c) = i /\ clerk[c].pc = "settle"
  BY <1>2, Pairs DEF CaptureDone, CaptureUnusable, CaptureDeclined, Saw, Is, Its
<1>4. UNCHANGED <<charged, queue, reported, stalls>> /\ Onward
  BY DEF CaptureDone, CaptureUnusable, CaptureDeclined, Onward, queue
<1>5. {"success", "permanent_fail"} \subseteq Result \ {"none", "temporary_fail"} BY DEF Result
<1>6. RowsGo(c) /\ ~(ledger'[i].dispatch = "dispatching" /\ ledger'[i].owner = c)
  <2>1. CASE CaptureDone(c)
    <3>1. ledger' = Responded(i, "success") BY <1>3, <2>1 DEF CaptureDone
    <3>2. RowsGo(c) /\ ledger'[i].dispatch = "responded" BY <1>1, <1>3, <1>4, <1>5, <3>1, RespondedGoes
    <3>3. QED BY <3>2
  <2>2. CASE CaptureUnusable(c) \/ CaptureDeclined(c)
    <3>1. Settled(c, "permanent_fail") BY <2>2 DEF CaptureUnusable, CaptureDeclined
    <3>2. QED BY <1>1, <1>2, <1>3, <1>4, <1>5, <3>1, SettledGoes
  <2>3. QED BY <2>1, <2>2
<1>7. PICK p \in {"ingest", "gate"} : Goes(c, p)
  <2>1. CASE CaptureDone(c) \/ CaptureDeclined(c)
    <3>1. PICK v \in {"done", "declined"} : TurnsKnowing(c, "ingest", v) BY <2>1 DEF CaptureDone, CaptureDeclined
    <3>2. v \in Sight /\ "ingest" \in RenewalPoint BY DEF Sight, RenewalPoint
    <3>3. QED BY <1>1, <3>1, <3>2, TurnsKnowingGoes
  <2>2. CASE CaptureUnusable(c)
    <3> DEFINE q == [clerk[c] EXCEPT !.pc = "gate", !.retry = FALSE, !.seen = "none"]
    <3>1. /\ q \in ClerkRecord /\ q.pc = "gate" /\ q.chore = clerk[c].chore /\ q.live = clerk[c].live
          /\ q.hold = clerk[c].hold /\ q.auth = clerk[c].auth
      BY <1>1 DEF ClerkRecord, RenewalPoint, Sight
    <3>2. clerk' = [clerk EXCEPT ![c] = q] BY <1>1, <2>2 DEF CaptureUnusable
    <3> HIDE DEF q
    <3>3. clerk' \in [Clerk -> ClerkRecord] /\ clerk'[c] = q /\ \A d \in Clerk \ {c} : clerk'[d] = clerk[d]
      BY <1>1, <3>1, <3>2, ClerkReplaced
    <3>4. Goes(c, "gate") BY <3>1, <3>3 DEF Goes
    <3>5. QED BY <3>4
  <2>3. QED BY <2>1, <2>2
<1>8. Routed(c, p) /\ Disowns(c, p) /\ p # "send" BY <1>2, <1>3, <1>6 DEF Routed, Disowns, ChargePlace, Bound
<1>9. p \in Quiet \/ Lands(c) BY <1>7, Rests DEF Quiet, Goes
<1>10. QED BY <1>4, <1>6, <1>7, <1>8, <1>9, StepGoes


\* A reconcile job is enqueued, or charge_deal ends.
LEMMA EndPasses ==
  ASSUME RenewalInv, PassInv, NEW c \in Clerk, ScheduleReconcile(c) \/ EndOfCharge(c)
  PROVE  PassInv'
<1>1. RenewalTypeOK /\ RunStands(c) /\ clerk[c] \in ClerkRecord BY RenewalForms DEF RenewalInv, PassInv
<1>2. UNCHANGED <<ledger, charged, stalls>> /\ (reported => reported') /\ clerk[c].pc \in {"schedule", "end"}
  <2>1. UNCHANGED <<ledger, charged, stalls>> /\ clerk[c].pc \in {"schedule", "end"}
    BY DEF ScheduleReconcile, EndOfCharge, Is, records
  <2>2. CASE ScheduleReconcile(c)
    <3>1. reported' = (reported \/ (Alive("payment_reconcile") /\ subject.of # Its(c))) BY <2>2 DEF ScheduleReconcile, Scheduled
    <3>2. QED BY <2>1, <3>1
  <2>3. CASE EndOfCharge(c) BY <2>1, <2>3 DEF EndOfCharge
  <2>4. QED BY <2>2, <2>3
<1>3. Onward BY <1>2 DEF Onward, ScheduleReconcile, EndOfCharge, Scheduled, Chore, queue
<1>4. RowsGo(c) BY <1>2, RowsStill
<1>5. clerk[c].chore = "charge_deal" BY <1>1, <1>2 DEF RunStands, OnSide, ChargePlace
<1>6. Waiting' /\ ~clerk[c].hold => Excused'
  <2>1. stalls \in Nat BY <1>1, Pairs, RenewalForms
  <2>2. Waiting' => Waiting BY <1>2 DEF Waiting, Minted
  <2>3. Excused => Excused' BY <1>2 DEF Excused, Terminal
  <2>4. QED BY <1>1, <1>2, <1>5, <2>2, <2>3 DEF RunStands, EndsAt
<1>7. PICK p \in {"end", "ack", "throw"} : Turns(c, p) /\ (p = "ack" => ~clerk[c].hold)
  BY DEF ScheduleReconcile, EndOfCharge
<1>8. Goes(c, p) /\ clerk'[c].pc = p BY <1>1, <1>7, TurnsGoes DEF RenewalPoint, Goes
<1>9. Routed(c, p) /\ Disowns(c, p) /\ p # "send" BY <1>2, <1>7 DEF Routed, Disowns, ChargePlace
<1>10. CASE p = "throw" BY <1>3, <1>4, <1>8, <1>9, <1>10, StepGoes DEF Quiet
<1>11. CASE p \in {"end", "ack"}
  <2>1. p = "ack" \/ ~clerk'[c].hold => ~Waiting' \/ Excused' BY <1>6, <1>7, <1>8, <1>11 DEF Goes, Ending
  <2>2. Lands(c) BY <1>8, <1>11, <2>1, Rests
  <2>3. QED BY <1>3, <1>4, <1>8, <1>9, <2>2, StepGoes
<1>12. QED BY <1>10, <1>11

\* A reconciliation goes on: by itself it excuses nobody.
LEMMA ReconcilePasses ==
  ASSUME RenewalInv, PassInv, NEW c \in Clerk,
         \/ ReconcileBegins(c) \/ ReconcileLooks(c) \/ ReconcileReads(c)
         \/ ConcludeRenewed(c) \/ WakeCharge(c) \/ ConcludeCaptured(c) \/ ConcludeNegative(c)
  PROVE  PassInv'
<1>1. RenewalTypeOK /\ AtPlace(clerk[c]) /\ RunStands(c) /\ clerk[c] \in ClerkRecord
  BY RenewalForms DEF RenewalInv, Standing, PassInv
<1>2. clerk[c].pc \in {"begin", "flight", "status", "conclude", "wake"} /\ stalls' = stalls
  BY DEF ReconcileBegins, ReconcileLooks, ReconcileReads, ConcludeRenewed, WakeCharge, ConcludeCaptured, ConcludeNegative, Is
<1>3. PICK i : i = clerk[c].on OBVIOUS
<1>4. Its(c) = i /\ (clerk[c].pc # "wake" => i \in Identity)
  <2>1. clerk[c].chore = "payment_reconcile" BY <1>1, <1>2 DEF RunStands, OnSide, ReconcilePlace
  <2>2. QED BY <1>1, <1>2, <1>3, <2>1 DEF AtPlace, Its
<1>5. clerk[c].chore = "payment_reconcile" BY <1>1, <1>2 DEF RunStands, OnSide, ReconcilePlace
<1>6. ASSUME NEW p \in {"flight", "status", "conclude", "wake", "ack", "throw", "give_up"}, Goes(c, p), RowsGo(c), Onward,
             p \in {"flight", "status", "conclude"} /\ clerk'[c].on \in Renewal =>
               /\ ledger'[clerk'[c].on].result # "none"
               /\ p # "flight" \/ clerk'[c].auth # None => ledger'[clerk'[c].on].ref # None
      PROVE  PassInv'
  <2>1. Routed(c, p) /\ Disowns(c, p) /\ p # "send" BY <1>2, <1>6 DEF Routed, Disowns, ReconcilePlace
  <2>2. clerk'[c].pc = p /\ clerk'[c].chore = "payment_reconcile" BY <1>5, <1>6 DEF Goes
  <2>3. CASE p \in Quiet BY <1>6, <2>1, <2>3, StepGoes
  <2>4. CASE p = "ack"
    <3>1. Lands(c) BY <2>2, <2>4 DEF Lands, BegunAt, UnnamedAt, LookedAt, NotRetiredAt, EndsAt
    <3>2. QED BY <1>6, <2>1, <3>1, StepGoes
  <2>5. CASE p \in {"flight", "status", "conclude"}
    <3>1. BegunAt(c)' /\ LookedAt(c)' BY <1>6, <2>2, <2>5 DEF BegunAt, LookedAt
    <3>2. Lands(c) BY <2>2, <2>5, <3>1 DEF Lands, UnnamedAt, NotRetiredAt, EndsAt
    <3>3. QED BY <1>6, <2>1, <3>2, StepGoes
  <2>6. QED BY <2>3, <2>4, <2>5 DEF Quiet
<1>7. ASSUME NEW p \in {"ack", "throw", "give_up"}, Turns(c, p), RowsGo(c), Onward PROVE PassInv'
  <2>1. Goes(c, p) BY <1>1, <1>7, TurnsGoes DEF RenewalPoint
  <2>2. QED BY <1>6, <1>7, <2>1
<1>8. CASE ReconcileBegins(c)
  <2>0. UNCHANGED <<charged, queue, stalls>> /\ clerk[c].pc = "begin" BY <1>8 DEF ReconcileBegins, Is
  <2>1. UNCHANGED <<charged, queue, stalls>> /\ (reported => reported') /\ clerk[c].pc = "begin"
    <3>1. \/ reported' = (reported \/ (~Alive("charge_deal") /\ charged = "ChargeAttempt" /\ ~windowOpen))
          \/ reported' = reported
      BY <1>8 DEF ReconcileBegins
    <3>2. reported => reported' BY <3>1
    <3>3. QED BY <2>0, <3>2
  <2>2. Onward BY <2>1 DEF Onward, queue
  <2>3. CASE Turns(c, "ack")
    <3>1. \/ ledger' = ledger
          \/ ledger' = Retired(Capture)
          \/ ledger' = Retired(Renewal) /\ ~Alive("charge_deal")
      BY <1>8, <2>1, <2>3 DEF ReconcileBegins
    <3>2. RowsGo(c) BY <1>1, <2>1, <3>1, RowsStill, RetiredGoes
    <3>3. QED BY <1>7, <2>2, <2>3, <3>2
  <2>4. CASE /\ ledger' = ledger /\ (i \in Renewal => ledger[i].result = "unknown")
             /\ clerk' = [clerk EXCEPT ![c].pc = "flight",
                  ![c].auth = IF i \in Renewal
                              THEN IF ledger[i].ref = binding.auth THEN None ELSE ledger[i].ref
                              ELSE IF subject.ref = None THEN binding.auth ELSE subject.ref]
    <3> DEFINE a == IF i \in Renewal
                    THEN IF ledger[i].ref = binding.auth THEN None ELSE ledger[i].ref
                    ELSE IF subject.ref = None THEN binding.auth ELSE subject.ref
    <3>1. ledger \in [Identity -> AttemptRecord] /\ subject \in SubjectRecord /\ binding \in BindingRecord BY <1>1, RenewalForms
    <3>2. a \in Authorization \cup {None} BY <1>4, <2>1, <3>1 DEF AttemptRecord, SubjectRecord, BindingRecord
    <3>3. "flight" \in RenewalPoint /\ "flight" \notin Bound BY DEF RenewalPoint, Bound
    <3>4. i \in Renewal /\ a # None => ledger[i].ref # None OBVIOUS
    <3>5. clerk' = [clerk EXCEPT ![c].pc = "flight", ![c].auth = a] BY <2>4
    <3> HIDE DEF a
    <3>6. Goes(c, "flight") /\ clerk'[c].on = i /\ clerk'[c].auth = a BY <1>1, <1>3, <3>2, <3>3, <3>5, GoesWithAuthorization
    <3>7. RowsGo(c) BY <2>1, <2>4, RowsStill
    <3>8. QED BY <1>6, <2>2, <2>4, <3>4, <3>6, <3>7
  <2>5. QED BY <1>4, <1>8, <2>3, <2>4, Pairs DEF ReconcileBegins
<1>9. CASE ReconcileLooks(c) \/ ReconcileReads(c)
  <2>1. UNCHANGED <<ledger, charged, queue, reported, stalls>> BY <1>9 DEF ReconcileLooks, ReconcileReads, records
  <2>2. RowsGo(c) /\ Onward BY <2>1, RowsStill DEF Onward, queue
  <2>3. CASE Turns(c, "throw") \/ Turns(c, "ack") BY <1>7, <2>2, <2>3
  <2>4. CASE Is(c, "flight") /\ Turns(c, "status") /\ clerk[c].auth # None
    <3>1. Goes(c, "status") /\ clerk'[c].on = i BY <1>1, <1>3, <2>4, TurnsGoes DEF RenewalPoint, Ending
    <3>2. i \in Renewal => ledger[i].result # "none" /\ ledger[i].ref # None
      BY <1>1, <1>3, <2>4 DEF RunStands, BegunAt, LookedAt, Is
    <3>3. QED BY <1>6, <2>1, <2>2, <3>1, <3>2
  <2>5. ASSUME Is(c, "status"), NEW v \in Sight, TurnsKnowing(c, "conclude", v) PROVE PassInv'
    <3>1. "conclude" \in RenewalPoint BY DEF RenewalPoint
    <3>2. Goes(c, "conclude") /\ clerk'[c].on = i BY <1>1, <1>3, <2>5, <3>1, TurnsKnowingGoes
    <3>3. i \in Renewal => ledger[i].result # "none" /\ ledger[i].ref # None
      BY <1>1, <1>3, <2>5 DEF RunStands, BegunAt, LookedAt, Is
    <3>4. QED BY <1>6, <2>1, <2>2, <3>2, <3>3
  <2>6. CASE ReconcileLooks(c) BY <2>3, <2>4, <2>6 DEF ReconcileLooks
  <2>7. CASE ReconcileReads(c)
    <3>1. PICK v \in (IF i \in Renewal THEN RenewalStatus(i) ELSE CaptureStatus(clerk[c].auth)) :
            IF v = "pending" THEN Turns(c, "throw") ELSE TurnsKnowing(c, "conclude", v)
      BY <1>4, <2>7 DEF ReconcileReads
    <3>2. v \in Sight BY <3>1, StatusTrue DEF Sight
    <3>3. QED BY <2>3, <2>5, <2>7, <3>1, <3>2 DEF ReconcileReads
  <2>8. QED BY <1>9, <2>6, <2>7
<1>10. CASE ConcludeRenewed(c)
  <2>1. UNCHANGED <<charged, queue, reported, stalls>> /\ Turns(c, "wake") /\ i \in Renewal /\ clerk[c].pc = "conclude"
    BY <1>4, <1>10 DEF ConcludeRenewed, Is
  <2>2. Onward BY <2>1 DEF Onward, queue
  <2>3. Goes(c, "wake") BY <1>1, <2>1, TurnsGoes DEF RenewalPoint
  <2>4. ledger[i].result # "none" /\ Settling(c, i) BY <1>1, <1>3, <2>1 DEF RunStands, BegunAt, Settling
  <2>5. ledger' = Succeeded(i, i[2]) /\ i[2] \in Authorization BY <1>4, <1>10, <2>1, Pairs DEF ConcludeRenewed
  <2>6. RowsGo(c) BY <1>1, <2>1, <2>4, <2>5, SucceededGoes
  <2>7. QED BY <1>6, <2>2, <2>3, <2>6
<1>11. CASE WakeCharge(c)
  <2>1. UNCHANGED <<ledger, charged, reported, stalls>> /\ Turns(c, "ack") BY <1>11 DEF WakeCharge, records
  <2>2. chore' = chore \/ \E j \in Chore : chore' = Enqueued(j) BY <1>11 DEF WakeCharge, Chore
  <2>3. QED BY <1>7, <2>1, <2>2, RowsStill DEF Onward
<1>12. CASE ConcludeCaptured(c)
  <2>1. UNCHANGED <<queue, stalls>> /\ Turns(c, "ack") /\ i \in Capture /\ Captured(i) BY <1>4, <1>12 DEF ConcludeCaptured
  <2>2. RowsGo(c) /\ Onward BY <1>1, <2>1, CapturedGoes DEF Onward, queue
  <2>3. QED BY <1>7, <2>1, <2>2
<1>13. CASE ConcludeNegative(c)
  <2>1. UNCHANGED <<queue, stalls>> /\ (reported => reported') /\ clerk[c].pc = "conclude" /\ i \in Identity
    BY <1>2, <1>4, <1>13 DEF ConcludeNegative, Is
  <2>2. CASE UNCHANGED <<charged, ledger>> /\ (Turns(c, "give_up") \/ Turns(c, "throw"))
    <3>1. RowsGo(c) /\ Onward BY <2>1, <2>2, RowsStill DEF Onward, queue
    <3>2. QED BY <1>7, <2>2, <3>1
  <2>3. CASE Turns(c, "ack") /\ i \in Capture /\ NotCaptured(i)
    <3>1. RowsGo(c) /\ Onward BY <1>1, <2>1, <2>3, CapturedGoes DEF Onward, queue
    <3>2. QED BY <1>7, <2>3, <3>1
  <2>4. CASE /\ Turns(c, "ack") /\ i \in Renewal /\ charged' = charged
             /\ ledger' = IF Terminal(i) THEN ledger ELSE Responded(i, "permanent_fail")
    <3>1. Onward BY <2>1, <2>4 DEF Onward, queue
    <3>2. CASE ledger' = ledger BY <1>7, <2>1, <2>4, <3>1, <3>2, RowsStill
    <3>3. CASE ledger' = Responded(i, "permanent_fail")
      <4>1. ledger[i].result # "none" /\ Settling(c, i) BY <1>1, <1>3, <2>1, <2>4 DEF RunStands, BegunAt, Settling
      <4>2. "permanent_fail" \in Result \ {"none", "temporary_fail"} BY DEF Result
      <4>3. RowsGo(c) BY <1>1, <2>1, <3>3, <4>1, <4>2, RespondedGoes
      <4>4. QED BY <1>7, <2>4, <3>1, <4>3
    <3>4. QED BY <2>4, <3>2, <3>3
  <2>5. QED BY <1>4, <1>13, <2>1, <2>2, <2>3, <2>4, Pairs DEF ConcludeNegative
<1>14. QED BY <1>8, <1>9, <1>10, <1>11, <1>12, <1>13


-----------------------------------------------------------------------------
(* Nobody passed over: jobs are taken and left, and the rest of the world.   *)

\* A run takes a job.
LEMMA TakePasses ==
  ASSUME RenewalInv, PassInv, NEW c \in Clerk, NEW j \in Chore, TakeChore(c, j)
  PROVE  PassInv'
<1> DEFINE q == [Idle EXCEPT !.chore = j, !.live = TRUE, !.retry = (j = "charge_deal"),
                    !.pc = IF j = "payment_reconcile" THEN "begin" ELSE IF charged = "ChargeAttempt" THEN "gate" ELSE "end",
                    !.on = IF j = "payment_reconcile" THEN subject.of ELSE Nothing]
<1>1. RenewalTypeOK /\ RunStands(c) /\ LiveOne /\ chore["charge_deal"] # "none" BY DEF RenewalInv, PassInv, JobsStand
<1>2. subject.of \in Identity \cup {Nothing} /\ chore \in ChoreTable /\ stalls \in 0..MaxTurns /\ MaxTurns \in Nat
  BY <1>1, RenewalForms, Pairs DEF SubjectRecord
<1>3. /\ q \in ClerkRecord /\ q.chore = j /\ q.live
      /\ \/ j = "charge_deal" /\ (q.pc = "gate" \/ (q.pc = "end" /\ charged # "ChargeAttempt"))
         \/ j = "payment_reconcile" /\ q.pc = "begin"
  BY <1>2 DEF Idle, ClerkRecord, RenewalPoint, Sight, Chore
<1>4. clerk' = [clerk EXCEPT ![c] = q] /\ chore' = [chore EXCEPT ![j] = "processing"] /\ chore[j] = "pending"
      /\ UNCHANGED <<ledger, charged, reported, stalls>> /\ clerk[c].pc = "free"
  BY DEF TakeChore, records, Is
<1> HIDE DEF q
<1>5. clerk' \in [Clerk -> ClerkRecord] /\ clerk'[c] = q /\ \A d \in Clerk \ {c} : clerk'[d] = clerk[d]
  BY <1>1, <1>3, <1>4, ClerkReplaced
<1>6. \A k \in Chore : chore'[k] = IF k = j THEN "processing" ELSE chore[k] BY <1>2, <1>4 DEF ChoreTable
<1>7. RowsGo(c) BY <1>4, RowsStill
<1>8. LiveOne'
  <2>1. \A d \in Clerk : clerk[d].live => clerk[d].chore # j BY <1>1, <1>4 DEF LiveOne
  <2>2. QED BY <1>1, <1>3, <1>5, <1>6, <2>1 DEF LiveOne
<1>9. chore'["charge_deal"] # "none" /\ (chore'["charge_deal"] = "sent" => chore["charge_deal"] = "sent")
  BY <1>1, <1>6 DEF Chore
<1>10. StallCounted(c)' /\ OnSide(c)'
  BY <1>3, <1>5 DEF StallCounted, OnSide, ChargePlace, ReconcilePlace, Bound
<1>11. OwnsAt(c)' BY <1>1, <1>4 DEF RunStands, OwnsAt
<1>12. Waiting' => charged = "ChargeAttempt" BY <1>4 DEF Waiting
<1>13. Lands(c) BY <1>3, <1>5, <1>12 DEF Lands, BegunAt, UnnamedAt, LookedAt, NotRetiredAt, EndsAt
<1>14. RunStands(c)' BY <1>10, <1>11, <1>13 DEF RunStands, Lands
<1>15. QED BY <1>2, <1>4, <1>5, <1>7, <1>8, <1>9, <1>14, PassFollows

\* A run leaves its job: as done only when it acknowledged it.
LEMMA LeavesPasses ==
  ASSUME RenewalInv, PassInv, NEW c \in Clerk, NEW s \in {"none", "pending", "sent", "dlq"}, LeavesWith(c, s),
         s = "sent" => clerk[c].pc = "ack", s = "none" => ~clerk[c].live, stalls' = 0 => stalls = 0, stalls' \in Nat
  PROVE  PassInv'
<1>1. RenewalTypeOK /\ RunStands(c) /\ LiveOne /\ chore["charge_deal"] # "none" /\ RowsStand
  BY DEF RenewalInv, PassInv, JobsStand
<1>2. UNCHANGED <<charged, reported>> /\ clerk' = [clerk EXCEPT ![c] = Idle] BY DEF LeavesWith
<1>3. Idle \in ClerkRecord /\ Idle.pc = "free" /\ ~Idle.live BY DEF Idle, ClerkRecord, RenewalPoint, Sight
<1>4. clerk' \in [Clerk -> ClerkRecord] /\ clerk'[c] = Idle /\ \A d \in Clerk \ {c} : clerk'[d] = clerk[d]
  BY <1>1, <1>2, <1>3, ClerkReplaced
<1>5. \A k \in Chore : chore'[k] = chore[k] \/ (clerk[c].live /\ k = clerk[c].chore /\ chore'[k] = s)
  <2>1. chore \in ChoreTable BY <1>1, RenewalForms
  <2>2. QED BY <2>1 DEF LeavesWith, ChoreTable
<1>6. LiveOne'
  <2>1. \A d \in Clerk \ {c} : clerk[d].live /\ clerk[c].live => clerk[d].chore # clerk[c].chore BY <1>1 DEF LiveOne
  <2>2. QED BY <1>1, <1>3, <1>4, <1>5, <2>1 DEF LiveOne
<1>7. /\ chore'["charge_deal"] # "none"
      /\ chore'["charge_deal"] = "sent" => chore["charge_deal"] = "sent" \/ (clerk[c].pc = "ack" /\ clerk[c].chore = "charge_deal")
  BY <1>1, <1>5 DEF Chore
<1>8. ledger \in [Identity -> AttemptRecord] /\ "gone" \notin Clerk BY <1>1, RenewalForms, RenewalAssumption
<1>9. ASSUME NEW i \in Identity
      PROVE  /\ ledger'[i].result = ledger[i].result /\ ledger'[i].dispatch = ledger[i].dispatch /\ ledger'[i].ref = ledger[i].ref
             /\ ledger'[i].owner \in {ledger[i].owner, "gone"} /\ ledger'[i].owner # c
  <2> DEFINE w == [ledger[i] EXCEPT !.owner = "gone"]
  <2>1. w.result = ledger[i].result /\ w.dispatch = ledger[i].dispatch /\ w.ref = ledger[i].ref /\ w.owner = "gone"
    BY <1>8 DEF AttemptRecord
  <2>2. ledger'[i] = w \/ (ledger'[i] = ledger[i] /\ ledger[i].owner # c) BY DEF LeavesWith
  <2> HIDE DEF w
  <2>3. QED BY <1>8, <2>1, <2>2
<1>10. RowsGo(c)
  <2>1. \A i \in Identity : RowGoes(c, i)
    BY <1>1, <1>8, <1>9 DEF RowGoes, Terminal, RowsStand, BlankRows, OpenRows, FreshRows
  <2>2. \A i \in Renewal : ledger'[i].result = ledger[i].result BY <1>9, Pairs
  <2>3. Numbered' BY <1>1, <2>2 DEF RowsStand, Numbered, Minted
  <2>4. QED BY <2>1, <2>3 DEF RowsGo
<1>11. RunStands(c)'
  <2>1. StallCounted(c)' /\ OnSide(c)' BY <1>3, <1>4 DEF StallCounted, OnSide, ChargePlace, ReconcilePlace, Bound
  <2>2. OwnsAt(c)' BY <1>9 DEF OwnsAt
  <2>3. Lands(c) BY <1>3, <1>4 DEF Lands, BegunAt, UnnamedAt, LookedAt, NotRetiredAt, EndsAt
  <2>4. QED BY <2>1, <2>2, <2>3 DEF RunStands, Lands
<1>12. QED BY <1>2, <1>4, <1>6, <1>7, <1>10, <1>11, PassFollows

\* It ends, fails, dies or loses its lease.
LEMMA LeavingPasses ==
  ASSUME RenewalInv, PassInv, NEW c \in Clerk,
         ClerkAcks(c) \/ ClerkRetries(c) \/ ClerkGivesUp(c) \/ OutOfAttempts(c) \/ ClerkDies(c) \/ ClerkStalls(c)
  PROVE  PassInv'
<1>1. RenewalTypeOK /\ RunStands(c) /\ LiveOne /\ chore["charge_deal"] # "none" BY DEF RenewalInv, PassInv, JobsStand
<1>2. stalls \in Nat BY <1>1, Pairs, RenewalForms
<1>3. CASE ClerkAcks(c) BY <1>2, <1>3, LeavesPasses DEF ClerkAcks, Is
<1>4. CASE ClerkRetries(c) BY <1>2, <1>4, LeavesPasses DEF ClerkRetries
<1>5. CASE ClerkGivesUp(c) BY <1>2, <1>5, LeavesPasses DEF ClerkGivesUp
<1>6. CASE OutOfAttempts(c) BY <1>2, <1>6, LeavesPasses DEF OutOfAttempts
<1>7. CASE ClerkDies(c) BY <1>2, <1>7, LeavesPasses DEF ClerkDies
<1>8. CASE ClerkStalls(c)
  <2> DEFINE q == [clerk[c] EXCEPT !.live = FALSE]
  <2>1. clerk[c] \in ClerkRecord /\ chore \in ChoreTable BY <1>1, RenewalForms
  <2>2. /\ q \in ClerkRecord /\ q.pc = clerk[c].pc /\ q.on = clerk[c].on /\ ~q.live /\ q.hold = clerk[c].hold
        /\ q.chore = clerk[c].chore /\ q.auth = clerk[c].auth
    BY <2>1 DEF ClerkRecord
  <2>3. /\ clerk' = [clerk EXCEPT ![c] = q] /\ chore' = [chore EXCEPT ![clerk[c].chore] = "pending"]
        /\ UNCHANGED <<ledger, charged, reported>> /\ stalls' = stalls + 1 /\ clerk[c].live
    BY <1>8, <2>1 DEF ClerkStalls, records
  <2> HIDE DEF q
  <2>4. clerk' \in [Clerk -> ClerkRecord] /\ clerk'[c] = q /\ \A d \in Clerk \ {c} : clerk'[d] = clerk[d]
    BY <1>1, <2>2, <2>3, ClerkReplaced
  <2>5. \A k \in Chore : chore'[k] = IF k = clerk[c].chore THEN "pending" ELSE chore[k] BY <2>1, <2>3 DEF ChoreTable
  <2>6. LiveOne'
    <3>1. \A d \in Clerk \ {c} : clerk[d].live => clerk[d].chore # clerk[c].chore BY <1>1, <2>3 DEF LiveOne
    <3>2. QED BY <1>1, <2>2, <2>4, <2>5, <3>1 DEF LiveOne
  <2>7. chore'["charge_deal"] # "none" /\ (chore'["charge_deal"] = "sent" => chore["charge_deal"] = "sent")
    BY <1>1, <2>5 DEF Chore
  <2>8. stalls' \in Nat /\ stalls' > 0 BY <1>2, <2>3
  <2>9. RowsGo(c) BY <2>3, <2>8, RowsStill
  <2>10. StallCounted(c)' /\ OnSide(c)' /\ OwnsAt(c)' BY <1>1, <2>2, <2>3, <2>4, <2>8 DEF RunStands, StallCounted, OnSide, OwnsAt
  <2>11. BegunAt(c)' /\ LookedAt(c)' BY <1>1, <2>2, <2>3, <2>4 DEF RunStands, BegunAt, LookedAt
  <2>12. UnnamedAt(c)' /\ NotRetiredAt(c)' BY <2>2, <2>4, <2>8 DEF UnnamedAt, NotRetiredAt
  <2>13. EndsAt(c)'
    <3>1. Waiting' => Waiting BY <2>3 DEF Waiting, Minted
    <3>2. Excused => Excused' BY <2>3, <2>8 DEF Excused, Terminal
    <3>3. QED BY <1>1, <2>2, <2>4, <3>1, <3>2 DEF RunStands, EndsAt
  <2>14. RunStands(c)' BY <2>10, <2>11, <2>12, <2>13 DEF RunStands
  <2>15. QED BY <2>3, <2>4, <2>6, <2>7, <2>8, <2>9, <2>14, PassFollows
<1>9. QED BY <1>3, <1>4, <1>5, <1>6, <1>7, <1>8

\* A step of no run.
LEMMA OutsidePasses ==
  ASSUME RenewalInv, PassInv,
         \/ \E i \in Identity : SweepOrphan(i) \/ LoseRequest(i)
         \/ \E i \in Renewal : ExecuteRenewal(i)
         \/ \E i \in Capture : ExecuteCapture(i)
         \/ \E a \in Authorization : Lapses(a)
         \/ UNCHANGED renewalVars
  PROVE  PassInv'
<1>1. RenewalTypeOK /\ LiveOne /\ chore["charge_deal"] # "none" BY DEF RenewalInv, PassInv, JobsStand
<1>2. stalls \in Nat /\ chore \in ChoreTable /\ "null" \notin Clerk BY <1>1, Pairs, RenewalForms, RenewalAssumption
<1>3. /\ UNCHANGED <<ledger, charged, clerk, stalls>> /\ (reported => reported')
      /\ chore' = chore \/ chore' = Enqueued("payment_reconcile")
  <2>1. ASSUME NEW i \in Identity, SweepOrphan(i) PROVE <1>3!:
    <3>1. Scheduled(i, IF i \in Renewal THEN ledger[i].ref ELSE binding.auth) /\ UNCHANGED <<records, clerk, stalls>>
      BY <2>1 DEF SweepOrphan
    <3>2. reported' = (reported \/ (Alive("payment_reconcile") /\ subject.of # i)) BY <3>1 DEF Scheduled
    <3>3. reported => reported' BY <3>2
    <3>4. QED BY <3>1, <3>3 DEF Scheduled, records
  <2>2. ASSUME NEW i, NEW f, Becomes(i, f) PROVE <1>3!: BY <2>2 DEF Becomes, records, queue
  <2>3. ASSUME NEW a \in Authorization, Lapses(a) PROVE <1>3!: BY <2>3 DEF Lapses, records, queue
  <2>4. CASE UNCHANGED renewalVars BY <2>4 DEF renewalVars
  <2>5. QED BY <2>1, <2>2, <2>3, <2>4 DEF LoseRequest, ExecuteRenewal, ExecuteCapture
<1>4. \A j \in Chore : chore'[j] = chore[j] \/ (~Alive(j) /\ chore'[j] = "pending")
  BY <1>2, <1>3 DEF Enqueued, Alive, ChoreTable
<1>5. LiveOne' BY <1>1, <1>3, <1>4 DEF LiveOne, Alive
<1>6. chore'["charge_deal"] # "none" /\ (chore'["charge_deal"] = "sent" => chore["charge_deal"] = "sent")
  BY <1>1, <1>4 DEF Chore
<1>7. RowsGo("null") BY <1>3, RowsStill
<1>8. QED BY <1>2, <1>3, <1>5, <1>6, <1>7, PassFollows

-----------------------------------------------------------------------------
(* Nobody passed over: the theorem.                                          *)

\* It holds at the start: nothing is begun, and nobody runs.
LEMMA PassBegins == RenewalInit => PassInv
<1> SUFFICES ASSUME RenewalInit PROVE PassInv OBVIOUS
<1>1. \A i \in Identity : ledger[i] = NoAttempt BY DEF RenewalInit
<1>2. \A c \in Clerk : clerk[c] = Idle BY DEF RenewalInit
<1>3. BlankRows /\ OpenRows /\ FreshRows BY <1>1, Pairs DEF BlankRows, OpenRows, FreshRows, NoAttempt
<1>4. Numbered
  <2>1. Minted(Renewal) = {} BY <1>1, Pairs DEF Minted, NoAttempt
  <2>2. {"reauthorize"} \X (1..0) = {} /\ 0 \in 0..MaxRenewals BY Pairs
  <2>3. QED BY <2>1, <2>2 DEF Numbered
<1>5. LiveOne BY <1>2 DEF LiveOne, Idle
<1>6. chore["charge_deal"] = "pending" BY DEF RenewalInit, Chore
<1>7. ASSUME NEW c \in Clerk PROVE RunStands(c)
  <2>1. clerk[c].pc = "free" /\ ~clerk[c].live BY <1>2 DEF Idle
  <2>2. OwnsAt(c) BY <1>1 DEF OwnsAt, NoAttempt
  <2>3. QED BY <2>1, <2>2 DEF RunStands, StallCounted, OnSide, BegunAt, UnnamedAt, LookedAt, NotRetiredAt, EndsAt,
                         ChargePlace, ReconcilePlace, Bound
<1>8. QED BY <1>3, <1>4, <1>5, <1>6, <1>7 DEF PassInv, RowsStand, JobsStand

\* Every step keeps it.
LEMMA PassStep == RenewalInv /\ PassInv /\ [RenewalNext]_renewalVars => PassInv'
<1> SUFFICES ASSUME RenewalInv, PassInv, [RenewalNext]_renewalVars PROVE PassInv' OBVIOUS
<1>1. ASSUME NEW c \in Clerk, ClerkSteps(c) PROVE PassInv'
  BY <1>1, TakePasses, LeavingPasses, RenewPasses, VerdictPasses, ArmPasses, SendPasses, CapturePasses, ResolvePasses,
     CaptureAnswerPasses, EndPasses, ReconcilePasses DEF ClerkSteps
<1>2. QED BY <1>1, OutsidePasses DEF RenewalNext

\* So it always holds.
LEMMA PassAlways == RenewalSpec => []PassInv
BY RenewalAlways, PassBegins, PassStep, PTL DEF RenewalSpec

\* The completion window never opens over a participant who waits and for whom no
\* capture was begun, unless he has a case, or charge_deal is still to run, or was
\* given up, or a run that lost its lease settled his renewal under its successor
\* (the end of charge_deal, and the gate before it, which holds the window for
\* whatever it cannot decide).
THEOREM NobodyIsPassedOver == RenewalSpec => []NobodyPassedOver
<1>1. RenewalTypeOK /\ PassInv => NobodyPassedOver
  <2> SUFFICES ASSUME RenewalTypeOK, PassInv, Waiting, ~Alive("charge_deal"), chore["charge_deal"] # "dlq" PROVE Excused
    BY DEF NobodyPassedOver, Waiting, Excused
  <2>1. chore["charge_deal"] \in {"none", "pending", "processing", "sent", "dlq"} BY RenewalForms DEF ChoreTable, Chore
  <2>2. chore["charge_deal"] = "sent" BY <2>1 DEF PassInv, JobsStand, Alive
  <2>3. QED BY <2>2 DEF PassInv, JobsStand
<1>2. QED BY <1>1, RenewalTypes, PassAlways, PTL
-----------------------------------------------------------------------------
(* Renewed when expired: the invariant.                                      *)

\* A run that is on its way to send a renewal.
Renewing(q) == q.pc = "renew" \/ (q.pc \in {"prove", "arm", "send"} /\ q.on \in Renewal)
\* What it read of the binding at the gate is not in use any more, or it expired.
Outdated(c) == clerk[c].auth # binding.auth \/ Expired
TwoMade == \E j, k \in Done(Renewal) : j # k
\* ... unless the binding returned to it, which takes two renewals that were made.
DueInv ==
  \A c \in Clerk : Renewing(clerk[c]) => /\ clerk[c].auth \in Authorization
                                         /\ clerk[c].auth > 0 => binding.auth > 0
                                         /\ Outdated(c) \/ TwoMade
\* No late run applies a renewal that a later one has replaced.
Forward == binding'.auth >= binding.auth
\* Then what a run read is as old as the binding, or older.
ForwardInv == \A c \in Clerk : Renewing(clerk[c]) => clerk[c].auth <= binding.auth /\ Outdated(c)

-----------------------------------------------------------------------------
(* Renewed when expired: what a step moves.                                  *)

\* A run is renewing only if it was, with the authorization it knew, or has just
\* read of the binding that its authorization expired.
Turned(d) ==
  Renewing(clerk'[d]) => \/ Renewing(clerk[d]) /\ clerk'[d].auth = clerk[d].auth
                         \/ clerk'[d].auth = binding.auth /\ Expired /\ binding' = binding
AllTurned == \A d \in Clerk : Turned(d)
\* The binding takes another authorization, or its own is past; nothing that
\* lapsed, or was made, is undone.
BooksMove ==
  /\ \/ binding' = binding
     \/ binding' = [binding EXCEPT !.expires = "past"]
     \/ binding'.auth # binding.auth /\ binding'.auth \in 1..MaxRenewals
  /\ lapsed \subseteq lapsed'
  /\ \A i \in Renewal : request[i].fate = "done" => request'[i].fate = "done"

\* A run whose record is replaced by one that does not renew.
LEMMA QuietTurned ==
  ASSUME RenewalTypeOK, NEW c \in Clerk, NEW q, clerk' = [clerk EXCEPT ![c] = q], q.pc \notin {"renew", "prove", "arm", "send"}
  PROVE  AllTurned
<1>1. clerk \in [Clerk -> ClerkRecord] BY RenewalForms
<1>2. \A d \in Clerk : clerk'[d] = IF d = c THEN q ELSE clerk[d] BY <1>1
<1>3. QED BY <1>2 DEF AllTurned, Turned, Renewing

\* A run that turns to such a place.
LEMMA LeavesTurned ==
  ASSUME RenewalTypeOK, NEW c \in Clerk, NEW p, p \notin {"renew", "prove", "arm", "send"},
         Turns(c, p) \/ (\E i : TurnsTo(c, p, i) \/ Waits(c, p, i)) \/ (\E v : TurnsKnowing(c, p, v))
  PROVE  AllTurned
<1>1. clerk[c] \in ClerkRecord BY RenewalForms
<1>2. CASE Turns(c, p)
  <2> DEFINE q == IF p \in {"ack", "throw", "give_up"} THEN Closed(c, p) ELSE [clerk[c] EXCEPT !.pc = p, !.seen = "none"]
  <2>1. q.pc = p BY <1>1 DEF Closed, Idle, ClerkRecord
  <2>2. clerk' = [clerk EXCEPT ![c] = q] BY <1>2 DEF Turns
  <2> HIDE DEF q
  <2>3. QED BY <2>1, <2>2, QuietTurned
<1>3. ASSUME NEW i, TurnsTo(c, p, i) PROVE AllTurned
  <2> DEFINE q == [clerk[c] EXCEPT !.pc = p, !.on = i]
  <2>1. q.pc = p BY <1>1 DEF ClerkRecord
  <2>2. clerk' = [clerk EXCEPT ![c] = q] BY <1>1, <1>3 DEF TurnsTo
  <2> HIDE DEF q
  <2>3. QED BY <2>1, <2>2, QuietTurned
<1>4. ASSUME NEW i, Waits(c, p, i) PROVE AllTurned
  <2> DEFINE q == [clerk[c] EXCEPT !.pc = p, !.on = i, !.seen = "none", !.hold = TRUE]
  <2>1. q.pc = p BY <1>1 DEF ClerkRecord
  <2>2. clerk' = [clerk EXCEPT ![c] = q] BY <1>1, <1>4 DEF Waits
  <2> HIDE DEF q
  <2>3. QED BY <2>1, <2>2, QuietTurned
<1>5. ASSUME NEW v, TurnsKnowing(c, p, v) PROVE AllTurned
  <2> DEFINE q == [clerk[c] EXCEPT !.pc = p, !.seen = v]
  <2>1. q.pc = p BY <1>1 DEF ClerkRecord
  <2>2. clerk' = [clerk EXCEPT ![c] = q] BY <1>1, <1>5 DEF TurnsKnowing
  <2> HIDE DEF q
  <2>3. QED BY <2>1, <2>2, QuietTurned
<1>6. QED BY <1>2, <1>3, <1>4, <1>5

\* A run that goes on with its authorization: to a capture, or to a renewal if it
\* was renewing.
LEMMA StaysTurned ==
  ASSUME RenewalTypeOK, NEW c \in Clerk, NEW p \in {"prove", "arm", "send"}, NEW i,
         TurnsTo(c, p, i) \/ (Turns(c, p) /\ i = clerk[c].on), i \in Renewal => Renewing(clerk[c])
  PROVE  AllTurned
<1>1. clerk \in [Clerk -> ClerkRecord] /\ clerk[c] \in ClerkRecord BY RenewalForms
<1>2. PICK q : clerk' = [clerk EXCEPT ![c] = q] /\ q.pc = p /\ q.on = i /\ q.auth = clerk[c].auth
  <2>1. CASE TurnsTo(c, p, i)
    <3> DEFINE w == [clerk[c] EXCEPT !.pc = p, !.on = i]
    <3>1. w.pc = p /\ w.on = i /\ w.auth = clerk[c].auth BY <1>1 DEF ClerkRecord
    <3>2. clerk' = [clerk EXCEPT ![c] = w] BY <1>1, <2>1 DEF TurnsTo
    <3> HIDE DEF w
    <3>3. QED BY <3>1, <3>2
  <2>2. CASE Turns(c, p) /\ i = clerk[c].on
    <3> DEFINE w == [clerk[c] EXCEPT !.pc = p, !.seen = "none"]
    <3>1. w.pc = p /\ w.on = i /\ w.auth = clerk[c].auth BY <1>1, <2>2 DEF ClerkRecord
    <3>2. clerk' = [clerk EXCEPT ![c] = w] BY <2>2 DEF Turns
    <3> HIDE DEF w
    <3>3. QED BY <3>1, <3>2
  <2>3. QED BY <2>1, <2>2
<1>3. \A d \in Clerk : clerk'[d] = IF d = c THEN q ELSE clerk[d] BY <1>1, <1>2
<1>4. QED BY <1>2, <1>3 DEF AllTurned, Turned, Renewing

\* A run takes or leaves its job, or loses its lease.
LEMMA JobTurned ==
  ASSUME RenewalTypeOK, NEW c \in Clerk,
         \/ \E j \in Chore : TakeChore(c, j)
         \/ ClerkAcks(c) \/ ClerkRetries(c) \/ ClerkGivesUp(c) \/ OutOfAttempts(c) \/ ClerkDies(c) \/ ClerkThrows(c) \/ ClerkStalls(c)
  PROVE  AllTurned
<1>1. clerk \in [Clerk -> ClerkRecord] /\ clerk[c] \in ClerkRecord BY RenewalForms
<1>2. ASSUME NEW j \in Chore, TakeChore(c, j) PROVE AllTurned
  <2> DEFINE q == [Idle EXCEPT !.chore = j, !.live = TRUE, !.retry = (j = "charge_deal"),
                    !.pc = IF j = "payment_reconcile" THEN "begin" ELSE IF charged = "ChargeAttempt" THEN "gate" ELSE "end",
                    !.on = IF j = "payment_reconcile" THEN subject.of ELSE Nothing]
  <2>1. q.pc \in {"begin", "gate", "end"} BY DEF Idle
  <2>2. clerk' = [clerk EXCEPT ![c] = q] BY <1>2 DEF TakeChore
  <2> HIDE DEF q
  <2>3. QED BY <2>1, <2>2, QuietTurned
<1>3. ASSUME NEW s, LeavesWith(c, s) PROVE AllTurned
  <2>1. Idle.pc = "free" BY DEF Idle
  <2>2. QED BY <1>3, <2>1, QuietTurned DEF LeavesWith
<1>4. CASE ClerkThrows(c) BY <1>4, LeavesTurned DEF ClerkThrows
<1>5. CASE ClerkStalls(c)
  <2> DEFINE q == [clerk[c] EXCEPT !.live = FALSE]
  <2>1. q.pc = clerk[c].pc /\ q.on = clerk[c].on /\ q.auth = clerk[c].auth BY <1>1 DEF ClerkRecord
  <2>2. clerk' = [clerk EXCEPT ![c] = q] BY <1>1, <1>5 DEF ClerkStalls
  <2> HIDE DEF q
  <2>3. \A d \in Clerk : clerk'[d] = IF d = c THEN q ELSE clerk[d] BY <1>1, <2>2
  <2>4. QED BY <2>1, <2>3 DEF AllTurned, Turned, Renewing
<1>6. QED BY <1>2, <1>3, <1>4, <1>5 DEF ClerkAcks, ClerkRetries, ClerkGivesUp, OutOfAttempts, ClerkDies

\* The gate, the renewal and its arm.
LEMMA RenewTurned ==
  ASSUME RenewalInv, NEW c \in Clerk,
         \/ Gate(c) \/ RenewalNotAdmitted(c) \/ RenewalBlocked(c) \/ RenewalAgain(c) \/ RenewalFresh(c)
         \/ ProveRenewal(c) \/ ArmRequest(c)
  PROVE  AllTurned
<1>1. RenewalTypeOK /\ AtPlace(clerk[c]) BY DEF RenewalInv, Standing
<1>2. clerk \in [Clerk -> ClerkRecord] /\ clerk[c] \in ClerkRecord BY <1>1, RenewalForms
<1>3. CASE Gate(c)
  <2> DEFINE p == IF Expired /\ ~LastDeclined THEN "renew" ELSE "capture"
             q == [clerk[c] EXCEPT !.auth = binding.auth, !.pc = p]
  <2>1. q.pc = p /\ q.auth = binding.auth BY <1>2 DEF ClerkRecord
  <2>2. clerk' = [clerk EXCEPT ![c] = q] /\ binding' = binding BY <1>2, <1>3 DEF Gate, records
  <2>3. p = "capture" \/ (p = "renew" /\ Expired) OBVIOUS
  <2> HIDE DEF p, q
  <2>4. \A d \in Clerk : clerk'[d] = IF d = c THEN q ELSE clerk[d] BY <1>2, <2>2
  <2>5. QED BY <2>1, <2>2, <2>3, <2>4 DEF AllTurned, Turned, Renewing
<1>4. CASE RenewalNotAdmitted(c) BY <1>1, <1>4, LeavesTurned DEF RenewalNotAdmitted
<1>5. CASE RenewalBlocked(c)
  <2>1. PICK i : Waits(c, "schedule", i) BY <1>5 DEF RenewalBlocked
  <2>2. QED BY <1>1, <2>1, LeavesTurned
<1>6. CASE RenewalAgain(c)
  <2>1. PICK i \in Renewal : Waits(c, "end", Nothing) \/ TurnsTo(c, "arm", i) \/ TurnsTo(c, "prove", i)
    BY <1>6 DEF RenewalAgain, Unknown
  <2>2. Renewing(clerk[c]) BY <1>6 DEF RenewalAgain, Is, Renewing
  <2>3. CASE Waits(c, "end", Nothing) BY <1>1, <2>3, LeavesTurned
  <2>4. QED BY <1>1, <2>1, <2>2, <2>3, StaysTurned
<1>7. CASE RenewalFresh(c)
  <2>1. TurnsTo(c, "arm", NextOf(Renewal)) BY <1>7 DEF RenewalFresh
  <2>2. Renewing(clerk[c]) BY <1>7 DEF RenewalFresh, Is, Renewing
  <2>3. QED BY <1>1, <2>1, <2>2, StaysTurned
<1>8. CASE ProveRenewal(c)
  <2>1. Renewing(clerk[c]) BY <1>1, <1>8 DEF ProveRenewal, Is, Renewing, AtPlace
  <2>2. CASE ledger[Its(c)].ref = None BY <1>1, <1>8, <2>1, <2>2, StaysTurned DEF ProveRenewal
  <2>3. CASE ledger[Its(c)].ref # None
    <3>1. PICK v \in RenewalStatus(Its(c)) :
            CASE v = "done" -> Turns(c, "apply")
              [] v = "negative" /\ conclusive -> Turns(c, "close")
              [] OTHER -> Waits(c, "schedule", Its(c))
      BY <1>8, <2>3 DEF ProveRenewal
    <3>2. Turns(c, "apply") \/ Turns(c, "close") \/ Waits(c, "schedule", Its(c)) BY <3>1
    <3>3. QED BY <1>1, <3>2, LeavesTurned
  <2>4. QED BY <2>2, <2>3
<1>9. CASE ArmRequest(c)
  <2>1. Turns(c, "throw") \/ Turns(c, "send") \/ Turns(c, "end") BY <1>9 DEF ArmRequest
  <2>2. CASE Turns(c, "send")
    <3>1. clerk[c].on \in Renewal => Renewing(clerk[c]) BY <1>9 DEF ArmRequest, Is, Renewing
    <3>2. QED BY <1>1, <2>2, <3>1, StaysTurned
  <2>3. QED BY <1>1, <2>1, <2>2, LeavesTurned
<1>10. QED BY <1>3, <1>4, <1>5, <1>6, <1>7, <1>8, <1>9

\* A renewal that is made is applied, or closed; a request is sent, answered and
\* settled.
LEMMA AnswerTurned ==
  ASSUME RenewalTypeOK, NEW c \in Clerk,
         \/ ApplyProven(c) \/ CloseUnexecuted(c) \/ SendRequest(c) \/ Answered(c) \/ SettleRefused(c)
         \/ RenewalDone(c) \/ RenewalPending(c) \/ RenewalUnanswered(c) \/ RenewalDeclined(c) \/ RenewalUnsent(c)
  PROVE  AllTurned
<1>1. clerk \in [Clerk -> ClerkRecord] /\ clerk[c] \in ClerkRecord BY RenewalForms
<1>2. CASE ApplyProven(c) \/ RenewalDone(c)
  <2> DEFINE q == [clerk[c] EXCEPT !.pc = "capture", !.auth = Its(c)[2]]
             w == [clerk[c] EXCEPT !.pc = "capture", !.auth = Its(c)[2], !.seen = "none"]
  <2>1. q.pc = "capture" /\ w.pc = "capture" BY <1>1 DEF ClerkRecord
  <2>2. clerk' = [clerk EXCEPT ![c] = q] \/ clerk' = [clerk EXCEPT ![c] = w] BY <1>1, <1>2 DEF ApplyProven, RenewalDone
  <2> HIDE DEF q, w
  <2>3. QED BY <2>1, <2>2, QuietTurned
<1>3. CASE CloseUnexecuted(c)
  <2>1. Turns(c, "throw") \/ Turns(c, "capture") BY <1>3 DEF CloseUnexecuted
  <2>2. QED BY <2>1, LeavesTurned
<1>4. CASE SendRequest(c)
  <2>1. Turns(c, "await") \/ TurnsKnowing(c, "settle", "unsent") BY <1>4 DEF SendRequest
  <2>2. QED BY <2>1, LeavesTurned
<1>5. CASE Answered(c)
  <2>1. PICK v : TurnsKnowing(c, "settle", v) BY <1>5 DEF Answered
  <2>2. QED BY <2>1, LeavesTurned
<1>6. CASE SettleRefused(c) BY <1>6, LeavesTurned DEF SettleRefused
<1>7. CASE RenewalPending(c) BY <1>7, LeavesTurned DEF RenewalPending
<1>8. CASE RenewalUnanswered(c) BY <1>8, LeavesTurned DEF RenewalUnanswered
<1>9. CASE RenewalDeclined(c) BY <1>9, LeavesTurned DEF RenewalDeclined
<1>10. CASE RenewalUnsent(c) BY <1>10, LeavesTurned DEF RenewalUnsent
<1>11. QED BY <1>2, <1>3, <1>4, <1>5, <1>6, <1>7, <1>8, <1>9, <1>10

\* A capture is begun, resumed or resolved, answered and booked.
LEMMA CaptureTurned ==
  ASSUME RenewalInv, NEW c \in Clerk,
         \/ CaptureNotAdmitted(c) \/ CaptureBlocked(c) \/ CaptureAgain(c) \/ CaptureFresh(c)
         \/ ResolveCaptured(c) \/ ResolveFailed(c) \/ ResolveUnsettled(c)
         \/ CaptureDone(c) \/ CaptureUnusable(c) \/ CaptureDeclined(c) \/ CaptureUnanswered(c) \/ CaptureUnsent(c)
         \/ IngestOutcome(c)
  PROVE  AllTurned
<1>1. RenewalTypeOK /\ AtPlace(clerk[c]) BY DEF RenewalInv, Standing
<1>2. clerk \in [Clerk -> ClerkRecord] /\ clerk[c] \in ClerkRecord BY <1>1, RenewalForms
<1>3. CASE CaptureNotAdmitted(c) BY <1>1, <1>3, LeavesTurned DEF CaptureNotAdmitted
<1>4. CASE CaptureBlocked(c)
  <2>1. PICK i : TurnsTo(c, "schedule", i) BY <1>4 DEF CaptureBlocked
  <2>2. QED BY <1>1, <2>1, LeavesTurned
<1>5. CASE CaptureAgain(c)
  <2>1. PICK i \in Capture : TurnsTo(c, "end", i) \/ TurnsTo(c, "arm", i) \/ TurnsTo(c, "resolve", i)
    BY <1>5 DEF CaptureAgain, Minted
  <2>2. i \notin Renewal BY Pairs
  <2>3. CASE TurnsTo(c, "arm", i) BY <1>1, <2>2, <2>3, StaysTurned
  <2>4. QED BY <1>1, <2>1, <2>3, LeavesTurned
<1>6. CASE CaptureFresh(c)
  <2>1. TurnsTo(c, "arm", NextOf(Capture)) BY <1>6 DEF CaptureFresh
  <2>2. NextOf(Capture) \notin Renewal BY <1>1, <1>6, Column, Pairs DEF CaptureFresh
  <2>3. QED BY <1>1, <2>1, <2>2, StaysTurned
<1>7. CASE ResolveCaptured(c) BY <1>1, <1>7, LeavesTurned DEF ResolveCaptured
<1>8. CASE ResolveFailed(c)
  <2>1. Turns(c, "throw") \/ Turns(c, "end") BY <1>8 DEF ResolveFailed
  <2>2. QED BY <1>1, <2>1, LeavesTurned
<1>9. CASE ResolveUnsettled(c)
  <2>1. Turns(c, "arm") \/ Turns(c, "schedule") BY <1>9 DEF ResolveUnsettled
  <2>2. clerk[c].on \notin Renewal BY <1>1, <1>9, Pairs DEF ResolveUnsettled, Is, AtPlace
  <2>3. CASE Turns(c, "arm") BY <1>1, <2>2, <2>3, StaysTurned
  <2>4. QED BY <1>1, <2>1, <2>3, LeavesTurned
<1>10. CASE CaptureDone(c) BY <1>1, <1>10, LeavesTurned DEF CaptureDone
<1>11. CASE CaptureUnusable(c)
  <2> DEFINE q == [clerk[c] EXCEPT !.pc = "gate", !.retry = FALSE, !.seen = "none"]
  <2>1. q.pc = "gate" BY <1>2 DEF ClerkRecord
  <2>2. clerk' = [clerk EXCEPT ![c] = q] BY <1>2, <1>11 DEF CaptureUnusable
  <2> HIDE DEF q
  <2>3. QED BY <1>1, <2>1, <2>2, QuietTurned
<1>12. CASE CaptureDeclined(c) BY <1>1, <1>12, LeavesTurned DEF CaptureDeclined
<1>13. CASE CaptureUnanswered(c) BY <1>1, <1>13, LeavesTurned DEF CaptureUnanswered
<1>14. CASE CaptureUnsent(c) BY <1>1, <1>14, LeavesTurned DEF CaptureUnsent
<1>15. CASE IngestOutcome(c) BY <1>1, <1>15, LeavesTurned DEF IngestOutcome
<1>16. QED BY <1>3, <1>4, <1>5, <1>6, <1>7, <1>8, <1>9, <1>10, <1>11, <1>12, <1>13, <1>14, <1>15

\* charge_deal ends; payment_reconcile looks, and concludes.
LEMMA ReconcileTurned ==
  ASSUME RenewalTypeOK, NEW c \in Clerk,
         \/ ScheduleReconcile(c) \/ EndOfCharge(c) \/ ReconcileBegins(c) \/ ReconcileLooks(c) \/ ReconcileReads(c)
         \/ ConcludeRenewed(c) \/ WakeCharge(c) \/ ConcludeCaptured(c) \/ ConcludeNegative(c)
  PROVE  AllTurned
<1>1. clerk[c] \in ClerkRecord BY RenewalForms
<1>2. CASE ScheduleReconcile(c) BY <1>2, LeavesTurned DEF ScheduleReconcile
<1>3. CASE EndOfCharge(c)
  <2>1. Turns(c, "throw") \/ Turns(c, "ack") BY <1>3 DEF EndOfCharge
  <2>2. QED BY <2>1, LeavesTurned
<1>4. CASE ReconcileBegins(c)
  <2>1. Turns(c, "ack") \/ \E a : clerk' = [clerk EXCEPT ![c].pc = "flight", ![c].auth = a]
    BY <1>4 DEF ReconcileBegins
  <2>2. ASSUME NEW a, clerk' = [clerk EXCEPT ![c].pc = "flight", ![c].auth = a] PROVE AllTurned
    <3> DEFINE q == [clerk[c] EXCEPT !.pc = "flight", !.auth = a]
    <3>1. q.pc = "flight" BY <1>1 DEF ClerkRecord
    <3>2. clerk' = [clerk EXCEPT ![c] = q] BY <1>1, <2>2
    <3> HIDE DEF q
    <3>3. QED BY <3>1, <3>2, QuietTurned
  <2>3. QED BY <2>1, <2>2, LeavesTurned
<1>5. CASE ReconcileLooks(c)
  <2>1. Turns(c, "throw") \/ Turns(c, "ack") \/ Turns(c, "status") BY <1>5 DEF ReconcileLooks
  <2>2. QED BY <2>1, LeavesTurned
<1>6. CASE ReconcileReads(c)
  <2>1. Turns(c, "throw") \/ \E v : TurnsKnowing(c, "conclude", v) BY <1>6 DEF ReconcileReads
  <2>2. QED BY <2>1, LeavesTurned
<1>7. CASE ConcludeRenewed(c) BY <1>7, LeavesTurned DEF ConcludeRenewed
<1>8. CASE WakeCharge(c) BY <1>8, LeavesTurned DEF WakeCharge
<1>9. CASE ConcludeCaptured(c) BY <1>9, LeavesTurned DEF ConcludeCaptured
<1>10. CASE ConcludeNegative(c)
  <2>1. Turns(c, "give_up") \/ Turns(c, "throw") \/ Turns(c, "ack") BY <1>10 DEF ConcludeNegative
  <2>2. QED BY <2>1, LeavesTurned
<1>11. QED BY <1>2, <1>3, <1>4, <1>5, <1>6, <1>7, <1>8, <1>9, <1>10

\* No step makes a run renew but the gate.
LEMMA StepTurned ==
  ASSUME RenewalInv, [RenewalNext]_renewalVars
  PROVE  AllTurned
<1>1. RenewalTypeOK BY DEF RenewalInv
<1>2. clerk' = clerk => AllTurned BY DEF AllTurned, Turned
<1>3. ASSUME NEW c \in Clerk, ClerkSteps(c) PROVE AllTurned
  BY <1>1, <1>3, JobTurned, RenewTurned, AnswerTurned, CaptureTurned, ReconcileTurned DEF ClerkSteps
<1>4. ASSUME NEW i \in Identity, SweepOrphan(i) \/ LoseRequest(i) \/ ExecuteRenewal(i) \/ ExecuteCapture(i) PROVE clerk' = clerk
  BY <1>4 DEF SweepOrphan, LoseRequest, ExecuteRenewal, ExecuteCapture, Becomes
<1>5. ASSUME NEW a \in Authorization, Lapses(a) PROVE clerk' = clerk BY <1>5 DEF Lapses
<1>6. UNCHANGED renewalVars => clerk' = clerk BY DEF renewalVars
<1>7. QED BY <1>2, <1>3, <1>4, <1>5, <1>6, Pairs DEF RenewalNext

\* A request's fate changes only by a run that sends it, for the first time, or
\* at the provider, where it waited.
LEMMA FateMoves ==
  ASSUME RenewalInv, [RenewalNext]_renewalVars, NEW i \in Identity, request'[i] # request[i]
  PROVE  \/ \E c \in Clerk : Is(c, "send") /\ Its(c) = i /\ request[i].fate = "unsent"
         \/ request[i].fate \in {"wire", "pending"}
<1>1. request \in [Identity -> RequestRecord] BY RenewalForms DEF RenewalInv
<1>2. ASSUME NEW c \in Clerk, SendRequest(c) PROVE Is(c, "send") /\ Its(c) = i /\ request[i].fate = "unsent"
  <2> DEFINE w == [fate |-> "wire", on |-> IF Its(c) \in Capture THEN clerk[c].auth ELSE 0]
  <2>1. request[Its(c)].fate = "unsent" /\ request' = [request EXCEPT ![Its(c)] = w] /\ Is(c, "send")
    BY <1>2 DEF SendRequest
  <2> HIDE DEF w
  <2>2. Its(c) = i BY <1>1, <2>1
  <2>3. QED BY <2>1, <2>2
<1>3. ASSUME NEW c \in Clerk, ClerkSteps(c), ~SendRequest(c) PROVE FALSE
  <2>1. UNCHANGED provider
    BY <1>3 DEF ClerkSteps, TakeChore, ClerkAcks, ClerkRetries, ClerkGivesUp, OutOfAttempts, ClerkDies, LeavesWith,
      ClerkThrows, ClerkStalls, Gate, RenewalNotAdmitted, RenewalBlocked, RenewalAgain, RenewalFresh, ProveRenewal,
      ApplyProven, CloseUnexecuted, ArmRequest, Answered, SettleRefused, RenewalDone, RenewalPending, RenewalUnanswered,
      RenewalDeclined, RenewalUnsent, CaptureNotAdmitted, CaptureBlocked, CaptureAgain, CaptureFresh, ResolveCaptured,
      ResolveFailed, ResolveUnsettled, CaptureDone, CaptureUnusable, CaptureDeclined, CaptureUnanswered, CaptureUnsent,
      IngestOutcome, ScheduleReconcile, EndOfCharge, ReconcileBegins, ReconcileLooks, ReconcileReads, ConcludeRenewed,
      WakeCharge, ConcludeCaptured, ConcludeNegative
  <2>2. QED BY <2>1 DEF provider
<1>4. ASSUME NEW k \in Identity, NEW f, request[k].fate \in {"wire", "pending"}, Becomes(k, f)
      PROVE  request[i].fate \in {"wire", "pending"}
  <2> DEFINE w == [request[k] EXCEPT !.fate = f]
  <2>1. request' = [request EXCEPT ![k] = w] BY <1>1, <1>4 DEF Becomes
  <2> HIDE DEF w
  <2>2. k = i BY <1>1, <2>1
  <2>3. QED BY <1>4, <2>2
<1>5. ASSUME NEW k \in Identity, LoseRequest(k) \/ ExecuteRenewal(k) \/ ExecuteCapture(k)
      PROVE  request[i].fate \in {"wire", "pending"}
  <2>1. request[k].fate \in {"wire", "pending"} /\ \E f : Becomes(k, f)
    BY <1>5 DEF LoseRequest, ExecuteRenewal, ExecuteCapture
  <2>2. QED BY <1>4, <2>1
<1>6. ASSUME NEW k \in Identity, SweepOrphan(k) PROVE FALSE BY <1>6 DEF SweepOrphan, provider
<1>7. ASSUME NEW a \in Authorization, Lapses(a) PROVE FALSE BY <1>7 DEF Lapses
<1>8. ~UNCHANGED renewalVars BY DEF renewalVars
<1>9. QED BY <1>2, <1>3, <1>5, <1>6, <1>7, <1>8, Pairs DEF RenewalNext

\* The binding and what is over at the provider.
LEMMA StepMoves ==
  ASSUME RenewalInv, [RenewalNext]_renewalVars
  PROVE  BooksMove
<1>1. RenewalTypeOK BY DEF RenewalInv
<1>2. \A i \in Renewal : request[i].fate = "done" => request'[i].fate = "done"
  <2>1. SUFFICES ASSUME NEW i \in Renewal, request[i].fate = "done", request'[i] # request[i] PROVE FALSE OBVIOUS
  <2>2. i \in Identity BY Pairs
  <2>3. QED BY <2>1, <2>2, FateMoves
<1>3. lapsed \subseteq lapsed' /\ (binding' = binding \/ \E c \in Clerk : ClerkSteps(c))
  <2>1. ASSUME NEW c \in Clerk, ClerkSteps(c) PROVE lapsed' = lapsed
    BY <2>1 DEF provider, ClerkSteps, TakeChore, ClerkAcks, ClerkRetries, ClerkGivesUp, OutOfAttempts, ClerkDies, LeavesWith,
      ClerkThrows, ClerkStalls, Gate, RenewalNotAdmitted, RenewalBlocked, RenewalAgain, RenewalFresh, ProveRenewal,
      ApplyProven, CloseUnexecuted, ArmRequest, SendRequest, Answered, SettleRefused, RenewalDone, RenewalPending, RenewalUnanswered,
      RenewalDeclined, RenewalUnsent, CaptureNotAdmitted, CaptureBlocked, CaptureAgain, CaptureFresh, ResolveCaptured,
      ResolveFailed, ResolveUnsettled, CaptureDone, CaptureUnusable, CaptureDeclined, CaptureUnanswered, CaptureUnsent,
      IngestOutcome, ScheduleReconcile, EndOfCharge, ReconcileBegins, ReconcileLooks, ReconcileReads, ConcludeRenewed,
      WakeCharge, ConcludeCaptured, ConcludeNegative
  <2>2. ASSUME NEW i \in Identity, SweepOrphan(i) \/ LoseRequest(i) \/ ExecuteRenewal(i) \/ ExecuteCapture(i)
        PROVE  UNCHANGED <<binding, lapsed>>
    BY <2>2 DEF SweepOrphan, LoseRequest, ExecuteRenewal, ExecuteCapture, Becomes, provider, records
  <2>3. ASSUME NEW a \in Authorization, Lapses(a) PROVE binding' = binding /\ lapsed \subseteq lapsed'
    BY <2>3 DEF Lapses, records
  <2>4. UNCHANGED renewalVars => UNCHANGED <<binding, lapsed>> BY DEF renewalVars
  <2>5. QED BY <2>1, <2>2, <2>3, <2>4, Pairs DEF RenewalNext
<1>4. ASSUME NEW c \in Clerk, ApplyProven(c) \/ RenewalDone(c) \/ ConcludeRenewed(c)
      PROVE  binding' = binding \/ (binding'.auth # binding.auth /\ binding'.auth \in 1..MaxRenewals)
  <2>1. Its(c) \in Renewal
    BY <1>4 DEF ApplyProven, RenewalDone, ConcludeRenewed, Is, Its, RenewalInv, Standing, AtPlace
  <2>2. Its(c)[2] \in 1..MaxRenewals /\ Its(c)[2] \in Authorization BY <2>1, Pairs
  <2>3. binding' = Applied(Its(c)[2], "null") \/ binding' = Applied(Its(c)[2], DeclaredExpiry)
    BY <1>4 DEF ApplyProven, RenewalDone, ConcludeRenewed
  <2>4. QED BY <2>2, <2>3 DEF Applied
<1>5. ASSUME NEW c \in Clerk, ClerkSteps(c), ~(ApplyProven(c) \/ RenewalDone(c) \/ ConcludeRenewed(c) \/ CaptureUnusable(c))
      PROVE  binding' = binding
  BY <1>5 DEF records, ClerkSteps, TakeChore, ClerkAcks, ClerkRetries, ClerkGivesUp, OutOfAttempts, ClerkDies, LeavesWith,
      ClerkThrows, ClerkStalls, Gate, RenewalNotAdmitted, RenewalBlocked, RenewalAgain, RenewalFresh, ProveRenewal,
      CloseUnexecuted, ArmRequest, SendRequest, Answered, SettleRefused, RenewalPending, RenewalUnanswered,
      RenewalDeclined, RenewalUnsent, CaptureNotAdmitted, CaptureBlocked, CaptureAgain, CaptureFresh, ResolveCaptured,
      ResolveFailed, ResolveUnsettled, CaptureDone, CaptureDeclined, CaptureUnanswered, CaptureUnsent,
      IngestOutcome, ScheduleReconcile, EndOfCharge, ReconcileBegins, ReconcileLooks, ReconcileReads,
      WakeCharge, ConcludeCaptured, ConcludeNegative
<1>6. ASSUME NEW c \in Clerk, CaptureUnusable(c) PROVE binding' = binding \/ binding' = [binding EXCEPT !.expires = "past"]
  BY <1>6 DEF CaptureUnusable
<1>7. QED BY <1>2, <1>3, <1>4, <1>5, <1>6 DEF BooksMove

\* What expired does not become valid again, but by another authorization.
LEMMA ExpiredStays ==
  ASSUME RenewalTypeOK, BooksMove, Expired
  PROVE  binding'.auth # binding.auth \/ Expired'
<1>1. binding \in BindingRecord BY RenewalForms
<1>2. QED BY <1>1 DEF BooksMove, Expired, BindingRecord

-----------------------------------------------------------------------------
(* Renewed when expired: the theorems.                                       *)

\* Every step keeps DueInv, and ForwardInv if the binding does not go back.
LEMMA DueStep ==
  ASSUME RenewalInv, RenewalInv', [RenewalNext]_renewalVars
  PROVE  /\ DueInv => DueInv'
         /\ ForwardInv /\ Forward => ForwardInv'
<1>1. AllTurned /\ BooksMove BY StepTurned, StepMoves
<1>2. RenewalTypeOK BY DEF RenewalInv
<1>3. binding \in BindingRecord /\ binding.auth \in Authorization /\ MaxRenewals \in Nat
  BY <1>2, RenewalForms, Pairs DEF BindingRecord
<1>4. binding'.auth = binding.auth \/ (binding'.auth # binding.auth /\ binding'.auth \in 1..MaxRenewals)
  BY <1>1, <1>3 DEF BooksMove, BindingRecord
<1>5. Expired => binding'.auth # binding.auth \/ Expired' BY <1>1, <1>2, ExpiredStays
<1>6. TwoMade => TwoMade' BY <1>1 DEF TwoMade, Done, BooksMove
<1>7. ASSUME DueInv, NEW d \in Clerk, Renewing(clerk'[d])
      PROVE  /\ clerk'[d].auth \in Authorization
             /\ clerk'[d].auth > 0 => binding'.auth > 0
             /\ clerk'[d].auth # binding'.auth \/ Expired' \/ TwoMade'
  <2>1. CASE clerk'[d].auth = binding.auth /\ Expired /\ binding' = binding
    BY <1>3, <1>5, <2>1
  <2>2. CASE Renewing(clerk[d]) /\ clerk'[d].auth = clerk[d].auth
    <3>1. /\ clerk[d].auth \in Authorization /\ (clerk[d].auth > 0 => binding.auth > 0)
          /\ Outdated(d) \/ TwoMade
      BY <1>7, <2>2 DEF DueInv
    <3>2. CASE binding'.auth = binding.auth BY <1>5, <1>6, <2>2, <3>1, <3>2 DEF Outdated
    <3>3. CASE binding'.auth # binding.auth /\ binding'.auth \in 1..MaxRenewals
      <4>1. binding'.auth > 0 BY <1>3, <3>3
      <4>2. CASE clerk[d].auth = binding'.auth
        <5>1. binding.auth > 0 BY <3>1, <4>1, <4>2
        <5>2. <<"reauthorize", binding.auth>> \in Done(Renewal) BY <5>1 DEF RenewalInv, RenewalsAreTrue
        <5>3. <<"reauthorize", binding'.auth>> \in Done(Renewal)' BY <4>1 DEF RenewalInv, RenewalsAreTrue
        <5>4. <<"reauthorize", binding.auth>> \in Done(Renewal)' BY <1>1, <5>2 DEF Done, BooksMove
        <5>5. <<"reauthorize", binding.auth>> # <<"reauthorize", binding'.auth>> BY <3>3
        <5>6. TwoMade' BY <5>3, <5>4, <5>5 DEF TwoMade
        <5>7. QED BY <2>2, <3>1, <4>1, <5>6
      <4>3. QED BY <2>2, <3>1, <4>1, <4>2
    <3>4. QED BY <1>4, <3>2, <3>3
  <2>3. QED BY <1>1, <1>7, <2>1, <2>2 DEF AllTurned, Turned
<1>8. ASSUME ForwardInv, Forward, NEW d \in Clerk, Renewing(clerk'[d])
      PROVE  clerk'[d].auth <= binding'.auth /\ (clerk'[d].auth # binding'.auth \/ Expired')
  <2>1. CASE clerk'[d].auth = binding.auth /\ Expired /\ binding' = binding
    BY <1>3, <1>5, <2>1 DEF Authorization
  <2>2. CASE Renewing(clerk[d]) /\ clerk'[d].auth = clerk[d].auth
    <3>1. clerk[d].auth <= binding.auth /\ Outdated(d) BY <1>8, <2>2 DEF ForwardInv
    <3>2. clerk[d].auth \in Int
      <4>1. clerk[d] \in ClerkRecord BY <1>2, RenewalForms
      <4>2. QED BY <1>3, <4>1 DEF ClerkRecord, Authorization, None
    <3>3. CASE binding'.auth = binding.auth BY <1>5, <2>2, <3>1, <3>3 DEF Outdated
    <3>4. CASE binding'.auth # binding.auth /\ binding'.auth \in 1..MaxRenewals
      BY <1>3, <1>8, <2>2, <3>1, <3>2, <3>4 DEF Forward, Authorization
    <3>5. QED BY <1>4, <3>3, <3>4
  <2>3. QED BY <1>1, <1>8, <2>1, <2>2 DEF AllTurned, Turned
<1>9. DueInv => DueInv' BY <1>7 DEF DueInv, Outdated
<1>10. ForwardInv /\ Forward => ForwardInv' BY <1>8 DEF ForwardInv, Outdated
<1>11. QED BY <1>9, <1>10

\* No run renews at the start.
LEMMA DueBegins == RenewalInit => DueInv /\ ForwardInv
BY DEF RenewalInit, DueInv, ForwardInv, Renewing, Idle

\* What RenewedWhenExpired says of a step.
DueSend ==
  \A i \in Renewal : request[i].fate = "unsent" /\ request'[i].fate = "wire" =>
    Expired \/ \E c \in Clerk : Is(c, "send") /\ Its(c) = i /\ clerk[c].auth # binding.auth
\* A renewal that is first sent is sent by a run that is renewing.
LEMMA SentByRenewing ==
  ASSUME RenewalInv, [RenewalNext]_renewalVars, NEW i \in Renewal, request[i].fate = "unsent", request'[i].fate = "wire"
  PROVE  \E c \in Clerk : Is(c, "send") /\ Its(c) = i /\ Renewing(clerk[c])
<1>1. i \in Identity /\ request'[i] # request[i] BY Pairs
<1>2. PICK c \in Clerk : Is(c, "send") /\ Its(c) = i BY <1>1, FateMoves
<1>3. QED BY <1>2 DEF Is, Its, Renewing

\* A renewal is first sent only while the authorization in use has expired, or
\* another run renewed it meanwhile, as long as the participant has no third
\* renewal: for any number of runs and captures, of leases lost and of jobs given
\* up (the gate of ensureUsableAuthorizationForCapture, whose verdict is some
\* transactions old when the renewal is sent).
THEOREM RenewedOnlyWhenExpired ==
  ASSUME MaxRenewals <= 2
  PROVE  RenewalSpec => RenewedWhenExpired
<1>1. RenewalInv /\ DueInv /\ [RenewalNext]_renewalVars => DueSend
  <2> SUFFICES ASSUME RenewalInv, DueInv, [RenewalNext]_renewalVars,
                      NEW i \in Renewal, request[i].fate = "unsent", request'[i].fate = "wire"
               PROVE  Expired \/ \E c \in Clerk : Is(c, "send") /\ Its(c) = i /\ clerk[c].auth # binding.auth
    BY DEF DueSend
  <2>1. PICK c \in Clerk : Is(c, "send") /\ Its(c) = i /\ Renewing(clerk[c]) BY SentByRenewing
  <2>2. Outdated(c) \/ TwoMade BY <2>1 DEF DueInv
  <2>3. ~TwoMade
    <3>1. SUFFICES ASSUME NEW j \in Done(Renewal), NEW k \in Done(Renewal), j # k PROVE FALSE BY DEF TwoMade
    <3>2. j \in Renewal /\ k \in Renewal /\ j # i /\ k # i BY DEF Done
    <3>3. i[2] \in 1..2 /\ j[2] \in 1..2 /\ k[2] \in 1..2 BY <3>2, Pairs
    <3>4. i[2] # j[2] /\ i[2] # k[2] /\ j[2] # k[2] BY <3>1, <3>2, Pairs
    <3>5. QED BY <3>3, <3>4
  <2>4. QED BY <2>1, <2>2, <2>3 DEF Outdated
<1>2. RenewalInv /\ RenewalInv' /\ DueInv /\ [RenewalNext]_renewalVars => DueInv' BY DueStep
<1>3. RenewalInit => DueInv BY DueBegins
<1>4. RenewalSpec => [][DueSend]_renewalVars BY <1>1, <1>2, <1>3, RenewalAlways, PTL DEF RenewalSpec
<1>5. QED BY <1>4, PTL DEF RenewedWhenExpired, DueSend

\* For any number of renewals it is so where no late run applies a renewal that a
\* later one has replaced.  applyAuthorizationRenewalInTx does not rule that out:
\* it compares the reference it applies with the current one only.
THEOREM RenewedOnlyWhenExpiredForward ==
  RenewalSpec /\ [][Forward]_renewalVars => RenewedWhenExpired
<1>1. RenewalInv /\ ForwardInv /\ [RenewalNext]_renewalVars => DueSend
  <2> SUFFICES ASSUME RenewalInv, ForwardInv, [RenewalNext]_renewalVars,
                      NEW i \in Renewal, request[i].fate = "unsent", request'[i].fate = "wire"
               PROVE  Expired \/ \E c \in Clerk : Is(c, "send") /\ Its(c) = i /\ clerk[c].auth # binding.auth
    BY DEF DueSend
  <2>1. PICK c \in Clerk : Is(c, "send") /\ Its(c) = i /\ Renewing(clerk[c]) BY SentByRenewing
  <2>2. QED BY <2>1 DEF ForwardInv, Outdated
<1>2. RenewalInv /\ RenewalInv' /\ ForwardInv /\ [RenewalNext]_renewalVars /\ [Forward]_renewalVars => ForwardInv'
  <2>1. SUFFICES ASSUME RenewalInv, ForwardInv, UNCHANGED renewalVars PROVE ForwardInv' BY DueStep
  <2>2. RenewalTypeOK /\ binding' = binding BY <2>1 DEF RenewalInv, renewalVars
  <2>3. Forward BY <2>2, RenewalForms DEF Forward, BindingRecord, Authorization
  <2>4. RenewalInv' /\ [RenewalNext]_renewalVars BY <2>1, RenewalStep
  <2>5. QED BY <2>1, <2>3, <2>4, DueStep
<1>3. RenewalInit => ForwardInv BY DueBegins
<1>4. RenewalSpec /\ [][Forward]_renewalVars => [][DueSend]_renewalVars
  BY <1>1, <1>2, <1>3, RenewalAlways, PTL DEF RenewalSpec
<1>5. QED BY <1>4, PTL DEF RenewedWhenExpired, DueSend
=============================================================================
