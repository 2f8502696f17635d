------------------------ MODULE AuthorizationIntents ------------------------
(***************************************************************************)
(* How a buyer comes to a payment authorization that a Join may use: the   *)
(* authorize, status and callback routes of frontend_runtime.ts, the sweep *)
(* of pending bindings and the Join's consumption (app.ts), over the       *)
(* bindings of payment_binding.ts.                                         *)
(*                                                                         *)
(* A hosted provider takes no idempotency key, so that an intent is        *)
(* reserved before it is asked; the buyer then approves on the provider's  *)
(* page, and the server has to learn of it.  The bindings are those of one *)
(* buyer and deal.                                                         *)
(***************************************************************************)
EXTENDS Integers, FiniteSets

CONSTANTS
  IntentKey,    \* idempotency keys: correlation_id
  Visit,        \* requests to authorize; a visit names the authorization it is given
  NoVisit,
  Asker         \* status lookups that may be under way at once

Quantity == 1..2          \* quantities, and the amounts that are their price

ASSUME IntentAssumption == NoVisit \notin Visit

VARIABLES
  hosted,       \* the provider is Grow
  intent,       \* payment_authorization_bindings, by correlation_id
  visit,        \* the authorize requests
  page,         \* the provider: the authorization a visit was given
  shown,        \* the authorizations a buyer was answered
  query,        \* lookups that came back authorized, before they are booked
  joined        \* the units joined on an authorization

intentVars == <<hosted, intent, visit, page, shown, query, joined>>
supply == <<page, shown>>

\* compared: the provider stated an amount when it was confirmed
Absent == [status |-> "absent", reason |-> "none", page |-> NoVisit, qty |-> 0, expired |-> FALSE, compared |-> FALSE]
NoQuery == [page |-> NoVisit, amount |-> 0]

IntentTypeOK ==
  /\ hosted \in BOOLEAN
  /\ intent \in [IntentKey -> [status : {"absent", "pending", "authorized", "consumed", "failed"},
                               reason : {"none", "reserved", "unsure", "created"}, page : Visit \cup {NoVisit},
                               qty : Quantity \cup {0}, expired : BOOLEAN, compared : BOOLEAN]]
  /\ visit \in [Visit -> [pc : {"free", "create", "await", "answered", "refused", "unsure", "done"},
                          key : IntentKey \cup {"none"}, qty : Quantity \cup {0}]]
  /\ page \in [Visit -> [state : {"none", "open", "held", "lapsed"}, amount : Quantity \cup {0}]]
  /\ shown \subseteq Visit
  /\ query \in [Asker -> [page : Visit \cup {NoVisit}, amount : Quantity \cup {0}]]
  /\ joined \in [Visit -> 0..4]

IntentInit ==
  /\ hosted \in BOOLEAN
  /\ intent = [k \in IntentKey |-> Absent]
  /\ visit = [v \in Visit |-> [pc |-> "free", key |-> "none", qty |-> 0]]
  /\ page = [v \in Visit |-> [state |-> "none", amount |-> 0]]
  /\ shown = {} /\ query = [a \in Asker |-> NoQuery] /\ joined = [v \in Visit |-> 0]

-----------------------------------------------------------------------------
(* POST /api/payments/authorize                                              *)

Arrives(v, k, n, pc) == visit' = [visit EXCEPT ![v] = [pc |-> pc, key |-> k, qty |-> n]]
Proceeds(v, pc) == visit' = [visit EXCEPT ![v].pc = pc]
Key(v) == visit[v].key
Reserved(n) == [Absent EXCEPT !.status = "pending", !.reason = "reserved", !.qty = n]

\* An intent that exists is never sent again, whatever became of it: its page
\* is answered if it has one, and a refusal otherwise.
Replays(v, k, n) ==
  /\ Arrives(v, k, n, "done")
  /\ shown' = IF intent[k].qty = n /\ intent[k].page # NoVisit /\ intent[k].status \in {"pending", "authorized"}
              THEN shown \cup {intent[k].page} ELSE shown
  /\ UNCHANGED intent
\* Mutant of Reserve: an intent nobody has heard of since is sent again.
ReserveAgain(v, k, n) ==
  /\ hosted /\ visit[v].pc = "free"
  /\ IF intent[k].reason \in {"none", "reserved"}
     THEN intent' = [intent EXCEPT ![k] = Reserved(n)] /\ Arrives(v, k, n, "create") /\ UNCHANGED shown
     ELSE Replays(v, k, n)
  /\ UNCHANGED <<hosted, page, query, joined>>
Reserve(v, k, n) ==
  /\ hosted /\ visit[v].pc = "free"
  /\ IF intent[k].status = "absent"
     THEN intent' = [intent EXCEPT ![k] = Reserved(n)] /\ Arrives(v, k, n, "create") /\ UNCHANGED shown
     ELSE Replays(v, k, n)
  /\ UNCHANGED <<hosted, page, query, joined>>

\* The other providers are asked without a reservation.
AskDirectly(v, k, n) ==
  /\ ~hosted /\ visit[v].pc = "free" /\ Arrives(v, k, n, "create")
  /\ UNCHANGED <<hosted, intent, supply, query, joined>>

\* The provider executes a request, or never sees it; the answer is the truth
\* or nothing. The others hold the money at once.
CreateHold(v) ==
  /\ visit[v].pc = "create"
  /\ \/ /\ page' = [page EXCEPT ![v] = [state |-> IF hosted THEN "open" ELSE "held", amount |-> visit[v].qty]]
        /\ \E pc \in {"answered", "unsure"} : Proceeds(v, pc)
     \/ (\E pc \in {"refused", "unsure"} : Proceeds(v, pc)) /\ UNCHANGED page
  /\ UNCHANGED <<hosted, intent, shown, query, joined>>

\* completeAuthorizationCreation; an intent that cannot be completed is an
\* error, and its page is not answered.
Completable(k) == intent[k].status = "pending" /\ intent[k].reason = "reserved"
CompleteCreation(v) ==
  /\ hosted /\ visit[v].pc = "answered"
  /\ IF Completable(Key(v))
     THEN /\ intent' = [intent EXCEPT ![Key(v)].reason = "created", ![Key(v)].page = v]
          /\ shown' = shown \cup {v}
     ELSE UNCHANGED <<intent, shown>>
  /\ Proceeds(v, "done") /\ UNCHANGED <<hosted, page, query, joined>>

\* markAuthorizationCreationOutcome: the reason carries the error code, so that
\* an intent marked unknown is not completable any more.
MarkOutcome(v) ==
  /\ hosted /\ visit[v].pc \in {"refused", "unsure"}
  /\ intent' = IF intent[Key(v)].status # "pending" THEN intent
               ELSE IF visit[v].pc = "refused" THEN [intent EXCEPT ![Key(v)].status = "failed"]
               ELSE [intent EXCEPT ![Key(v)].reason = "unsure"]
  /\ Proceeds(v, "done") /\ UNCHANGED <<hosted, supply, query, joined>>

\* createBinding: the first row of a correlation_id stays; the caller is
\* answered what the provider told it.
BindDirectly(v) ==
  /\ ~hosted /\ visit[v].pc \in {"answered", "refused", "unsure"}
  /\ IF visit[v].pc = "answered"
     THEN /\ \E status \in {"pending", "authorized"} :
               intent' = IF intent[Key(v)].status # "absent" THEN intent
                         ELSE [intent EXCEPT ![Key(v)] = [Reserved(visit[v].qty) EXCEPT
                                 !.status = status, !.reason = "created", !.page = v, !.compared = TRUE]]
          /\ shown' = shown \cup {v}
     ELSE UNCHANGED <<intent, shown>>
  /\ Proceeds(v, "done") /\ UNCHANGED <<hosted, page, query, joined>>

VisitDies(v) ==
  /\ visit[v].pc \notin {"free", "done"} /\ Proceeds(v, "done")
  /\ UNCHANGED <<hosted, intent, supply, query, joined>>

-----------------------------------------------------------------------------
(* What the buyer does at the provider, and time.                            *)

Approves(v, amount) ==
  /\ page[v].state = "open" /\ v \in shown
  /\ page' = [page EXCEPT ![v] = [state |-> "held", amount |-> amount]]
  /\ UNCHANGED <<hosted, intent, visit, shown, query, joined>>
HoldEnds(v) ==
  /\ page[v].state \in {"open", "held"} /\ page' = [page EXCEPT ![v].state = "lapsed"]
  /\ UNCHANGED <<hosted, intent, visit, shown, query, joined>>
Expires(k) ==
  /\ intent[k].page # NoVisit /\ ~intent[k].expired /\ intent' = [intent EXCEPT ![k].expired = TRUE]
  /\ UNCHANGED <<hosted, visit, supply, query, joined>>

-----------------------------------------------------------------------------
(* How the server learns of it: three askers, one confirmation.              *)

ByBuyer(k) == intent[k].status \in {"pending", "authorized"}       \* POST /api/payments/status
ByCallback(k) == intent[k].status = "pending"                      \* POST /webhooks/payments/grow
BySweep(k) == intent[k].status = "pending" /\ ~intent[k].expired   \* reconcilePendingAuthorizationBindings

\* Only an authorized hold is booked; a reserved intent has a reference the
\* provider cannot open. The amount may be missing in the answer.
LookUp(a, k) ==
  /\ query[a] = NoQuery /\ intent[k].page # NoVisit /\ (ByBuyer(k) \/ ByCallback(k) \/ BySweep(k))
  /\ page[intent[k].page].state = "held"
  /\ \E stated \in {0, page[intent[k].page].amount} :
       query' = [query EXCEPT ![a] = [page |-> intent[k].page, amount |-> stated]]
  /\ UNCHANGED <<hosted, intent, visit, supply, joined>>

Confirmed(k, amount) == [intent EXCEPT ![k].status = "authorized", ![k].compared = (amount # 0)]
\* Mutant of Confirm: the amount is not compared.
ConfirmAnyAmount(a) ==
  /\ query[a] # NoQuery
  /\ \E k \in IntentKey : intent[k].page = query[a].page /\
       intent' = IF intent[k].status = "pending" THEN Confirmed(k, query[a].amount) ELSE intent
  /\ query' = [query EXCEPT ![a] = NoQuery] /\ UNCHANGED <<hosted, visit, supply, joined>>
Confirm(a) ==
  /\ query[a] # NoQuery
  /\ \E k \in IntentKey : intent[k].page = query[a].page /\
       intent' = IF intent[k].status # "pending" THEN intent
                 ELSE IF query[a].amount \notin {0, intent[k].qty} THEN [intent EXCEPT ![k].status = "failed"]
                 ELSE Confirmed(k, query[a].amount)
  /\ query' = [query EXCEPT ![a] = NoQuery] /\ UNCHANGED <<hosted, visit, supply, joined>>

\* consumeBindingForJoinTx: a Join of n units with the authorization it names
ConsumeForJoin(v, n) ==
  /\ v \in shown
  /\ \E k \in IntentKey :
       /\ intent[k].page = v /\ intent[k].status = "authorized" /\ ~intent[k].expired /\ intent[k].qty = n
       /\ intent' = [intent EXCEPT ![k].status = "consumed"]
  /\ joined' = [joined EXCEPT ![v] = @ + n]
  /\ UNCHANGED <<hosted, visit, supply, query>>

IntentNext ==
  \/ \E v \in Visit, k \in IntentKey, n \in Quantity : Reserve(v, k, n) \/ AskDirectly(v, k, n)
  \/ \E v \in Visit : CreateHold(v) \/ CompleteCreation(v) \/ MarkOutcome(v) \/ BindDirectly(v) \/ VisitDies(v)
  \/ \E v \in Visit, n \in Quantity : Approves(v, n) \/ ConsumeForJoin(v, n)
  \/ \E v \in Visit : HoldEnds(v)
  \/ \E k \in IntentKey : Expires(k)
  \/ \E a \in Asker, k \in IntentKey : LookUp(a, k)
  \/ \E a \in Asker : Confirm(a)

IntentSpec == IntentInit /\ [][IntentNext]_intentVars

-----------------------------------------------------------------------------
(* Properties.                                                               *)

\* However often a buyer presses, retries and loses answers, a hosted intent
\* makes at most one page at the provider, and money is held only on a page
\* that the intent's binding names.
OneKnownHold ==
  hosted => \A v \in Visit : page[v].state # "none" =>
    /\ \A w \in Visit \ {v} : page[w].state # "none" => Key(w) # Key(v)
    /\ page[v].state = "held" => intent[Key(v)].page = v

\* An authorization carries the units of at most one Join, no more than the
\* money its buyer approved, unless the provider stated no amount.
JoinedOnProof ==
  \A v \in Visit : joined[v] > 0 => \E k \in IntentKey :
    /\ intent[k].page = v /\ intent[k].status = "consumed" /\ joined[v] = intent[k].qty
    /\ page[v].state \in {"held", "lapsed"}
    /\ intent[k].compared => page[v].amount = joined[v]
=============================================================================
