----------------------------- MODULE Registrations ----------------------------
(***************************************************************************)
(* Registrations of one division that takes cards (usecases/registrations): *)
(* submissions under a capacity, checkout sessions, payments that arrive by *)
(* webhook and by the payer's return, withdrawals, the pay-window sweep,    *)
(* the waitlist, refunds, and what an organiser settles by hand.            *)
(*                                                                          *)
(* One action is one database transaction or one call to Stripe; a handler  *)
(* that makes several of them holds what it read in between.  Stripe is     *)
(* external: what was charged and what it returned.                         *)
(***************************************************************************)
EXTENDS Naturals, FiniteSets

CONSTANTS
  Null,
  Handlers,     \* requests and webhook deliveries the server runs at a time
  N,            \* registrants, numbered by created_at
  Capacity,     \* settings.capacity or the plan's limit, the lower
  Fee,          \* settings.fee_cents
  MaxSessions,  \* bound: checkout sessions minted for one registration
  MaxCharges,   \* bound: sessions minted, and so payments taken, in all
  MaxFailures,  \* bound: requests that die, Stripe calls that fail
  MaxByHand     \* bound: what the organiser does by hand

ASSUME RegistrationsAssumption ==
  /\ N \in Nat /\ Capacity \in Nat /\ Fee \in Nat \ {0}
  /\ MaxSessions \in Nat /\ MaxCharges \in Nat
  /\ MaxFailures \in Nat /\ MaxByHand \in Nat
  /\ Null \notin (1..N) \cup ((1..N) \X (1..MaxSessions))

Registrants == 1..N
Intents == Registrants \X (1..MaxSessions)   \* one per session that is paid
Reg(i) == i[1]

VARIABLES
  row,        \* registrations rows: status, amount_cents, pay window, intent, refunded_cents
  entrant,    \* registrant -> the entrants row: "none", "active" or "withdrawn"
  listed,     \* what the sweep selected as overdue and has still to visit
  lockPassed, \* refund_lock_at is in the past
  sessions,   \* checkout sessions minted per registration
  paid,       \* intents Stripe charged
  returned,   \* intent -> what Stripe refunded of it
  notices,    \* charge.refunded events not yet handled: <<intent, total>>
  processed,  \* checkout events stamped processed_at
  handler,    \* handler -> where it is and what it holds
  \* history: spots given past the capacity count, registrations settled by
  \* hand, refund events no registration matched, failures, organiser actions
  beyond, byHand, missed, failures, acts

stripe == <<sessions, paid, returned, notices>>
history == <<beyond, byHand, missed, failures, acts>>
books == <<row, entrant>>
vars == <<books, listed, lockPassed, stripe, processed, handler, history>>

Statuses == {"absent", "pending", "waitlisted", "confirmed", "withdrawn", "expired"}
Rows == [status : Statuses, amount : {0, Fee}, window : {"none", "open", "past"},
         intent : Intents \cup {Null}, refunded : Nat]
Absent == [status |-> "absent", amount |-> 0, window |-> "none",
           intent |-> Null, refunded |-> 0]
Jobs == [pc : {"idle", "insert", "settle", "refund", "record", "stamp"},
         reg : Registrants \cup {Null},
         intent : Intents \cup {Null},  \* the session paid, of a delivery
         event : BOOLEAN,               \* the delivery is a claimed webhook
         target : Intents \cup {Null},  \* what to refund, and how much:
         amount : Nat,                  \* 0 is all that is left
         mode : {"none", "pending", "waitlisted", "late", "duplicate", "auto", "manual"}]
Nothing == [pc |-> "idle", reg |-> Null, intent |-> Null, event |-> FALSE,
            target |-> Null, amount |-> 0, mode |-> "none"]

Init ==
  /\ row = [r \in Registrants |-> Absent]
  /\ entrant = [r \in Registrants |-> "none"]
  /\ listed = {} /\ lockPassed \in BOOLEAN
  /\ sessions = [r \in Registrants |-> 0]
  /\ paid = {} /\ returned = [i \in Intents |-> 0] /\ notices = {}
  /\ processed = {}
  /\ handler = [h \in Handlers |-> Nothing]
  /\ beyond = 0 /\ byHand = {} /\ missed = {} /\ failures = 0 /\ acts = 0

Idle(h) == handler[h].pc = "idle"
(* Faulty: stamps an event whether or not the handler came from one.        *)
AlwaysStamps(j) == [Nothing EXCEPT !.pc = "stamp", !.intent = j.intent, !.event = TRUE]
(* A handler that is through: a webhook has still to stamp its event.       *)
Finished(j) ==
  IF j.event THEN [Nothing EXCEPT !.pc = "stamp", !.intent = j.intent, !.event = TRUE]
  ELSE Nothing
Finish(h) == handler' = [handler EXCEPT ![h] = Finished(@)]

HoldsSpot(status) == status \in {"pending", "confirmed"}
Holders == {r \in Registrants : HoldsSpot(row[r].status)}
Free == Cardinality(Holders) < Capacity

(* rows after the oldest waitlisted one is promoted, if there is any.       *)
Promote(rows) ==
  LET Waiting == {r \in Registrants : rows[r].status = "waitlisted"}
      Oldest(r) == r \in Waiting /\ \A q \in Waiting : r <= q
  IN [r \in Registrants |->
        IF Oldest(r)
        THEN [rows[r] EXCEPT !.status = "pending", !.amount = Fee, !.window = "open"]
        ELSE rows[r]]

(* The row becomes an entrant: confirmed, and its pay window is over.       *)
Materialise(r) ==
  /\ row' = [row EXCEPT ![r].status = "confirmed", ![r].window = "none"]
  /\ entrant' = [entrant EXCEPT ![r] = "active"]

-----------------------------------------------------------------------------
(* The registrant's side.                                                   *)

(* submitRegistration counts under the settings row lock, which its         *)
(* transaction holds until the insert commits.                              *)
Unlocked == \A h \in Handlers : handler[h].pc # "insert"
(* Faulty: counts without the lock.                                         *)
AnyTime == TRUE
SettingsLock == Unlocked

SubmitCount(h, r) ==
  /\ Idle(h) /\ SettingsLock /\ row[r].status = "absent"
  /\ \A g \in Handlers : handler[g].pc = "insert" => handler[g].reg # r
  /\ handler' = [handler EXCEPT ![h] = [Nothing EXCEPT !.pc = "insert", !.reg = r,
                    !.mode = IF Free THEN "pending" ELSE "waitlisted"]]
  /\ UNCHANGED <<books, listed, lockPassed, stripe, processed, history>>

SubmitInsert(h) ==
  LET job == handler[h] IN
  /\ job.pc = "insert"
  /\ row' = [row EXCEPT ![job.reg] =
       IF job.mode = "pending"
       THEN [Absent EXCEPT !.status = "pending", !.amount = Fee, !.window = "open"]
       ELSE [Absent EXCEPT !.status = "waitlisted"]]
  /\ handler' = [handler EXCEPT ![h] = Nothing]
  /\ UNCHANGED <<entrant, listed, lockPassed, stripe, processed, history>>

(* A session at submit, on resume, in a reminder or after a promotion; the  *)
(* sessions minted before stay payable.                                     *)
Minted == {i \in Intents : i[2] <= sessions[Reg(i)]}
Mint(r) ==
  /\ row[r].status = "pending" /\ row[r].amount > 0
  /\ sessions[r] < MaxSessions /\ Cardinality(Minted) < MaxCharges
  /\ sessions' = [sessions EXCEPT ![r] = @ + 1]
  /\ UNCHANGED <<books, listed, lockPassed, paid, returned, notices, processed,
                 handler, history>>

Pay(i) ==
  /\ i \in Minted \ paid
  /\ paid' = paid \cup {i}
  /\ UNCHANGED <<books, listed, lockPassed, sessions, returned, notices, processed,
                 handler, history>>

(* Faulty: is done once it has told the promoted registrant.                *)
DueUnlessPromoting(r) ==
  /\ row[r].intent # Null /\ row[r].refunded < row[r].amount /\ ~lockPassed
  /\ \A q \in Registrants : row[q].status # "waitlisted"
RefundDue(r) == row[r].intent # Null /\ row[r].refunded < row[r].amount /\ ~lockPassed

(* withdrawCore: the transaction, then whether there is money to return.    *)
Withdraw(h, r) ==
  /\ Idle(h) /\ row[r].status \notin {"absent", "withdrawn"}
  /\ LET gone == [row EXCEPT ![r].status = "withdrawn"]
     IN /\ row' = IF HoldsSpot(row[r].status) THEN Promote(gone) ELSE gone
        /\ handler' = [handler EXCEPT ![h] =
             IF RefundDue(r)
             THEN [Nothing EXCEPT !.pc = "refund", !.reg = r, !.mode = "auto",
                                  !.target = row[r].intent]
             ELSE @]
  /\ entrant' = [entrant EXCEPT ![r] = IF @ = "active" THEN "withdrawn" ELSE @]
  /\ UNCHANGED <<listed, lockPassed, stripe, processed, history>>

-----------------------------------------------------------------------------
(* Payment completion.                                                      *)

(* Faulty: returns the intent the row recorded, not the one paid twice.     *)
RecordedIntent(i) == row[Reg(i)].intent
Duplicate(i) == i
(* Faulty: a confirmed registration is a no-op for any session.             *)
NeverTwice(kept, i) == FALSE
ChargedTwice(kept, i) == kept \notin {Null, i}

(* confirmPaidRegistration's transaction, its outcomes; d is the delivery.  *)
PaidTwice(h, d) ==
  LET kept == row[Reg(d.intent)].intent IN
  /\ row[Reg(d.intent)].status = "confirmed"
  /\ handler' = [handler EXCEPT ![h] =
       IF ChargedTwice(kept, d.intent)
       THEN [d EXCEPT !.pc = "refund", !.mode = "duplicate", !.target = Duplicate(d.intent)]
       ELSE Finished(d)]
  /\ UNCHANGED <<books, beyond>>

PaidLate(h, d) ==
  LET r == Reg(d.intent)
      recorded == IF row[r].intent = Null THEN d.intent ELSE row[r].intent
  IN /\ row[r].status \in {"withdrawn", "expired"}
     /\ row' = [row EXCEPT ![r].intent = recorded]
     /\ handler' = [handler EXCEPT ![h] =
          [d EXCEPT !.pc = "refund", !.mode = "late", !.target = recorded]]
     /\ UNCHANGED <<entrant, beyond>>

PaidInTime(h, d) ==
  LET r == Reg(d.intent) IN
  /\ row[r].status \in {"pending", "waitlisted"}
  /\ row' = [row EXCEPT ![r].status = "confirmed", ![r].window = "none",
                        ![r].intent = d.intent, ![r].amount = Fee]
  /\ entrant' = [entrant EXCEPT ![r] = "active"]
  /\ beyond' = IF HoldsSpot(row[r].status) THEN beyond ELSE beyond + 1
  /\ handler' = [handler EXCEPT ![h] = Finished(d)]

Delivery(i, event) == [Nothing EXCEPT !.reg = Reg(i), !.intent = i, !.event = event]
ConfirmPaid(h, d) ==
  /\ PaidTwice(h, d) \/ PaidLate(h, d) \/ PaidInTime(h, d)
  /\ UNCHANGED <<listed, lockPassed, stripe, processed, byHand, missed, failures, acts>>

(* runEvent claims an event nobody is processing and that is not stamped.   *)
Webhook(h, i) ==
  /\ Idle(h) /\ i \in paid \ processed
  /\ \A g \in Handlers : ~(handler[g].event /\ handler[g].intent = i)
  /\ ConfirmPaid(h, Delivery(i, TRUE))

(* The payer returns: the status is read first, the payment settled after.  *)
ReturnFromCheckout(h, i) ==
  /\ Idle(h) /\ i \in paid /\ row[Reg(i)].status = "pending"
  /\ handler' = [handler EXCEPT ![h] = [Delivery(i, FALSE) EXCEPT !.pc = "settle"]]
  /\ UNCHANGED <<books, listed, lockPassed, stripe, processed, history>>
Settle(h) ==
  /\ handler[h].pc = "settle"
  /\ ConfirmPaid(h, [handler[h] EXCEPT !.pc = "idle"])

Stamp(h) ==
  /\ handler[h].pc = "stamp"
  /\ processed' = processed \cup {handler[h].intent}
  /\ handler' = [handler EXCEPT ![h] = Nothing]
  /\ UNCHANGED <<books, listed, lockPassed, stripe, history>>

-----------------------------------------------------------------------------
(* Refunds: the call to Stripe, then what the books say.                    *)

(* Stripe returns a charge once: asked for more than is left it refuses.    *)
GiveBack(i, amount) ==
  /\ returned' = [returned EXCEPT ![i] = @ + amount]
  /\ notices' = notices \cup {<<i, returned[i] + amount>>}

StripeRefund(h) ==
  LET job == handler[h]
      left == Fee - returned[job.target]
      amount == IF job.amount = 0 THEN left ELSE job.amount
  IN /\ job.pc = "refund"
     /\ \/ /\ amount \in 1..left
           /\ GiveBack(job.target, amount)
           /\ IF job.mode = "duplicate"
              THEN Finish(h)
              ELSE handler' = [handler EXCEPT ![h].pc = "record"]
        \/ /\ amount \notin 1..left
           /\ Finish(h)
           /\ UNCHANGED <<returned, notices>>
     /\ UNCHANGED <<books, listed, lockPassed, sessions, paid, processed, history>>

Record(h) ==
  LET job == handler[h]  r == job.reg IN
  /\ job.pc = "record"
  /\ row' = [row EXCEPT ![r].refunded =
       CASE job.mode = "late" -> Fee
         [] job.mode = "auto" -> row[r].amount
         [] OTHER -> @ + job.amount]
  /\ Finish(h)
  /\ UNCHANGED <<entrant, listed, lockPassed, stripe, processed, history>>

(* Faulty: assigns the event's total, whichever event comes last.           *)
LatestTotal(known, total) == total
Total(known, total) == IF total > known THEN total ELSE known

(* syncRegistrationRefund, of events in any order.                          *)
SyncRefund(n) ==
  /\ n \in notices
  /\ row' = [r \in Registrants |->
       IF row[r].intent = n[1]
       THEN [row[r] EXCEPT !.refunded = Total(@, n[2])] ELSE row[r]]
  /\ notices' = notices \ {n}
  /\ missed' = IF \E r \in Registrants : row[r].intent = n[1]
               THEN missed ELSE missed \cup {n[1]}
  /\ UNCHANGED <<entrant, listed, lockPassed, sessions, paid, returned, processed,
                 handler, beyond, byHand, failures, acts>>

-----------------------------------------------------------------------------
(* The clock and the pay-window sweep.                                      *)

(* Only of a pending registration does anyone read expires_at.              *)
WindowPasses(r) ==
  /\ row[r].status = "pending" /\ row[r].window = "open"
  /\ row' = [row EXCEPT ![r].window = "past"]
  /\ UNCHANGED <<entrant, listed, lockPassed, stripe, processed, handler, history>>

LockPasses ==
  /\ ~lockPassed /\ lockPassed' = TRUE
  /\ UNCHANGED <<books, listed, stripe, processed, handler, history>>

Overdue(r) == row[r].status = "pending" /\ row[r].window = "past"
(* Faulty: trusts the list the sweep selected.                              *)
AsListed(r) == TRUE
StillOverdue(r) == Overdue(r)

SweepList ==
  /\ listed = {} /\ listed' = {r \in Registrants : Overdue(r)} /\ listed' # {}
  /\ UNCHANGED <<books, lockPassed, stripe, processed, handler, history>>

SweepExpire(r) ==
  /\ r \in listed /\ listed' = listed \ {r}
  /\ row' = IF StillOverdue(r)
            THEN Promote([row EXCEPT ![r].status = "expired"]) ELSE row
  /\ UNCHANGED <<entrant, lockPassed, stripe, processed, handler, history>>

-----------------------------------------------------------------------------
(* The organiser.                                                           *)

ByHand(r) ==
  /\ acts < MaxByHand /\ acts' = acts + 1 /\ byHand' = byHand \cup {r}
  /\ UNCHANGED <<listed, lockPassed, processed, missed, failures>>

(* confirmRegistration: paid divisions confirm what has an intent.          *)
Confirm(r) ==
  /\ row[r].status \notin {"absent", "confirmed", "withdrawn"}
  /\ row[r].intent # Null
  /\ Materialise(r)
  /\ beyond' = IF HoldsSpot(row[r].status) THEN beyond ELSE beyond + 1
  /\ ByHand(r) /\ UNCHANGED <<stripe, handler>>

MarkPaidOffline(r) ==
  /\ row[r].status = "pending" /\ row[r].intent = Null
  /\ Materialise(r)
  /\ ByHand(r) /\ UNCHANGED <<stripe, handler, beyond>>

Waive(r) ==
  /\ row[r].status \in {"pending", "waitlisted"}
  /\ Materialise(r)
  /\ beyond' = IF HoldsSpot(row[r].status) THEN beyond ELSE beyond + 1
  /\ ByHand(r) /\ UNCHANGED <<stripe, handler>>

Waitlist(r) ==
  /\ row[r].status = "pending"
  /\ row' = [row EXCEPT ![r].status = "waitlisted"]
  /\ ByHand(r) /\ UNCHANGED <<entrant, stripe, handler, beyond>>

(* refundRegistration reads what is left, then calls Stripe, then adds.     *)
RefundRead(h, r, amount) ==
  /\ Idle(h) /\ row[r].intent # Null
  /\ amount + row[r].refunded <= row[r].amount
  /\ handler' = [handler EXCEPT ![h] = [Nothing EXCEPT !.pc = "refund", !.reg = r,
                    !.mode = "manual", !.target = row[r].intent, !.amount = amount]]
  /\ ByHand(r) /\ UNCHANGED <<books, stripe, beyond>>

(* A refund made in Stripe's dashboard.                                     *)
DashboardRefund(i, amount) ==
  /\ i \in paid /\ amount \in 1..(Fee - returned[i])
  /\ GiveBack(i, amount)
  /\ ByHand(Reg(i)) /\ UNCHANGED <<books, sessions, paid, handler, beyond>>

-----------------------------------------------------------------------------
Fail == failures < MaxFailures /\ failures' = failures + 1

Crash(h) ==
  /\ ~Idle(h) /\ Fail
  /\ handler' = [handler EXCEPT ![h] = Nothing]
  /\ UNCHANGED <<books, listed, lockPassed, stripe, processed, beyond, byHand, missed, acts>>

(* The call to Stripe fails: audited as refund_failed, or told to the       *)
(* organiser who asked.                                                     *)
RefundFails(h) ==
  /\ handler[h].pc = "refund" /\ Fail /\ Finish(h)
  /\ UNCHANGED <<books, listed, lockPassed, stripe, processed, beyond, byHand, missed, acts>>

Registrant ==
  \/ \E r \in Registrants : Mint(r) \/ \E h \in Handlers : SubmitCount(h, r) \/ Withdraw(h, r)
  \/ \E i \in Intents : Pay(i)
Server ==
  \E h \in Handlers :
    \/ SubmitInsert(h) \/ Settle(h) \/ Stamp(h) \/ StripeRefund(h) \/ Record(h)
    \/ \E i \in Intents : Webhook(h, i) \/ ReturnFromCheckout(h, i)
    \/ Crash(h) \/ RefundFails(h)
Clock ==
  \/ LockPasses \/ SweepList
  \/ \E r \in Registrants : WindowPasses(r) \/ SweepExpire(r)
  \/ \E n \in notices : SyncRefund(n)
Organiser ==
  \/ \E r \in Registrants :
       \/ Confirm(r) \/ MarkPaidOffline(r) \/ Waive(r) \/ Waitlist(r)
       \/ \E h \in Handlers, amount \in 1..Fee : RefundRead(h, r, amount)
  \/ \E i \in Intents, amount \in 1..Fee : DashboardRefund(i, amount)
Next == Registrant \/ Server \/ Clock \/ Organiser

Spec == Init /\ [][Next]_vars

-----------------------------------------------------------------------------
TypeOK ==
  /\ row \in [Registrants -> Rows]
  /\ entrant \in [Registrants -> {"none", "active", "withdrawn"}]
  /\ listed \subseteq Registrants /\ lockPassed \in BOOLEAN
  /\ sessions \in [Registrants -> 0..MaxSessions]
  /\ paid \subseteq Intents /\ returned \in [Intents -> 0..Fee]
  /\ notices \subseteq Intents \X (1..Fee)
  /\ processed \subseteq paid
  /\ handler \in [Handlers -> Jobs]
  /\ beyond \in Nat /\ byHand \subseteq Registrants /\ missed \subseteq Intents
  /\ failures \in 0..MaxFailures /\ acts \in 0..MaxByHand

(* Concurrent submissions, withdrawals, the sweep, payments and promotions  *)
(* never hold more spots than the capacity, but for those given past the    *)
(* count: the organiser's, and a waitlisted registration that pays on a     *)
(* session it still has.                                                    *)
NoOversell == Cardinality(Holders) <= Capacity + beyond

(* An active entrant is a confirmed registration's, always: neither a sweep *)
(* nor a payment crossing a withdrawal parts them.                          *)
EntrantsMatch ==
  \A r \in Registrants : (entrant[r] = "active") <=> (row[r].status = "confirmed")

(* A place that was paid for and left to the system keeps its money: no     *)
(* duplicate, late or automatic refund returns the charge it rests on.      *)
PaidPlaceKept ==
  \A r \in Registrants :
    row[r].status = "confirmed" /\ r \notin byHand =>
      row[r].intent # Null /\ returned[row[r].intent] = 0

(* Nothing is under way and every checkout event was handled.               *)
Quiet == (\A h \in Handlers : Idle(h)) /\ processed = paid
Charges(r) == {i \in paid : Reg(i) = r}
Returned(i) == returned[i] = Fee
LeftAlone(r) == failures = 0 /\ r \notin byHand

(* Paying in two tabs costs one fee: when all is handled a confirmed        *)
(* registration holds one charge, however many were paid.                   *)
DuplicatesReturned ==
  Quiet => \A r \in Registrants :
    row[r].status = "confirmed" /\ LeftAlone(r) =>
      \A i \in Charges(r) : Returned(i) \/ i = row[r].intent

(* A registration that expired, or withdrew before the refund lock, has its *)
(* recorded payment back, whichever of the two came first.                  *)
DeadRefunded ==
  Quiet => \A r \in Registrants :
    /\ row[r].status = "expired" \/ (row[r].status = "withdrawn" /\ ~lockPassed)
    /\ LeftAlone(r) /\ row[r].intent # Null
    => Returned(row[r].intent)

(* Once its refund events are handled a registration never shows less       *)
(* refunded than Stripe returned, in whatever order the events, the         *)
(* handlers' own records and crashes between the two came; unless an event  *)
(* came before the payment it is about was recorded.                        *)
BooksNotShort ==
  Quiet /\ notices = {} => \A r \in Registrants :
    row[r].intent \notin missed \cup {Null} =>
      row[r].refunded >= returned[row[r].intent]

(* What the code's comment says of money landing on a dead registration,    *)
(* "send it straight back": every charge of an expired one is returned.     *)
LatePaymentsReturned ==
  Quiet => \A r \in Registrants :
    row[r].status = "expired" /\ LeftAlone(r) => \A i \in Charges(r) : Returned(i)
=============================================================================
