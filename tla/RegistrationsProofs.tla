-------------------------- MODULE RegistrationsProofs --------------------------
(***************************************************************************)
(* For any number of registrants, spots, handlers and sessions: no division *)
(* is oversold, entrants are the confirmed registrations, no refund the     *)
(* system makes on its own takes back the charge a confirmed place rests    *)
(* on, what is owed goes back, and the books know of every refund.          *)
(***************************************************************************)
EXTENDS Registrations, FiniteSetTheorems, TLAPS

(* What a handler between two steps holds.                                  *)
JobOK(j) ==
  /\ j.pc = "insert" => j.reg \in Registrants /\ j.mode \in {"pending", "waitlisted"}
  /\ j.pc = "settle" => j.reg \in Registrants /\ j.intent \in paid
  /\ j.event => j.intent \in paid
  /\ j.pc = "stamp" => j.event
  /\ j.pc \in {"refund", "record"} => j.reg \in Registrants /\ j.target \in Intents

JobsOK == \A h \in Handlers : JobOK(handler[h])
TypeInv == TypeOK /\ JobsOK

(***************************************************************************)
(* Types.                                                                   *)
(***************************************************************************)
LEMMA RegOfIntent == \A i \in Intents : Reg(i) \in Registrants
BY DEF Intents, Reg

LEMMA NothingIsJob == Nothing \in Jobs /\ JobOK(Nothing) /\ JobOK(Nothing)'
BY DEF Nothing, Jobs, JobOK

LEMMA FinishedIsJob ==
  ASSUME NEW j \in Jobs, j.event => j.intent \in paid
  PROVE  Finished(j) \in Jobs /\ JobOK(Finished(j))
BY DEF Finished, Nothing, Jobs, JobOK

(* Promotion changes the status of one waitlisted row at most, and neither  *)
(* intents nor refunds.                                                     *)
LEMMA PromoteKeeps ==
  ASSUME NEW rows \in [Registrants -> Rows]
  PROVE  /\ Promote(rows) \in [Registrants -> Rows]
         /\ \A r \in Registrants :
              /\ Promote(rows)[r].intent = rows[r].intent
              /\ \/ Promote(rows)[r].status = rows[r].status
                 \/ /\ rows[r].status = "waitlisted"
                    /\ Promote(rows)[r].status = "pending"
<1> DEFINE P(r) == [rows[r] EXCEPT !.status = "pending", !.amount = Fee, !.window = "open"]
<1>1. ASSUME NEW r \in Registrants
      PROVE  /\ P(r) \in Rows /\ P(r).intent = rows[r].intent
             /\ P(r).status = "pending"
  BY <1>1 DEF Rows, Statuses
<1>2. \A r \in Registrants :
        \/ Promote(rows)[r] = rows[r]
        \/ rows[r].status = "waitlisted" /\ Promote(rows)[r] = P(r)
  BY DEF Promote
<1>3. Promote(rows) = [r \in Registrants |-> Promote(rows)[r]]
  BY DEF Promote
<1> HIDE DEF P
<1> QED
  BY <1>1, <1>2, <1>3

(* At most one row is promoted.                                             *)
LEMMA PromotesOne ==
  ASSUME NEW rows \in [Registrants -> Rows]
  PROVE  \E p \in Registrants \cup {Null} : \A r \in Registrants \ {p} :
           Promote(rows)[r] = rows[r]
<1> DEFINE Oldest(r) == /\ r \in {q \in Registrants : rows[q].status = "waitlisted"}
                        /\ \A q \in {s \in Registrants : rows[s].status = "waitlisted"} : r <= q
<1>1. \A r \in Registrants : ~Oldest(r) => Promote(rows)[r] = rows[r]
  BY DEF Promote
<1>2. \A q, r \in Registrants : Oldest(q) /\ Oldest(r) => q = r
  BY RegistrationsAssumption DEF Registrants
<1> HIDE DEF Oldest
<1> QED
  BY <1>1, <1>2

LEMMA TypeInit == Init => TypeInv
<1> SUFFICES ASSUME Init PROVE TypeInv
  OBVIOUS
<1>1. Absent \in Rows
  BY RegistrationsAssumption DEF Absent, Rows, Statuses
<1>2. JobsOK
  BY NothingIsJob DEF Init, JobsOK
<1> QED
  BY <1>1, <1>2, NothingIsJob, RegistrationsAssumption DEF Init, TypeInv, TypeOK

LEMMA HandlerSet ==
  ASSUME TypeInv, NEW h \in Handlers, NEW j \in Jobs, JobOK(j)', paid \subseteq paid',
         handler' = [handler EXCEPT ![h] = j]
  PROVE  handler' \in [Handlers -> Jobs] /\ JobsOK'
BY DEF TypeInv, TypeOK, JobsOK, JobOK

LEMMA HandlerKept ==
  ASSUME TypeInv, paid \subseteq paid', UNCHANGED handler
  PROVE  handler' \in [Handlers -> Jobs] /\ JobsOK'
BY DEF TypeInv, TypeOK, JobsOK, JobOK

(* The registrant's actions.                                                *)
LEMMA TypeRegistrant ==
  ASSUME TypeInv, Registrant
  PROVE  TypeInv'
<1> USE DEF stripe, history, books
<1>1. ASSUME NEW r \in Registrants, Mint(r)
      PROVE  TypeInv'
  BY <1>1, HandlerKept, RegistrationsAssumption DEF Mint, TypeInv, TypeOK
<1>2. ASSUME NEW r \in Registrants, NEW h \in Handlers, SubmitCount(h, r)
      PROVE  TypeInv'
  <2>1. PICK mode \in {"pending", "waitlisted"} :
          mode = IF Free THEN "pending" ELSE "waitlisted"
    OBVIOUS
  <2> DEFINE j == [Nothing EXCEPT !.pc = "insert", !.reg = r, !.mode = mode]
  <2>4. j \in Jobs /\ JobOK(j)'
    BY DEF Nothing, Jobs, JobOK
  <2>2. handler' = [handler EXCEPT ![h] = j] /\ UNCHANGED <<books, listed, lockPassed,
          stripe, processed, history>>
    BY <1>2, <2>1 DEF SubmitCount
  <2> HIDE DEF j
  <2>3. handler' \in [Handlers -> Jobs] /\ JobsOK'
    BY <2>2, <2>4, HandlerSet
  <2> QED
    BY <2>2, <2>3 DEF TypeInv, TypeOK
<1>3. ASSUME NEW r \in Registrants, NEW h \in Handlers, Withdraw(h, r)
      PROVE  TypeInv'
  <2> DEFINE gone == [row EXCEPT ![r].status = "withdrawn"]
  <2>2. UNCHANGED <<listed, lockPassed, stripe, processed, history>>
    BY <1>3 DEF Withdraw
  <2>1. PICK j : /\ handler' = [handler EXCEPT ![h] = j]
                 /\ j \in Jobs /\ JobOK(j)'
    <3> DEFINE job(i) == [Nothing EXCEPT !.pc = "refund", !.reg = r, !.mode = "auto",
                                         !.target = i]
    <3>1. \A i \in Intents : job(i) \in Jobs /\ JobOK(job(i))'
      BY DEF Nothing, Jobs, JobOK
    <3>2. handler[h] \in Jobs /\ JobOK(handler[h]) /\ paid' = paid
      BY <2>2 DEF TypeInv, TypeOK, JobsOK
    <3>3. PICK k : k = handler[h]
      OBVIOUS
    <3>4. JobOK(k)'
      BY <3>2, <3>3 DEF JobOK
    <3>5. \/ RefundDue(r) /\ handler' = [handler EXCEPT ![h] = job(row[r].intent)]
          \/ handler' = [handler EXCEPT ![h] = k]
      BY <1>3, <3>3 DEF Withdraw
    <3>6. RefundDue(r) => row[r].intent \in Intents
      BY DEF RefundDue, TypeInv, TypeOK, Rows
    <3> HIDE DEF job
    <3> QED
      BY <3>1, <3>2, <3>3, <3>4, <3>5, <3>6
  <2>3. gone \in [Registrants -> Rows]
    BY DEF TypeInv, TypeOK, Rows, Statuses
  <2>4. row' = gone \/ row' = Promote(gone)
    BY <1>3 DEF Withdraw
  <2>5. entrant' \in [Registrants -> {"none", "active", "withdrawn"}]
    BY <1>3 DEF Withdraw, TypeInv, TypeOK
  <2> HIDE DEF gone
  <2>6. handler' \in [Handlers -> Jobs] /\ JobsOK'
    BY <2>1, <2>2, HandlerSet
  <2>7. row' \in [Registrants -> Rows]
    BY <2>3, <2>4, PromoteKeeps
  <2> QED
    BY <2>2, <2>5, <2>6, <2>7 DEF TypeInv, TypeOK
<1>4. ASSUME NEW i \in Intents, Pay(i)
      PROVE  TypeInv'
  BY <1>4, HandlerKept DEF Pay, Minted, TypeInv, TypeOK
<1> QED
  BY <1>1, <1>2, <1>3, <1>4 DEF Registrant

LEMMA Finishes ==
  ASSUME TypeInv, NEW h \in Handlers, Finish(h), UNCHANGED paid
  PROVE  handler' \in [Handlers -> Jobs] /\ JobsOK'
<1>1. PICK j : j = Finished(handler[h])
  OBVIOUS
<1>2. j \in Jobs /\ JobOK(j)
  BY <1>1, FinishedIsJob DEF TypeInv, TypeOK, JobsOK, JobOK
<1>3. JobOK(j)'
  BY <1>2 DEF JobOK
<1> QED
  BY <1>1, <1>2, <1>3, HandlerSet DEF Finish

(* A delivery that turns into a refund.                                     *)
LEMMA RefundIsJob ==
  ASSUME NEW d \in Jobs, d.reg \in Registrants, d.intent \in paid, UNCHANGED paid,
         NEW i \in Intents, NEW mode \in {"late", "duplicate"}
  PROVE  /\ [d EXCEPT !.pc = "refund", !.mode = mode, !.target = i] \in Jobs
         /\ JobOK([d EXCEPT !.pc = "refund", !.mode = mode, !.target = i])'
<1> DEFINE j == [d EXCEPT !.pc = "refund", !.mode = mode, !.target = i]
<1>1. j \in Jobs
  BY DEF Jobs
<1>2. /\ j.pc = "refund" /\ j.mode = mode /\ j.target = i
      /\ j.reg = d.reg /\ j.event = d.event /\ j.intent = d.intent
  BY DEF Jobs
<1>3. PICK k : k = j
  OBVIOUS
<1> HIDE DEF j
<1>4. JobOK(k)'
  BY <1>2, <1>3 DEF JobOK
<1> QED
  BY <1>1, <1>3, <1>4 DEF j

(* A settled payment, whichever of the outcomes.                            *)
LEMMA TypeConfirmPaid ==
  ASSUME TypeInv, NEW h \in Handlers, NEW d \in Jobs, d.intent \in paid,
         d.reg \in Registrants, ConfirmPaid(h, d)
  PROVE  TypeInv'
<1> DEFINE r == Reg(d.intent)
<1>1. d.intent \in Intents /\ r \in Registrants
  BY RegOfIntent DEF TypeInv, TypeOK
<1>2. UNCHANGED <<listed, lockPassed, stripe, processed, byHand, missed, failures, acts>>
  BY DEF ConfirmPaid
<1>3. row[r] \in Rows /\ row \in [Registrants -> Rows]
  BY <1>1 DEF TypeInv, TypeOK
<1>4. PICK f : f = Finished(d)
  OBVIOUS
<1>5. f \in Jobs /\ JobOK(f)
  BY <1>4, FinishedIsJob
<1>6. JobOK(f)'
  BY <1>2, <1>5 DEF JobOK, stripe
<1> DEFINE job(mode, i) == [d EXCEPT !.pc = "refund", !.mode = mode, !.target = i]
<1>7. \A i \in Intents, mode \in {"late", "duplicate"} :
        job(mode, i) \in Jobs /\ JobOK(job(mode, i))'
  BY <1>2, RefundIsJob DEF stripe
<1>8. CASE PaidTwice(h, d)
  <2>1. UNCHANGED <<row, entrant, beyond>>
    BY <1>8 DEF PaidTwice, books
  <2>2. handler' = [handler EXCEPT ![h] = job("duplicate", d.intent)]
        \/ handler' = [handler EXCEPT ![h] = f]
    BY <1>4, <1>8 DEF PaidTwice, Duplicate
  <2> HIDE DEF job
  <2>3. handler' \in [Handlers -> Jobs] /\ JobsOK'
    BY <1>1, <1>2, <1>5, <1>6, <1>7, <2>2, HandlerSet DEF stripe
  <2> QED
    BY <1>2, <2>1, <2>3 DEF TypeInv, TypeOK, stripe
<1>9. CASE PaidLate(h, d)
  <2>1. PICK i \in Intents : /\ row' = [row EXCEPT ![r].intent = i]
                             /\ handler' = [handler EXCEPT ![h] = job("late", i)]
                             /\ UNCHANGED <<entrant, beyond>>
    BY <1>1, <1>3, <1>9 DEF PaidLate, Rows
  <2>2. row' \in [Registrants -> Rows]
    BY <1>3, <2>1 DEF Rows
  <2> HIDE DEF job
  <2>3. handler' \in [Handlers -> Jobs] /\ JobsOK'
    BY <1>2, <1>7, <2>1, HandlerSet DEF stripe
  <2> QED
    BY <1>2, <2>1, <2>2, <2>3 DEF TypeInv, TypeOK, stripe
<1>10. CASE PaidInTime(h, d)
  <2>1. row' \in [Registrants -> Rows]
    BY <1>1, <1>3, <1>10 DEF PaidInTime, Rows, Statuses
  <2>2. entrant' \in [Registrants -> {"none", "active", "withdrawn"}] /\ beyond' \in Nat
    BY <1>1, <1>10 DEF PaidInTime, TypeInv, TypeOK
  <2>3. handler' \in [Handlers -> Jobs] /\ JobsOK'
    BY <1>2, <1>4, <1>5, <1>6, <1>10, HandlerSet DEF PaidInTime, stripe
  <2> QED
    BY <1>2, <2>1, <2>2, <2>3 DEF TypeInv, TypeOK, stripe
<1> QED
  BY <1>8, <1>9, <1>10 DEF ConfirmPaid

LEMMA DeliveryIsJob ==
  ASSUME NEW i \in Intents, NEW event \in BOOLEAN
  PROVE  /\ Delivery(i, event) \in Jobs
         /\ Delivery(i, event).intent = i /\ Delivery(i, event).reg \in Registrants
         /\ Delivery(i, event).event = event
BY RegOfIntent DEF Delivery, Nothing, Jobs

(* What Stripe returns is never more than what it took.                     *)
LEMMA TypeGiveBack ==
  ASSUME TypeInv, NEW i \in Intents, NEW amount \in 1..(Fee - returned[i]),
         GiveBack(i, amount)
  PROVE  returned' \in [Intents -> 0..Fee] /\ notices' \subseteq Intents \X (1..Fee)
<1>1. returned[i] \in 0..Fee /\ returned[i] + amount \in 1..Fee
  BY RegistrationsAssumption DEF TypeInv, TypeOK
<1> QED
  BY <1>1 DEF GiveBack, TypeInv, TypeOK

LEMMA TypeRefund ==
  ASSUME TypeInv, NEW h \in Handlers, StripeRefund(h)
  PROVE  TypeInv'
<1> DEFINE job == handler[h]
           left == Fee - returned[job.target]
           amount == IF job.amount = 0 THEN left ELSE job.amount
<1>1. /\ job \in Jobs /\ JobOK(job) /\ job.pc = "refund"
      /\ UNCHANGED <<books, listed, lockPassed, sessions, paid, processed, history>>
  BY DEF StripeRefund, TypeInv, TypeOK, JobsOK
<1>2. job.target \in Intents
  BY <1>1 DEF JobOK
<1>3. handler' \in [Handlers -> Jobs] /\ JobsOK'
  <2>1. CASE Finish(h)
    BY <1>1, <2>1, Finishes
  <2>2. CASE handler' = [handler EXCEPT ![h].pc = "record"]
    <3>1. PICK j : j = [job EXCEPT !.pc = "record"]
      OBVIOUS
    <3>2. j \in Jobs /\ JobOK(j)'
      BY <1>1, <3>1 DEF Jobs, JobOK
    <3> QED
      BY <1>1, <2>2, <3>1, <3>2, HandlerSet
  <2> QED
    BY <2>1, <2>2 DEF StripeRefund
<1>4. returned' \in [Intents -> 0..Fee] /\ notices' \subseteq Intents \X (1..Fee)
  <2>1. CASE UNCHANGED <<returned, notices>>
    BY <2>1 DEF TypeInv, TypeOK
  <2>2. CASE amount \in 1..left /\ GiveBack(job.target, amount)
    <3>1. PICK a \in 1..(Fee - returned[job.target]) : GiveBack(job.target, a)
      BY <2>2
    <3> QED
      BY <1>2, <3>1, TypeGiveBack
  <2> QED
    BY <2>1, <2>2 DEF StripeRefund
<1> QED
  BY <1>1, <1>3, <1>4 DEF TypeInv, TypeOK, books, history

(* The server's actions.                                                    *)
LEMMA TypeServer ==
  ASSUME TypeInv, Server
  PROVE  TypeInv'
<1> USE DEF stripe, history, books
<1>1. ASSUME NEW h \in Handlers, SubmitInsert(h)
      PROVE  TypeInv'
  <2>1. handler[h].reg \in Registrants
    BY <1>1 DEF SubmitInsert, TypeInv, JobsOK, JobOK
  <2>2. row' \in [Registrants -> Rows]
    BY <1>1, <2>1 DEF SubmitInsert, TypeInv, TypeOK, Rows, Statuses, Absent
  <2>3. handler' \in [Handlers -> Jobs] /\ JobsOK'
    BY <1>1, NothingIsJob, HandlerSet DEF SubmitInsert
  <2> QED
    BY <1>1, <2>2, <2>3 DEF SubmitInsert, TypeInv, TypeOK
<1>2. ASSUME NEW h \in Handlers, Settle(h)
      PROVE  TypeInv'
  <2>1. handler[h] \in Jobs /\ JobOK(handler[h])
    BY DEF TypeInv, TypeOK, JobsOK
  <2>2. PICK d : d = [handler[h] EXCEPT !.pc = "idle"]
    OBVIOUS
  <2>3. d \in Jobs /\ d.intent \in paid /\ d.reg \in Registrants
    BY <1>2, <2>1, <2>2 DEF Settle, Jobs, JobOK
  <2> QED
    BY <1>2, <2>2, <2>3, TypeConfirmPaid DEF Settle
<1>3. ASSUME NEW h \in Handlers, NEW i \in Intents, Webhook(h, i)
      PROVE  TypeInv'
  BY <1>3, DeliveryIsJob, TypeConfirmPaid DEF Webhook
<1>4. ASSUME NEW h \in Handlers, NEW i \in Intents, ReturnFromCheckout(h, i)
      PROVE  TypeInv'
  <2>1. PICK d : d = [Delivery(i, FALSE) EXCEPT !.pc = "settle"]
    OBVIOUS
  <2>2. PICK e \in Jobs : e = Delivery(i, FALSE) /\ e.intent = i /\ e.reg \in Registrants
                         /\ e.event = FALSE
    BY DeliveryIsJob
  <2>5. d = [e EXCEPT !.pc = "settle"]
    BY <2>1, <2>2
  <2>6. d \in Jobs /\ d.pc = "settle" /\ d.intent = i /\ d.reg \in Registrants /\ ~d.event
    BY <2>2, <2>5 DEF Jobs
  <2>3. d \in Jobs /\ JobOK(d)'
    BY <1>4, <2>6 DEF ReturnFromCheckout, JobOK
  <2>4. handler' \in [Handlers -> Jobs] /\ JobsOK'
    BY <1>4, <2>1, <2>3, HandlerSet DEF ReturnFromCheckout
  <2> QED
    BY <1>4, <2>4 DEF ReturnFromCheckout, TypeInv, TypeOK
<1>5. ASSUME NEW h \in Handlers, Stamp(h)
      PROVE  TypeInv'
  <2>1. handler[h].intent \in paid
    BY <1>5 DEF Stamp, TypeInv, JobsOK, JobOK
  <2>2. handler' \in [Handlers -> Jobs] /\ JobsOK'
    BY <1>5, NothingIsJob, HandlerSet DEF Stamp
  <2> QED
    BY <1>5, <2>1, <2>2 DEF Stamp, TypeInv, TypeOK
<1>6. ASSUME NEW h \in Handlers, Record(h)
      PROVE  TypeInv'
  <2>1. handler[h].reg \in Registrants /\ handler[h].amount \in Nat
    BY <1>6 DEF Record, TypeInv, TypeOK, JobsOK, JobOK, Jobs
  <2>2. PICK total \in Nat : row' = [row EXCEPT ![handler[h].reg].refunded = total]
    <3> DEFINE r == handler[h].reg
               total == CASE handler[h].mode = "late" -> Fee
                          [] handler[h].mode = "auto" -> row[r].amount
                          [] OTHER -> row[r].refunded + handler[h].amount
    <3>1. row[r].amount \in Nat /\ row[r].refunded \in Nat
      BY <2>1, RegistrationsAssumption DEF TypeInv, TypeOK, Rows
    <3>2. total \in Nat
      BY <2>1, <3>1, RegistrationsAssumption
    <3>3. row' = [row EXCEPT ![r].refunded = total]
      BY <1>6 DEF Record
    <3> HIDE DEF total
    <3> QED
      BY <3>2, <3>3
  <2>3. row' \in [Registrants -> Rows]
    <3>1. row \in [Registrants -> Rows]
      BY DEF TypeInv, TypeOK
    <3>2. [row[handler[h].reg] EXCEPT !.refunded = total] \in Rows
      BY <2>1, <3>1 DEF Rows
    <3> QED
      BY <2>1, <2>2, <3>1, <3>2
  <2>4. handler' \in [Handlers -> Jobs] /\ JobsOK'
    BY <1>6, Finishes DEF Record
  <2> QED
    BY <1>6, <2>3, <2>4 DEF Record, TypeInv, TypeOK
<1>7. ASSUME NEW h \in Handlers, Crash(h)
      PROVE  TypeInv'
  <2>1. handler' \in [Handlers -> Jobs] /\ JobsOK'
    BY <1>7, NothingIsJob, HandlerSet DEF Crash
  <2> QED
    BY <1>7, <2>1, RegistrationsAssumption DEF Crash, Fail, TypeInv, TypeOK
<1>8. ASSUME NEW h \in Handlers, RefundFails(h)
      PROVE  TypeInv'
  <2>1. handler' \in [Handlers -> Jobs] /\ JobsOK'
    BY <1>8, Finishes DEF RefundFails
  <2> QED
    BY <1>8, <2>1, RegistrationsAssumption DEF RefundFails, Fail, TypeInv, TypeOK
<1> QED
  BY <1>1, <1>2, <1>3, <1>4, <1>5, <1>6, <1>7, <1>8, TypeRefund DEF Server

(* The clock's actions.                                                     *)
LEMMA TypeClock ==
  ASSUME TypeInv, Clock
  PROVE  TypeInv'
<1> USE DEF stripe, history, books
<1>1. CASE LockPasses \/ SweepList
  BY <1>1, HandlerKept DEF LockPasses, SweepList, TypeInv, TypeOK
<1>2. ASSUME NEW r \in Registrants, WindowPasses(r)
      PROVE  TypeInv'
  <2>1. row' \in [Registrants -> Rows]
    BY <1>2 DEF WindowPasses, TypeInv, TypeOK, Rows
  <2> QED
    BY <1>2, <2>1, HandlerKept DEF WindowPasses, TypeInv, TypeOK
<1>3. ASSUME NEW r \in Registrants, SweepExpire(r)
      PROVE  TypeInv'
  <2> DEFINE gone == [row EXCEPT ![r].status = "expired"]
  <2>1. gone \in [Registrants -> Rows]
    BY DEF TypeInv, TypeOK, Rows, Statuses
  <2>2. row' = row \/ row' = Promote(gone)
    BY <1>3 DEF SweepExpire
  <2> HIDE DEF gone
  <2>3. row' \in [Registrants -> Rows]
    BY <2>1, <2>2, PromoteKeeps DEF TypeInv, TypeOK
  <2> QED
    BY <1>3, <2>3, HandlerKept DEF SweepExpire, TypeInv, TypeOK
<1>4. ASSUME NEW n \in notices, SyncRefund(n)
      PROVE  TypeInv'
  <2>1. n[1] \in Intents /\ n[2] \in Nat
    BY DEF TypeInv, TypeOK
  <2>2. \A r \in Registrants :
          /\ row[r] \in Rows
          /\ [row[r] EXCEPT !.refunded = Total(@, n[2])] \in Rows
    BY <2>1 DEF TypeInv, TypeOK, Rows, Total
  <2>3. row' \in [Registrants -> Rows]
    BY <1>4, <2>2 DEF SyncRefund
  <2> QED
    BY <1>4, <2>1, <2>3, HandlerKept DEF SyncRefund, TypeInv, TypeOK
<1> QED
  BY <1>1, <1>2, <1>3, <1>4 DEF Clock

LEMMA TypeMaterialise ==
  ASSUME TypeInv, NEW r \in Registrants, Materialise(r)
  PROVE  /\ row' \in [Registrants -> Rows]
         /\ entrant' \in [Registrants -> {"none", "active", "withdrawn"}]
<1>1. row[r] \in Rows /\ row \in [Registrants -> Rows]
  BY DEF TypeInv, TypeOK
<1>2. row' \in [Registrants -> Rows]
  BY <1>1 DEF Materialise, Rows, Statuses
<1> QED
  BY <1>2 DEF Materialise, TypeInv, TypeOK

LEMMA TypeByHand ==
  ASSUME TypeInv, NEW r \in Registrants, ByHand(r)
  PROVE  /\ acts' \in 0..MaxByHand /\ byHand' \subseteq Registrants
         /\ UNCHANGED <<listed, lockPassed, processed, missed, failures>>
BY RegistrationsAssumption DEF ByHand, TypeInv, TypeOK

(* The organiser's actions.                                                 *)
LEMMA TypeOrganiser ==
  ASSUME TypeInv, Organiser
  PROVE  TypeInv'
<1> USE DEF stripe, books
<1>1. ASSUME NEW r \in Registrants, Confirm(r) \/ MarkPaidOffline(r) \/ Waive(r)
      PROVE  TypeInv'
  <2>1. /\ Materialise(r) /\ ByHand(r) /\ UNCHANGED <<stripe, handler>>
        /\ beyond' = beyond \/ beyond' = beyond + 1
    BY <1>1 DEF Confirm, MarkPaidOffline, Waive
  <2> QED
    BY <2>1, TypeMaterialise, TypeByHand, HandlerKept DEF TypeInv, TypeOK
<1>2. ASSUME NEW r \in Registrants, Waitlist(r)
      PROVE  TypeInv'
  <2>1. row' \in [Registrants -> Rows]
    BY <1>2 DEF Waitlist, TypeInv, TypeOK, Rows, Statuses
  <2> QED
    BY <1>2, <2>1, TypeByHand, HandlerKept DEF Waitlist, TypeInv, TypeOK
<1>3. ASSUME NEW r \in Registrants, NEW h \in Handlers, NEW amount \in 1..Fee,
             RefundRead(h, r, amount)
      PROVE  TypeInv'
  <2>1. PICK i \in Intents : i = row[r].intent
    BY <1>3 DEF RefundRead, TypeInv, TypeOK, Rows
  <2>2. PICK j : j = [Nothing EXCEPT !.pc = "refund", !.reg = r, !.mode = "manual",
                                     !.target = i, !.amount = amount]
    OBVIOUS
  <2>3. j \in Jobs /\ JobOK(j)'
    <3>1. amount \in Nat
      BY RegistrationsAssumption
    <3>2. j = [pc |-> "refund", reg |-> r, intent |-> Null, event |-> FALSE,
               target |-> i, amount |-> amount, mode |-> "manual"]
      BY <2>2 DEF Nothing
    <3> QED
      BY <3>1, <3>2 DEF Jobs, JobOK
  <2>4. handler' \in [Handlers -> Jobs] /\ JobsOK'
    BY <1>3, <2>1, <2>2, <2>3, HandlerSet DEF RefundRead
  <2> QED
    BY <1>3, <2>4, TypeByHand DEF RefundRead, TypeInv, TypeOK
<1>4. ASSUME NEW i \in Intents, NEW amount \in 1..Fee, DashboardRefund(i, amount)
      PROVE  TypeInv'
  <2>1. returned' \in [Intents -> 0..Fee] /\ notices' \subseteq Intents \X (1..Fee)
    BY <1>4, TypeGiveBack DEF DashboardRefund
  <2> QED
    BY <1>4, <2>1, RegOfIntent, TypeByHand, HandlerKept
       DEF DashboardRefund, TypeInv, TypeOK
<1> QED
  BY <1>1, <1>2, <1>3, <1>4 DEF Organiser

LEMMA TypeStep == TypeInv /\ [Next]_vars => TypeInv'
<1> SUFFICES ASSUME TypeInv, [Next]_vars PROVE TypeInv'
  OBVIOUS
<1>1. CASE UNCHANGED vars
  BY <1>1 DEF vars, books, stripe, history, TypeInv, TypeOK, JobsOK, JobOK
<1> QED
  BY <1>1, TypeRegistrant, TypeServer, TypeClock, TypeOrganiser DEF Next

(* Rows, charges, refunds and handlers keep their types; a handler between  *)
(* two steps knows the registration and the intent it works on.             *)
THEOREM TypeCorrect == Spec => []TypeOK
<1>1. TypeInv => TypeOK
  BY DEF TypeInv
<1> QED
  BY <1>1, TypeInit, TypeStep, PTL DEF Spec

(***************************************************************************)
(* Spots and entrants.                                                      *)
(***************************************************************************)
Booked == \E h \in Handlers : handler[h].pc = "insert" /\ handler[h].mode = "pending"

LEMMA FinishedBegins == \A j : Finished(j).pc # "insert" /\ Finished(j).pc # "refund"
BY DEF Finished, Nothing

(* One submission at a time is between its count and its insert, and its    *)
(* row is not there yet.                                                    *)
InsertInv ==
  /\ \A g, h \in Handlers : handler[g].pc = "insert" /\ handler[h].pc = "insert" => g = h
  /\ \A h \in Handlers :
       handler[h].pc = "insert" => row[handler[h].reg].status = "absent"

(* The spots held and the one a submission has counted for itself.          *)
SpotsCounted == Cardinality(Holders) + (IF Booked THEN 1 ELSE 0) <= Capacity + beyond

SpotsInv == InsertInv /\ SpotsCounted /\ EntrantsMatch

LEMMA HoldersFinite ==
  /\ IsFiniteSet(Registrants)
  /\ \A S \in SUBSET Registrants : IsFiniteSet(S) /\ Cardinality(S) \in Nat
<1>1. IsFiniteSet(Registrants)
  BY RegistrationsAssumption, FS_Interval DEF Registrants
<1>2. ASSUME NEW S \in SUBSET Registrants
      PROVE  IsFiniteSet(S) /\ Cardinality(S) \in Nat
  BY <1>1, FS_Subset, FS_CardinalityType
<1> QED
  BY <1>1, <1>2

LEMMA FewerHolders ==
  ASSUME NEW S \in SUBSET Registrants, NEW T \in SUBSET S
  PROVE  Cardinality(T) <= Cardinality(S)
BY HoldersFinite, FS_Subset

LEMMA OneMoreHolder ==
  ASSUME NEW S \in SUBSET Registrants, NEW T \in SUBSET Registrants, NEW p,
         T \subseteq S \cup {p}
  PROVE  Cardinality(T) <= Cardinality(S) + 1
<1>1. IsFiniteSet(S) /\ Cardinality(S) \in Nat /\ Cardinality(T) \in Nat
  BY HoldersFinite
<1>2. /\ IsFiniteSet(S \cup {p})
      /\ \/ Cardinality(S \cup {p}) = Cardinality(S)
         \/ Cardinality(S \cup {p}) = Cardinality(S) + 1
  BY <1>1, FS_AddElement
<1>3. Cardinality(T) <= Cardinality(S \cup {p})
  BY <1>2, FS_Subset
<1> QED
  BY <1>1, <1>2, <1>3

(* A spot that changes hands.                                               *)
LEMMA SwappedHolder ==
  ASSUME NEW S \in SUBSET Registrants, NEW T \in SUBSET Registrants, NEW r \in S, NEW p,
         T \subseteq (S \ {r}) \cup {p}
  PROVE  Cardinality(T) <= Cardinality(S)
<1>1. IsFiniteSet(S) /\ Cardinality(S) \in Nat
  BY HoldersFinite
<1>2. Cardinality(S \ {r}) = Cardinality(S) - 1
  BY <1>1, FS_RemoveElement
<1>3. Cardinality(T) <= Cardinality(S \ {r}) + 1
  BY OneMoreHolder
<1>4. Cardinality(T) \in Nat
  BY HoldersFinite
<1> QED
  BY <1>1, <1>2, <1>3, <1>4

LEMMA HoldersAreRegistrants == Holders \in SUBSET Registrants /\ Holders' \in SUBSET Registrants
BY DEF Holders

LEMMA InsertsKept ==
  ASSUME InsertInv, TypeInv,
         \A h \in Handlers : handler'[h].pc = "insert" => handler'[h] = handler[h],
         \A r \in Registrants : row[r].status = "absent" => row'[r].status = "absent"
  PROVE  InsertInv' /\ (Booked' => Booked)
<1>1. \A h \in Handlers : handler[h].pc = "insert" => handler[h].reg \in Registrants
  BY DEF TypeInv, JobsOK, JobOK
<1> QED
  BY <1>1 DEF InsertInv, Booked

(* A step that neither changes a status nor begins a submission.            *)
LEMMA SpotsKept ==
  ASSUME SpotsInv, TypeInv,
         \A h \in Handlers : handler'[h].pc = "insert" => handler'[h] = handler[h],
         \A r \in Registrants : row'[r].status = row[r].status,
         UNCHANGED <<entrant, beyond>>
  PROVE  SpotsInv'
<1>1. InsertInv' /\ (Booked' => Booked)
  BY InsertsKept DEF SpotsInv
<1>2. Holders' = Holders
  BY DEF Holders
<1>3. Cardinality(Holders) \in Nat /\ beyond \in Nat
  BY HoldersAreRegistrants, HoldersFinite DEF TypeInv, TypeOK
<1>4. SpotsCounted'
  BY <1>1, <1>2, <1>3, RegistrationsAssumption DEF SpotsInv, SpotsCounted
<1> QED
  BY <1>1, <1>4 DEF SpotsInv, EntrantsMatch

(* A step that moves spots without making more of them.                     *)
LEMMA SpotsMoved ==
  ASSUME SpotsInv, TypeInv, EntrantsMatch',
         \A h \in Handlers : handler'[h].pc = "insert" => handler'[h] = handler[h],
         \A r \in Registrants : row[r].status = "absent" => row'[r].status = "absent",
         Cardinality(Holders') <= Cardinality(Holders), UNCHANGED beyond
  PROVE  SpotsInv'
<1>1. InsertInv' /\ (Booked' => Booked)
  BY InsertsKept DEF SpotsInv
<1>2. Cardinality(Holders) \in Nat /\ Cardinality(Holders') \in Nat /\ beyond \in Nat
  BY HoldersAreRegistrants, HoldersFinite DEF TypeInv, TypeOK
<1>3. SpotsCounted'
  BY <1>1, <1>2, RegistrationsAssumption DEF SpotsInv, SpotsCounted
<1> QED
  BY <1>1, <1>3 DEF SpotsInv

(* A registration is confirmed, counted beyond if it held no spot.          *)
LEMMA SpotConfirmed ==
  ASSUME SpotsInv, TypeInv, NEW r \in Registrants, row[r].status # "absent",
         \A h \in Handlers : handler'[h].pc = "insert" => handler'[h] = handler[h],
         \A q \in Registrants \ {r} : row'[q].status = row[q].status,
         row'[r].status = "confirmed", entrant' = [entrant EXCEPT ![r] = "active"],
         beyond' = IF HoldsSpot(row[r].status) THEN beyond ELSE beyond + 1
  PROVE  SpotsInv'
<1>1. InsertInv' /\ (Booked' => Booked)
  BY InsertsKept DEF SpotsInv
<1>2. Cardinality(Holders) \in Nat /\ Cardinality(Holders') \in Nat /\ beyond \in Nat
  BY HoldersAreRegistrants, HoldersFinite DEF TypeInv, TypeOK
<1>3. SpotsCounted'
  <2>1. CASE HoldsSpot(row[r].status)
    <3>1. Holders' = Holders
      BY <2>1 DEF Holders, HoldsSpot
    <3> QED
      BY <1>1, <1>2, <2>1, <3>1, RegistrationsAssumption DEF SpotsInv, SpotsCounted
  <2>2. CASE ~HoldsSpot(row[r].status)
    <3>1. Holders' \subseteq Holders \cup {r}
      BY DEF Holders
    <3>2. Cardinality(Holders') <= Cardinality(Holders) + 1
      BY <3>1, HoldersAreRegistrants, OneMoreHolder
    <3> QED
      BY <1>1, <1>2, <2>2, <3>2, RegistrationsAssumption DEF SpotsInv, SpotsCounted
  <2> QED
    BY <2>1, <2>2
<1>4. EntrantsMatch'
  BY DEF SpotsInv, EntrantsMatch, TypeInv, TypeOK
<1> QED
  BY <1>1, <1>3, <1>4 DEF SpotsInv

LEMMA SpotsInit == Init => SpotsInv
<1> SUFFICES ASSUME Init PROVE SpotsInv
  OBVIOUS
<1>1. \A r \in Registrants : row[r].status = "absent"
  BY DEF Init, Absent
<1>2. \A h \in Handlers : handler[h].pc = "idle"
  BY DEF Init, Nothing
<1>3. Holders = {} /\ ~Booked
  BY <1>1, <1>2 DEF Holders, HoldsSpot, Booked
<1>4. SpotsCounted
  BY <1>3, FS_EmptySet, RegistrationsAssumption DEF SpotsCounted, Init
<1>5. InsertInv /\ EntrantsMatch
  BY <1>1, <1>2 DEF Init, InsertInv, EntrantsMatch
<1> QED
  BY <1>4, <1>5 DEF SpotsInv

(* The count is taken under the lock, so the spot it finds free is there    *)
(* when the row is inserted.                                                *)
LEMMA SpotsSubmitCount ==
  ASSUME SpotsInv, TypeInv, NEW h \in Handlers, NEW r \in Registrants, SubmitCount(h, r)
  PROVE  SpotsInv'
<1>1. /\ Unlocked /\ row[r].status = "absent" /\ UNCHANGED <<row, entrant, beyond>>
      /\ \A g \in Handlers \ {h} : handler'[g] = handler[g]
  BY DEF SubmitCount, SettingsLock, books, history, TypeInv, TypeOK
<1>2. handler'[h].reg = r /\ (handler'[h].mode = "pending" => Free)
  BY DEF SubmitCount, Nothing, TypeInv, TypeOK
<1>3. Holders' = Holders
  BY <1>1 DEF Holders
<1>4. Cardinality(Holders) \in Nat /\ beyond \in Nat
  BY HoldersAreRegistrants, HoldersFinite DEF TypeInv, TypeOK
<1>5. Booked' => Free
  BY <1>1, <1>2 DEF Booked, Unlocked
<1>6. SpotsCounted'
  BY <1>1, <1>3, <1>4, <1>5, RegistrationsAssumption DEF SpotsInv, SpotsCounted, Free
<1>7. InsertInv'
  BY <1>1, <1>2 DEF InsertInv, Unlocked
<1> QED
  BY <1>1, <1>6, <1>7 DEF SpotsInv, EntrantsMatch

LEMMA SpotsSubmitInsert ==
  ASSUME SpotsInv, TypeInv, NEW h \in Handlers, SubmitInsert(h)
  PROVE  SpotsInv'
<1> DEFINE r == handler[h].reg
<1>1. /\ handler[h].pc = "insert" /\ r \in Registrants /\ row[r].status = "absent"
      /\ handler[h].mode \in {"pending", "waitlisted"}
  BY DEF SubmitInsert, SpotsInv, InsertInv, TypeInv, JobsOK, JobOK
<1>2. /\ UNCHANGED <<entrant, beyond>>
      /\ \A q \in Registrants \ {r} : row'[q] = row[q]
      /\ row'[r].status = handler[h].mode
  BY <1>1 DEF SubmitInsert, history, Absent, TypeInv, TypeOK
<1>3. \A g \in Handlers : handler'[g].pc # "insert"
  BY <1>1 DEF SubmitInsert, Nothing, SpotsInv, InsertInv, TypeInv, TypeOK
<1>4. /\ Cardinality(Holders) \in Nat /\ Cardinality(Holders') \in Nat /\ beyond \in Nat
      /\ ~Booked'
  BY <1>3, HoldersAreRegistrants, HoldersFinite DEF Booked, TypeInv, TypeOK
<1>5. SpotsCounted'
  <2>1. CASE handler[h].mode = "pending"
    <3>1. Booked
      BY <1>1, <2>1 DEF Booked
    <3>2. Holders' \subseteq Holders \cup {r}
      BY <1>2 DEF Holders
    <3>3. Cardinality(Holders') <= Cardinality(Holders) + 1
      BY <3>2, HoldersAreRegistrants, OneMoreHolder
    <3> QED
      BY <1>2, <1>4, <3>1, <3>3, RegistrationsAssumption DEF SpotsInv, SpotsCounted
  <2>2. CASE handler[h].mode = "waitlisted"
    <3>1. Holders' = Holders
      BY <1>1, <1>2, <2>2 DEF Holders, HoldsSpot
    <3> QED
      BY <1>2, <1>4, <3>1, RegistrationsAssumption DEF SpotsInv, SpotsCounted
  <2> QED
    BY <1>1, <2>1, <2>2
<1>6. EntrantsMatch'
  BY <1>1, <1>2 DEF SpotsInv, EntrantsMatch
<1>7. InsertInv'
  BY <1>3 DEF InsertInv
<1> QED
  BY <1>5, <1>6, <1>7 DEF SpotsInv

(* A registration leaves its spot to the oldest waitlisted one, if any.     *)
LEMMA SpotHandedOn ==
  ASSUME SpotsInv, TypeInv, NEW r \in Registrants, HoldsSpot(row[r].status),
         NEW gone \in [Registrants -> Rows], gone[r].status \in {"withdrawn", "expired"},
         \A q \in Registrants \ {r} : gone[q] = row[q],
         row' = Promote(gone)
  PROVE  /\ Cardinality(Holders') <= Cardinality(Holders)
         /\ row'[r].status = gone[r].status
         /\ \A q \in Registrants \ {r} :
              \/ row'[q].status = row[q].status
              \/ row[q].status = "waitlisted" /\ row'[q].status = "pending"
<1>1. PICK p : \A q \in Registrants \ {p} : row'[q] = gone[q]
  BY PromotesOne
<1>2. \A q \in Registrants :
        \/ row'[q].status = gone[q].status
        \/ gone[q].status = "waitlisted" /\ row'[q].status = "pending"
  BY PromoteKeeps
<1>3. r \in Holders /\ Holders' \subseteq (Holders \ {r}) \cup {p}
  BY <1>1, <1>2 DEF Holders, HoldsSpot
<1>4. Cardinality(Holders') <= Cardinality(Holders)
  BY <1>3, HoldersAreRegistrants, SwappedHolder
<1> QED
  BY <1>2, <1>4

LEMMA SpotsWithdraw ==
  ASSUME SpotsInv, TypeInv, NEW h \in Handlers, NEW r \in Registrants, Withdraw(h, r)
  PROVE  SpotsInv'
<1> DEFINE gone == [row EXCEPT ![r].status = "withdrawn"]
<1>1. /\ gone \in [Registrants -> Rows] /\ gone[r].status = "withdrawn"
      /\ \A q \in Registrants \ {r} : gone[q] = row[q]
  BY DEF TypeInv, TypeOK, Rows, Statuses
<1>2. /\ row[r].status # "absent" /\ UNCHANGED beyond
      /\ row' = IF HoldsSpot(row[r].status) THEN Promote(gone) ELSE gone
      /\ entrant' = [entrant EXCEPT ![r] = IF @ = "active" THEN "withdrawn" ELSE @]
  BY DEF Withdraw, history
<1>3. \A g \in Handlers : handler'[g].pc = "insert" => handler'[g] = handler[g]
  BY DEF Withdraw, Nothing, TypeInv, TypeOK
<1> HIDE DEF gone
<1>4. /\ Cardinality(Holders') <= Cardinality(Holders)
      /\ row'[r].status = "withdrawn"
      /\ \A q \in Registrants \ {r} :
           \/ row'[q].status = row[q].status
           \/ row[q].status = "waitlisted" /\ row'[q].status = "pending"
  <2>1. CASE HoldsSpot(row[r].status)
    BY <1>1, <1>2, <2>1, SpotHandedOn
  <2>2. CASE ~HoldsSpot(row[r].status)
    <3>1. Holders' \subseteq Holders
      BY <1>1, <1>2, <2>2 DEF Holders, HoldsSpot
    <3> QED
      BY <1>1, <1>2, <2>2, <3>1, HoldersAreRegistrants, FewerHolders
  <2> QED
    BY <2>1, <2>2
<1>5. EntrantsMatch'
  BY <1>2, <1>4 DEF SpotsInv, EntrantsMatch, TypeInv, TypeOK
<1>6. \A q \in Registrants : row[q].status = "absent" => row'[q].status = "absent"
  BY <1>2, <1>4
<1> QED
  BY <1>2, <1>3, <1>4, <1>5, <1>6, SpotsMoved

LEMMA SpotsSweepExpire ==
  ASSUME SpotsInv, TypeInv, NEW r \in Registrants, SweepExpire(r)
  PROVE  SpotsInv'
<1> DEFINE gone == [row EXCEPT ![r].status = "expired"]
<1>1. /\ gone \in [Registrants -> Rows] /\ gone[r].status = "expired"
      /\ \A q \in Registrants \ {r} : gone[q] = row[q]
  BY DEF TypeInv, TypeOK, Rows, Statuses
<1>2. UNCHANGED <<entrant, beyond, handler>>
  BY DEF SweepExpire, history
<1>3. CASE UNCHANGED row
  BY <1>2, <1>3, SpotsKept
<1>4. CASE StillOverdue(r) /\ row' = Promote(gone)
  <2>1. row[r].status = "pending" /\ HoldsSpot(row[r].status)
    BY <1>4 DEF StillOverdue, Overdue, HoldsSpot
  <2> HIDE DEF gone
  <2>2. /\ Cardinality(Holders') <= Cardinality(Holders)
        /\ row'[r].status = "expired"
        /\ \A q \in Registrants \ {r} :
             \/ row'[q].status = row[q].status
             \/ row[q].status = "waitlisted" /\ row'[q].status = "pending"
    BY <1>1, <1>4, <2>1, SpotHandedOn
  <2>3. EntrantsMatch'
    BY <1>2, <2>1, <2>2 DEF SpotsInv, EntrantsMatch
  <2>4. \A q \in Registrants : row[q].status = "absent" => row'[q].status = "absent"
    BY <2>1, <2>2
  <2> QED
    BY <1>2, <2>2, <2>3, <2>4, SpotsMoved
<1> QED
  BY <1>3, <1>4 DEF SweepExpire

LEMMA SpotsConfirmPaid ==
  ASSUME SpotsInv, TypeInv, NEW h \in Handlers, NEW d \in Jobs, d.intent \in Intents,
         d.pc = "idle", ConfirmPaid(h, d)
  PROVE  SpotsInv'
<1> DEFINE r == Reg(d.intent)
<1>1. r \in Registrants /\ row[r] \in Rows
  BY RegOfIntent DEF TypeInv, TypeOK
<1>2. \A g \in Handlers : handler'[g].pc = "insert" => handler'[g] = handler[g]
  <2>1. PICK j : handler' = [handler EXCEPT ![h] = j] /\ j.pc # "insert"
    <3> DEFINE job(mode, i) == [d EXCEPT !.pc = "refund", !.mode = mode, !.target = i]
    <3>1. \A mode, i : job(mode, i).pc = "refund"
      BY DEF Jobs
    <3>2. \/ \E mode, i : handler' = [handler EXCEPT ![h] = job(mode, i)]
          \/ handler' = [handler EXCEPT ![h] = Finished(d)]
      BY DEF ConfirmPaid, PaidTwice, PaidLate, PaidInTime
    <3> HIDE DEF job
    <3> QED
      BY <3>1, <3>2, FinishedBegins
  <2> QED
    BY <2>1 DEF TypeInv, TypeOK
<1>3. CASE PaidTwice(h, d) \/ PaidLate(h, d)
  <2>1. \A q \in Registrants : row'[q].status = row[q].status
    BY <1>1, <1>3 DEF PaidTwice, PaidLate, books, TypeInv, TypeOK, Rows
  <2>2. UNCHANGED <<entrant, beyond>>
    BY <1>3 DEF PaidTwice, PaidLate, books
  <2> QED
    BY <1>2, <2>1, <2>2, SpotsKept
<1>4. CASE PaidInTime(h, d)
  <2>1. /\ row[r].status # "absent" /\ row'[r].status = "confirmed"
        /\ \A q \in Registrants \ {r} : row'[q].status = row[q].status
    BY <1>1, <1>4 DEF PaidInTime, TypeInv, TypeOK, Rows
  <2>2. /\ entrant' = [entrant EXCEPT ![r] = "active"]
        /\ beyond' = IF HoldsSpot(row[r].status) THEN beyond ELSE beyond + 1
    BY <1>4 DEF PaidInTime
  <2> QED
    BY <1>1, <1>2, <2>1, <2>2, SpotConfirmed
<1> QED
  BY <1>3, <1>4 DEF ConfirmPaid

(* What the organiser confirms, counted beyond where it held no spot.       *)
LEMMA SpotsMaterialise ==
  ASSUME SpotsInv, TypeInv, NEW r \in Registrants, Materialise(r),
         row[r].status # "absent", UNCHANGED handler,
         beyond' = IF HoldsSpot(row[r].status) THEN beyond ELSE beyond + 1
  PROVE  SpotsInv'
<1>1. /\ row'[r].status = "confirmed" /\ entrant' = [entrant EXCEPT ![r] = "active"]
      /\ \A q \in Registrants \ {r} : row'[q].status = row[q].status
  BY DEF Materialise, TypeInv, TypeOK, Rows
<1> QED
  BY <1>1, SpotConfirmed

LEMMA SpotsOrganiser ==
  ASSUME SpotsInv, TypeInv, Organiser
  PROVE  SpotsInv'
<1>1. ASSUME NEW r \in Registrants, Confirm(r) \/ MarkPaidOffline(r) \/ Waive(r)
      PROVE  SpotsInv'
  BY <1>1, SpotsMaterialise DEF Confirm, MarkPaidOffline, Waive, HoldsSpot
<1>2. ASSUME NEW r \in Registrants, Waitlist(r)
      PROVE  SpotsInv'
  <2>1. /\ row[r].status = "pending" /\ row'[r].status = "waitlisted"
        /\ \A q \in Registrants \ {r} : row'[q] = row[q]
        /\ UNCHANGED <<entrant, handler, beyond>>
    BY <1>2 DEF Waitlist, TypeInv, TypeOK, Rows
  <2>2. Holders' \subseteq Holders
    BY <2>1 DEF Holders, HoldsSpot
  <2>3. EntrantsMatch'
    BY <2>1 DEF SpotsInv, EntrantsMatch
  <2>4. Cardinality(Holders') <= Cardinality(Holders)
    BY <2>2, HoldersAreRegistrants, FewerHolders
  <2> QED
    BY <2>1, <2>3, <2>4, SpotsMoved
<1>3. ASSUME NEW r \in Registrants, NEW h \in Handlers, NEW amount \in 1..Fee,
             RefundRead(h, r, amount)
      PROVE  SpotsInv'
  <2>1. \A g \in Handlers : handler'[g].pc = "insert" => handler'[g] = handler[g]
    BY <1>3 DEF RefundRead, Nothing, TypeInv, TypeOK
  <2> QED
    BY <1>3, <2>1, SpotsKept DEF RefundRead, books
<1>4. ASSUME NEW i \in Intents, NEW amount \in 1..Fee, DashboardRefund(i, amount)
      PROVE  SpotsInv'
  BY <1>4, SpotsKept DEF DashboardRefund, books
<1> QED
  BY <1>1, <1>2, <1>3, <1>4 DEF Organiser

LEMMA SpotsServer ==
  ASSUME SpotsInv, TypeInv, Server
  PROVE  SpotsInv'
<1>1. ASSUME NEW h \in Handlers, Settle(h)
      PROVE  SpotsInv'
  <2>1. PICK d : d = [handler[h] EXCEPT !.pc = "idle"]
    OBVIOUS
  <2>2. d \in Jobs /\ d.intent \in Intents /\ d.pc = "idle"
    BY <1>1, <2>1 DEF Settle, Jobs, JobOK, JobsOK, TypeInv, TypeOK
  <2> QED
    BY <1>1, <2>1, <2>2, SpotsConfirmPaid DEF Settle
<1>2. ASSUME NEW h \in Handlers, NEW i \in Intents, Webhook(h, i)
      PROVE  SpotsInv'
  <2>1. Delivery(i, TRUE).pc = "idle"
    BY DEF Delivery, Nothing
  <2> QED
    BY <1>2, <2>1, DeliveryIsJob, SpotsConfirmPaid DEF Webhook
<1>3. ASSUME NEW h \in Handlers,
             \/ Stamp(h) \/ StripeRefund(h) \/ Crash(h) \/ RefundFails(h)
             \/ \E i \in Intents : ReturnFromCheckout(h, i)
      PROVE  SpotsInv'
  <2>1. \A g \in Handlers : handler'[g].pc = "insert" => handler'[g] = handler[g]
    <3>1. CASE Stamp(h) \/ Crash(h)
      BY <3>1 DEF Stamp, Crash, Nothing, TypeInv, TypeOK
    <3>4. ASSUME NEW i \in Intents, ReturnFromCheckout(h, i)
          PROVE  \A g \in Handlers : handler'[g].pc = "insert" => handler'[g] = handler[g]
      <4>1. PICK j : j = [Delivery(i, FALSE) EXCEPT !.pc = "settle"]
        OBVIOUS
      <4>2. j.pc = "settle" /\ handler' = [handler EXCEPT ![h] = j]
        BY <3>4, <4>1, DeliveryIsJob DEF ReturnFromCheckout, Jobs
      <4> QED
        BY <4>2 DEF TypeInv, TypeOK
    <3>2. CASE Finish(h)
      BY <3>2, FinishedBegins DEF Finish, TypeInv, TypeOK
    <3>3. CASE handler' = [handler EXCEPT ![h].pc = "record"]
      BY <3>3 DEF TypeInv, TypeOK, Jobs
    <3> QED
      BY <1>3, <3>1, <3>2, <3>3, <3>4 DEF StripeRefund, RefundFails
  <2>2. UNCHANGED <<books, beyond>>
    BY <1>3 DEF Stamp, StripeRefund, Crash, RefundFails, ReturnFromCheckout, history
  <2> QED
    BY <2>1, <2>2, SpotsKept DEF books
<1>4. ASSUME NEW h \in Handlers, Record(h)
      PROVE  SpotsInv'
  <2>1. \A g \in Handlers : handler'[g].pc = "insert" => handler'[g] = handler[g]
    BY <1>4 DEF Record, Finish, Finished, Nothing, TypeInv, TypeOK
  <2>2. \A r \in Registrants : row'[r].status = row[r].status
    BY <1>4 DEF Record, TypeInv, TypeOK, Rows
  <2> QED
    BY <1>4, <2>1, <2>2, SpotsKept DEF Record, history
<1> QED
  BY <1>1, <1>2, <1>3, <1>4, SpotsSubmitInsert DEF Server

LEMMA SpotsStep == SpotsInv /\ TypeInv /\ [Next]_vars => SpotsInv'
<1> SUFFICES ASSUME SpotsInv, TypeInv, [Next]_vars PROVE SpotsInv'
  OBVIOUS
<1>1. CASE UNCHANGED vars
  BY <1>1, SpotsKept DEF vars, books, history
<1>2. CASE Registrant
  <2>1. ASSUME (\E r \in Registrants : Mint(r)) \/ \E i \in Intents : Pay(i)
        PROVE  SpotsInv'
    BY <2>1, SpotsKept DEF Mint, Pay, books, history
  <2> QED
    BY <1>2, <2>1, SpotsSubmitCount, SpotsWithdraw DEF Registrant
<1>3. CASE Clock
  <2>1. CASE LockPasses \/ SweepList
    BY <2>1, SpotsKept DEF LockPasses, SweepList, books, history
  <2>2. ASSUME NEW r \in Registrants, WindowPasses(r)
        PROVE  SpotsInv'
    <3>1. \A q \in Registrants : row'[q].status = row[q].status
      BY <2>2 DEF WindowPasses, TypeInv, TypeOK, Rows
    <3> QED
      BY <2>2, <3>1, SpotsKept DEF WindowPasses, history
  <2>3. ASSUME NEW n \in notices, SyncRefund(n)
        PROVE  SpotsInv'
    <3>1. \A q \in Registrants : row'[q].status = row[q].status
      BY <2>3 DEF SyncRefund, TypeInv, TypeOK, Rows
    <3> QED
      BY <2>3, <3>1, SpotsKept DEF SyncRefund
  <2> QED
    BY <1>3, <2>1, <2>2, <2>3, SpotsSweepExpire DEF Clock
<1> QED
  BY <1>1, <1>2, <1>3, SpotsServer, SpotsOrganiser DEF Next

(* No division is oversold: the spots held are never more than its capacity *)
(* and those given past the count.                                          *)
THEOREM NeverOversold == Spec => []NoOversell
<1>1. TypeInv /\ SpotsInv => NoOversell
  BY HoldersAreRegistrants, HoldersFinite, RegistrationsAssumption
     DEF SpotsInv, SpotsCounted, NoOversell, TypeInv, TypeOK
<1> QED
  BY <1>1, TypeInit, SpotsInit, TypeStep, SpotsStep, PTL DEF Spec

(* The active entrants are the confirmed registrations.                     *)
THEOREM EntrantsAreConfirmed == Spec => []EntrantsMatch
<1>1. SpotsInv => EntrantsMatch
  BY DEF SpotsInv
<1> QED
  BY <1>1, TypeInit, SpotsInit, TypeStep, SpotsStep, PTL DEF Spec

(***************************************************************************)
(* Money.                                                                   *)
(***************************************************************************)
Dead == {"withdrawn", "expired"}

(* A charge no untouched confirmed place rests on.                          *)
Spared(i) ==
  \/ row[Reg(i)].status \in Dead
  \/ Reg(i) \in byHand
  \/ row[Reg(i)].intent \notin {Null, i}

(* An intent on record is the registration's own, and it was paid for;      *)
(* what is refunded, or about to be, is spared.                             *)
MoneyInv ==
  /\ \A r \in Registrants :
       /\ row[r].intent # Null =>
            Reg(row[r].intent) = r /\ row[r].status \in Dead \cup {"confirmed"}
       /\ row[r].status = "confirmed" /\ r \notin byHand => row[r].intent # Null
  /\ \A h \in Handlers : handler[h].pc = "refund" => Spared(handler[h].target)
  /\ \A i \in Intents : returned[i] # 0 => Spared(i)

(* What a step may do to a row: the dead come back by hand only, and an     *)
(* intent once recorded stays.                                              *)
RowStep(r) ==
  /\ row[r].status \in Dead => row'[r].status \in Dead \/ r \in byHand'
  /\ row[r].intent # Null => row'[r].intent = row[r].intent
  /\ row'[r].intent # Null =>
       Reg(row'[r].intent) = r /\ row'[r].status \in Dead \cup {"confirmed"}
  /\ row'[r].status = "confirmed" /\ r \notin byHand' => row'[r].intent # Null

LEMMA MoneyInit == Init => MoneyInv
<1> SUFFICES ASSUME Init PROVE MoneyInv
  OBVIOUS
<1>1. \A r \in Registrants : row[r].status = "absent" /\ row[r].intent = Null
  BY DEF Init, Absent
<1>2. \A h \in Handlers : handler[h].pc = "idle"
  BY DEF Init, Nothing
<1> QED
  BY <1>1, <1>2 DEF Init, MoneyInv

LEMMA SparedKept ==
  ASSUME byHand \subseteq byHand', \A r \in Registrants : RowStep(r), NEW i \in Intents,
         Spared(i)
  PROVE  Spared(i)'
<1>1. RowStep(Reg(i)) /\ (Reg(i))' = Reg(i)
  BY RegOfIntent DEF Reg
<1> QED
  BY <1>1 DEF RowStep, Spared

LEMMA MoneyKept ==
  ASSUME MoneyInv, TypeInv, byHand \subseteq byHand', \A r \in Registrants : RowStep(r),
         \A h \in Handlers : handler'[h].pc = "refund" =>
            \/ handler[h].pc = "refund" /\ handler'[h].target = handler[h].target
            \/ \E i \in Intents : handler'[h].target = i /\ Spared(i)',
         \A i \in Intents : returned'[i] # 0 => returned[i] # 0 \/ Spared(i)'
  PROVE  MoneyInv'
<1>1. \A i \in Intents : Spared(i) => Spared(i)'
  BY SparedKept
<1>2. \A r \in Registrants :
        /\ row'[r].intent # Null =>
             (Reg(row[r].intent))' = r /\ row'[r].status \in Dead \cup {"confirmed"}
        /\ row'[r].status = "confirmed" /\ r \notin byHand' => row'[r].intent # Null
  BY DEF RowStep, Reg
<1>3. \A h \in Handlers : handler'[h].pc = "refund" => Spared(handler[h].target)'
  <2> SUFFICES ASSUME NEW h \in Handlers, handler'[h].pc = "refund"
               PROVE  Spared(handler[h].target)'
    OBVIOUS
  <2>1. CASE handler[h].pc = "refund" /\ handler'[h].target = handler[h].target
    <3>1. PICK i \in Intents : i = handler[h].target /\ Spared(i)
      BY <2>1 DEF MoneyInv, TypeInv, JobsOK, JobOK
    <3>2. Spared(i)'
      BY <1>1, <3>1
    <3> QED
      BY <2>1, <3>1, <3>2 DEF Spared
  <2>2. CASE \E i \in Intents : handler'[h].target = i /\ Spared(i)'
    BY <2>2 DEF Spared
  <2> QED
    BY <2>1, <2>2
<1>4. \A i \in Intents : returned'[i] # 0 => Spared(i)'
  BY <1>1 DEF MoneyInv
<1> QED
  BY <1>2, <1>3, <1>4 DEF MoneyInv

(* A step that changes no status and no intent.                             *)
LEMMA RowsStand ==
  ASSUME MoneyInv, byHand \subseteq byHand',
         \A r \in Registrants : row'[r].status = row[r].status /\ row'[r].intent = row[r].intent
  PROVE  \A r \in Registrants : RowStep(r)
BY DEF MoneyInv, RowStep

(* Nor begins a refund, nor returns a charge.                               *)
LEMMA MoneyStands ==
  ASSUME MoneyInv, TypeInv, byHand \subseteq byHand',
         \A r \in Registrants : row'[r].status = row[r].status /\ row'[r].intent = row[r].intent,
         \A h \in Handlers : handler'[h].pc = "refund" => handler'[h] = handler[h],
         UNCHANGED returned
  PROVE  MoneyInv'
BY RowsStand, MoneyKept

LEMMA PromotedRows ==
  ASSUME MoneyInv, TypeInv, NEW r \in Registrants, byHand \subseteq byHand',
         NEW gone \in [Registrants -> Rows], row' = Promote(gone) \/ row' = gone,
         gone[r].status \in Dead, gone[r].intent = row[r].intent,
         \A q \in Registrants \ {r} : gone[q] = row[q]
  PROVE  \A q \in Registrants : RowStep(q)
<1>1. \A q \in Registrants :
        /\ row'[q].intent = gone[q].intent
        /\ \/ row'[q].status = gone[q].status
           \/ gone[q].status = "waitlisted" /\ row'[q].status = "pending"
  BY PromoteKeeps
<1>2. RowStep(r)
  BY <1>1 DEF RowStep, MoneyInv, Dead
<1>3. ASSUME NEW q \in Registrants \ {r}
      PROVE  RowStep(q)
  BY <1>1, <1>3 DEF RowStep, MoneyInv, Dead
<1> QED
  BY <1>2, <1>3

LEMMA MoneyWithdraw ==
  ASSUME MoneyInv, TypeInv, NEW h \in Handlers, NEW r \in Registrants, Withdraw(h, r)
  PROVE  MoneyInv'
<1> DEFINE gone == [row EXCEPT ![r].status = "withdrawn"]
<1>1. /\ gone \in [Registrants -> Rows] /\ gone[r].status \in Dead
      /\ gone[r].intent = row[r].intent
      /\ \A q \in Registrants \ {r} : gone[q] = row[q]
  BY DEF TypeInv, TypeOK, Rows, Statuses, Dead
<1>2. (row' = Promote(gone) \/ row' = gone) /\ UNCHANGED <<returned, byHand>>
  BY DEF Withdraw, stripe, history
<1> HIDE DEF gone
<1>3. \A q \in Registrants : RowStep(q)
  BY <1>1, <1>2, PromotedRows
<1>4. row'[r].status \in Dead
  BY <1>1, <1>2, PromoteKeeps DEF Dead
<1>5. ASSUME NEW g \in Handlers, handler'[g].pc = "refund"
      PROVE  \/ handler[g].pc = "refund" /\ handler'[g].target = handler[g].target
             \/ \E i \in Intents : handler'[g].target = i /\ Spared(i)'
  <2>1. CASE handler'[g] = handler[g]
    BY <1>5, <2>1
  <2>2. CASE handler'[g] # handler[g]
    <3>1. RefundDue(r) /\ handler'[g].target = row[r].intent
      BY <2>2 DEF Withdraw, Nothing, TypeInv, TypeOK
    <3>2. row[r].intent \in Intents /\ Reg(row[r].intent) = r
      BY <3>1 DEF RefundDue, MoneyInv, TypeInv, TypeOK, Rows
    <3>3. PICK i \in Intents : i = row[r].intent
      BY <3>2
    <3>4. Spared(i)'
      BY <1>4, <3>2, <3>3 DEF Spared, Reg
    <3> QED
      BY <3>1, <3>3, <3>4
  <2> QED
    BY <2>1, <2>2
<1> QED
  BY <1>2, <1>3, <1>5, MoneyKept

LEMMA MoneyConfirmPaid ==
  ASSUME MoneyInv, TypeInv, NEW h \in Handlers, NEW d \in Jobs, d.intent \in Intents,
         ConfirmPaid(h, d)
  PROVE  MoneyInv'
<1>1. PICK i \in Intents : i = d.intent
  OBVIOUS
<1> DEFINE r == Reg(i)
<1>2. r \in Registrants /\ row[r] \in Rows /\ UNCHANGED <<returned, byHand>>
  BY RegOfIntent DEF ConfirmPaid, stripe, TypeInv, TypeOK
<1>3. CASE PaidTwice(h, d)
  <2>1. UNCHANGED row
    BY <1>3 DEF PaidTwice, books
  <2>2. ASSUME NEW g \in Handlers, handler'[g].pc = "refund", handler'[g] # handler[g]
        PROVE  handler'[g].target = i /\ Spared(i)'
    <3>1. ChargedTwice(row[r].intent, i) /\ handler'[g].target = i
      BY <1>1, <1>3, <2>2, FinishedBegins DEF PaidTwice, Duplicate, Jobs, TypeInv, TypeOK
    <3> QED
      BY <2>1, <3>1 DEF ChargedTwice, Spared, Reg
  <2> QED
    BY <1>2, <2>1, <2>2, RowsStand, MoneyKept
<1>4. CASE PaidLate(h, d)
  <2>1. PICK k \in Intents :
          /\ k = IF row[r].intent = Null THEN i ELSE row[r].intent
          /\ row' = [row EXCEPT ![r].intent = k]
          /\ handler' = [handler EXCEPT ![h] =
               [d EXCEPT !.pc = "refund", !.mode = "late", !.target = k]]
    BY <1>1, <1>2, <1>4 DEF PaidLate, Rows
  <2>2. Reg(k) = r
    BY <1>2, <2>1 DEF MoneyInv
  <2>3. /\ row[r].status \in Dead /\ row'[r].status = row[r].status /\ row'[r].intent = k
        /\ \A q \in Registrants \ {r} : row'[q] = row[q]
    BY <1>1, <1>2, <1>4, <2>1 DEF PaidLate, Dead, TypeInv, TypeOK, Rows
  <2>4. \A q \in Registrants : RowStep(q)
    BY <1>2, <2>1, <2>2, <2>3 DEF RowStep, MoneyInv
  <2>5. Spared(k)'
    BY <2>2, <2>3 DEF Spared, Reg
  <2>6. ASSUME NEW g \in Handlers, handler'[g].pc = "refund", handler'[g] # handler[g]
        PROVE  handler'[g].target = k
    BY <2>1, <2>6 DEF Jobs, TypeInv, TypeOK
  <2> QED
    BY <1>2, <2>4, <2>5, <2>6, MoneyKept
<1>5. CASE PaidInTime(h, d)
  <2>1. /\ row[r].status \in {"pending", "waitlisted"}
        /\ row'[r].status = "confirmed" /\ row'[r].intent = i
        /\ \A q \in Registrants \ {r} : row'[q] = row[q]
    BY <1>1, <1>2, <1>5 DEF PaidInTime, TypeInv, TypeOK, Rows
  <2>2. row[r].intent = Null
    BY <1>2, <2>1 DEF MoneyInv, Dead
  <2>3. RowStep(r)
    <3>1. i # Null
      BY RegistrationsAssumption DEF Intents, Registrants
    <3> QED
      BY <1>2, <2>1, <2>2, <3>1 DEF RowStep, Dead
  <2>4. ASSUME NEW q \in Registrants \ {r} PROVE RowStep(q)
    BY <1>2, <2>1, <2>4 DEF RowStep, MoneyInv
  <2>5. \A g \in Handlers : handler'[g].pc = "refund" => handler'[g] = handler[g]
    BY <1>5, FinishedBegins DEF PaidInTime, TypeInv, TypeOK
  <2> QED
    BY <1>2, <2>3, <2>4, <2>5, MoneyKept
<1> QED
  BY <1>3, <1>4, <1>5 DEF ConfirmPaid

LEMMA MoneyRefund ==
  ASSUME MoneyInv, TypeInv, NEW h \in Handlers, StripeRefund(h)
  PROVE  MoneyInv'
<1>1. PICK i \in Intents : i = handler[h].target /\ Spared(i)
  BY DEF StripeRefund, MoneyInv, TypeInv, JobsOK, JobOK
<1>2. UNCHANGED <<row, byHand>>
  BY DEF StripeRefund, books, history
<1>3. Spared(i)'
  BY <1>1, <1>2 DEF Spared, Reg
<1>4. \A k \in Intents : returned'[k] # returned[k] => k = i
  BY <1>1 DEF StripeRefund, GiveBack, TypeInv, TypeOK
<1>5. \A g \in Handlers : handler'[g].pc = "refund" => handler'[g] = handler[g]
  <2>1. CASE Finish(h)
    BY <2>1, FinishedBegins DEF Finish, TypeInv, TypeOK
  <2>2. CASE handler' = [handler EXCEPT ![h].pc = "record"]
    BY <2>2 DEF TypeInv, TypeOK, Jobs
  <2> QED
    BY <2>1, <2>2 DEF StripeRefund
<1> QED
  BY <1>2, <1>3, <1>4, <1>5, RowsStand, MoneyKept

LEMMA MoneyServer ==
  ASSUME MoneyInv, TypeInv, SpotsInv, Server
  PROVE  MoneyInv'
<1>1. ASSUME NEW h \in Handlers, SubmitInsert(h)
      PROVE  MoneyInv'
  <2> DEFINE r == handler[h].reg
  <2>1. r \in Registrants /\ row[r].status = "absent" /\ UNCHANGED <<returned, byHand>>
    BY <1>1 DEF SubmitInsert, SpotsInv, InsertInv, TypeInv, JobsOK, JobOK, stripe, history
  <2>2. /\ row[r].intent = Null /\ row'[r].intent = Null
        /\ row'[r].status \in {"pending", "waitlisted"}
        /\ \A q \in Registrants \ {r} : row'[q] = row[q]
    BY <1>1, <2>1 DEF SubmitInsert, Absent, MoneyInv, Dead, TypeInv, TypeOK
  <2>3. \A q \in Registrants : RowStep(q)
    BY <2>1, <2>2 DEF RowStep, MoneyInv, Dead
  <2>4. \A g \in Handlers : handler'[g].pc = "refund" => handler'[g] = handler[g]
    BY <1>1 DEF SubmitInsert, Nothing, TypeInv, TypeOK
  <2> QED
    BY <2>1, <2>3, <2>4, MoneyKept
<1>2. ASSUME NEW h \in Handlers, Settle(h)
      PROVE  MoneyInv'
  <2>1. PICK d : d = [handler[h] EXCEPT !.pc = "idle"]
    OBVIOUS
  <2>2. d \in Jobs /\ d.intent \in Intents
    BY <1>2, <2>1 DEF Settle, Jobs, JobOK, JobsOK, TypeInv, TypeOK
  <2> QED
    BY <1>2, <2>1, <2>2, MoneyConfirmPaid DEF Settle
<1>3. ASSUME NEW h \in Handlers, NEW i \in Intents, Webhook(h, i)
      PROVE  MoneyInv'
  BY <1>3, DeliveryIsJob, MoneyConfirmPaid DEF Webhook
<1>4. ASSUME NEW h \in Handlers, NEW i \in Intents, ReturnFromCheckout(h, i)
      PROVE  MoneyInv'
  <2>1. PICK j : j = [Delivery(i, FALSE) EXCEPT !.pc = "settle"]
    OBVIOUS
  <2>2. j.pc = "settle" /\ handler' = [handler EXCEPT ![h] = j]
    BY <1>4, <2>1, DeliveryIsJob DEF ReturnFromCheckout, Jobs
  <2>3. \A g \in Handlers : handler'[g].pc = "refund" => handler'[g] = handler[g]
    BY <2>2 DEF TypeInv, TypeOK
  <2> QED
    BY <1>4, <2>3, MoneyStands DEF ReturnFromCheckout, books, stripe, history
<1>5. ASSUME NEW h \in Handlers, Stamp(h) \/ Crash(h) \/ RefundFails(h)
      PROVE  MoneyInv'
  <2>1. \A g \in Handlers : handler'[g].pc = "refund" => handler'[g] = handler[g]
    <3>1. CASE Finish(h)
      BY <3>1, FinishedBegins DEF Finish, TypeInv, TypeOK
    <3>2. CASE Stamp(h) \/ Crash(h)
      BY <3>2 DEF Stamp, Crash, Nothing, TypeInv, TypeOK
    <3> QED
      BY <1>5, <3>1, <3>2 DEF RefundFails
  <2>2. UNCHANGED <<row, returned, byHand>>
    BY <1>5 DEF Stamp, Crash, RefundFails, books, stripe, history
  <2> QED
    BY <2>1, <2>2, MoneyStands
<1>6. ASSUME NEW h \in Handlers, Record(h)
      PROVE  MoneyInv'
  <2>1. \A g \in Handlers : handler'[g].pc = "refund" => handler'[g] = handler[g]
    BY <1>6, FinishedBegins DEF Record, Finish, TypeInv, TypeOK
  <2>2. \A r \in Registrants : row'[r].status = row[r].status /\ row'[r].intent = row[r].intent
    BY <1>6 DEF Record, TypeInv, TypeOK, Rows
  <2> QED
    BY <1>6, <2>1, <2>2, MoneyStands DEF Record, stripe, history
<1> QED
  BY <1>1, <1>2, <1>3, <1>4, <1>5, <1>6, MoneyRefund DEF Server

LEMMA MoneyMaterialise ==
  ASSUME MoneyInv, TypeInv, NEW r \in Registrants, Materialise(r), ByHand(r),
         UNCHANGED <<stripe, handler>>
  PROVE  MoneyInv'
<1>1. /\ row'[r].status = "confirmed" /\ row'[r].intent = row[r].intent
      /\ \A q \in Registrants \ {r} : row'[q] = row[q]
  BY DEF Materialise, TypeInv, TypeOK, Rows
<1>2. r \in byHand' /\ byHand \subseteq byHand'
  BY DEF ByHand
<1>3. \A q \in Registrants : RowStep(q)
  BY <1>1, <1>2 DEF RowStep, MoneyInv
<1> QED
  BY <1>2, <1>3, MoneyKept DEF stripe

LEMMA MoneyOrganiser ==
  ASSUME MoneyInv, TypeInv, Organiser
  PROVE  MoneyInv'
<1>1. ASSUME NEW r \in Registrants, Confirm(r) \/ MarkPaidOffline(r) \/ Waive(r)
      PROVE  MoneyInv'
  BY <1>1, MoneyMaterialise DEF Confirm, MarkPaidOffline, Waive
<1>2. ASSUME NEW r \in Registrants, Waitlist(r)
      PROVE  MoneyInv'
  <2>1. /\ row[r].status = "pending" /\ row'[r].status = "waitlisted"
        /\ row'[r].intent = row[r].intent
        /\ \A q \in Registrants \ {r} : row'[q] = row[q]
        /\ byHand \subseteq byHand' /\ UNCHANGED <<returned, handler>>
    BY <1>2 DEF Waitlist, ByHand, stripe, TypeInv, TypeOK, Rows
  <2>2. \A q \in Registrants : RowStep(q)
    BY <2>1 DEF RowStep, MoneyInv, Dead
  <2> QED
    BY <2>1, <2>2, MoneyKept
<1>3. ASSUME NEW r \in Registrants, NEW h \in Handlers, NEW amount \in 1..Fee,
             RefundRead(h, r, amount)
      PROVE  MoneyInv'
  <2>1. PICK i \in Intents : i = row[r].intent /\ Reg(i) = r
    BY <1>3 DEF RefundRead, MoneyInv, TypeInv, TypeOK, Rows
  <2>2. r \in byHand' /\ byHand \subseteq byHand' /\ UNCHANGED <<row, returned>>
    BY <1>3 DEF RefundRead, ByHand, books, stripe
  <2>3. Spared(i)'
    BY <2>1, <2>2 DEF Spared, Reg
  <2>4. ASSUME NEW g \in Handlers, handler'[g].pc = "refund", handler'[g] # handler[g]
        PROVE  handler'[g].target = i
    BY <1>3, <2>1, <2>4 DEF RefundRead, Nothing, TypeInv, TypeOK
  <2> QED
    BY <2>2, <2>3, <2>4, RowsStand, MoneyKept
<1>4. ASSUME NEW i \in Intents, NEW amount \in 1..Fee, DashboardRefund(i, amount)
      PROVE  MoneyInv'
  <2>1. Reg(i) \in byHand' /\ byHand \subseteq byHand' /\ UNCHANGED <<row, handler>>
    BY <1>4 DEF DashboardRefund, ByHand, books
  <2>2. Spared(i)'
    BY <2>1 DEF Spared, Reg
  <2>3. \A k \in Intents : returned'[k] # returned[k] => k = i
    BY <1>4 DEF DashboardRefund, GiveBack, TypeInv, TypeOK
  <2> QED
    BY <2>1, <2>2, <2>3, RowsStand, MoneyKept
<1> QED
  BY <1>1, <1>2, <1>3, <1>4 DEF Organiser

LEMMA MoneyStep == MoneyInv /\ SpotsInv /\ TypeInv /\ [Next]_vars => MoneyInv'
<1> SUFFICES ASSUME MoneyInv, SpotsInv, TypeInv, [Next]_vars PROVE MoneyInv'
  OBVIOUS
<1>1. CASE UNCHANGED vars
  BY <1>1, MoneyStands DEF vars, books, stripe, history
<1>2. CASE Registrant
  <2>1. ASSUME (\E r \in Registrants : Mint(r)) \/ \E i \in Intents : Pay(i)
        PROVE  MoneyInv'
    BY <2>1, MoneyStands DEF Mint, Pay, books, history
  <2>2. ASSUME NEW h \in Handlers, NEW r \in Registrants, SubmitCount(h, r)
        PROVE  MoneyInv'
    <3>1. \A g \in Handlers : handler'[g].pc = "refund" => handler'[g] = handler[g]
      BY <2>2 DEF SubmitCount, Nothing, TypeInv, TypeOK
    <3> QED
      BY <2>2, <3>1, MoneyStands DEF SubmitCount, books, stripe, history
  <2> QED
    BY <1>2, <2>1, <2>2, MoneyWithdraw DEF Registrant
<1>3. CASE Clock
  <2>1. CASE LockPasses \/ SweepList
    BY <2>1, MoneyStands DEF LockPasses, SweepList, books, stripe, history
  <2>2. ASSUME NEW r \in Registrants, WindowPasses(r)
        PROVE  MoneyInv'
    <3>1. \A q \in Registrants :
            row'[q].status = row[q].status /\ row'[q].intent = row[q].intent
      BY <2>2 DEF WindowPasses, TypeInv, TypeOK, Rows
    <3> QED
      BY <2>2, <3>1, MoneyStands DEF WindowPasses, stripe, history
  <2>3. ASSUME NEW r \in Registrants, SweepExpire(r)
        PROVE  MoneyInv'
    <3> DEFINE gone == [row EXCEPT ![r].status = "expired"]
    <3>1. /\ gone \in [Registrants -> Rows] /\ gone[r].status \in Dead
          /\ gone[r].intent = row[r].intent
          /\ \A q \in Registrants \ {r} : gone[q] = row[q]
      BY DEF TypeInv, TypeOK, Rows, Statuses, Dead
    <3>2. (row' = Promote(gone) \/ UNCHANGED row) /\ UNCHANGED <<returned, byHand, handler>>
      BY <2>3 DEF SweepExpire, stripe, history
    <3> HIDE DEF gone
    <3>3. \A q \in Registrants : RowStep(q)
      BY <3>1, <3>2, PromotedRows, RowsStand
    <3> QED
      BY <3>2, <3>3, MoneyKept
  <2>4. ASSUME NEW n \in notices, SyncRefund(n)
        PROVE  MoneyInv'
    <3>1. \A q \in Registrants :
            row'[q].status = row[q].status /\ row'[q].intent = row[q].intent
      BY <2>4 DEF SyncRefund, TypeInv, TypeOK, Rows
    <3> QED
      BY <2>4, <3>1, MoneyStands DEF SyncRefund
  <2> QED
    BY <1>3, <2>1, <2>2, <2>3, <2>4 DEF Clock
<1> QED
  BY <1>1, <1>2, <1>3, MoneyServer, MoneyOrganiser DEF Next

(* A confirmed place nobody touched by hand rests on a recorded payment,    *)
(* and no duplicate, late or automatic refund has returned any of it.       *)
THEOREM PaidPlacesAreKept == Spec => []PaidPlaceKept
<1>1. MoneyInv /\ TypeInv => PaidPlaceKept
  <2> SUFFICES ASSUME MoneyInv, TypeInv, NEW r \in Registrants,
                      row[r].status = "confirmed", r \notin byHand
               PROVE  row[r].intent # Null /\ returned[row[r].intent] = 0
    BY DEF PaidPlaceKept
  <2>1. row[r].intent # Null /\ Reg(row[r].intent) = r
    BY DEF MoneyInv
  <2>2. PICK i \in Intents : i = row[r].intent
    BY <2>1 DEF TypeInv, TypeOK, Rows
  <2>3. ~Spared(i)
    BY <2>1, <2>2 DEF Spared, Dead
  <2> QED
    BY <2>1, <2>2, <2>3 DEF MoneyInv
<1> QED
  BY <1>1, TypeInit, SpotsInit, MoneyInit, TypeStep, SpotsStep, MoneyStep, PTL DEF Spec
(***************************************************************************)
(* What is owed goes back, and the books know of it.                        *)
(***************************************************************************)
(* What a refund under way stands on.                                       *)
JobSound(j) ==
  /\ j.pc \in {"refund", "record"} =>
       /\ j.mode \in {"late", "duplicate", "auto", "manual"} /\ Reg(j.target) = j.reg
       /\ IF j.mode = "manual" THEN j.reg \in byHand ELSE j.amount = 0
       /\ IF j.mode = "duplicate" THEN j.pc = "refund" /\ j.target = j.intent
          ELSE row[j.reg].intent = j.target
       /\ j.mode \in {"late", "auto"} => row[j.reg].status \in Dead \/ j.reg \in byHand
       /\ j.mode = "auto" => row[j.reg].amount = Fee
       /\ j.event => j.mode \in {"late", "duplicate"} /\ Reg(j.intent) = j.reg
  /\ j.pc = "settle" => Reg(j.intent) = j.reg /\ j.amount = 0 /\ ~j.event
JobsSound == \A h \in Handlers : JobSound(handler[h])

(* A live registration nobody touched by hand has had nothing back.         *)
RowsSound ==
  \A r \in Registrants : r \notin byHand /\ row[r].status \notin Dead =>
    row[r].refunded = 0 /\ (row[r].status = "confirmed" => row[r].amount = Fee)
NoticesSound == \A n \in notices : n[2] <= returned[n[1]]

BooksInv == JobsSound /\ RowsSound /\ NoticesSound

(* What a step may do to a row's books.                                     *)
BookStep(r) ==
  /\ row[r].intent # Null =>
       /\ row'[r].intent = row[r].intent
       /\ row[r].amount = Fee => row'[r].amount = Fee
       /\ \A t \in 0..Fee : row[r].refunded >= t => row'[r].refunded >= t
  /\ row[r].status \in Dead => row'[r].status \in Dead \/ r \in byHand'
  /\ r \notin byHand' /\ row'[r].status \notin Dead =>
       row'[r].refunded = 0 /\ (row'[r].status = "confirmed" => row'[r].amount = Fee)

LEMMA PromoteBooks ==
  ASSUME NEW rows \in [Registrants -> Rows], NEW r \in Registrants
  PROVE  \/ Promote(rows)[r] = rows[r]
         \/ /\ rows[r].status = "waitlisted" /\ Promote(rows)[r].status = "pending"
            /\ Promote(rows)[r].amount = Fee
            /\ Promote(rows)[r].intent = rows[r].intent
            /\ Promote(rows)[r].refunded = rows[r].refunded
<1> DEFINE p == [rows[r] EXCEPT !.status = "pending", !.amount = Fee, !.window = "open"]
<1>1. /\ p.status = "pending" /\ p.amount = Fee /\ p.intent = rows[r].intent
      /\ p.refunded = rows[r].refunded
  BY DEF Rows
<1>2. \/ Promote(rows)[r] = rows[r]
      \/ rows[r].status = "waitlisted" /\ Promote(rows)[r] = p
  BY DEF Promote
<1> HIDE DEF p
<1> QED
  BY <1>1, <1>2

LEMMA BookStays ==
  ASSUME TypeInv, RowsSound, NEW r \in Registrants, byHand \subseteq byHand',
         /\ row'[r].status = row[r].status /\ row'[r].amount = row[r].amount
         /\ row'[r].intent = row[r].intent /\ row'[r].refunded = row[r].refunded
  PROVE  BookStep(r)
BY DEF RowsSound, BookStep

LEMMA BookByHand ==
  ASSUME TypeInv, NEW r \in Registrants, r \in byHand',
         /\ row'[r].amount = row[r].amount
         /\ row'[r].intent = row[r].intent /\ row'[r].refunded = row[r].refunded
  PROVE  BookStep(r)
BY DEF BookStep

(* A registration that dies, and the one promoted in its place.             *)
LEMMA BookDies ==
  ASSUME TypeInv, MoneyInv, RowsSound, NEW r \in Registrants, NEW q \in Registrants,
         byHand \subseteq byHand', NEW status \in Dead,
         LET gone == [row EXCEPT ![q].status = status]
         IN  row' = gone \/ row' = Promote(gone)
  PROVE  BookStep(r)
<1> DEFINE gone == [row EXCEPT ![q].status = status]
<1>1. /\ gone \in [Registrants -> Rows]
      /\ gone[q].status = status /\ gone[q].amount = row[q].amount
      /\ gone[q].intent = row[q].intent /\ gone[q].refunded = row[q].refunded
      /\ r # q => gone[r] = row[r]
  BY SMTT(30) DEF TypeInv, TypeOK, Rows, Statuses, Dead
<1>2. \/ row'[r] = gone[r]
      \/ /\ gone[r].status = "waitlisted" /\ row'[r].status = "pending"
         /\ row'[r].amount = Fee /\ row'[r].intent = gone[r].intent
         /\ row'[r].refunded = gone[r].refunded
  <2>1. row' = gone \/ row' = Promote(gone)
    OBVIOUS
  <2> HIDE DEF gone
  <2> QED
    BY <1>1, <2>1, PromoteBooks
<1> HIDE DEF gone
<1>3. CASE r = q
  <2>1. status # "waitlisted"
    BY DEF Dead
  <2> QED
    BY <1>1, <1>2, <1>3, <2>1 DEF BookStep
<1>4. CASE r # q
  <2>1. CASE row'[r] = row[r]
    BY <2>1, BookStays
  <2>2. CASE row'[r] # row[r]
    <3>1. /\ row[r].status = "waitlisted" /\ row'[r].status = "pending"
          /\ row'[r].amount = Fee /\ row'[r].intent = row[r].intent
          /\ row'[r].refunded = row[r].refunded
      BY <1>1, <1>2, <1>4, <2>2
    <3> QED
      BY <3>1 DEF BookStep, RowsSound, Dead
  <2> QED
    BY <2>1, <2>2
<1> QED
  BY <1>3, <1>4

LEMMA BookConfirmPaid ==
  ASSUME TypeInv, MoneyInv, RowsSound, NEW h \in Handlers, NEW d \in Jobs,
         d.intent \in Intents, ConfirmPaid(h, d), NEW r \in Registrants
  PROVE  BookStep(r)
<1> DEFINE q == Reg(d.intent)
<1>1. q \in Registrants /\ UNCHANGED byHand /\ row \in [Registrants -> Rows]
  BY RegOfIntent DEF ConfirmPaid, TypeInv, TypeOK
<1>2. CASE PaidTwice(h, d)
  BY <1>1, <1>2, BookStays DEF PaidTwice, books
<1>3. CASE PaidLate(h, d)
  <2>1. /\ row[q].status \in Dead
        /\ \E i : row' = [row EXCEPT ![q].intent = i] /\ (row[q].intent # Null => i = row[q].intent)
    BY <1>3 DEF PaidLate, Dead
  <2>2. CASE r # q
    BY <1>1, <2>1, <2>2, BookStays DEF Rows
  <2>3. CASE r = q
    <3>1. /\ row'[r].status = row[r].status /\ row'[r].amount = row[r].amount
          /\ row'[r].refunded = row[r].refunded
          /\ row[r].intent # Null => row'[r].intent = row[r].intent
      BY <1>1, <2>1, <2>3 DEF Rows
    <3> QED
      BY <2>1, <2>3, <3>1 DEF BookStep
  <2> QED
    BY <2>2, <2>3
<1>4. CASE PaidInTime(h, d)
  <2>1. /\ row[q].status \in {"pending", "waitlisted"}
        /\ row' = [row EXCEPT ![q].status = "confirmed", ![q].window = "none",
                              ![q].intent = d.intent, ![q].amount = Fee]
    BY <1>4 DEF PaidInTime
  <2>2. CASE r # q
    BY <1>1, <2>1, <2>2, BookStays
  <2>3. CASE r = q
    <3>1. /\ row'[r].status = "confirmed" /\ row'[r].amount = Fee
          /\ row'[r].refunded = row[r].refunded
      BY <1>1, <2>1, <2>3 DEF Rows
    <3>2. row[r].intent = Null
      BY <1>1, <2>1, <2>3 DEF MoneyInv, Dead
    <3> QED
      BY <1>1, <2>1, <2>3, <3>1, <3>2 DEF BookStep, RowsSound, Dead
  <2> QED
    BY <2>2, <2>3
<1> QED
  BY <1>2, <1>3, <1>4 DEF ConfirmPaid

(* The last step of a refund, and the events about it.                      *)
LEMMA BookRecord ==
  ASSUME TypeInv, BooksInv, NEW h \in Handlers, Record(h), NEW r \in Registrants
  PROVE  BookStep(r)
<1> DEFINE job == handler[h]
           q == job.reg
<1>1. /\ job.pc = "record" /\ q \in Registrants /\ JobSound(job) /\ job.amount \in Nat
      /\ row \in [Registrants -> Rows] /\ UNCHANGED byHand /\ Fee \in Nat
  BY RegistrationsAssumption
     DEF Record, BooksInv, JobsSound, TypeInv, TypeOK, JobsOK, JobOK, Jobs, history
<1>2. PICK m : /\ m = CASE job.mode = "late" -> Fee
                        [] job.mode = "auto" -> row[q].amount
                        [] OTHER -> row[q].refunded + job.amount
               /\ row' = [row EXCEPT ![q].refunded = m]
  BY DEF Record
<1>3. /\ job.mode \in {"late", "auto", "manual"}
      /\ row[q].status \in Dead \/ q \in byHand
      /\ m = Fee \/ m = row[q].refunded + job.amount
  BY <1>1, <1>2 DEF JobSound
<1> HIDE DEF q, job
<1>4. CASE r # q
  BY <1>1, <1>2, <1>4, BookStays DEF BooksInv, Rows
<1>5. CASE r = q
  <2>1. /\ row'[r].status = row[r].status /\ row'[r].amount = row[r].amount
        /\ row'[r].intent = row[r].intent /\ row'[r].refunded = m
        /\ row[r].refunded \in Nat
    BY <1>1, <1>2, <1>5 DEF Rows
  <2>2. \A t \in 0..Fee : row[r].refunded >= t => m >= t
    BY <1>1, <1>3, <1>5, <2>1
  <2> QED
    BY <1>1, <1>3, <1>5, <2>1, <2>2 DEF BookStep
<1> QED
  BY <1>4, <1>5

LEMMA BookSyncRefund ==
  ASSUME TypeInv, MoneyInv, BooksInv, NEW n \in notices, SyncRefund(n),
         NEW r \in Registrants
  PROVE  BookStep(r)
<1>1. /\ n[1] \in Intents /\ n[2] \in 1..Fee /\ n[2] <= returned[n[1]]
      /\ row[r] \in Rows /\ UNCHANGED byHand /\ Fee \in Nat
  BY RegistrationsAssumption DEF SyncRefund, BooksInv, NoticesSound, TypeInv, TypeOK
<1>2. CASE row[r].intent # n[1]
  BY <1>1, <1>2, BookStays DEF SyncRefund, BooksInv
<1>3. CASE row[r].intent = n[1]
  <2>1. row'[r] = [row[r] EXCEPT !.refunded = Total(@, n[2])]
    BY <1>3 DEF SyncRefund
  <2>2. /\ row'[r].status = row[r].status /\ row'[r].amount = row[r].amount
        /\ row'[r].intent = row[r].intent /\ row'[r].refunded >= row[r].refunded
        /\ row'[r].refunded \in Nat /\ row[r].refunded \in Nat
    BY <1>1, <2>1 DEF Rows, Total
  <2>3. row[r].status \in Dead \/ r \in byHand
    <3>1. Spared(n[1]) /\ Reg(n[1]) = r
      <4>1. row[r].intent # Null /\ returned[n[1]] \in 0..Fee
        BY <1>1, <1>3, RegistrationsAssumption DEF Intents, Registrants, TypeInv, TypeOK
      <4>2. returned[n[1]] # 0
        BY <1>1, <4>1
      <4> QED
        BY <1>1, <1>3, <4>1, <4>2 DEF MoneyInv
    <3> QED
      BY <1>3, <3>1 DEF Spared
  <2>4. \A t \in 0..Fee : row[r].refunded >= t => row'[r].refunded >= t
    BY <1>1, <2>2
  <2> QED
    BY <1>1, <2>2, <2>3, <2>4 DEF BookStep
<1> QED
  BY <1>2, <1>3

(* The actions that write no row's books.                                   *)
LEMMA BookWriters ==
  ASSUME [Next]_vars
  PROVE  \/ UNCHANGED row /\ byHand \subseteq byHand'
         \/ \E h \in Handlers : SubmitInsert(h) \/ Record(h) \/ Settle(h)
         \/ \E h \in Handlers, r \in Registrants : Withdraw(h, r)
         \/ \E h \in Handlers, i \in Intents : Webhook(h, i)
         \/ \E n \in notices : SyncRefund(n)
         \/ \E r \in Registrants : \/ SweepExpire(r) \/ WindowPasses(r)
                                   \/ Confirm(r) \/ MarkPaidOffline(r) \/ Waive(r)
                                   \/ Waitlist(r)
<1>1. CASE UNCHANGED vars
  BY <1>1 DEF vars, books, history
<1>2. CASE Registrant
  BY <1>2 DEF Registrant, Mint, SubmitCount, Pay, books, history
<1>3. CASE Server
  BY <1>3 DEF Server, Stamp, StripeRefund, ReturnFromCheckout, Crash, RefundFails,
              books, history
<1>4. CASE Clock
  BY <1>4 DEF Clock, LockPasses, SweepList, books, history
<1>5. CASE Organiser
  BY <1>5 DEF Organiser, RefundRead, DashboardRefund, ByHand, books
<1> QED
  BY <1>1, <1>2, <1>3, <1>4, <1>5 DEF Next

LEMMA BookSteps ==
  ASSUME TypeInv, SpotsInv, MoneyInv, BooksInv, [Next]_vars, NEW r \in Registrants
  PROVE  BookStep(r)
<1>0. row \in [Registrants -> Rows] /\ RowsSound
  BY DEF TypeInv, TypeOK, BooksInv
<1>1. CASE UNCHANGED row /\ byHand \subseteq byHand'
  BY <1>0, <1>1, BookStays
<1>2. ASSUME NEW h \in Handlers, SubmitInsert(h) PROVE BookStep(r)
  <2> DEFINE q == handler[h].reg
  <2>1. q \in Registrants /\ row[q].status = "absent" /\ UNCHANGED byHand
    BY <1>2 DEF SubmitInsert, SpotsInv, InsertInv, TypeInv, JobsOK, JobOK, history
  <2>2. /\ row[q].intent = Null /\ row'[q].refunded = 0
        /\ row'[q].status \in {"pending", "waitlisted"}
        /\ \A p \in Registrants \ {q} : row'[p] = row[p]
    BY <1>0, <1>2, <2>1 DEF SubmitInsert, Absent, MoneyInv, Dead
  <2> HIDE DEF q
  <2>3. CASE r = q
    BY <2>1, <2>2, <2>3 DEF BookStep, Dead
  <2>4. CASE r # q
    BY <1>0, <2>1, <2>2, <2>4, BookStays
  <2> QED
    BY <2>3, <2>4
<1>3. ASSUME NEW h \in Handlers, Settle(h) PROVE BookStep(r)
  <2>1. PICK d : d = [handler[h] EXCEPT !.pc = "idle"]
    OBVIOUS
  <2>2. d \in Jobs /\ d.intent \in Intents
    BY <1>3, <2>1 DEF Settle, Jobs, JobOK, JobsOK, TypeInv, TypeOK
  <2> QED
    BY <1>0, <1>3, <2>1, <2>2, BookConfirmPaid DEF Settle
<1>4. ASSUME NEW h \in Handlers, NEW i \in Intents, Webhook(h, i) PROVE BookStep(r)
  BY <1>0, <1>4, DeliveryIsJob, BookConfirmPaid DEF Webhook
<1>5. ASSUME NEW h \in Handlers, NEW q \in Registrants, Withdraw(h, q) PROVE BookStep(r)
  <2>1. UNCHANGED byHand /\ "withdrawn" \in Dead
    BY <1>5 DEF Withdraw, history, Dead
  <2>2. LET gone == [row EXCEPT ![q].status = "withdrawn"]
        IN  row' = gone \/ row' = Promote(gone)
    BY <1>5 DEF Withdraw
  <2> QED
    BY <1>0, <2>1, <2>2, BookDies
<1>6. ASSUME NEW q \in Registrants, SweepExpire(q) PROVE BookStep(r)
  <2>1. UNCHANGED byHand /\ "expired" \in Dead
    BY <1>6 DEF SweepExpire, history, Dead
  <2>2. CASE row' = row
    BY <1>0, <2>1, <2>2, BookStays
  <2>3. CASE LET gone == [row EXCEPT ![q].status = "expired"]
             IN  row' = gone \/ row' = Promote(gone)
    BY <1>0, <2>1, <2>3, BookDies
  <2> QED
    BY <1>6, <2>2, <2>3 DEF SweepExpire
<1>7. ASSUME NEW q \in Registrants, WindowPasses(q) PROVE BookStep(r)
  <2>1. /\ row'[r].status = row[r].status /\ row'[r].amount = row[r].amount
        /\ row'[r].intent = row[r].intent /\ row'[r].refunded = row[r].refunded
    BY <1>0, <1>7 DEF WindowPasses, Rows
  <2> QED
    BY <1>0, <1>7, <2>1, BookStays DEF WindowPasses, history
<1>8. ASSUME NEW q \in Registrants,
             Confirm(q) \/ MarkPaidOffline(q) \/ Waive(q) \/ Waitlist(q)
      PROVE  BookStep(r)
  <2>1. q \in byHand' /\ byHand \subseteq byHand'
    BY <1>8 DEF Confirm, MarkPaidOffline, Waive, Waitlist, ByHand
  <2>2. /\ row'[r].amount = row[r].amount
        /\ row'[r].intent = row[r].intent /\ row'[r].refunded = row[r].refunded
        /\ r # q => row'[r] = row[r]
    BY <1>0, <1>8 DEF Confirm, MarkPaidOffline, Waive, Waitlist, Materialise, Rows
  <2> QED
    BY <1>0, <2>1, <2>2, BookStays, BookByHand
<1> QED
  BY <1>1, <1>2, <1>3, <1>4, <1>5, <1>6, <1>7, <1>8, BookWriters, BookRecord,
     BookSyncRefund

(***************************************************************************)
(* Refunds under way.                                                       *)
(***************************************************************************)
LEMMA ByHandGrows == ASSUME [Next]_vars PROVE byHand \subseteq byHand'
BY DEF Next, Registrant, Server, Clock, Organiser, Mint, SubmitCount, Withdraw, Pay,
       SubmitInsert, Settle, Stamp, StripeRefund, Record, Webhook, ReturnFromCheckout,
       ConfirmPaid, Crash, RefundFails, LockPasses, SweepList, WindowPasses, SweepExpire,
       SyncRefund, Confirm, MarkPaidOffline, Waive, Waitlist, RefundRead,
       DashboardRefund, ByHand, history, vars

LEMMA SoundStays ==
  ASSUME \A r \in Registrants : BookStep(r), byHand \subseteq byHand', NEW j,
         JobSound(j), JobOK(j)
  PROVE  JobSound(j)'
<1>1. CASE j.pc \in {"refund", "record"}
  <2>1. j.target # Null /\ BookStep(j.reg)
    BY <1>1, RegistrationsAssumption DEF JobOK, Intents, Registrants
  <2>2. Reg(j.target)' = Reg(j.target) /\ Reg(j.intent)' = Reg(j.intent)
    BY DEF Reg
  <2> QED
    BY <1>1, <2>1, <2>2 DEF JobSound, BookStep
<1>2. CASE j.pc \notin {"refund", "record"}
  BY <1>2 DEF JobSound, Reg
<1> QED
  BY <1>1, <1>2

(* One handler goes on to j.                                                *)
LEMMA SoundJob ==
  ASSUME TypeInv, JobsSound, \A r \in Registrants : BookStep(r), byHand \subseteq byHand',
         NEW h \in Handlers, NEW j, JobSound(j)', handler' = [handler EXCEPT ![h] = j]
  PROVE  JobsSound'
<1> SUFFICES ASSUME NEW g \in Handlers PROVE JobSound(handler[g])'
  BY DEF JobsSound
<1>1. PICK k : k = handler[g]
  OBVIOUS
<1>2. JobSound(k)'
  BY <1>1, SoundStays DEF TypeInv, JobsOK, JobsSound
<1>3. handler'[g] = k \/ handler'[g] = j
  BY <1>1 DEF TypeInv, TypeOK
<1> QED
  BY <1>2, <1>3 DEF JobSound

LEMMA FinishedElsewhere == \A j : Finished(j).pc \in {"idle", "stamp"}
BY DEF Finished, Nothing

LEMMA SoundKept ==
  ASSUME TypeInv, JobsSound, \A r \in Registrants : BookStep(r), byHand \subseteq byHand',
         UNCHANGED handler
  PROVE  JobsSound'
<1> SUFFICES ASSUME NEW g \in Handlers PROVE JobSound(handler[g])'
  BY DEF JobsSound
<1>1. PICK k : k = handler[g]
  OBVIOUS
<1>2. JobSound(k)'
  BY <1>1, SoundStays DEF TypeInv, JobsOK, JobsSound
<1> QED
  BY <1>1, <1>2 DEF JobSound

LEMMA SoundWithdraw ==
  ASSUME TypeInv, MoneyInv, JobsSound, \A r \in Registrants : BookStep(r),
         NEW h \in Handlers, NEW q \in Registrants, Withdraw(h, q)
  PROVE  JobsSound'
<1>1. UNCHANGED byHand /\ row \in [Registrants -> Rows]
  BY DEF Withdraw, history, TypeInv, TypeOK
<1>2. CASE UNCHANGED handler
  BY <1>1, <1>2, SoundKept
<1>3. CASE /\ RefundDue(q)
           /\ handler' = [handler EXCEPT ![h] =
                [Nothing EXCEPT !.pc = "refund", !.reg = q, !.mode = "auto",
                                !.target = row[q].intent]]
  <2>1. PICK j : j = [Nothing EXCEPT !.pc = "refund", !.reg = q, !.mode = "auto",
                                     !.target = row[q].intent]
    OBVIOUS
  <2>2. /\ j.pc = "refund" /\ j.reg = q /\ j.mode = "auto" /\ j.target = row[q].intent
        /\ j.amount = 0 /\ j.event = FALSE
    BY <2>1 DEF Nothing
  <2>3. row[q].intent # Null /\ Reg(row[q].intent) = q /\ row[q].amount = Fee
    BY <1>1, <1>3, RegistrationsAssumption DEF RefundDue, MoneyInv, Rows
  <2>4. row'[q].intent = row[q].intent /\ row'[q].amount = Fee
    BY <2>3 DEF BookStep
  <2>5. row'[q].status \in Dead
    <3> DEFINE gone == [row EXCEPT ![q].status = "withdrawn"]
    <3>1. gone \in [Registrants -> Rows] /\ gone[q].status = "withdrawn"
      BY <1>1 DEF Rows, Statuses
    <3>2. row' = gone \/ row' = Promote(gone)
      BY DEF Withdraw
    <3> HIDE DEF gone
    <3> QED
      BY <3>1, <3>2, PromoteBooks DEF Dead
  <2>6. JobSound(j)'
    BY <2>2, <2>3, <2>4, <2>5 DEF JobSound, Reg
  <2> QED
    BY <1>1, <1>3, <2>1, <2>6, SoundJob
<1>4. handler' = [handler EXCEPT ![h] = handler[h]] => UNCHANGED handler
  BY DEF TypeInv, TypeOK
<1> QED
  BY <1>2, <1>3, <1>4 DEF Withdraw

LEMMA SoundConfirmPaid ==
  ASSUME TypeInv, MoneyInv, JobsSound, \A r \in Registrants : BookStep(r),
         NEW h \in Handlers, NEW d \in Jobs, d.intent \in Intents,
         d.reg = Reg(d.intent), d.amount = 0, ConfirmPaid(h, d)
  PROVE  JobsSound'
<1> DEFINE q == Reg(d.intent)
           job(mode, i) == [d EXCEPT !.pc = "refund", !.mode = mode, !.target = i]
<1>1. q \in Registrants /\ UNCHANGED byHand /\ row \in [Registrants -> Rows]
  BY RegOfIntent DEF ConfirmPaid, TypeInv, TypeOK
<1>2. \A mode, i : /\ job(mode, i).pc = "refund" /\ job(mode, i).mode = mode
                   /\ job(mode, i).target = i /\ job(mode, i).reg = d.reg
                   /\ job(mode, i).amount = 0 /\ job(mode, i).intent = d.intent
  BY DEF Jobs
<1>3. CASE handler' = [handler EXCEPT ![h] = Finished(d)]
  <2>1. PICK j : j = Finished(d)
    OBVIOUS
  <2>2. j.pc \in {"idle", "insert", "stamp"}
    BY <2>1, FinishedElsewhere
  <2>3. JobSound(j)'
    BY <2>2 DEF JobSound
  <2> QED
    BY <1>1, <1>3, <2>1, <2>3, SoundJob
<1>4. CASE handler' = [handler EXCEPT ![h] = job("duplicate", d.intent)]
  <2>1. PICK j : j = job("duplicate", d.intent)
    OBVIOUS
  <2> HIDE DEF job
  <2>2. JobSound(j)'
    BY <1>2, <2>1 DEF JobSound, Reg
  <2> QED
    BY <1>1, <1>4, <2>1, <2>2, SoundJob
<1>5. CASE PaidLate(h, d)
  <2>1. PICK k : /\ k = IF row[q].intent = Null THEN d.intent ELSE row[q].intent
                 /\ row' = [row EXCEPT ![q].intent = k]
                 /\ handler' = [handler EXCEPT ![h] = job("late", k)]
                 /\ row[q].status \in Dead
    BY <1>5 DEF PaidLate, Dead
  <2>2. Reg(k) = q
    BY <1>1, <2>1 DEF MoneyInv
  <2>3. row'[q].intent = k /\ row'[q].status \in Dead
    BY <1>1, <2>1 DEF Rows
  <2>4. PICK j : j = job("late", k)
    OBVIOUS
  <2> HIDE DEF job
  <2>5. JobSound(j)'
    BY <1>2, <2>2, <2>3, <2>4 DEF JobSound, Reg
  <2> QED
    BY <1>1, <2>1, <2>4, <2>5, SoundJob
<1> QED
  BY <1>3, <1>4, <1>5 DEF ConfirmPaid, PaidTwice, PaidInTime, Duplicate

LEMMA SoundRefund ==
  ASSUME TypeInv, JobsSound, \A r \in Registrants : BookStep(r), byHand \subseteq byHand',
         NEW h \in Handlers, StripeRefund(h)
  PROVE  JobsSound'
<1>1. CASE Finish(h)
  <2>1. PICK j : j = Finished(handler[h])
    OBVIOUS
  <2>2. j.pc \in {"idle", "insert", "stamp"}
    BY <2>1, FinishedElsewhere
  <2>3. JobSound(j)'
    BY <2>2 DEF JobSound
  <2> QED
    BY <1>1, <2>1, <2>3, SoundJob DEF Finish
<1>2. CASE handler[h].mode # "duplicate" /\ handler' = [handler EXCEPT ![h].pc = "record"]
  <2>1. PICK k : k = handler[h] /\ k \in Jobs /\ JobSound(k)' /\ k.pc = "refund"
    <3>1. PICK k : k = handler[h]
      OBVIOUS
    <3>2. k \in Jobs /\ JobSound(k)' /\ k.pc = "refund"
      BY <3>1, SoundStays DEF TypeInv, TypeOK, JobsOK, JobsSound, StripeRefund
    <3> QED
      BY <3>1, <3>2
  <2>2. PICK j : j = [k EXCEPT !.pc = "record"]
    OBVIOUS
  <2>3. /\ j.pc = "record" /\ j.reg = k.reg /\ j.mode = k.mode /\ j.target = k.target
        /\ j.amount = k.amount /\ j.event = k.event /\ j.intent = k.intent
    BY <2>1, <2>2 DEF Jobs
  <2>4. JobSound(j)'
    BY <1>2, <2>1, <2>3 DEF JobSound, Reg
  <2> QED
    BY <1>2, <2>1, <2>2, <2>4, SoundJob
<1> QED
  BY <1>1, <1>2 DEF StripeRefund

LEMMA SoundRefundRead ==
  ASSUME TypeInv, MoneyInv, JobsSound, \A r \in Registrants : BookStep(r),
         NEW h \in Handlers, NEW q \in Registrants, NEW amount, RefundRead(h, q, amount)
  PROVE  JobsSound'
<1>1. PICK j : j = [Nothing EXCEPT !.pc = "refund", !.reg = q, !.mode = "manual",
                                   !.target = row[q].intent, !.amount = amount]
  OBVIOUS
<1>2. /\ j.pc = "refund" /\ j.reg = q /\ j.mode = "manual" /\ j.target = row[q].intent
      /\ j.event = FALSE
  BY <1>1 DEF Nothing
<1>3. /\ row[q].intent # Null /\ Reg(row[q].intent) = q /\ row' = row
      /\ q \in byHand' /\ byHand \subseteq byHand'
  BY DEF RefundRead, MoneyInv, ByHand, books
<1>4. JobSound(j)'
  BY <1>2, <1>3 DEF JobSound, Reg
<1> QED
  BY <1>1, <1>3, <1>4, SoundJob DEF RefundRead

LEMMA HandlerWriters ==
  ASSUME [Next]_vars
  PROVE  \/ UNCHANGED handler
         \/ \E h \in Handlers :
              \/ SubmitInsert(h) \/ Stamp(h) \/ Record(h) \/ Crash(h) \/ RefundFails(h)
              \/ Settle(h) \/ StripeRefund(h)
              \/ \E r \in Registrants : SubmitCount(h, r) \/ Withdraw(h, r)
              \/ \E i \in Intents : Webhook(h, i) \/ ReturnFromCheckout(h, i)
              \/ \E r \in Registrants, amount \in 1..Fee : RefundRead(h, r, amount)
<1>1. CASE Registrant
  BY <1>1 DEF Registrant, Mint, Pay
<1>2. CASE Server
  BY <1>2 DEF Server
<1>3. CASE Clock
  BY <1>3 DEF Clock, LockPasses, SweepList, WindowPasses, SweepExpire, SyncRefund
<1>4. CASE Organiser
  BY <1>4 DEF Organiser, Confirm, MarkPaidOffline, Waive, Waitlist, DashboardRefund
<1>5. CASE UNCHANGED vars
  BY <1>5 DEF vars
<1> QED
  BY <1>1, <1>2, <1>3, <1>4, <1>5 DEF Next

LEMMA SoundSteps ==
  ASSUME TypeInv, SpotsInv, MoneyInv, BooksInv, [Next]_vars
  PROVE  JobsSound'
<1>1. /\ JobsSound /\ byHand \subseteq byHand' /\ \A r \in Registrants : BookStep(r)
  BY BookSteps, ByHandGrows DEF BooksInv
<1>2. CASE UNCHANGED handler
  BY <1>1, <1>2, SoundKept
<1>3. ASSUME NEW h \in Handlers,
             \/ SubmitInsert(h) \/ Stamp(h) \/ Record(h) \/ Crash(h) \/ RefundFails(h)
             \/ \E r \in Registrants : SubmitCount(h, r)
      PROVE  JobsSound'
  <2>1. CASE SubmitInsert(h) \/ Stamp(h) \/ Crash(h)
    <3>1. PICK j : j = Nothing
      OBVIOUS
    <3>2. j.pc = "idle" /\ handler' = [handler EXCEPT ![h] = j]
      BY <2>1, <3>1 DEF SubmitInsert, Stamp, Crash, Nothing
    <3>3. JobSound(j)'
      BY <3>2 DEF JobSound
    <3> QED
      BY <1>1, <3>2, <3>3, SoundJob
  <2>2. CASE Record(h) \/ RefundFails(h)
    <3>1. PICK j : j = Finished(handler[h])
      OBVIOUS
    <3>2. j.pc \in {"idle", "insert", "stamp"}
      BY <3>1, FinishedElsewhere
    <3>3. handler' = [handler EXCEPT ![h] = j]
      BY <2>2, <3>1 DEF Record, RefundFails, Finish
    <3>4. JobSound(j)'
      BY <3>2 DEF JobSound
    <3> QED
      BY <1>1, <3>3, <3>4, SoundJob
  <2>3. ASSUME NEW r \in Registrants, SubmitCount(h, r) PROVE JobsSound'
    <3>1. PICK j : j = [Nothing EXCEPT !.pc = "insert", !.reg = r,
                          !.mode = IF Free THEN "pending" ELSE "waitlisted"]
      OBVIOUS
    <3>2. j.pc = "insert" /\ handler' = [handler EXCEPT ![h] = j]
      BY <2>3, <3>1 DEF SubmitCount, Nothing
    <3>3. JobSound(j)'
      BY <3>2 DEF JobSound
    <3> QED
      BY <1>1, <3>2, <3>3, SoundJob
  <2> QED
    BY <1>3, <2>1, <2>2, <2>3
<1>4. ASSUME NEW h \in Handlers, Settle(h) PROVE JobsSound'
  <2>1. PICK d : d = [handler[h] EXCEPT !.pc = "idle"]
    OBVIOUS
  <2>2. handler[h] \in Jobs /\ JobOK(handler[h]) /\ JobSound(handler[h])
    BY <1>1 DEF TypeInv, TypeOK, JobsOK, JobsSound
  <2>3. /\ d \in Jobs /\ d.intent \in Intents /\ d.reg = Reg(d.intent) /\ d.amount = 0
    BY <1>4, <2>1, <2>2 DEF Settle, Jobs, JobOK, JobSound, TypeInv, TypeOK
  <2> QED
    BY <1>1, <1>4, <2>1, <2>3, SoundConfirmPaid DEF Settle
<1>5. ASSUME NEW h \in Handlers, NEW i \in Intents, Webhook(h, i) PROVE JobsSound'
  <2>1. Delivery(i, TRUE).reg = Reg(i) /\ Delivery(i, TRUE).amount = 0
    BY DEF Delivery, Nothing
  <2> QED
    BY <1>1, <1>5, <2>1, DeliveryIsJob, SoundConfirmPaid DEF Webhook
<1>6. ASSUME NEW h \in Handlers, NEW i \in Intents, ReturnFromCheckout(h, i)
      PROVE  JobsSound'
  <2>1. PICK j : j = [Delivery(i, FALSE) EXCEPT !.pc = "settle"]
    OBVIOUS
  <2>2. /\ j.pc = "settle" /\ j.reg = Reg(i) /\ j.intent = i /\ j.amount = 0
        /\ j.event = FALSE
    BY <2>1 DEF Delivery, Nothing
  <2>3. JobSound(j)'
    BY <2>2 DEF JobSound, Reg
  <2> QED
    BY <1>1, <1>6, <2>1, <2>3, SoundJob DEF ReturnFromCheckout
<1> QED
  BY <1>1, <1>2, <1>3, <1>4, <1>5, <1>6, HandlerWriters, SoundWithdraw,
     SoundRefund, SoundRefundRead

(***************************************************************************)
(* What Stripe returned, and what the books know of it.                     *)
(***************************************************************************)
(* Each refund of a charge is an event yet to come, an event that matched no *)
(* registration, or in the books.                                           *)
Known(i) ==
  \/ returned[i] = 0 \/ <<i, returned[i]>> \in notices \/ i \in missed
  \/ row[Reg(i)].intent = i /\ row[Reg(i)].refunded >= returned[i]

LEMMA ReturnWriters ==
  ASSUME [Next]_vars
  PROVE  \/ UNCHANGED <<returned, notices>>
         \/ \E n \in notices : SyncRefund(n)
         \/ \E h \in Handlers : StripeRefund(h)
         \/ \E i \in Intents, amount \in 1..Fee : DashboardRefund(i, amount)
<1>1. CASE UNCHANGED vars
  BY <1>1 DEF vars, stripe
<1>2. CASE Registrant
  BY <1>2 DEF Registrant, Mint, SubmitCount, Withdraw, Pay, stripe
<1>3. CASE Server
  BY <1>3 DEF Server, SubmitInsert, Settle, Webhook, ConfirmPaid, Stamp, Record,
              ReturnFromCheckout, Crash, RefundFails, stripe
<1>4. CASE Clock
  BY <1>4 DEF Clock, LockPasses, SweepList, WindowPasses, SweepExpire, stripe
<1>5. CASE Organiser
  BY <1>5 DEF Organiser, Confirm, MarkPaidOffline, Waive, Waitlist, RefundRead, stripe
<1> QED
  BY <1>1, <1>2, <1>3, <1>4, <1>5 DEF Next

(* A refund adds to one charge, no more than is left, and is announced.     *)
LEMMA ReturnEffect ==
  ASSUME TypeInv, [Next]_vars
  PROVE  \/ UNCHANGED <<returned, notices>>
         \/ \E n \in notices : SyncRefund(n)
         \/ \E k \in Intents :
              /\ returned' = [returned EXCEPT ![k] = returned'[k]]
              /\ returned'[k] > returned[k] /\ returned'[k] <= Fee
              /\ notices' = notices \cup {<<k, returned'[k]>>}
<1>1. ASSUME NEW k \in Intents, NEW a \in Nat, a \in 1..(Fee - returned[k]), GiveBack(k, a)
      PROVE  /\ returned' = [returned EXCEPT ![k] = returned'[k]]
             /\ returned'[k] > returned[k] /\ returned'[k] <= Fee
             /\ notices' = notices \cup {<<k, returned'[k]>>}
  <2>1. returned \in [Intents -> 0..Fee] /\ Fee \in Nat
    BY RegistrationsAssumption DEF TypeInv, TypeOK
  <2>2. /\ returned' = [returned EXCEPT ![k] = returned[k] + a]
        /\ notices' = notices \cup {<<k, returned[k] + a>>}
    BY <1>1 DEF GiveBack
  <2>3. returned'[k] = returned[k] + a
    BY <2>1, <2>2
  <2> QED
    BY <1>1, <2>1, <2>2, <2>3
<1>2. ASSUME NEW h \in Handlers, StripeRefund(h), ~UNCHANGED <<returned, notices>>
      PROVE  \E k \in Intents : \E a \in Nat : a \in 1..(Fee - returned[k]) /\ GiveBack(k, a)
  <2>1. handler[h].target \in Intents
    BY <1>2 DEF StripeRefund, TypeInv, JobsOK, JobOK
  <2> QED
    BY <1>2, <2>1 DEF StripeRefund
<1>3. ASSUME NEW k \in Intents, NEW a \in 1..Fee, DashboardRefund(k, a)
      PROVE  a \in Nat /\ a \in 1..(Fee - returned[k]) /\ GiveBack(k, a)
  BY <1>3 DEF DashboardRefund
<1> QED
  BY <1>1, <1>2, <1>3, ReturnWriters

LEMMA ReturnedGrows ==
  ASSUME TypeInv, [Next]_vars, NEW i \in Intents
  PROVE  /\ returned'[i] >= returned[i]
         /\ returned'[i] # returned[i] => <<i, returned'[i]>> \in notices'
         /\ Returned(i) => Returned(i)'
<1>1. /\ returned[i] \in 0..Fee /\ returned \in [Intents -> 0..Fee] /\ Fee \in Nat
      /\ returned'[i] \in 0..Fee
  BY TypeStep, RegistrationsAssumption DEF TypeInv, TypeOK
<1>2. CASE UNCHANGED returned
  BY <1>1, <1>2 DEF Returned
<1>3. ASSUME NEW k \in Intents,
             /\ returned' = [returned EXCEPT ![k] = returned'[k]]
             /\ returned'[k] > returned[k] /\ returned'[k] <= Fee
             /\ notices' = notices \cup {<<k, returned'[k]>>}
      PROVE  /\ returned'[i] >= returned[i]
             /\ returned'[i] # returned[i] => <<i, returned'[i]>> \in notices'
             /\ Returned(i) => Returned(i)'
  <2>1. CASE i = k
    <3>1. returned'[i] > returned[i] /\ <<i, returned'[i]>> \in notices'
      BY <1>3, <2>1
    <3> QED
      BY <1>1, <3>1 DEF Returned
  <2>2. CASE i # k
    <3>1. returned'[i] = returned[i]
      BY <1>1, <1>3, <2>2
    <3> QED
      BY <1>1, <3>1 DEF Returned
  <2> QED
    BY <2>1, <2>2
<1> QED
  BY <1>2, <1>3, ReturnEffect DEF SyncRefund

LEMMA NoticesStep ==
  ASSUME TypeInv, NoticesSound, [Next]_vars
  PROVE  NoticesSound'
<1> SUFFICES ASSUME NEW n \in notices' PROVE n[2] <= returned'[n[1]]
  BY DEF NoticesSound
<1>1. CASE n \in notices
  <2>1. PICK i \in Intents : i = n[1]
    BY <1>1 DEF TypeInv, TypeOK
  <2>2. n[2] <= returned[i] /\ n[2] \in Nat /\ returned[i] \in Nat /\ Fee \in Nat
    BY <1>1, <2>1, RegistrationsAssumption DEF NoticesSound, TypeInv, TypeOK
  <2>3. returned'[i] >= returned[i] /\ returned'[i] \in Nat
    <3>1. returned'[i] >= returned[i]
      BY ReturnedGrows
    <3>2. returned'[i] \in Nat
      BY TypeStep, RegistrationsAssumption DEF TypeInv, TypeOK
    <3> QED
      BY <3>1, <3>2
  <2> QED
    BY <2>1, <2>2, <2>3
<1>2. CASE n \notin notices
  <2>1. PICK k \in Intents : n = <<k, returned'[k]>>
    BY <1>2, ReturnEffect DEF SyncRefund
  <2>2. returned'[k] \in 0..Fee /\ Fee \in Nat
    BY TypeStep, RegistrationsAssumption DEF TypeInv, TypeOK
  <2> QED
    BY <2>1, <2>2
<1> QED
  BY <1>1, <1>2

LEMMA MissedGrows == ASSUME [Next]_vars PROVE missed \subseteq missed'
BY DEF Next, Registrant, Server, Clock, Organiser, Mint, SubmitCount, Withdraw, Pay,
       SubmitInsert, Settle, Stamp, StripeRefund, Record, Webhook, ReturnFromCheckout,
       ConfirmPaid, Crash, RefundFails, LockPasses, SweepList, WindowPasses, SweepExpire,
       SyncRefund, Confirm, MarkPaidOffline, Waive, Waitlist, RefundRead,
       DashboardRefund, ByHand, history, vars

LEMMA KnownStep ==
  ASSUME TypeInv, SpotsInv, MoneyInv, BooksInv, [Next]_vars, NEW i \in Intents, Known(i)
  PROVE  Known(i)'
<1> DEFINE r == Reg(i)
<1>1. /\ r \in Registrants /\ BookStep(r) /\ missed \subseteq missed' /\ i # Null
      /\ returned[i] \in 0..Fee /\ row[r] \in Rows
  BY RegOfIntent, BookSteps, MissedGrows, RegistrationsAssumption
     DEF TypeInv, TypeOK, Intents, Registrants
<1>2. CASE returned'[i] # returned[i]
  BY <1>2, ReturnedGrows DEF Known
<1>3. CASE returned'[i] = returned[i]
  <2>1. CASE returned[i] = 0 \/ i \in missed
    BY <1>1, <1>3, <2>1 DEF Known
  <2>2. CASE row[r].intent = i /\ row[r].refunded >= returned[i]
    BY <1>1, <1>3, <2>2 DEF Known, BookStep, Reg
  <2>3. CASE <<i, returned[i]>> \in notices /\ <<i, returned[i]>> \in notices'
    BY <1>3, <2>3 DEF Known
  <2>4. CASE <<i, returned[i]>> \in notices /\ <<i, returned[i]>> \notin notices'
    <3>1. PICK n \in notices : n = <<i, returned[i]>> /\ SyncRefund(n)
      <4>1. PICK n \in notices : SyncRefund(n)
        BY <2>4, ReturnEffect
      <4>2. notices' = notices \ {n}
        BY <4>1 DEF SyncRefund
      <4> QED
        BY <2>4, <4>1, <4>2
    <3>2. CASE \E q \in Registrants : row[q].intent = i
      <4>1. row[r].intent = i
        BY <1>1, <3>2 DEF MoneyInv
      <4>2. row'[r] = [row[r] EXCEPT !.refunded = Total(@, returned[i])]
        BY <1>1, <3>1, <4>1 DEF SyncRefund
      <4>3. row'[r].intent = i /\ row'[r].refunded >= returned[i]
        BY <1>1, <4>1, <4>2 DEF Total, Rows
      <4> QED
        BY <1>3, <4>3 DEF Known, Reg
    <3>3. CASE ~\E q \in Registrants : row[q].intent = i
      <4>1. i \in missed'
        BY <3>1, <3>3 DEF SyncRefund
      <4> QED
        BY <4>1 DEF Known
    <3> QED
      BY <3>2, <3>3
  <2> QED
    BY <2>1, <2>2, <2>3, <2>4 DEF Known
<1> QED
  BY <1>2, <1>3

LEMMA BooksInit == Init => BooksInv /\ \A i \in Intents : Known(i)
<1> SUFFICES ASSUME Init PROVE BooksInv /\ \A i \in Intents : Known(i)
  OBVIOUS
<1>1. JobsSound
  BY DEF Init, Nothing, JobsSound, JobSound
<1>2. RowsSound
  BY DEF Init, Absent, RowsSound
<1> QED
  BY <1>1, <1>2 DEF Init, BooksInv, NoticesSound, Known

LEMMA BooksStep ==
  ASSUME TypeInv, SpotsInv, MoneyInv, BooksInv, [Next]_vars
  PROVE  BooksInv'
<1>1. RowsSound'
  BY BookSteps DEF RowsSound, BookStep
<1> QED
  BY <1>1, SoundSteps, NoticesStep DEF BooksInv

(* Every refund finds its way into the books: each is announced by an event  *)
(* that stays until it is handled, and handling takes the larger of the two. *)
THEOREM BooksKeepUp == Spec => []BooksNotShort
<1>1. TypeInv /\ SpotsInv /\ MoneyInv /\ BooksInv /\ (\A i \in Intents : Known(i))
        /\ [Next]_vars => BooksInv' /\ (\A i \in Intents : Known(i))'
  BY BooksStep, KnownStep
<1>2. TypeInv /\ MoneyInv /\ (\A i \in Intents : Known(i)) => BooksNotShort
  <2> SUFFICES ASSUME TypeInv, MoneyInv, \A i \in Intents : Known(i), notices = {},
                      NEW r \in Registrants, row[r].intent \notin missed \cup {Null}
               PROVE  row[r].refunded >= returned[row[r].intent]
    BY DEF BooksNotShort
  <2>1. row[r] \in Rows /\ row[r].intent \in Intents /\ Reg(row[r].intent) = r
    BY DEF MoneyInv, TypeInv, TypeOK, Rows
  <2>2. PICK i \in Intents : i = row[r].intent
    BY <2>1
  <2>3. Known(i)
    OBVIOUS
  <2> QED
    BY <2>1, <2>2, <2>3 DEF Known, Rows
<1> QED
  BY <1>1, <1>2, TypeInit, SpotsInit, MoneyInit, BooksInit, TypeStep, SpotsStep,
     MoneyStep, PTL DEF Spec

(***************************************************************************)
(* Payments owed back.                                                      *)
(***************************************************************************)
Due(r) == row[r].status = "expired" \/ (row[r].status = "withdrawn" /\ ~lockPassed)
Refunding(i) ==
  \E h \in Handlers : /\ handler[h].pc = "refund" /\ handler[h].target = i
                      /\ handler[h].amount = 0
Returning(i) == Returned(i) \/ Refunding(i)
Claimed(i) ==
  i \in processed \/ \E h \in Handlers : handler[h].pc = "stamp" /\ handler[h].intent = i

(* What a dead registration paid is back, or on its way; a payment that was  *)
(* handled is the one recorded, or on its way back.                         *)
DeadRepaid ==
  \A r \in Registrants :
    LeftAlone(r) /\ Due(r) /\ row[r].intent # Null => Returning(row[r].intent)
DuplicatesFound ==
  \A i \in Intents : LeftAlone(Reg(i)) /\ Claimed(i) =>
    row[Reg(i)].status \in Dead \/ row[Reg(i)].intent = i \/ Returning(i)

LEMMA FailuresGrow ==
  ASSUME TypeInv, [Next]_vars
  PROVE  /\ failures' = 0 => failures = 0
         /\ \A h \in Handlers : Crash(h) \/ RefundFails(h) => failures' # 0
<1>1. UNCHANGED failures \/ \E h \in Handlers : Crash(h) \/ RefundFails(h)
  BY DEF Next, Registrant, Server, Clock, Organiser, Mint, SubmitCount, Withdraw, Pay,
         SubmitInsert, Settle, Stamp, StripeRefund, Record, Webhook, ReturnFromCheckout,
         ConfirmPaid, LockPasses, SweepList, WindowPasses, SweepExpire,
         SyncRefund, Confirm, MarkPaidOffline, Waive, Waitlist, RefundRead,
         DashboardRefund, ByHand, history, vars
<1>2. failures \in Nat
  BY RegistrationsAssumption DEF TypeInv, TypeOK
<1>3. ASSUME NEW h \in Handlers, Crash(h) \/ RefundFails(h) PROVE failures' # 0
  BY <1>2, <1>3 DEF Crash, RefundFails, Fail
<1> QED
  BY <1>1, <1>3

LEMMA LockPassesOnce == ASSUME [Next]_vars PROVE lockPassed => lockPassed'
BY DEF Next, Registrant, Server, Clock, Organiser, Mint, SubmitCount, Withdraw, Pay,
       SubmitInsert, Settle, Stamp, StripeRefund, Record, Webhook, ReturnFromCheckout,
       ConfirmPaid, Crash, RefundFails, LockPasses, SweepList, WindowPasses, SweepExpire,
       SyncRefund, Confirm, MarkPaidOffline, Waive, Waitlist, RefundRead,
       DashboardRefund, ByHand, history, vars

(* Of a refund under way only its call to Stripe makes an end, or a failure. *)
LEMMA RefundEnds ==
  ASSUME TypeInv, [Next]_vars, NEW h \in Handlers, handler[h].pc = "refund",
         handler'[h] # handler[h], failures' = 0
  PROVE  StripeRefund(h)
<1>1. PICK g \in Handlers :
        \/ SubmitInsert(g) \/ Stamp(g) \/ Record(g) \/ Crash(g) \/ RefundFails(g)
        \/ Settle(g) \/ StripeRefund(g)
        \/ \E r \in Registrants : SubmitCount(g, r) \/ Withdraw(g, r)
        \/ \E i \in Intents : Webhook(g, i) \/ ReturnFromCheckout(g, i)
        \/ \E r \in Registrants, amount \in 1..Fee : RefundRead(g, r, amount)
  BY HandlerWriters
<1>2. ~Crash(g) /\ ~RefundFails(g)
  BY FailuresGrow
<1>3. g = h
  <2>1. \E j : handler' = [handler EXCEPT ![g] = j]
    <3>1. CASE \/ SubmitInsert(g) \/ Stamp(g) \/ StripeRefund(g) \/ Record(g)
      BY <3>1 DEF SubmitInsert, Stamp, StripeRefund, Record, Finish
    <3>2. ASSUME NEW d, ConfirmPaid(g, d) PROVE \E j : handler' = [handler EXCEPT ![g] = j]
      BY <3>2 DEF ConfirmPaid, PaidTwice, PaidLate, PaidInTime
    <3>3. CASE Settle(g) \/ \E i \in Intents : Webhook(g, i) \/ ReturnFromCheckout(g, i)
      BY <3>2, <3>3 DEF Settle, Webhook, ReturnFromCheckout
    <3>4. ASSUME NEW r \in Registrants,
                 \/ SubmitCount(g, r) \/ Withdraw(g, r)
                 \/ \E amount \in 1..Fee : RefundRead(g, r, amount)
          PROVE  \E j : handler' = [handler EXCEPT ![g] = j]
      BY <3>4 DEF SubmitCount, Withdraw, RefundRead
    <3> QED
      BY <1>1, <1>2, <3>1, <3>3, <3>4
  <2> QED
    BY <2>1 DEF TypeInv, TypeOK
<1> QED
  BY <1>1, <1>2, <1>3 DEF SubmitInsert, Stamp, Record, Settle, SubmitCount, Withdraw,
     Webhook, ReturnFromCheckout, RefundRead, Idle

LEMMA ReturningStays ==
  ASSUME TypeInv, [Next]_vars, failures' = 0, NEW i \in Intents, Returning(i)
  PROVE  Returning(i)'
<1>1. CASE Returned(i)
  BY <1>1, ReturnedGrows DEF Returning
<1>2. ASSUME NEW h \in Handlers, handler[h].pc = "refund", handler[h].target = i,
             handler[h].amount = 0
      PROVE  Returning(i)'
  <2>1. CASE handler'[h] = handler[h]
    BY <1>2, <2>1 DEF Returning, Refunding
  <2>2. CASE handler'[h] # handler[h]
    <3>1. StripeRefund(h)
      BY <1>2, <2>2, RefundEnds
    <3>2. returned[i] \in 0..Fee /\ returned \in [Intents -> 0..Fee] /\ Fee \in Nat
      BY RegistrationsAssumption DEF TypeInv, TypeOK
    <3>3. CASE Fee - returned[i] \in 1..(Fee - returned[i]) /\ GiveBack(i, Fee - returned[i])
      BY <3>2, <3>3 DEF GiveBack, Returning, Returned
    <3>4. CASE Fee - returned[i] \notin 1..(Fee - returned[i])
      <4>1. Returned(i)
        BY <3>2, <3>4 DEF Returned
      <4> QED
        BY <1>1, <4>1
    <3> QED
      BY <1>2, <3>1, <3>3, <3>4 DEF StripeRefund
  <2> QED
    BY <2>1, <2>2
<1> QED
  BY <1>1, <1>2 DEF Returning, Refunding

(* A row left as it was is no more due than it was.                         *)
LEMMA DueBefore ==
  ASSUME [Next]_vars, NEW r, row'[r].status = row[r].status, Due(r)'
  PROVE  Due(r)
BY LockPassesOnce DEF Due

(* A dead registration comes to owe its payment back by its withdrawal or by *)
(* a late payment; both begin the refund.                                   *)
LEMMA DueBegins ==
  ASSUME TypeInv, SpotsInv, MoneyInv, BooksInv, [Next]_vars, NEW r \in Registrants,
         LeftAlone(r)', Due(r)', row'[r].intent # Null
  PROVE  \/ Due(r) /\ row[r].intent = row'[r].intent
         \/ \E h \in Handlers : /\ handler'[h].pc = "refund"
                                /\ handler'[h].target = row'[r].intent
                                /\ handler'[h].amount = 0
<1> DEFINE Before == Due(r) /\ row[r].intent = row'[r].intent
           Begins == \E h \in Handlers : /\ handler'[h].pc = "refund"
                                         /\ handler'[h].target = row'[r].intent
                                         /\ handler'[h].amount = 0
<1>0. /\ row \in [Registrants -> Rows] /\ handler \in [Handlers -> Jobs]
      /\ r \notin byHand' /\ r \notin byHand /\ row'[r].status \in Dead
  BY ByHandGrows DEF TypeInv, TypeOK, LeftAlone, Due, Dead
<1>1. ASSUME row'[r].status = row[r].status, row'[r].intent = row[r].intent
      PROVE  Before
  BY <1>1, DueBefore
<1>2. ASSUME NEW h \in Handlers, SubmitInsert(h) PROVE Before
  <2>1. handler[h].reg # r
    BY <1>0, <1>2 DEF SubmitInsert, Absent, Dead
  <2> QED
    BY <1>0, <1>1, <1>2, <2>1 DEF SubmitInsert
<1>3. ASSUME NEW h \in Handlers, NEW d \in Jobs, d.intent \in Intents, d.amount = 0,
             ConfirmPaid(h, d)
      PROVE  Before \/ Begins
  <2> DEFINE q == Reg(d.intent)
  <2>1. CASE PaidTwice(h, d)
    BY <1>1, <2>1 DEF PaidTwice, books
  <2>2. CASE PaidInTime(h, d)
    <3>1. q # r
      BY <1>0, <2>2 DEF PaidInTime, Dead, Rows
    <3> QED
      BY <1>0, <1>1, <2>2, <3>1 DEF PaidInTime
  <2>3. CASE PaidLate(h, d)
    <3>1. PICK k : /\ row' = [row EXCEPT ![q].intent = k]
                   /\ handler' = [handler EXCEPT ![h] =
                        [d EXCEPT !.pc = "refund", !.mode = "late", !.target = k]]
      BY <2>3 DEF PaidLate
    <3>2. CASE q # r
      BY <1>0, <1>1, <3>1, <3>2
    <3>3. CASE q = r
      <4>1. row'[r].intent = k
        BY <1>0, <3>1, <3>3 DEF Rows
      <4>2. /\ handler'[h].pc = "refund" /\ handler'[h].target = k
            /\ handler'[h].amount = 0
        BY <1>0, <1>3, <3>1 DEF Jobs
      <4> QED
        BY <4>1, <4>2
    <3> QED
      BY <3>2, <3>3
  <2> HIDE DEF Before, Begins
  <2> QED
    BY <1>3, <2>1, <2>2, <2>3 DEF ConfirmPaid
<1>4. ASSUME NEW h \in Handlers, Settle(h) PROVE Before \/ Begins
  <2>1. PICK d : d = [handler[h] EXCEPT !.pc = "idle"]
    OBVIOUS
  <2>2. /\ d \in Jobs /\ d.intent \in Intents /\ d.amount = 0
    BY <1>0, <1>4, <2>1
       DEF Settle, Jobs, JobOK, JobsOK, JobSound, JobsSound, BooksInv, TypeInv, TypeOK
  <2> QED
    BY <1>3, <1>4, <2>1, <2>2 DEF Settle
<1>5. ASSUME NEW h \in Handlers, NEW i \in Intents, Webhook(h, i) PROVE Before \/ Begins
  <2>1. Delivery(i, TRUE).amount = 0
    BY DEF Delivery, Nothing
  <2> QED
    BY <1>3, <1>5, <2>1, DeliveryIsJob DEF Webhook
<1>6. ASSUME NEW q \in Registrants, NEW status \in Dead, q # r \/ row[r].intent = Null,
             LET gone == [row EXCEPT ![q].status = status]
             IN  row' = gone \/ row' = Promote(gone)
      PROVE  Before
  <2> DEFINE gone == [row EXCEPT ![q].status = status]
  <2>1. gone \in [Registrants -> Rows] /\ gone[r].intent = row[r].intent
    BY <1>0 DEF Rows, Statuses, Dead
  <2>2. row' = gone \/ row' = Promote(gone)
    BY <1>6
  <2>3. q # r => gone[r] = row[r]
    BY <1>0
  <2> HIDE DEF gone
  <2>4. row'[r].intent = row[r].intent
    BY <2>1, <2>2, PromoteBooks
  <2>5. q # r
    BY <1>6, <2>4
  <2>6. row'[r] = row[r]
    <3>1. row'[r] = gone[r] \/ row'[r].status = "pending"
      BY <2>1, <2>2, PromoteBooks
    <3> QED
      BY <1>0, <2>3, <2>5, <3>1 DEF Dead
  <2> QED
    BY <1>1, <2>6
<1>7. ASSUME NEW h \in Handlers, NEW q \in Registrants, Withdraw(h, q)
      PROVE  Before \/ Begins
  <2>1. /\ LET gone == [row EXCEPT ![q].status = "withdrawn"]
           IN  row' = gone \/ row' = Promote(gone)
        /\ "withdrawn" \in Dead /\ UNCHANGED lockPassed
    BY <1>7 DEF Withdraw, Dead
  <2>2. CASE q # r \/ row[r].intent = Null
    <3> HIDE DEF Before, Begins
    <3> QED
      BY <1>6, <2>1, <2>2
  <2>3. CASE q = r /\ row[r].intent # Null
    <3>1. row'[r].intent = row[r].intent /\ row'[r].status = "withdrawn"
      <4> DEFINE gone == [row EXCEPT ![q].status = "withdrawn"]
      <4>1. /\ gone \in [Registrants -> Rows] /\ gone[r].intent = row[r].intent
            /\ gone[r].status = "withdrawn"
        BY <1>0, <2>3 DEF Rows, Statuses
      <4>2. row' = gone \/ row' = Promote(gone)
        BY <2>1
      <4> HIDE DEF gone
      <4> QED
        BY <4>1, <4>2, PromoteBooks
    <3>2. ~lockPassed
      BY <2>1, <3>1 DEF Due
    <3>3. CASE row[r].status \in Dead
      BY <3>1, <3>2, <3>3 DEF Due, Dead
    <3>4. CASE row[r].status \notin Dead
      <4>1. row[r].refunded = 0 /\ row[r].amount = Fee
        BY <1>0, <2>3, <3>4 DEF MoneyInv, BooksInv, RowsSound
      <4>2. RefundDue(r)
        BY <2>3, <3>2, <4>1, RegistrationsAssumption DEF RefundDue
      <4>3. PICK j : j = [Nothing EXCEPT !.pc = "refund", !.reg = q, !.mode = "auto",
                                         !.target = row[q].intent]
        OBVIOUS
      <4>4. j.pc = "refund" /\ j.target = row[r].intent /\ j.amount = 0
        BY <2>3, <4>3 DEF Nothing
      <4>5. handler'[h] = j
        BY <1>0, <1>7, <2>3, <4>2, <4>3 DEF Withdraw
      <4> QED
        BY <3>1, <4>4, <4>5
    <3> QED
      BY <3>3, <3>4
  <2> QED
    BY <2>2, <2>3
<1>8. ASSUME NEW q \in Registrants, SweepExpire(q) PROVE Before
  <2>1. CASE UNCHANGED row
    BY <1>1, <2>1
  <2>2. CASE row' = Promote([row EXCEPT ![q].status = "expired"]) /\ Overdue(q)
    <3>1. row[q].intent = Null
      BY <2>2 DEF Overdue, MoneyInv, Dead
    <3>2. "expired" \in Dead /\ (q # r \/ row[r].intent = Null)
      BY <3>1 DEF Dead
    <3>3. LET gone == [row EXCEPT ![q].status = "expired"]
          IN  row' = gone \/ row' = Promote(gone)
      BY <2>2
    <3> HIDE DEF Before
    <3> QED
      BY <1>6, <3>2, <3>3
  <2> QED
    BY <1>8, <2>1, <2>2 DEF SweepExpire, StillOverdue
<1>9. ASSUME \/ \E h \in Handlers : Record(h)
             \/ \E n \in notices : SyncRefund(n)
             \/ \E q \in Registrants : WindowPasses(q)
      PROVE  Before
  <2>1. row'[r].status = row[r].status /\ row'[r].intent = row[r].intent
    <3>1. CASE \E h \in Handlers : Record(h)
      BY <1>0, <3>1 DEF Record, Rows
    <3>2. CASE \E n \in notices : SyncRefund(n)
      BY <1>0, <3>2 DEF SyncRefund, Rows
    <3>3. CASE \E q \in Registrants : WindowPasses(q)
      BY <1>0, <3>3 DEF WindowPasses, Rows
    <3> QED
      BY <1>9, <3>1, <3>2, <3>3
  <2> QED
    BY <1>1, <2>1
<1>10. ASSUME NEW q \in Registrants,
              Confirm(q) \/ MarkPaidOffline(q) \/ Waive(q) \/ Waitlist(q)
       PROVE  Before
  <2>1. q # r
    BY <1>0, <1>10 DEF Confirm, MarkPaidOffline, Waive, Waitlist, ByHand
  <2>2. row'[r] = row[r]
    BY <1>0, <1>10, <2>1 DEF Confirm, MarkPaidOffline, Waive, Waitlist, Materialise
  <2> QED
    BY <1>1, <2>2
<1>11. UNCHANGED row => Before
  BY <1>1
<1>12. Before \/ Begins
  <2> HIDE DEF Before, Begins
  <2> QED
    BY <1>2, <1>4, <1>5, <1>7, <1>8, <1>9, <1>10, <1>11, BookWriters
<1> QED
  BY <1>12

LEMMA DeadStep ==
  ASSUME TypeInv, SpotsInv, MoneyInv, BooksInv, DeadRepaid, [Next]_vars
  PROVE  DeadRepaid'
<1> SUFFICES ASSUME NEW r \in Registrants, LeftAlone(r)', Due(r)', row'[r].intent # Null
             PROVE  Returning(row[r].intent)'
  BY DEF DeadRepaid
<1>1. failures' = 0 /\ LeftAlone(r)
  BY ByHandGrows, FailuresGrow DEF LeftAlone
<1>2. PICK i \in Intents : i = row'[r].intent
  BY TypeStep DEF TypeInv, TypeOK, Rows
<1>3. CASE Due(r) /\ row[r].intent = row'[r].intent
  <2>1. Returning(i)
    BY <1>1, <1>2, <1>3 DEF DeadRepaid
  <2>2. Returning(i)'
    BY <1>1, <2>1, ReturningStays
  <2> QED
    BY <1>2, <2>2 DEF Returning, Refunding, Returned
<1>4. CASE \E h \in Handlers : /\ handler'[h].pc = "refund"
                               /\ handler'[h].target = row'[r].intent
                               /\ handler'[h].amount = 0
  BY <1>4 DEF Returning, Refunding
<1> QED
  BY <1>3, <1>4, DueBegins

(* Where an event that is through came from.                                *)
LEMMA FinishedStamps ==
  \A j : Finished(j).pc = "stamp" => j.event /\ Finished(j).intent = j.intent
BY DEF Finished, Nothing

(* An event is stamped by a handler that found the payment recorded, or has  *)
(* sent it back.                                                            *)
LEMMA ClaimBegins ==
  ASSUME TypeInv, MoneyInv, BooksInv, [Next]_vars, NEW i \in Intents,
         LeftAlone(Reg(i))', Claimed(i)', ~Claimed(i)
  PROVE  row'[Reg(i)].status \in Dead \/ row'[Reg(i)].intent = i \/ Returned(i)'
<1> DEFINE r == Reg(i)
           Settled == row'[r].status \in Dead \/ row'[r].intent = i \/ Returned(i)'
<1>0. /\ row \in [Registrants -> Rows] /\ handler \in [Handlers -> Jobs]
      /\ r \in Registrants /\ r \notin byHand /\ failures' = 0
  BY RegOfIntent, ByHandGrows DEF TypeInv, TypeOK, LeftAlone, Reg
<1>1. PICK h \in Handlers : handler'[h].pc = "stamp" /\ handler'[h].intent = i
  <2>1. ASSUME i \in processed' PROVE FALSE
    <3>1. i \notin processed
      BY DEF Claimed
    <3>2. UNCHANGED processed \/ \E h \in Handlers : Stamp(h)
      BY DEF Next, Registrant, Server, Clock, Organiser, Mint, SubmitCount, Withdraw, Pay,
             SubmitInsert, Settle, StripeRefund, Record, Webhook, ReturnFromCheckout,
             ConfirmPaid, Crash, RefundFails, LockPasses, SweepList, WindowPasses,
             SweepExpire, SyncRefund, Confirm, MarkPaidOffline, Waive, Waitlist,
             RefundRead, DashboardRefund, ByHand, vars
    <3> QED
      BY <2>1, <3>1, <3>2 DEF Stamp, Claimed
  <2> QED
    BY <2>1 DEF Claimed
<1>2. handler'[h] # handler[h]
  BY <1>1 DEF Claimed
<1>3. ASSUME NEW j, handler' = [handler EXCEPT ![h] = Finished(j)]
      PROVE  j.event /\ j.intent = i
  <2>1. PICK f : f = Finished(j)
    OBVIOUS
  <2>2. handler'[h] = f
    BY <1>0, <1>3, <2>1
  <2> QED
    BY <1>1, <2>1, <2>2, FinishedStamps
<1>4. PICK g \in Handlers :
        \/ SubmitInsert(g) \/ Stamp(g) \/ Record(g) \/ Crash(g) \/ RefundFails(g)
        \/ Settle(g) \/ StripeRefund(g)
        \/ \E q \in Registrants : SubmitCount(g, q) \/ Withdraw(g, q)
        \/ \E k \in Intents : Webhook(g, k) \/ ReturnFromCheckout(g, k)
        \/ \E q \in Registrants, amount \in 1..Fee : RefundRead(g, q, amount)
  BY <1>2, HandlerWriters
<1>5. ~Crash(g) /\ ~RefundFails(g)
  BY <1>0, FailuresGrow
<1>6. \E j : handler' = [handler EXCEPT ![g] = j]
  BY <1>4, <1>5 DEF SubmitInsert, Stamp, StripeRefund, Record, Finish, ConfirmPaid,
     PaidTwice, PaidLate, PaidInTime, Settle, Webhook, ReturnFromCheckout,
     SubmitCount, Withdraw, RefundRead
<1>7. g = h
  BY <1>0, <1>2, <1>6
<1>8. ASSUME NEW d \in Jobs, d.intent \in Intents, ConfirmPaid(h, d)
      PROVE  d.event /\ Settled
  <2>1. CASE PaidTwice(h, d)
    <3>1. ~ChargedTwice(row[Reg(d.intent)].intent, d.intent)
      <4>1. PICK j : j = [d EXCEPT !.pc = "refund", !.mode = "duplicate",
                                   !.target = Duplicate(d.intent)]
        OBVIOUS
      <4>2. j.pc = "refund"
        BY <4>1 DEF Jobs
      <4>3. handler' # [handler EXCEPT ![h] = j]
        BY <1>0, <1>1, <4>2
      <4> QED
        BY <2>1, <4>1, <4>3 DEF PaidTwice
    <3>2. d.event /\ d.intent = i
      BY <1>3, <2>1, <3>1 DEF PaidTwice
    <3>3. row[r].status = "confirmed" /\ row' = row
      BY <2>1, <3>2 DEF PaidTwice, books
    <3>4. row[r].intent = i
      BY <1>0, <3>1, <3>2, <3>3 DEF ChargedTwice, MoneyInv
    <3> QED
      BY <3>2, <3>3, <3>4
  <2>2. CASE PaidInTime(h, d)
    <3>1. d.event /\ d.intent = i
      BY <1>3, <2>2 DEF PaidInTime
    <3>2. row' = [row EXCEPT ![r].status = "confirmed", ![r].window = "none",
                             ![r].intent = i, ![r].amount = Fee]
      BY <2>2, <3>1 DEF PaidInTime
    <3>3. row'[r].intent = i
      BY <1>0, <3>2 DEF Rows
    <3> QED
      BY <3>1, <3>3
  <2>3. CASE PaidLate(h, d)
    <3>1. PICK k : handler' = [handler EXCEPT ![h] =
                     [d EXCEPT !.pc = "refund", !.mode = "late", !.target = k]]
      BY <2>3 DEF PaidLate
    <3>2. handler'[h].pc = "refund"
      BY <1>0, <3>1 DEF Jobs
    <3> QED
      BY <1>1, <3>2
  <2> HIDE DEF Settled
  <2> QED
    BY <1>8, <2>1, <2>2, <2>3 DEF ConfirmPaid
<1>9. CASE \E k \in Intents : Webhook(h, k)
  BY <1>8, <1>9, DeliveryIsJob DEF Webhook
<1>10. ~Settle(h)
  <2> SUFFICES ASSUME Settle(h) PROVE FALSE
    OBVIOUS
  <2>1. PICK d : d = [handler[h] EXCEPT !.pc = "idle"]
    OBVIOUS
  <2>2. /\ d \in Jobs /\ d.intent \in Intents /\ ~d.event
    BY <1>0, <2>1
       DEF Settle, Jobs, JobOK, JobsOK, JobSound, JobsSound, BooksInv, TypeInv, TypeOK
  <2> QED
    BY <1>8, <2>1, <2>2 DEF Settle
<1>11. handler[h].pc \in {"refund", "record"} =>
         /\ JobSound(handler[h]) /\ handler[h].reg \in Registrants
         /\ handler[h].target \in Intents
  BY <1>0 DEF BooksInv, JobsSound, TypeInv, JobsOK, JobOK
<1>12. CASE Record(h)
  <2>1. handler[h].event /\ handler[h].intent = i
    BY <1>3, <1>12 DEF Record, Finish
  <2>2. row[r].status \in Dead
    BY <1>0, <1>11, <1>12, <2>1 DEF Record, JobSound
  <2>3. row'[r].status = row[r].status
    BY <1>0, <1>12 DEF Record, Rows
  <2> QED
    BY <2>2, <2>3
<1>13. CASE StripeRefund(h)
  <2>1. Finish(h)
    <3>1. CASE handler' = [handler EXCEPT ![h].pc = "record"]
      <4>1. handler'[h].pc = "record"
        BY <1>0, <3>1 DEF Jobs
      <4> QED
        BY <1>1, <4>1
    <3> QED
      BY <1>13, <3>1 DEF StripeRefund
  <2>2. handler[h].event /\ handler[h].intent = i /\ handler[h].pc = "refund"
    BY <1>3, <1>13, <2>1 DEF StripeRefund, Finish
  <2>3. row' = row
    BY <1>13 DEF StripeRefund, books
  <2>4. CASE handler[h].mode = "late"
    BY <1>0, <1>11, <2>2, <2>3, <2>4 DEF JobSound
  <2>5. CASE handler[h].mode = "duplicate"
    <3>1. handler[h].target = i /\ handler[h].amount = 0
      BY <1>11, <2>2, <2>5 DEF JobSound
    <3>2. returned[i] \in 0..Fee /\ returned \in [Intents -> 0..Fee] /\ Fee \in Nat
      BY RegistrationsAssumption DEF TypeInv, TypeOK
    <3>3. CASE Fee - returned[i] \in 1..(Fee - returned[i]) /\ GiveBack(i, Fee - returned[i])
      BY <3>2, <3>3 DEF GiveBack, Returned
    <3>4. CASE Fee - returned[i] \notin 1..(Fee - returned[i]) /\ UNCHANGED returned
      BY <3>2, <3>4 DEF Returned
    <3> QED
      BY <1>13, <3>1, <3>3, <3>4 DEF StripeRefund
  <2> QED
    BY <1>11, <2>2, <2>4, <2>5 DEF JobSound
<1>14. ~SubmitInsert(h) /\ ~Stamp(h)
  BY <1>0, <1>1 DEF SubmitInsert, Stamp, Nothing
<1>15. ~\E k \in Intents : ReturnFromCheckout(h, k)
  BY <1>0, <1>1 DEF ReturnFromCheckout, Delivery, Nothing
<1>16. ASSUME NEW q \in Registrants,
              \/ SubmitCount(h, q) \/ Withdraw(h, q)
              \/ \E amount \in 1..Fee : RefundRead(h, q, amount)
       PROVE  FALSE
  <2>1. CASE SubmitCount(h, q)
    BY <1>0, <1>1, <2>1 DEF SubmitCount, Nothing
  <2>2. CASE Withdraw(h, q)
    BY <1>0, <1>1, <1>2, <2>2 DEF Withdraw, Nothing
  <2>3. CASE \E amount \in 1..Fee : RefundRead(h, q, amount)
    BY <1>0, <1>1, <2>3 DEF RefundRead, Nothing
  <2> QED
    BY <1>16, <2>1, <2>2, <2>3
<1> QED
  BY <1>4, <1>5, <1>7, <1>9, <1>10, <1>12, <1>13, <1>14, <1>15, <1>16

LEMMA DuplicatesStep ==
  ASSUME TypeInv, SpotsInv, MoneyInv, BooksInv, DuplicatesFound, [Next]_vars
  PROVE  DuplicatesFound'
<1> SUFFICES ASSUME NEW i \in Intents, LeftAlone(Reg(i))', Claimed(i)'
             PROVE  \/ row'[Reg(i)].status \in Dead \/ row'[Reg(i)].intent = i
                    \/ Returning(i)'
  BY DEF DuplicatesFound, Reg
<1>1. /\ failures' = 0 /\ LeftAlone(Reg(i)) /\ Reg(i) \notin byHand' /\ i # Null
      /\ Reg(i) \in Registrants
  BY ByHandGrows, FailuresGrow, RegOfIntent, RegistrationsAssumption
     DEF LeftAlone, Reg, Intents, Registrants
<1>2. CASE ~Claimed(i)
  BY <1>2, ClaimBegins DEF Returning
<1>3. CASE Claimed(i)
  <2>1. row[Reg(i)].status \in Dead \/ row[Reg(i)].intent = i \/ Returning(i)
    BY <1>1, <1>3 DEF DuplicatesFound
  <2>2. BookStep(Reg(i))
    BY <1>1, BookSteps
  <2> QED
    BY <1>1, <2>1, <2>2, ReturningStays DEF BookStep
<1> QED
  BY <1>2, <1>3

LEMMA OwedInit == Init => DeadRepaid /\ DuplicatesFound
<1> SUFFICES ASSUME Init PROVE DeadRepaid /\ DuplicatesFound
  OBVIOUS
<1>1. DeadRepaid
  BY DEF Init, Absent, DeadRepaid
<1>2. DuplicatesFound
  BY DEF Init, Nothing, DuplicatesFound, Claimed
<1> QED
  BY <1>1, <1>2

LEMMA OwedInvariant == Spec => [](TypeInv /\ DeadRepaid /\ DuplicatesFound)
BY TypeInit, SpotsInit, MoneyInit, BooksInit, OwedInit, TypeStep, SpotsStep, MoneyStep,
   BooksStep, DeadStep, DuplicatesStep, PTL DEF Spec

LEMMA NothingReturning ==
  ASSUME Quiet, NEW i, Returning(i)
  PROVE  Returned(i)
BY DEF Quiet, Idle, Returning, Refunding

(* Whichever of payment, withdrawal and expiry came first: when all is       *)
(* handled, what a dead registration recorded as paid is back.              *)
THEOREM DeadAreRefunded == Spec => []DeadRefunded
<1>1. DeadRepaid => DeadRefunded
  BY NothingReturning DEF DeadRepaid, DeadRefunded, Due
<1> QED
  BY <1>1, OwedInvariant, PTL

(* However many sessions a registration pays, by however many deliveries at  *)
(* once: when all is handled it keeps one charge.                           *)
THEOREM DuplicatesGoBack == Spec => []DuplicatesReturned
<1>1. TypeInv /\ DuplicatesFound => DuplicatesReturned
  <2> SUFFICES ASSUME TypeInv, DuplicatesFound, Quiet, NEW r \in Registrants,
                      row[r].status = "confirmed", LeftAlone(r), NEW i \in Charges(r)
               PROVE  Returned(i) \/ i = row[r].intent
    BY DEF DuplicatesReturned
  <2>1. i \in Intents /\ Reg(i) = r /\ Claimed(i)
    BY DEF Charges, Quiet, Claimed, TypeInv, TypeOK
  <2>2. row[r].intent = i \/ Returning(i)
    BY <2>1 DEF DuplicatesFound, Dead
  <2> QED
    BY <2>2, NothingReturning
<1> QED
  BY <1>1, OwedInvariant, PTL
=============================================================================
