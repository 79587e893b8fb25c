------------------------------ MODULE Billing -------------------------------
(***************************************************************************)
(* The webhook inbox at work on the credit wallets: the handlers of         *)
(* checkout.session.completed and charge.refunded                           *)
(* (apps/web/src/server/usecases/billing-events.ts) run between the claim   *)
(* of an event and its stamp, while AI runs, grants and moves between       *)
(* billing groups go on.                                                    *)
(***************************************************************************)
EXTENDS CreditWallet, WebhookInbox

CONSTANTS
  Kind,         \* of each event: "purchase" or "refund"
  Subject       \* the purchase it is about

ASSUME BillingAssumption ==
  /\ MaxReplays \in Nat
  /\ Kind \in [Events -> {"purchase", "refund"}]
  /\ Subject \in [Events -> Purchases]

vars == <<walletVars, inboxVars>>

Init == WalletInit /\ InboxInit

(* processStripeEvent: the paid pack or pass goes to the wallet of its buyer;
   of the handlers of a refund the last takes the credits back.             *)
Handle(k) ==
  LET e == worker[k].event
  IN  /\ worker[k].pc = "start"
      /\ \/ Kind[e] = "purchase" /\ \E w \in Wallets : RecordPurchase(Subject[e], w)
         \/ Kind[e] = "refund" /\ RecordRefund(Subject[e])
      /\ worker' = [worker EXCEPT ![k].pc = "stamp"]
      /\ UNCHANGED inbox

(* The sweeper dies in a handler, which nobody counts.                      *)
CrashSweeper(k) ==
  /\ worker[k].source = "sweeper" /\ crashes < MaxCrashes
  /\ crashes' = crashes + 1
  /\ Leave(k)
  /\ UNCHANGED <<ledgerVars, groupVars, month, run, inbox>>

Next == \/ OwnStep /\ UNCHANGED inboxVars
        \/ InboxNext /\ UNCHANGED walletVars
        \/ \E k \in Workers : Handle(k) \/ CrashSweeper(k)

Spec == Init /\ [][Next]_vars

(***************************************************************************)
(* A handler that was entered goes on to its end or throws; the clock runs; *)
(* the transactions under a wallet's lock end; and the hourly sweep comes   *)
(* by again, whatever else keeps an event's lease or the workers busy.      *)
(***************************************************************************)
Fairness ==
  /\ \A k \in Workers :
       WF_vars(Handle(k) \/ ((Stamp(k) \/ HandlerThrows(k)) /\ UNCHANGED walletVars))
  /\ \A r \in Runs : WF_vars(ReserveWrite(r) /\ UNCHANGED inboxVars)
  /\ \A o \in Orgs : WF_vars(CommitMove(o) /\ UNCHANGED inboxVars)
  /\ \A e \in Events :
       /\ WF_vars(LeaseExpires(e) /\ UNCHANGED walletVars)
       /\ SF_vars((Park(e) \/ \E k \in Workers : SweepReplay(k, e))
                  /\ UNCHANGED walletVars)

FairSpec == Spec /\ Fairness

(***************************************************************************)
(* Properties.                                                              *)
(***************************************************************************)
(* Types of the wallets and of the inbox; a busy worker has a claimed event. *)
TypeOK ==
  /\ WalletTypeOK
  /\ inbox \in [Events -> [status : {"missing", "received", "processed"},
                           leased : BOOLEAN, aged : BOOLEAN, attempts : Nat]]
  /\ worker \in [Workers -> [pc : {"idle", "start", "stamp"},
                             event : Events \cup {Unset},
                             source : {"caller", "sweeper", Unset}]]
  /\ \A k \in Workers : Busy(k) =>
       /\ worker[k].event \in Events
       /\ inbox[worker[k].event].status # "missing"

(* "processed_at only after the handler ran": a payment whose event is stamped
   has its credits in the ledger, whatever died, expired or ran twice.      *)
ProcessedIsApplied ==
  \A e \in Events :
    Kind[e] = "purchase" /\ inbox[e].status = "processed" => Written(Pack(Subject[e]))

(* An event that reached the server is in the end processed, or parked for
   staff to look at, though its handler may throw every time.               *)
EventsSettle ==
  \A e \in Events : inbox[e].status = "received" ~> Settled(e)
=============================================================================
