------------------------------ MODULE Settlement ------------------------------
(***************************************************************************)
(* How one payment, its invoice and the order behind it are settled,       *)
(* abandoned and refunded by requests that run at the same time.           *)
(*                                                                         *)
(* A request opens a database transaction (READ COMMITTED, no row lock),   *)
(* reads the payment and its invoice, decides on that snapshot, and writes *)
(* the rows back.  The UPDATE of the payment row is where two requests on  *)
(* one payment serialise, and the order is only read after it, so a        *)
(* request is two steps: Read takes the snapshot, a commit action applies  *)
(* every write of the handler and of the event handlers it triggers.       *)
(* Abort is every way a transaction ends without writing: an exception, a  *)
(* constraint violation, a database deadlock, a crash.                     *)
(*                                                                         *)
(* Each checkout issues its own invoice and payment, and each order its    *)
(* own checkout, so one element of Payment names all three.                *)
(***************************************************************************)
EXTENDS Integers

CONSTANTS
  Payment,    \* checkouts of one customer
  Topup,      \* those that top the wallet up; the others buy a plan
  Method,     \* "proof" (card, crypto), "gateway", "wallet" or "free" for each
  Price,      \* the price quoted for each, 0 exactly when it is free
  Ceiling,    \* IDENTIFIER_CEILING: the largest identifying remainder
  MaxTopup,   \* MAX_TOPUP: the most one top-up may ask for, and credit
  Arrivals,   \* amounts a reviewer or a provider may report as arrived
  Digest,     \* fingerprints of the receipts the customer can send
  Tx,         \* slots for requests that are in a transaction
  Sweeper,    \* the slot in which the worker verifies, None without a worker
  None

ASSUME TopupAssumption ==
  Topup \subseteq {p \in Payment : Method[p] \in {"proof", "gateway"}}
ASSUME PriceAssumption ==
  Price \in [Payment -> Nat] /\ \A p \in Payment : Price[p] = 0 <=> Method[p] = "free"
ASSUME AmountAssumption ==
  Ceiling \in Nat /\ MaxTopup \in Nat /\ Arrivals \subseteq Nat
VARIABLES
  pay,        \* payment row: [state, captured, proof]
  refunded,   \* sum of the refund rows of the payment (insert-only)
  invoice,    \* invoice row's state
  total,      \* invoice total
  order,      \* order row's state; PAID stands for PAID and everything after
  credits,    \* wallet credits made for the payment: [topup, surplus, refund]
  claimed,    \* receipt_digests: the payment that claimed a digest
  late,       \* the payment's proof window, or the sweep's, has closed
  provider,   \* what the gateway's provider answers: [outcome, amount]
  approvals,  \* PaymentApproved events published for the payment
  txn         \* the request in each slot, with the snapshot it read

rows == <<pay, refunded, invoice, total, order, credits, claimed, approvals>>
vars == <<pay, refunded, invoice, total, order, credits, claimed, late,
          provider, approvals, txn>>

-----------------------------------------------------------------------------
(* Rows and snapshots *)

Settled == {"APPROVED", "PARTIALLY_REFUNDED"}
Terminal == {"REJECTED", "REFUNDED", "EXPIRED", "FAILED"}
Waiting == {"AWAITING_PROOF", "PENDING_REVIEW", "PENDING_GATEWAY"}
PaymentState == {"ABSENT"} \cup Waiting \cup Settled \cup Terminal

InvoiceState == {"ABSENT", "OPEN", "PAID", "REFUNDED"}
OrderState == {"ABSENT", "PENDING", "PAID", "CANCELLED"}

\* _ALLOWED, up to the decision and after it.
Deciding ==
  { <<"AWAITING_PROOF", "PENDING_REVIEW">>, <<"AWAITING_PROOF", "EXPIRED">>,
    <<"AWAITING_PROOF", "REJECTED">>,
    <<"PENDING_REVIEW", "APPROVED">>, <<"PENDING_REVIEW", "REJECTED">>,
    <<"PENDING_REVIEW", "AWAITING_PROOF">>,
    <<"PENDING_GATEWAY", "APPROVED">>, <<"PENDING_GATEWAY", "FAILED">>,
    <<"PENDING_GATEWAY", "EXPIRED">>, <<"PENDING_GATEWAY", "PENDING_REVIEW">> }

Returning ==
  { <<"APPROVED", "REFUNDED">>, <<"APPROVED", "PARTIALLY_REFUNDED">>,
    <<"PARTIALLY_REFUNDED", "REFUNDED">> }

RejectionAppealed == Deciding \cup Returning \cup {<<"REJECTED", "AWAITING_PROOF">>}   \* mutant
Transition == Deciding \cup Returning

CanMove(state, target) == <<state, target>> \in Transition

Row == [state : PaymentState, captured : Nat, proof : Digest \cup {None}]
NoRow == [state |-> "ABSENT", captured |-> 0, proof |-> None]

Handler == {"approve", "reject", "askproof", "submit", "verify", "refund"}
Snapshot == [handler : Handler, payment : Payment, row : Row,
             invoice : InvoiceState, refunded : Nat]
Idle == None

ASSUME NoneAssumption == None \notin Payment \cup Digest \cup Snapshot

-----------------------------------------------------------------------------
(* Starting a purchase or a top-up *)

\* The bot commits the order before the checkout that charges for it.
PlaceOrder(p) ==
  /\ p \notin Topup
  /\ order[p] = "ABSENT"
  /\ order' = [order EXCEPT ![p] = "PENDING"]
  /\ UNCHANGED <<pay, refunded, invoice, total, credits, claimed, late,
                 provider, approvals, txn>>

\* A manually reviewed method adds a few Toman to tell transfers apart.
Remainder(p) == IF Method[p] = "proof" THEN 1 .. Ceiling ELSE {0}

\* CheckoutService.begin, up to the branch on the method.
BeginCheckout(p, state, amount) ==
  /\ invoice[p] = "ABSENT"
  /\ IF p \in Topup THEN Price[p] <= MaxTopup ELSE order[p] = "PENDING"
  /\ total' = [total EXCEPT ![p] = amount]
  /\ pay' = [pay EXCEPT ![p] = [state    |-> state,
                                captured |-> IF state # "APPROVED" THEN 0
                                             ELSE IF amount = 0 THEN 1 ELSE amount,
                                proof    |-> None]]
  /\ invoice' = [invoice EXCEPT ![p] = IF state = "APPROVED" THEN "PAID" ELSE "OPEN"]
  /\ UNCHANGED <<refunded, credits, claimed, late, provider, txn>>

BeginByProof(p) ==
  /\ Method[p] = "proof"
  /\ \E extra \in Remainder(p) : BeginCheckout(p, "AWAITING_PROOF", Price[p] + extra)
  /\ UNCHANGED <<order, approvals>>

BeginAtGateway(p) ==
  /\ Method[p] = "gateway"
  /\ BeginCheckout(p, "PENDING_GATEWAY", Price[p])
  /\ UNCHANGED <<order, approvals>>

\* _settle_free and _settle_from_wallet; whether the balance covers the price
\* is the wallet's business, a refused debit leaves no trace here.
BeginSettled(p) ==
  /\ Method[p] \in {"free", "wallet"}
  /\ BeginCheckout(p, "APPROVED", Price[p])
  /\ order' = [order EXCEPT ![p] = "PAID"]
  /\ approvals' = [approvals EXCEPT ![p] = @ + 1]

\* The clock passes expires_at of a payment that waits for a receipt, or the
\* last moment at which the sweep still looks for one at a gateway.
WindowCloses(p) ==
  /\ Method[p] \in {"proof", "gateway"}
  /\ invoice[p] # "ABSENT"
  /\ ~ late[p]
  /\ late' = [late EXCEPT ![p] = TRUE]
  /\ UNCHANGED <<rows, provider, txn>>

\* What gateway.verify will answer from now on: a confirmation and a refusal
\* are final, a mismatch may still become either.
ProviderAnswers(p) ==
  /\ Method[p] = "gateway"
  /\ invoice[p] # "ABSENT"
  /\ provider[p].outcome \in {"inconclusive", "mismatch"}
  /\ \E answer \in [outcome : {"mismatch", "declined"}, amount : {0}]
                   \cup [outcome : {"confirmed"}, amount : Arrivals] :
       provider' = [provider EXCEPT ![p] = answer]
  /\ UNCHANGED <<rows, late, txn>>

-----------------------------------------------------------------------------
(* Requests: read a snapshot, then commit on it or abort *)

\* What each handler checks on the rows it has just read.  A request that
\* fails these checks raises before writing anything.
Admits(handler, p, row, returned) ==
  CASE handler = "approve"  -> CanMove(row.state, "APPROVED")
    [] handler = "reject"   -> CanMove(row.state, "REJECTED")
    [] handler = "askproof" -> CanMove(row.state, "AWAITING_PROOF")
    [] handler = "submit"   -> /\ Method[p] = "proof"
                               /\ CanMove(row.state, "PENDING_REVIEW")
                               /\ ~ late[p]
    [] handler = "verify"   -> Method[p] = "gateway" /\ row.state \in Waiting
    [] handler = "refund"   -> row.state \in Settled /\ returned < row.captured

Read(t, handler, p) ==
  /\ txn[t] = Idle
  /\ t = Sweeper => handler = "verify" /\ pay[p].state = "PENDING_GATEWAY" /\ ~ late[p]
  /\ Admits(handler, p, pay[p], refunded[p])
  /\ txn' = [txn EXCEPT ![t] = [handler |-> handler, payment |-> p, row |-> pay[p],
                                invoice |-> invoice[p], refunded |-> refunded[p]]]
  /\ UNCHANGED <<rows, late, provider>>

\* The invoice is read after the payment and may be newer than it.
Newer(snapshot, state) == [snapshot EXCEPT !.invoice = state]

ReadInvoice(t) ==
  /\ txn[t] # Idle
  /\ txn[t].invoice # invoice[txn[t].payment]
  /\ txn' = [txn EXCEPT ![t] = Newer(txn[t], invoice[txn[t].payment])]
  /\ UNCHANGED <<rows, late, provider>>

Runs(t, handler) == txn[t] # Idle /\ txn[t].handler = handler

Finish(t) == txn' = [txn EXCEPT ![t] = Idle] /\ UNCHANGED <<late, provider>>

\* PaymentRepository.save reads the row again and assigns every field, but the
\* UPDATE holds only the columns that differ from what was read again.  Before
\* another writer's commit that is a patch of the columns this request changed,
\* after it the request's whole copy.
Keep(current, seen, new) == IF new = seen THEN current ELSE new

Patch(current, seen, new) ==
  [state    |-> Keep(current.state, seen.state, new.state),
   captured |-> Keep(current.captured, seen.captured, new.captured),
   proof    |-> Keep(current.proof, seen.proof, new.proof)]

Save(p, seen, new) ==
  \E row \in {new, Patch(pay[p], seen, new)} : pay' = [pay EXCEPT ![p] = row]

\* UnpaidOrderRelease.on_payment_abandoned
ReleaseAnyOrder(p) == order' = [order EXCEPT ![p] = "CANCELLED"]   \* mutant
ReleaseNothing(p) == UNCHANGED order   \* mutant
Release(p) ==
  order' = [order EXCEPT ![p] = IF @ = "PENDING" THEN "CANCELLED" ELSE @]

\* OrderPaymentBridge.on_payment_approved
MarkOrderPaid(p) ==
  order' = [order EXCEPT ![p] = IF @ = "PENDING" THEN "PAID" ELSE @]

\* Wallet.credit, by the kind of the ledger entry
Credit(p, topup, surplus, refund) ==
  credits' = [credits EXCEPT ![p] = [topup   |-> @.topup + topup,
                                     surplus |-> @.surplus + surplus,
                                     refund  |-> @.refund + refund]]

\* credit_topup raises above the limit, and the ledger's unique (user, kind,
\* reference) refuses a second credit of either kind.
LedgerTwice(p, surplus) == p \in Topup => total[p] <= MaxTopup   \* mutant
LedgerAccepts(p, surplus) ==
  /\ p \in Topup => total[p] <= MaxTopup /\ credits[p].topup = 0
  /\ surplus > 0 => credits[p].surplus = 0

\* invoice.mark_paid, whose save is a patch or a copy as the payment's is
MarkPaid(p, seen) ==
  \E state \in {"PAID", Keep(invoice[p], seen, "PAID")} :
    invoice' = [invoice EXCEPT ![p] = state]

\* What an approval and a confirmation share.
Settle(t, p, arrived) ==
  /\ arrived >= total[p]
  /\ CanMove(txn[t].row.state, "APPROVED")
  /\ txn[t].invoice \in {"OPEN", "PAID"}
  /\ LedgerAccepts(p, arrived - total[p])
  /\ Credit(p, IF p \in Topup THEN total[p] ELSE 0, arrived - total[p], 0)
  /\ MarkPaid(p, txn[t].invoice)
  /\ MarkOrderPaid(p)
  /\ approvals' = [approvals EXCEPT ![p] = @ + 1]
  /\ UNCHANGED <<refunded, total, claimed>>
  /\ Finish(t)

Moved(row, state) == [row EXCEPT !.state = state]
WithProof(row, state, proof) == [row EXCEPT !.state = state, !.proof = proof]
Approved(row, arrived) == [row EXCEPT !.state = "APPROVED", !.captured = arrived]

Approve(t) ==
  LET p == txn[t].payment  row == txn[t].row IN
  /\ Runs(t, "approve")
  /\ \E arrived \in Arrivals \cup {total[p]} :
       Settle(t, p, arrived) /\ Save(p, row, Approved(row, arrived))

Reject(t) ==
  LET p == txn[t].payment  row == txn[t].row IN
  /\ Runs(t, "reject")
  /\ Save(p, row, Moved(row, "REJECTED"))
  /\ Release(p)
  /\ UNCHANGED <<refunded, invoice, total, credits, claimed, approvals>>
  /\ Finish(t)

RequestBetterProof(t) ==
  LET p == txn[t].payment  row == txn[t].row IN
  /\ Runs(t, "askproof")
  /\ Save(p, row, WithProof(row, "AWAITING_PROOF", None))
  /\ UNCHANGED <<refunded, invoice, total, order, credits, claimed, approvals>>
  /\ Finish(t)

\* A digest is claimed by an INSERT that its primary key lets happen once.
ClaimAgain(p, digest) == claimed' = [claimed EXCEPT ![digest] = p]   \* mutant
Claim(p, digest) ==
  /\ claimed[digest] = None
  /\ claimed' = [claimed EXCEPT ![digest] = p]

SubmitProof(t) ==
  LET p == txn[t].payment  row == txn[t].row IN
  /\ Runs(t, "submit")
  /\ \E digest \in Digest :
       /\ Claim(p, digest)
       /\ Save(p, row, WithProof(row, "PENDING_REVIEW", digest))
  /\ UNCHANGED <<refunded, invoice, total, order, credits, approvals>>
  /\ Finish(t)

\* VerificationService.verify, for the callback, the sweep and Telegram Stars.
VerifyConfirmed(t) ==
  LET p == txn[t].payment  row == txn[t].row IN
  /\ Runs(t, "verify")
  /\ provider[p].outcome = "confirmed"
  /\ Settle(t, p, provider[p].amount)
  /\ Save(p, row, Approved(row, provider[p].amount))

\* Money that arrived, but less than the invoice, goes to a reviewer.
NeverShort(p) == FALSE   \* mutant
Short(p) == provider[p].outcome = "confirmed" /\ provider[p].amount < total[p]

VerifyEscalated(t) ==
  LET p == txn[t].payment  row == txn[t].row IN
  /\ Runs(t, "verify")
  /\ provider[p].outcome = "mismatch" \/ Short(p)
  /\ row.state = "PENDING_GATEWAY"
  /\ Save(p, row, Moved(row, "PENDING_REVIEW"))
  /\ UNCHANGED <<refunded, invoice, total, order, credits, claimed, approvals>>
  /\ Finish(t)

VerifyDeclined(t) ==
  LET p == txn[t].payment  row == txn[t].row IN
  /\ Runs(t, "verify")
  /\ provider[p].outcome = "declined"
  /\ CanMove(row.state, "FAILED")
  /\ Save(p, row, Moved(row, "FAILED"))
  /\ Release(p)
  /\ UNCHANGED <<refunded, invoice, total, credits, claimed, approvals>>
  /\ Finish(t)

CapturedAgain(t) == txn[t].row.captured   \* mutant: earlier refunds forgotten
Refundable(t) == txn[t].row.captured - txn[t].refunded

\* RefundService.refund to the wallet: no shipped gateway refunds online, so
\* _resolve_destination never answers anything else.
Refund(t) ==
  LET p == txn[t].payment  row == txn[t].row  full == Refundable(t) IN
  /\ Runs(t, "refund")
  /\ \E amount \in 1 .. full :
       /\ amount = full => txn[t].invoice = "PAID"
       /\ Save(p, row, Moved(row, IF amount = full THEN "REFUNDED"
                                  ELSE "PARTIALLY_REFUNDED"))
       /\ refunded' = [refunded EXCEPT ![p] = @ + amount]
       /\ Credit(p, 0, 0, amount)
       /\ invoice' = IF amount = full THEN [invoice EXCEPT ![p] = "REFUNDED"]
                     ELSE invoice
  /\ UNCHANGED <<total, order, claimed, approvals>>
  /\ Finish(t)

Abort(t) ==
  /\ txn[t] # Idle
  /\ UNCHANGED rows
  /\ Finish(t)

-----------------------------------------------------------------------------
Init ==
  /\ pay = [p \in Payment |-> NoRow]
  /\ refunded = [p \in Payment |-> 0]
  /\ invoice = [p \in Payment |-> "ABSENT"]
  /\ total = [p \in Payment |-> 0]
  /\ order = [p \in Payment |-> "ABSENT"]
  /\ credits = [p \in Payment |-> [topup |-> 0, surplus |-> 0, refund |-> 0]]
  /\ claimed = [d \in Digest |-> None]
  /\ late = [p \in Payment |-> FALSE]
  /\ provider = [p \in Payment |-> [outcome |-> "inconclusive", amount |-> 0]]
  /\ approvals = [p \in Payment |-> 0]
  /\ txn = [t \in Tx |-> Idle]

Begin(p) == BeginByProof(p) \/ BeginAtGateway(p) \/ BeginSettled(p)

Commit(t) ==
  \/ Approve(t) \/ Reject(t) \/ RequestBetterProof(t) \/ SubmitProof(t)
  \/ VerifyConfirmed(t) \/ VerifyEscalated(t) \/ VerifyDeclined(t)
  \/ Refund(t)

Next ==
  \/ \E p \in Payment : PlaceOrder(p) \/ Begin(p) \/ WindowCloses(p) \/ ProviderAnswers(p)
  \/ \E t \in Tx, handler \in Handler, p \in Payment : Read(t, handler, p)
  \/ \E t \in Tx : ReadInvoice(t) \/ Commit(t) \/ Abort(t)

Spec == Init /\ [][Next]_vars

\* Every tick of the worker asks about each payment at a gateway, and what is
\* retried on every tick does not fail every time.
FairSweep ==
  /\ \A p \in Payment : SF_vars(Read(Sweeper, "verify", p))
  /\ SF_vars(VerifyConfirmed(Sweeper) \/ VerifyEscalated(Sweeper) \/ VerifyDeclined(Sweeper))

SweepSpec == Spec /\ FairSweep

-----------------------------------------------------------------------------
(* Properties that hold however the requests interleave *)

\* Every row, counter and snapshot has its declared shape.
TypeOK ==
  /\ pay \in [Payment -> Row]
  /\ refunded \in [Payment -> Nat]
  /\ invoice \in [Payment -> InvoiceState]
  /\ total \in [Payment -> Nat]
  /\ order \in [Payment -> OrderState]
  /\ credits \in [Payment -> [topup : Nat, surplus : Nat, refund : Nat]]
  /\ claimed \in [Digest -> Payment \cup {None}]
  /\ late \in [Payment -> BOOLEAN]
  /\ provider \in [Payment -> [outcome : {"inconclusive", "mismatch", "declined", "confirmed"},
                               amount : Nat]]
  /\ approvals \in [Payment -> Nat]
  /\ txn \in [Tx -> Snapshot \cup {Idle}]

Collected(p) == invoice[p] \in {"PAID", "REFUNDED"}

\* The principal of a top-up is in the wallet exactly when its invoice was
\* settled, once, whichever of the reviewer and the gateway settled it and
\* however many of them did (credit_topup, uq_wallet_user_kind_reference).
TopupCreditedExactly ==
  \A p \in Topup : credits[p].topup = IF Collected(p) THEN total[p] ELSE 0

\* A payment that counts as captured has a settled invoice, and one that is
\* fully refunded a refunded one: the two rows are saved one after the other
\* (approve, refund) and no overlap of requests leaves them apart.
SettledMeansInvoicePaid ==
  \A p \in Payment :
    /\ pay[p].state \in Settled => Collected(p)
    /\ pay[p].state = "REFUNDED" => invoice[p] = "REFUNDED"

\* Nothing is provisioned for free: an order is PAID only if its invoice was
\* settled (OrderPaymentBridge, "the single trigger for provisioning").
OrderFollowsInvoice ==
  \A p \in Payment : order[p] = "PAID" => Collected(p)

\* One receipt backs one payment, even when two copies of it are submitted at
\* the same moment or after a better one was asked for (claim).
ReceiptUsedOnce ==
  \A p, q \in Payment :
    p # q /\ pay[p].proof # None => pay[p].proof # pay[q].proof

\* A paid order is never released by a rejection or a refusal that was decided
\* on an older state of the payment ("Only a PENDING order is touched").
PaidOrderStaysPaid ==
  [][\A p \in Payment : order[p] = "PAID" => order'[p] = "PAID"]_vars

-----------------------------------------------------------------------------
(* Properties that need the requests on one payment not to overlap *)

\* No more is refunded than was captured (RefundExceedsPayment, the CHECK
\* billing_payments_refund_within_capture).
RefundWithinCapture == \A p \in Payment : refunded[p] <= pay[p].captured

\* A rejected, failed, expired or fully refunded payment stays so, and one that
\* was approved is not approved a second time, by whichever of the callback, the
\* sweep, the wallet and the reviewer (_ALLOWED, require_payment).
DecisionIsFinal ==
  [][\A p \in Payment :
        /\ pay[p].state \in Terminal => pay'[p].state = pay[p].state
        /\ approvals[p] > 0 => approvals'[p] = approvals[p]]_vars

\* Seen from outside, a checkout is one atomic sale: opened, then either sold
\* with its order owed to the customer, or abandoned with the order released.
Outcome(p) ==
  CASE pay[p].state = "ABSENT" -> "none"
    [] pay[p].state \in Waiting -> "open"
    [] pay[p].state \in Settled \cup {"REFUNDED"} -> "sold"
    [] OTHER -> "abandoned"

Kept(p) == pay[p].captured - refunded[p]

Due(p) ==
  CASE order[p] = "ABSENT" -> "none"
    [] order[p] = "PENDING" -> "waiting"
    [] order[p] = "PAID" -> "owed"
    [] OTHER -> "released"

AtomicSale ==
  INSTANCE Sale WITH
    Purchase <- Payment \ Topup,
    outcome <- [p \in Payment |-> Outcome(p)],
    kept <- [p \in Payment |-> Kept(p)],
    due <- [p \in Payment |-> Due(p)]

\* Requests that take turns implement it (checkout, review, verification,
\* refund, the bridge and the release together).
SalesAreAtomic == AtomicSale!Spec

-----------------------------------------------------------------------------
(* Liveness *)

\* What the provider decides about a payment while the sweep still looks for it
\* is acted on, even if the callback is lost and the verification fails now and
\* then (sweep_gateways): it leaves the gateway unless the window runs out.
GatewayAnswerIsActedOn ==
  \A p \in Payment :
    (pay[p].state = "PENDING_GATEWAY" /\ provider[p].outcome \in {"confirmed", "declined"})
      ~> (pay[p].state # "PENDING_GATEWAY" \/ late[p])

=============================================================================
