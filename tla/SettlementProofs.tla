--------------------------- MODULE SettlementProofs ---------------------------
(***************************************************************************)
(* Settlement's invariants, proved for any number of checkouts, receipts   *)
(* and concurrent requests (IInv); and what holds beyond them when the     *)
(* requests on one payment take turns (TurnInv): refunds stay within the   *)
(* capture, decisions are final, and Settlement implements Sale.           *)
(***************************************************************************)
EXTENDS Settlement, TLAPS

USE TopupAssumption, PriceAssumption, AmountAssumption, NoneAssumption

-----------------------------------------------------------------------------
(* What a request holds and what a save leaves behind *)

LEMMA RequestShape ==
  ASSUME TypeOK, NEW t \in Tx, txn[t] # Idle
  PROVE  /\ txn[t] \in Snapshot
         /\ txn[t].payment \in Payment
         /\ txn[t].row \in Row
         /\ txn[t].refunded \in Nat
  BY DEF TypeOK, Idle, Snapshot

\* The state and the proof that a save leaves come from the row as it is or
\* from the request, and the state is the request's if the request changed it.
LEMMA SaveEffect ==
  ASSUME TypeOK, NEW p \in Payment, NEW seen \in Row, NEW new \in Row,
         Save(p, seen, new)
  PROVE  /\ pay' \in [Payment -> Row]
         /\ \A q \in Payment \ {p} : pay'[q] = pay[q]
         /\ pay'[p].state \in {pay[p].state, new.state}
         /\ new.state # seen.state => pay'[p].state = new.state
         /\ pay'[p].proof \in {pay[p].proof, new.proof}
<1>1. pay[p] \in Row
  BY DEF TypeOK
<1>2. Patch(pay[p], seen, new) \in Row
  BY <1>1 DEF Patch, Keep, Row
<1>3. PICK row \in {new, Patch(pay[p], seen, new)} : pay' = [pay EXCEPT ![p] = row]
  BY DEF Save
<1>4. row.state \in {pay[p].state, new.state} /\ row.proof \in {pay[p].proof, new.proof}
      /\ (new.state # seen.state => row.state = new.state)
  BY DEF Patch, Keep
<1>5. QED
  BY <1>1, <1>2, <1>3, <1>4 DEF TypeOK

LEMMA CreditEffect ==
  ASSUME TypeOK, NEW p \in Payment, NEW i \in Nat, NEW j \in Nat, NEW k \in Nat,
         Credit(p, i, j, k)
  PROVE  /\ credits' \in [Payment -> [topup : Nat, surplus : Nat, refund : Nat]]
         /\ credits'[p].topup = credits[p].topup + i
         /\ \A q \in Payment \ {p} : credits'[q] = credits[q]
<1>1. credits[p] \in [topup : Nat, surplus : Nat, refund : Nat]
  BY DEF TypeOK
<1>2. QED
  BY <1>1 DEF TypeOK, Credit

\* What a settlement does to everything but the payment row.
LEMMA SettleEffect ==
  ASSUME TypeOK, NEW t \in Tx, NEW p \in Payment, NEW arrived \in Nat,
         Settle(t, p, arrived)
  PROVE  /\ invoice' \in [Payment -> InvoiceState]
         /\ invoice'[p] \in {"PAID", invoice[p]}
         /\ txn[t].invoice # "PAID" => invoice'[p] = "PAID"
         /\ \A q \in Payment \ {p} : invoice'[q] = invoice[q] /\ credits'[q] = credits[q]
         /\ credits' \in [Payment -> [topup : Nat, surplus : Nat, refund : Nat]]
         /\ p \in Topup => credits[p].topup = 0 /\ credits'[p].topup = total[p]
         /\ p \notin Topup => credits'[p].topup = credits[p].topup
         /\ order' \in [Payment -> OrderState]
         /\ \A q \in Payment \ {p} : order'[q] = order[q]
         /\ approvals' \in [Payment -> Nat]
<1>1. total[p] \in Nat /\ credits[p] \in [topup : Nat, surplus : Nat, refund : Nat]
      /\ approvals[p] \in Nat
  BY DEF TypeOK
<1>2. arrived >= total[p] /\ arrived - total[p] \in Nat
  BY <1>1 DEF Settle
<1>3. /\ Credit(p, IF p \in Topup THEN total[p] ELSE 0, arrived - total[p], 0)
      /\ p \in Topup => credits[p].topup = 0
  BY DEF Settle, LedgerAccepts
<1>4. /\ credits' \in [Payment -> [topup : Nat, surplus : Nat, refund : Nat]]
      /\ p \in Topup => credits[p].topup = 0 /\ credits'[p].topup = total[p]
      /\ p \notin Topup => credits'[p].topup = credits[p].topup
      /\ \A q \in Payment \ {p} : credits'[q] = credits[q]
  <2> DEFINE principal == IF p \in Topup THEN total[p] ELSE 0
  <2>1. principal \in Nat
    BY <1>1
  <2>2. Credit(p, principal, arrived - total[p], 0)
    BY <1>3
  <2> HIDE DEF principal
  <2>3. /\ credits' \in [Payment -> [topup : Nat, surplus : Nat, refund : Nat]]
        /\ credits'[p].topup = credits[p].topup + principal
        /\ \A q \in Payment \ {p} : credits'[q] = credits[q]
    BY <1>2, <2>1, <2>2, CreditEffect
  <2>4. credits[p].topup \in Nat
    BY <1>1
  <2>5. QED
    BY <1>1, <1>3, <2>3, <2>4 DEF principal
<1>5. PICK state \in {"PAID", Keep(invoice[p], txn[t].invoice, "PAID")} :
        invoice' = [invoice EXCEPT ![p] = state]
  BY DEF Settle, MarkPaid
<1>6. invoice[p] \in InvoiceState
  BY DEF TypeOK
<1>7. /\ state \in {"PAID", invoice[p]} /\ (txn[t].invoice # "PAID" => state = "PAID")
      /\ state \in InvoiceState
  BY <1>5, <1>6 DEF Keep, InvoiceState
<1>8. /\ invoice' \in [Payment -> InvoiceState]
      /\ invoice'[p] = state
      /\ \A q \in Payment \ {p} : invoice'[q] = invoice[q]
  BY <1>5, <1>7 DEF TypeOK
<1>9. /\ order' \in [Payment -> OrderState]
      /\ \A q \in Payment \ {p} : order'[q] = order[q]
      /\ approvals' \in [Payment -> Nat]
  BY <1>1 DEF Settle, MarkOrderPaid, TypeOK, OrderState
<1>10. QED
  BY <1>4, <1>7, <1>8, <1>9

LEMMA FinishType ==
  ASSUME TypeOK, NEW t \in Tx, Finish(t)
  PROVE  /\ txn' \in [Tx -> Snapshot \cup {Idle}]
         /\ txn'[t] = Idle
         /\ \A u \in Tx \ {t} : txn'[u] = txn[u]
         /\ UNCHANGED <<late, provider>>
  BY DEF TypeOK, Finish

-----------------------------------------------------------------------------
(* Type correctness *)

LEMMA TypeInit == Init => TypeOK
  BY DEF Init, TypeOK, NoRow, Row, PaymentState, InvoiceState, OrderState, Idle

LEMMA BeginEffect ==
  ASSUME TypeOK, NEW p \in Payment, NEW state \in {"AWAITING_PROOF", "PENDING_GATEWAY", "APPROVED"},
         NEW amount \in Nat, BeginCheckout(p, state, amount)
  PROVE  /\ invoice[p] = "ABSENT"
         /\ pay' \in [Payment -> Row]
         /\ pay'[p].state = state /\ pay'[p].proof = None
         /\ \A q \in Payment \ {p} : pay'[q] = pay[q]
         /\ invoice' \in [Payment -> InvoiceState]
         /\ invoice'[p] = IF state = "APPROVED" THEN "PAID" ELSE "OPEN"
         /\ \A q \in Payment \ {p} : invoice'[q] = invoice[q] /\ total'[q] = total[q]
         /\ total' \in [Payment -> Nat]
         /\ UNCHANGED <<refunded, credits, claimed, late, provider, txn>>
<1>1. /\ pay' = [pay EXCEPT ![p] =
                   [state |-> state,
                    captured |-> IF state # "APPROVED" THEN 0
                                 ELSE IF amount = 0 THEN 1 ELSE amount,
                    proof |-> None]]
      /\ invoice[p] = "ABSENT"
      /\ invoice' = [invoice EXCEPT ![p] = IF state = "APPROVED" THEN "PAID" ELSE "OPEN"]
      /\ total' = [total EXCEPT ![p] = amount]
      /\ UNCHANGED <<refunded, credits, claimed, late, provider, txn>>
  BY DEF BeginCheckout
<1>2. [state |-> state,
       captured |-> IF state # "APPROVED" THEN 0 ELSE IF amount = 0 THEN 1 ELSE amount,
       proof |-> None] \in Row
  BY DEF Row, PaymentState, Waiting, Settled
<1>3. QED
  BY <1>1, <1>2 DEF TypeOK, InvoiceState

\* What Admits lets a request rely on when it commits.
LEMMA ReadType ==
  ASSUME TypeOK, NEW t \in Tx, NEW handler \in Handler, NEW p \in Payment,
         Read(t, handler, p)
  PROVE  TypeOK'
<1>1. [handler |-> handler, payment |-> p, row |-> pay[p],
       invoice |-> invoice[p], refunded |-> refunded[p]] \in Snapshot
  BY DEF TypeOK, Snapshot
<1>2. QED
  BY <1>1 DEF Read, TypeOK, rows

LEMMA RowUpdates ==
  ASSUME NEW row \in Row, NEW n \in Nat, NEW d \in Digest \cup {None},
         NEW state \in PaymentState
  PROVE  /\ Moved(row, state) \in Row
         /\ Moved(row, state).state = state
         /\ Moved(row, state).proof = row.proof
         /\ WithProof(row, state, d) \in Row
         /\ WithProof(row, state, d).state = state
         /\ WithProof(row, state, d).proof = d
         /\ Approved(row, n) \in Row
         /\ Approved(row, n).state = "APPROVED"
         /\ Approved(row, n).proof = row.proof
  BY DEF Row, Approved, Moved, WithProof, PaymentState, Settled

\* Every commit changes the rows of one payment only, through one save.
Saves(p, seen, new) == new \in Row /\ seen \in Row /\ Save(p, seen, new)

LEMMA ApproveEffect ==
  ASSUME TypeOK, NEW t \in Tx, Approve(t) \/ VerifyConfirmed(t)
  PROVE  /\ txn[t] # Idle
         /\ \E arrived \in Nat :
              /\ Settle(t, txn[t].payment, arrived)
              /\ Saves(txn[t].payment, txn[t].row, Approved(txn[t].row, arrived))
<1>1. txn[t] # Idle
  BY DEF Approve, VerifyConfirmed, Runs
<1>2. PICK arrived \in Nat : /\ Settle(t, txn[t].payment, arrived)
                             /\ Save(txn[t].payment, txn[t].row, Approved(txn[t].row, arrived))
  <2>1. txn[t].payment \in Payment
    BY <1>1, RequestShape
  <2>2. total[txn[t].payment] \in Nat /\ provider[txn[t].payment].amount \in Nat
    BY <2>1 DEF TypeOK
  <2>3. CASE Approve(t)
    BY <2>2, <2>3 DEF Approve
  <2>4. CASE VerifyConfirmed(t)
    BY <2>2, <2>4 DEF VerifyConfirmed
  <2>5. QED
    BY <2>3, <2>4
<1>3. txn[t].row \in Row
  BY <1>1, RequestShape
<1>4. Approved(txn[t].row, arrived) \in Row
  BY <1>3, RowUpdates DEF PaymentState
<1>5. QED
  BY <1>1, <1>2, <1>3, <1>4 DEF Saves

\* A commit that settles and returns nothing: the payment moves between the
\* waiting states or is abandoned, and a pending order may be released.
Undecided(t) ==
  \/ Reject(t) \/ RequestBetterProof(t) \/ SubmitProof(t)
  \/ VerifyEscalated(t) \/ VerifyDeclined(t)

LEMMA UndecidedEffect ==
  ASSUME TypeOK, NEW t \in Tx, Undecided(t)
  PROVE  /\ txn[t] # Idle
         /\ \E new \in Row :
              /\ Saves(txn[t].payment, txn[t].row, new)
              /\ new.state \notin Settled \cup {"REFUNDED"}
              /\ \/ new.proof \in {None, txn[t].row.proof}
                 \/ new.proof \in Digest /\ claimed'[new.proof] = txn[t].payment
         /\ claimed' \in [Digest -> Payment \cup {None}]
         /\ \A d \in Digest : claimed[d] # None => claimed'[d] = claimed[d]
         /\ order' \in [Payment -> OrderState]
         /\ \A q \in Payment : order'[q] = "PAID" <=> order[q] = "PAID"
         /\ UNCHANGED <<refunded, invoice, total, credits, approvals>>
         /\ Finish(t)
<1> DEFINE p == txn[t].payment
           row == txn[t].row
<1>1. txn[t] # Idle /\ Finish(t)
  BY DEF Undecided, Reject, RequestBetterProof, SubmitProof, VerifyEscalated,
         VerifyDeclined, Runs
<1>2. p \in Payment /\ row \in Row
  BY <1>1, RequestShape
<1>3. \A state \in {"REJECTED", "PENDING_REVIEW", "FAILED", "AWAITING_PROOF"} :
        /\ state \in PaymentState /\ state \notin Settled \cup {"REFUNDED"}
  BY DEF PaymentState, Waiting, Settled, Terminal
<1>4. /\ order' \in [Payment -> OrderState]
      /\ \A q \in Payment : order'[q] = "PAID" <=> order[q] = "PAID"
      /\ UNCHANGED <<refunded, invoice, total, credits, approvals>>
  <2>1. CASE Reject(t) \/ VerifyDeclined(t)
    <3>1. Release(p) /\ UNCHANGED <<refunded, invoice, total, credits, approvals>>
      BY <2>1 DEF Reject, VerifyDeclined
    <3>2. QED
      BY <1>2, <3>1 DEF Release, TypeOK, OrderState
  <2>2. CASE RequestBetterProof(t) \/ SubmitProof(t) \/ VerifyEscalated(t)
    BY <2>2 DEF RequestBetterProof, SubmitProof, VerifyEscalated, TypeOK
  <2>3. QED
    BY <2>1, <2>2 DEF Undecided
<1>5. CASE SubmitProof(t)
  <2>1. PICK digest \in Digest :
          /\ claimed[digest] = None
          /\ claimed' = [claimed EXCEPT ![digest] = p]
          /\ Save(p, row, WithProof(row, "PENDING_REVIEW", digest))
    BY <1>5 DEF SubmitProof, Claim
  <2> DEFINE new == WithProof(row, "PENDING_REVIEW", digest)
  <2>2. new \in Row /\ new.state = "PENDING_REVIEW" /\ new.proof = digest
    BY <1>2, <1>3, RowUpdates
  <2>3. /\ claimed' \in [Digest -> Payment \cup {None}]
        /\ \A d \in Digest : claimed[d] # None => claimed'[d] = claimed[d]
        /\ claimed'[digest] = p
    BY <1>2, <2>1 DEF TypeOK
  <2>4. Saves(p, row, new)
    BY <1>2, <2>1, <2>2 DEF Saves
  <2> HIDE DEF new
  <2>5. QED
    BY <1>1, <1>3, <1>4, <2>2, <2>3, <2>4
<1>6. CASE RequestBetterProof(t)
  <2> DEFINE new == WithProof(row, "AWAITING_PROOF", None)
  <2>1. new \in Row /\ new.state = "AWAITING_PROOF" /\ new.proof = None
    BY <1>2, <1>3, RowUpdates
  <2>2. Saves(p, row, new) /\ UNCHANGED claimed
    BY <1>2, <1>6, <2>1 DEF Saves, RequestBetterProof
  <2> HIDE DEF new
  <2>3. QED
    BY <1>1, <1>3, <1>4, <2>1, <2>2 DEF TypeOK
<1>7. CASE Reject(t) \/ VerifyEscalated(t) \/ VerifyDeclined(t)
  <2>1. PICK state \in {"REJECTED", "PENDING_REVIEW", "FAILED"} :
          Save(p, row, Moved(row, state)) /\ UNCHANGED claimed
    BY <1>7 DEF Reject, VerifyEscalated, VerifyDeclined
  <2> DEFINE new == Moved(row, state)
  <2>2. new \in Row /\ new.state = state /\ new.proof = row.proof
    BY <1>2, <1>3, <2>1, RowUpdates
  <2>3. Saves(p, row, new) /\ UNCHANGED claimed
    BY <1>2, <2>1, <2>2 DEF Saves
  <2> HIDE DEF new
  <2>4. QED
    BY <1>1, <1>3, <1>4, <2>1, <2>2, <2>3 DEF TypeOK
<1>8. QED
  BY <1>5, <1>6, <1>7 DEF Undecided

LEMMA RefundEffect ==
  ASSUME TypeOK, NEW t \in Tx, Refund(t)
  PROVE  /\ txn[t] # Idle /\ txn[t].handler = "refund"
         /\ \E new \in Row :
              /\ Saves(txn[t].payment, txn[t].row, new)
              /\ \/ new.state = "PARTIALLY_REFUNDED" /\ UNCHANGED invoice
                 \/ new.state = "REFUNDED" /\ txn[t].invoice = "PAID"
                    /\ invoice' = [invoice EXCEPT ![txn[t].payment] = "REFUNDED"]
              /\ new.proof = txn[t].row.proof
         /\ refunded' \in [Payment -> Nat]
         /\ credits' \in [Payment -> [topup : Nat, surplus : Nat, refund : Nat]]
         /\ \A q \in Payment : credits'[q].topup = credits[q].topup
         /\ UNCHANGED <<total, order, claimed, approvals>>
         /\ Finish(t)
<1> DEFINE p == txn[t].payment
           row == txn[t].row
           refundable == row.captured - txn[t].refunded
<1>1. txn[t] # Idle /\ txn[t].handler = "refund" /\ Finish(t)
      /\ UNCHANGED <<total, order, claimed, approvals>>
  BY DEF Refund, Runs
<1>2. p \in Payment /\ row \in Row
  BY <1>1, RequestShape
<1>3. PICK amount \in 1 .. refundable :
        /\ amount = refundable => txn[t].invoice = "PAID"
        /\ Save(p, row, Moved(row, IF amount = refundable THEN "REFUNDED"
                                   ELSE "PARTIALLY_REFUNDED"))
        /\ refunded' = [refunded EXCEPT ![p] = @ + amount]
        /\ Credit(p, 0, 0, amount)
        /\ invoice' = IF amount = refundable THEN [invoice EXCEPT ![p] = "REFUNDED"]
                      ELSE invoice
  BY DEF Refund, Refundable
<1>4. amount \in Nat
  BY <1>2, RequestShape, <1>1 DEF Row
<1>5. /\ refunded' \in [Payment -> Nat]
      /\ credits' \in [Payment -> [topup : Nat, surplus : Nat, refund : Nat]]
      /\ \A q \in Payment : credits'[q].topup = credits[q].topup
  <2>1. refunded' \in [Payment -> Nat]
    BY <1>2, <1>3, <1>4 DEF TypeOK
  <2>2. credits[p].topup \in Nat
    BY <1>2 DEF TypeOK
  <2>3. /\ credits' \in [Payment -> [topup : Nat, surplus : Nat, refund : Nat]]
        /\ credits'[p].topup = credits[p].topup + 0
        /\ \A q \in Payment \ {p} : credits'[q] = credits[q]
    BY <1>2, <1>3, <1>4, CreditEffect
  <2>4. QED
    BY <2>1, <2>2, <2>3
<1> DEFINE state == IF amount = refundable THEN "REFUNDED" ELSE "PARTIALLY_REFUNDED"
           new == Moved(row, state)
<1>6. state \in PaymentState
  BY DEF PaymentState, Settled, Terminal
<1>7. new \in Row /\ new.state = state /\ new.proof = row.proof
  BY <1>2, <1>6, RowUpdates
<1>8. Saves(p, row, new)
  BY <1>2, <1>3, <1>7 DEF Saves
<1> HIDE DEF new
<1>9. QED
  BY <1>1, <1>3, <1>5, <1>7, <1>8

-----------------------------------------------------------------------------
(* The inductive invariant *)

\* A receipt a payment shows is one it claimed.
ReceiptBacked ==
  \A p \in Payment : pay[p].proof # None => claimed[pay[p].proof] = p

\* However old, a snapshot is right about three things: an invoice it saw paid
\* was collected, a payment it may refund was collected, and the receipt it
\* carries belongs to its payment.
SnapshotsHold ==
  \A t \in Tx : txn[t] # Idle =>
    /\ txn[t].invoice = "PAID" => Collected(txn[t].payment)
    /\ txn[t].handler = "refund" => Collected(txn[t].payment)
    /\ txn[t].row.proof # None => claimed[txn[t].row.proof] = txn[t].payment

IInv ==
  /\ TypeOK
  /\ TopupCreditedExactly
  /\ SettledMeansInvoicePaid
  /\ OrderFollowsInvoice
  /\ ReceiptBacked
  /\ SnapshotsHold

LEMMA SnapshotsKept ==
  ASSUME TypeOK, SnapshotsHold,
         \A q \in Payment : Collected(q) => Collected(q)',
         \A d \in Digest : claimed[d] # None => claimed'[d] = claimed[d],
         \A u \in Tx : txn'[u] \in {txn[u], Idle}
  PROVE  SnapshotsHold'
<1> SUFFICES ASSUME NEW t \in Tx, txn'[t] # None
             PROVE  /\ txn'[t].invoice = "PAID" =>
                         invoice'[txn'[t].payment] \in {"PAID", "REFUNDED"}
                    /\ txn'[t].handler = "refund" =>
                         invoice'[txn'[t].payment] \in {"PAID", "REFUNDED"}
                    /\ txn'[t].row.proof # None =>
                         claimed'[txn'[t].row.proof] = txn'[t].payment
  BY Zenon DEF SnapshotsHold, Collected, Idle
<1>1. txn'[t] = txn[t] /\ txn[t] # Idle
  BY DEF Idle
<1>2. txn[t].payment \in Payment /\ txn[t].row \in Row
  BY <1>1, RequestShape
<1>3. txn[t].row.proof \in Digest \cup {None} /\ txn[t].payment # None
  BY <1>2 DEF Row
<1>4. /\ txn[t].invoice = "PAID" => invoice[txn[t].payment] \in {"PAID", "REFUNDED"}
      /\ txn[t].handler = "refund" => invoice[txn[t].payment] \in {"PAID", "REFUNDED"}
      /\ txn[t].row.proof # None => claimed[txn[t].row.proof] = txn[t].payment
  BY <1>1, Zenon DEF SnapshotsHold, Collected
<1>5. invoice[txn[t].payment] \in {"PAID", "REFUNDED"} =>
        invoice'[txn[t].payment] \in {"PAID", "REFUNDED"}
  BY <1>2 DEF Collected
<1>6. txn[t].row.proof # None => claimed'[txn[t].row.proof] = txn[t].payment
  BY <1>3, <1>4
<1>7. QED
  BY <1>1, <1>4, <1>5, <1>6, Zenon

LEMMA ReceiptsKept ==
  ASSUME TypeOK, ReceiptBacked, NEW p \in Payment, NEW seen, NEW new, Saves(p, seen, new),
         new.proof = None \/ (new.proof \in Digest /\ claimed'[new.proof] = p),
         \A d \in Digest : claimed[d] # None => claimed'[d] = claimed[d]
  PROVE  ReceiptBacked'
<1> SUFFICES ASSUME NEW q \in Payment, pay'[q].proof # None
             PROVE  claimed'[pay'[q].proof] = q
  BY DEF ReceiptBacked
<1>1. pay[q].proof \in Digest \cup {None} /\ q # None
  BY DEF TypeOK, Row
<1>2. \/ pay'[q].proof = pay[q].proof
      \/ q = p /\ pay'[q].proof = new.proof
  BY SaveEffect DEF Saves
<1>3. QED
  BY <1>1, <1>2 DEF ReceiptBacked

LEMMA StartStep ==
  ASSUME IInv, NEW p \in Payment, PlaceOrder(p) \/ Begin(p)
  PROVE  IInv'
<1>1. CASE PlaceOrder(p)
  <2>1. /\ order' \in [Payment -> OrderState]
        /\ \A q \in Payment : order'[q] = "PAID" => order[q] = "PAID"
    BY <1>1 DEF PlaceOrder, IInv, TypeOK, OrderState
  <2>2. QED
    BY <1>1, <2>1 DEF PlaceOrder, IInv, TypeOK, TopupCreditedExactly, SettledMeansInvoicePaid,
       OrderFollowsInvoice, ReceiptBacked, SnapshotsHold, Collected
<1>2. CASE Begin(p)
  <2>1. PICK state \in {"AWAITING_PROOF", "PENDING_GATEWAY", "APPROVED"}, amount \in Nat :
          /\ BeginCheckout(p, state, amount)
          /\ order' \in [Payment -> OrderState]
          /\ \A q \in Payment : order'[q] = "PAID" =>
               order[q] = "PAID" \/ (q = p /\ state = "APPROVED")
          /\ approvals' \in [Payment -> Nat]
          /\ p \in Topup => state # "APPROVED"
    <3>1. CASE BeginByProof(p)
      <4>1. PICK extra \in Remainder(p) :
              BeginCheckout(p, "AWAITING_PROOF", Price[p] + extra)
        BY <3>1 DEF BeginByProof
      <4>2. Price[p] + extra \in Nat
        BY DEF Remainder
      <4>3. QED
        BY <3>1, <4>1, <4>2 DEF BeginByProof, IInv, TypeOK
    <3>2. CASE BeginAtGateway(p)
      BY <3>2 DEF BeginAtGateway, IInv, TypeOK
    <3>3. CASE BeginSettled(p)
      <4>1. p \notin Topup
        BY <3>3 DEF BeginSettled
      <4>2. /\ BeginCheckout(p, "APPROVED", Price[p]) /\ Price[p] \in Nat
            /\ order' = [order EXCEPT ![p] = "PAID"]
            /\ approvals' = [approvals EXCEPT ![p] = @ + 1]
        BY <3>3 DEF BeginSettled
      <4>3. /\ order' \in [Payment -> OrderState]
            /\ \A q \in Payment : order'[q] = "PAID" => order[q] = "PAID" \/ q = p
            /\ approvals' \in [Payment -> Nat]
        BY <4>2 DEF IInv, TypeOK, OrderState
      <4>4. QED
        BY <4>1, <4>2, <4>3
    <3>4. QED
      BY <1>2, <3>1, <3>2, <3>3 DEF Begin
  <2>2. TypeOK /\ TypeOK'
    BY <2>1, BeginEffect DEF IInv, TypeOK
  <2>3. \A q \in Payment : Collected(q) => Collected(q)'
    BY <2>1, <2>2, BeginEffect DEF Collected
  <2>4. TopupCreditedExactly'
    BY <2>1, <2>2, BeginEffect DEF IInv, TopupCreditedExactly, Collected
  <2>5. SettledMeansInvoicePaid'
    BY <2>1, <2>2, BeginEffect DEF IInv, SettledMeansInvoicePaid, Collected, Settled
  <2>6. OrderFollowsInvoice'
    BY <2>1, <2>2, BeginEffect DEF IInv, OrderFollowsInvoice, Collected
  <2>7. ReceiptBacked'
    BY <2>1, <2>2, BeginEffect DEF IInv, ReceiptBacked
  <2>8. SnapshotsHold'
    BY <2>1, <2>2, <2>3, BeginEffect, SnapshotsKept DEF IInv
  <2>9. QED
    BY <2>2, <2>4, <2>5, <2>6, <2>7, <2>8 DEF IInv
<1>3. QED
  BY <1>1, <1>2

LEMMA ReadStep ==
  ASSUME IInv, NEW t \in Tx, NEW handler \in Handler, NEW p \in Payment, Read(t, handler, p)
  PROVE  IInv'
<1>1. TypeOK /\ TypeOK'
  BY ReadType DEF IInv
<1>2. UNCHANGED rows /\ Admits(handler, p, pay[p], refunded[p])
  BY DEF Read
<1>3. handler = "refund" => Collected(p)
  BY <1>2 DEF Admits, IInv, SettledMeansInvoicePaid
<1>4. /\ txn'[t].invoice = invoice[p] /\ txn'[t].handler = handler
      /\ txn'[t].payment = p /\ txn'[t].row = pay[p]
      /\ \A u \in Tx \ {t} : txn'[u] = txn[u]
  BY DEF Read, IInv, TypeOK
<1>5. SnapshotsHold'
  BY <1>1, <1>2, <1>3, <1>4 DEF SnapshotsHold, IInv, ReceiptBacked, Collected, rows
<1>6. QED
  BY <1>1, <1>2, <1>5 DEF IInv, TopupCreditedExactly, SettledMeansInvoicePaid,
     OrderFollowsInvoice, ReceiptBacked, Collected, rows

LEMMA ReadInvoiceStep ==
  ASSUME IInv, NEW t \in Tx, ReadInvoice(t)
  PROVE  IInv'
<1>1. PICK p \in Payment : p = txn[t].payment
  BY RequestShape DEF ReadInvoice, IInv
<1> DEFINE seen == Newer(txn[t], invoice[p])
<1>2. txn[t] \in Snapshot /\ invoice[p] \in InvoiceState /\ UNCHANGED <<rows, late, provider>>
  BY RequestShape DEF ReadInvoice, IInv, TypeOK
<1>3. txn' = [txn EXCEPT ![t] = seen]
  BY <1>1 DEF ReadInvoice
<1>4. /\ seen \in Snapshot
      /\ seen.payment = p /\ seen.invoice = invoice[p]
      /\ seen.handler = txn[t].handler /\ seen.row = txn[t].row
  BY <1>1, <1>2 DEF Newer, Snapshot
<1> HIDE DEF seen
<1>5. TypeOK'
  BY <1>2, <1>3, <1>4 DEF IInv, TypeOK, rows
<1>6. SnapshotsHold'
  <2>1. /\ txn'[t] = seen
        /\ \A u \in Tx \ {t} : txn'[u] = txn[u]
    BY <1>3 DEF IInv, TypeOK
  <2>2. /\ invoice[p] = "PAID" => Collected(p)
        /\ seen.handler = "refund" => Collected(p)
        /\ seen.row.proof # None => claimed[seen.row.proof] = p
    BY <1>1, <1>4 DEF IInv, SnapshotsHold, Collected, ReadInvoice
  <2>3. QED
    BY <1>2, <1>4, <2>1, <2>2 DEF IInv, SnapshotsHold, Collected, rows
<1>7. QED
  BY <1>2, <1>5, <1>6 DEF IInv, TopupCreditedExactly, SettledMeansInvoicePaid,
     OrderFollowsInvoice, ReceiptBacked, Collected, rows

\* The receipt a request writes back is its payment's own.
LEMMA OwnReceipt ==
  ASSUME IInv, NEW t \in Tx, txn[t] # Idle,
         \A d \in Digest : claimed[d] # None => claimed'[d] = claimed[d]
  PROVE  LET proof == txn[t].row.proof IN
         proof = None \/ (proof \in Digest /\ claimed'[proof] = txn[t].payment)
<1>1. /\ txn[t].payment \in Payment /\ txn[t].payment # None
      /\ txn[t].row.proof \in Digest \cup {None}
  BY RequestShape DEF IInv, Row
<1>2. QED
  BY <1>1 DEF IInv, SnapshotsHold

LEMMA SettlingStep ==
  ASSUME IInv, NEW t \in Tx, Approve(t) \/ VerifyConfirmed(t)
  PROVE  IInv'
<1> DEFINE row == txn[t].row
<1>1. TypeOK /\ txn[t] # Idle
  BY ApproveEffect DEF IInv
<1>2. row \in Row /\ \E p \in Payment : p = txn[t].payment
  BY <1>1, RequestShape
<1> PICK p \in Payment : p = txn[t].payment
  BY <1>2
<1>3. PICK arrived \in Nat : Settle(t, p, arrived) /\ Saves(p, row, Approved(row, arrived))
  BY <1>1, ApproveEffect
<1>4. /\ UNCHANGED <<refunded, total, claimed>> /\ Finish(t)
      /\ CanMove(row.state, "APPROVED")
  BY <1>3 DEF Settle
<1>5. row.state # "APPROVED"
  BY <1>4 DEF CanMove, Transition, Deciding, Returning
<1>6. /\ Approved(row, arrived) \in Row
      /\ Approved(row, arrived).state = "APPROVED"
      /\ Approved(row, arrived).proof = row.proof
  BY <1>2, <1>3, RowUpdates DEF PaymentState
<1>7. /\ pay' \in [Payment -> Row]
      /\ \A q \in Payment \ {p} : pay'[q] = pay[q]
      /\ pay'[p].state = "APPROVED"
  BY <1>1, <1>2, <1>3, <1>5, <1>6, SaveEffect DEF Saves
<1>8. /\ invoice'[p] \in {"PAID", invoice[p]}
      /\ txn[t].invoice # "PAID" => invoice'[p] = "PAID"
      /\ \A q \in Payment \ {p} : /\ invoice'[q] = invoice[q]
                                /\ credits'[q] = credits[q]
                                /\ order'[q] = order[q]
      /\ p \in Topup => credits'[p].topup = total[p]
  BY <1>1, <1>2, <1>3, SettleEffect
<1>9. Collected(p)'
  <2>1. CASE txn[t].invoice = "PAID"
    <3>1. Collected(p)
      BY <1>1, <2>1 DEF IInv, SnapshotsHold
    <3>2. QED
      BY <1>8, <3>1 DEF Collected
  <2>2. CASE txn[t].invoice # "PAID"
    BY <1>8, <2>2 DEF Collected
  <2>3. QED
    BY <2>1, <2>2
<1>10. \A q \in Payment : Collected(q)' <=> (q = p \/ Collected(q))
  BY <1>8, <1>9 DEF Collected
<1>11. TopupCreditedExactly'
  <2> SUFFICES ASSUME NEW q \in Topup
               PROVE  credits'[q].topup = IF Collected(q)' THEN total'[q] ELSE 0
    BY Zenon DEF TopupCreditedExactly
  <2>1. q \in Payment
    OBVIOUS
  <2>2. CASE q = p
    BY <1>4, <1>8, <1>9, <2>2
  <2>3. CASE q # p
    <3>1. credits[q].topup = IF Collected(q) THEN total[q] ELSE 0
      BY DEF IInv, TopupCreditedExactly
    <3>2. QED
      BY <1>4, <1>8, <1>10, <2>1, <2>3, <3>1
  <2>4. QED
    BY <2>2, <2>3
<1>12. SettledMeansInvoicePaid'
  <2> SUFFICES ASSUME NEW q \in Payment
               PROVE  /\ pay'[q].state \in Settled => Collected(q)'
                      /\ pay'[q].state = "REFUNDED" => invoice'[q] = "REFUNDED"
    BY Zenon DEF SettledMeansInvoicePaid
  <2>1. CASE q = p
    BY <1>7, <1>9, <2>1
  <2>2. CASE q # p
    BY <1>7, <1>8, <1>10, <2>2 DEF IInv, SettledMeansInvoicePaid
  <2>3. QED
    BY <2>1, <2>2
<1>13. OrderFollowsInvoice'
  <2> SUFFICES ASSUME NEW q \in Payment, order'[q] = "PAID"
               PROVE  Collected(q)'
    BY Zenon DEF OrderFollowsInvoice
  <2>1. QED
    BY <1>8, <1>10 DEF IInv, OrderFollowsInvoice
<1>14. ReceiptBacked'
  BY <1>1, <1>2, <1>3, <1>4, <1>6, OwnReceipt, ReceiptsKept DEF IInv
<1>15. SnapshotsHold'
  BY <1>1, <1>4, <1>10, FinishType, SnapshotsKept DEF IInv
<1>16. TypeOK'
  BY <1>1, <1>2, <1>3, <1>4, <1>7, SettleEffect, FinishType DEF TypeOK
<1>17. QED
  BY <1>11, <1>12, <1>13, <1>14, <1>15, <1>16 DEF IInv

LEMMA UndecidedStep ==
  ASSUME IInv, NEW t \in Tx, Undecided(t)
  PROVE  IInv'
<1> DEFINE p == txn[t].payment
           row == txn[t].row
<1>1. /\ TypeOK /\ txn[t] # Idle /\ Finish(t)
      /\ UNCHANGED <<refunded, invoice, total, credits, approvals>>
      /\ claimed' \in [Digest -> Payment \cup {None}]
      /\ \A d \in Digest : claimed[d] # None => claimed'[d] = claimed[d]
      /\ order' \in [Payment -> OrderState]
      /\ \A q \in Payment : order'[q] = "PAID" <=> order[q] = "PAID"
  BY UndecidedEffect DEF IInv
<1>2. p \in Payment /\ row \in Row
  BY <1>1, RequestShape
<1>3. PICK new \in Row :
        /\ Saves(p, row, new)
        /\ new.state \notin Settled \cup {"REFUNDED"}
        /\ \/ new.proof \in {None, row.proof}
           \/ new.proof \in Digest /\ claimed'[new.proof] = p
  BY <1>1, UndecidedEffect
<1>4. /\ pay' \in [Payment -> Row]
      /\ \A q \in Payment \ {p} : pay'[q] = pay[q]
      /\ pay'[p].state \in {pay[p].state, new.state}
  BY <1>1, <1>2, <1>3, SaveEffect DEF Saves
<1>5. TypeOK'
  BY <1>1, <1>4, FinishType DEF TypeOK
<1>6. TopupCreditedExactly' /\ OrderFollowsInvoice'
  BY <1>1 DEF IInv, TopupCreditedExactly, OrderFollowsInvoice, Collected
<1>7. SettledMeansInvoicePaid'
  BY <1>1, <1>2, <1>3, <1>4 DEF IInv, SettledMeansInvoicePaid, Collected
<1>8. ReceiptBacked'
  BY <1>1, <1>2, <1>3, OwnReceipt, ReceiptsKept DEF IInv
<1>9. SnapshotsHold'
  BY <1>1, FinishType, SnapshotsKept DEF IInv, Collected
<1>10. QED
  BY <1>5, <1>6, <1>7, <1>8, <1>9 DEF IInv

LEMMA RefundStep ==
  ASSUME IInv, NEW t \in Tx, Refund(t)
  PROVE  IInv'
<1> DEFINE p == txn[t].payment
           row == txn[t].row
<1>1. /\ TypeOK /\ txn[t] # Idle /\ txn[t].handler = "refund" /\ Finish(t)
      /\ refunded' \in [Payment -> Nat]
      /\ credits' \in [Payment -> [topup : Nat, surplus : Nat, refund : Nat]]
      /\ \A q \in Payment : credits'[q].topup = credits[q].topup
      /\ UNCHANGED <<total, order, claimed, approvals>>
  BY RefundEffect DEF IInv
<1>2. p \in Payment /\ row \in Row /\ Collected(p)
  BY <1>1, RequestShape DEF IInv, SnapshotsHold
<1>3. PICK new \in Row :
        /\ Saves(p, row, new)
        /\ \/ new.state = "PARTIALLY_REFUNDED" /\ UNCHANGED invoice
           \/ new.state = "REFUNDED" /\ invoice' = [invoice EXCEPT ![p] = "REFUNDED"]
        /\ new.proof = row.proof
  BY <1>1, RefundEffect
<1>4. /\ pay' \in [Payment -> Row]
      /\ \A q \in Payment \ {p} : pay'[q] = pay[q]
      /\ pay'[p].state \in {pay[p].state, new.state}
  BY <1>1, <1>2, <1>3, SaveEffect DEF Saves
<1>5. /\ invoice' \in [Payment -> InvoiceState]
      /\ \A q \in Payment : Collected(q)' <=> Collected(q)
      /\ invoice[p] = "REFUNDED" \/ new.state = "REFUNDED" => invoice'[p] = "REFUNDED"
      /\ \A q \in Payment \ {p} : invoice'[q] = invoice[q]
  BY <1>1, <1>2, <1>3 DEF TypeOK, InvoiceState, Collected
<1>6. TypeOK'
  BY <1>1, <1>4, <1>5, FinishType DEF TypeOK
<1>7. TopupCreditedExactly' /\ OrderFollowsInvoice'
  BY <1>1, <1>5 DEF IInv, TopupCreditedExactly, OrderFollowsInvoice
<1>8. SettledMeansInvoicePaid'
  BY <1>1, <1>2, <1>3, <1>4, <1>5 DEF IInv, SettledMeansInvoicePaid, Settled
<1>9. ReceiptBacked'
  BY <1>1, <1>2, <1>3, OwnReceipt, ReceiptsKept DEF IInv
<1>10. SnapshotsHold'
  BY <1>1, <1>5, FinishType, SnapshotsKept DEF IInv
<1>11. QED
  BY <1>6, <1>7, <1>8, <1>9, <1>10 DEF IInv

LEMMA QuietStep ==
  ASSUME IInv,
         \/ \E p \in Payment : WindowCloses(p) \/ ProviderAnswers(p)
         \/ \E t \in Tx : Abort(t)
         \/ UNCHANGED vars
  PROVE  IInv'
<1>1. TypeOK' /\ UNCHANGED rows /\ \A u \in Tx : txn'[u] \in {txn[u], Idle}
  <2>1. CASE \E p \in Payment : WindowCloses(p)
    BY <2>1 DEF WindowCloses, rows, IInv, TypeOK
  <2>2. CASE \E p \in Payment : ProviderAnswers(p)
    <3>1. PICK p \in Payment, answer \in [outcome : {"mismatch", "declined"}, amount : {0}]
                                         \cup [outcome : {"confirmed"}, amount : Arrivals] :
            /\ provider' = [provider EXCEPT ![p] = answer]
            /\ UNCHANGED <<rows, late, txn>>
      BY <2>2 DEF ProviderAnswers
    <3>2. answer \in [outcome : {"inconclusive", "mismatch", "declined", "confirmed"},
                      amount : Nat]
      <4>1. CASE answer \in [outcome : {"mismatch", "declined"}, amount : {0}]
        BY <4>1
      <4>2. CASE answer \in [outcome : {"confirmed"}, amount : Arrivals]
        BY <4>2, AmountAssumption
      <4>3. QED
        BY <3>1, <4>1, <4>2
    <3>3. QED
      BY <3>1, <3>2 DEF rows, IInv, TypeOK
  <2>3. CASE \E t \in Tx : Abort(t)
    BY <2>3, FinishType DEF Abort, rows, IInv, TypeOK
  <2>4. CASE UNCHANGED vars
    BY <2>4 DEF vars, rows, IInv, TypeOK
  <2>5. QED
    BY <2>1, <2>2, <2>3, <2>4
<1>2. SnapshotsHold'
  BY <1>1, SnapshotsKept DEF IInv, rows, Collected
<1>3. QED
  BY <1>1, <1>2 DEF IInv, rows, TopupCreditedExactly, SettledMeansInvoicePaid,
     OrderFollowsInvoice, ReceiptBacked, Collected

LEMMA InvariantInit == Init => IInv
<1> SUFFICES ASSUME Init PROVE IInv
  OBVIOUS
<1>1. \A p \in Payment : invoice[p] = "ABSENT" /\ pay[p] = NoRow
  BY DEF Init
<1>2. TopupCreditedExactly
  <2>1. Topup \subseteq Payment
    BY TopupAssumption
  <2>2. QED
    BY <1>1, <2>1 DEF Init, TopupCreditedExactly, Collected
<1>3. SettledMeansInvoicePaid /\ OrderFollowsInvoice /\ ReceiptBacked
  BY <1>1 DEF Init, NoRow, SettledMeansInvoicePaid, OrderFollowsInvoice, ReceiptBacked, Settled
<1>4. SnapshotsHold
  BY DEF Init, SnapshotsHold
<1>5. QED
  BY <1>2, <1>3, <1>4, TypeInit DEF IInv

LEMMA InvariantStep == IInv /\ [Next]_vars => IInv'
<1> SUFFICES ASSUME IInv, [Next]_vars PROVE IInv'
  OBVIOUS
<1>1. CASE \E p \in Payment : PlaceOrder(p) \/ Begin(p)
  BY <1>1, StartStep
<1>2. CASE \E t \in Tx, handler \in Handler, p \in Payment : Read(t, handler, p)
  BY <1>2, ReadStep
<1>3. CASE \E t \in Tx : Commit(t)
  <2>1. PICK t \in Tx : Commit(t)
    BY <1>3
  <2>2. CASE Approve(t) \/ VerifyConfirmed(t)
    BY <2>2, SettlingStep
  <2>3. CASE Undecided(t)
    BY <2>3, UndecidedStep
  <2>4. CASE Refund(t)
    BY <2>4, RefundStep
  <2>5. QED
    BY <2>1, <2>2, <2>3, <2>4 DEF Commit, Undecided
<1>4. CASE \/ \E p \in Payment : WindowCloses(p) \/ ProviderAnswers(p)
           \/ \E t \in Tx : Abort(t)
           \/ UNCHANGED vars
  BY <1>4, QuietStep
<1>5. CASE \E t \in Tx : ReadInvoice(t)
  BY <1>5, ReadInvoiceStep
<1>6. QED
  BY <1>1, <1>2, <1>3, <1>4, <1>5 DEF Next

-----------------------------------------------------------------------------
(* Theorems *)

\* Whatever the requests do and however they overlap, the five facts the rows
\* keep about one another hold, with what every open snapshot may rely on.
THEOREM Invariance == Spec => []IInv
  BY InvariantInit, InvariantStep, PTL DEF Spec

\* Every row, counter and snapshot keeps its declared shape.
THEOREM TypeCorrect == Spec => []TypeOK
<1>1. IInv => TypeOK
  BY DEF IInv
<1>2. QED
  BY <1>1, Invariance, PTL

\* A top-up is credited once when its invoice is settled, and never without
\* it, for any number of reviewers and sweeps working on it at once.
THEOREM TopupsExact == Spec => []TopupCreditedExactly
<1>1. IInv => TopupCreditedExactly
  BY DEF IInv
<1>2. QED
  BY <1>1, Invariance, PTL

\* The payment row and the invoice row never disagree on a settlement.
THEOREM RowsAgree == Spec => []SettledMeansInvoicePaid
<1>1. IInv => SettledMeansInvoicePaid
  BY DEF IInv
<1>2. QED
  BY <1>1, Invariance, PTL

\* No order is handed to provisioning before its invoice is settled.
THEOREM NothingForFree == Spec => []OrderFollowsInvoice
<1>1. IInv => OrderFollowsInvoice
  BY DEF IInv
<1>2. QED
  BY <1>1, Invariance, PTL

\* One receipt never backs two payments: both would be the one that claimed it.
THEOREM ReceiptsAreUsedOnce == Spec => []ReceiptUsedOnce
<1>1. IInv => ReceiptUsedOnce
  BY DEF IInv, ReceiptBacked, ReceiptUsedOnce
<1>2. QED
  BY <1>1, Invariance, PTL

\* No commit, on whatever stale snapshot, takes a paid order back: only a
\* pending order is released, and the order is read after the payment's row
\* is written.
THEOREM PaidOrdersStayPaid == Spec => PaidOrderStaysPaid
<1> DEFINE StaysPaid == \A p \in Payment : order[p] = "PAID" => order'[p] = "PAID"
<1>1. TypeOK /\ [Next]_vars => [StaysPaid]_vars
  <2> SUFFICES ASSUME TypeOK, Next PROVE StaysPaid
    OBVIOUS
  <2>1. CASE \E p \in Payment : PlaceOrder(p) \/ Begin(p) \/ WindowCloses(p) \/ ProviderAnswers(p)
    BY <2>1 DEF PlaceOrder, Begin, BeginByProof, BeginAtGateway, BeginSettled, WindowCloses,
                ProviderAnswers, rows, TypeOK
  <2>2. CASE \E t \in Tx, handler \in Handler, p \in Payment : Read(t, handler, p)
    BY <2>2 DEF Read, rows
  <2>3. ASSUME NEW t \in Tx, Commit(t) PROVE StaysPaid
    <3>1. CASE Approve(t) \/ VerifyConfirmed(t)
      <4>1. MarkOrderPaid(txn[t].payment)
        BY <3>1 DEF Approve, VerifyConfirmed, Settle
      <4>2. QED
        BY <4>1 DEF MarkOrderPaid, TypeOK
    <3>2. CASE Undecided(t)
      BY <3>2, UndecidedEffect
    <3>3. CASE Refund(t)
      BY <3>3 DEF Refund
    <3>4. QED
      BY <2>3, <3>1, <3>2, <3>3 DEF Commit, Undecided
  <2>4. CASE \E t \in Tx : ReadInvoice(t) \/ Abort(t)
    BY <2>4 DEF ReadInvoice, Abort, rows
  <2>5. QED
    BY <2>1, <2>2, <2>3, <2>4 DEF Next
<1>2. QED
  BY <1>1, TypeCorrect, PTL DEF Spec, PaidOrderStaysPaid

-----------------------------------------------------------------------------
(* Requests that take turns *)

\* No two open requests work on one payment of S.  Requests on other payments,
\* and on different ones, may overlap in any way.
InTurn(S) ==
  \A t, u \in Tx : t # u /\ txn[t] # Idle /\ txn[u] # Idle /\ txn[t].payment \in S
                     => txn[t].payment # txn[u].payment

OnePerPayment == InTurn(Payment)

\* What the rows of one payment say, phase by phase.
PhaseHolds(p) ==
  /\ pay[p].state = "ABSENT" =>
       invoice[p] = "ABSENT" /\ order[p] \in {"ABSENT", "PENDING"}
  /\ pay[p].state # "ABSENT" =>
       invoice[p] # "ABSENT" /\ (p \notin Topup => order[p] # "ABSENT")
  /\ pay[p].state \in Waiting =>
       total[p] > 0 /\ (p \notin Topup => order[p] = "PENDING")
  /\ IF pay[p].state \in Settled \cup {"REFUNDED"}
     THEN /\ refunded[p] <= pay[p].captured
          /\ approvals[p] > 0
          /\ p \notin Topup => order[p] = "PAID"
     ELSE pay[p].captured = 0 /\ refunded[p] = 0 /\ approvals[p] = 0

\* When requests take turns an open one holds the payment as it is, in a state
\* its handler accepts.
SnapshotCurrent(t) ==
  LET p == txn[t].payment IN
  /\ txn[t].row = pay[p] /\ txn[t].refunded = refunded[p]
  /\ pay[p].state \in IF txn[t].handler = "refund" THEN Settled ELSE Waiting

TurnInv(S) ==
  /\ \A p \in S : PhaseHolds(p)
  /\ \A p \in S \cap Topup : order[p] = "ABSENT"
  /\ \A t \in Tx : txn[t] # Idle /\ txn[t].payment \in S => SnapshotCurrent(t)

LEMMA StatesApart ==
  /\ "ABSENT" \notin Waiting \cup Settled \cup Terminal
  /\ Waiting \cap (Settled \cup Terminal) = {}
  /\ Settled \cap Terminal = {}
  /\ "REFUNDED" \in Terminal /\ "APPROVED" \in Settled
  BY DEF Waiting, Settled, Terminal

LEMMA AdmittedStates ==
  ASSUME NEW handler \in Handler, NEW p \in Payment, NEW row \in Row, NEW returned \in Nat,
         Admits(handler, p, row, returned)
  PROVE  row.state \in IF handler = "refund" THEN Settled ELSE Waiting
  BY DEF Admits, Handler, CanMove, Transition, Deciding, Returning, Waiting, Settled

\* On a current snapshot the patch and the copy are the same row.
LEMMA CurrentSave ==
  ASSUME TypeOK, NEW p \in Payment, NEW new \in Row, Save(p, pay[p], new)
  PROVE  pay' = [pay EXCEPT ![p] = new]
<1>1. pay[p] \in Row
  BY DEF TypeOK
<1>2. Patch(pay[p], pay[p], new) = new
  BY <1>1 DEF Patch, Keep, Row
<1>3. QED
  BY <1>2 DEF Save

\* A settlement, of money that did arrive.
LEMMA SellingTurn ==
  ASSUME NEW S \in SUBSET Payment, IInv, TurnInv(S), NEW t \in Tx, txn[t].payment \in S,
         Approve(t) \/ VerifyConfirmed(t)
  PROVE  \E p \in Payment, arrived \in Nat \ {0} :
           /\ txn[t] # Idle /\ p = txn[t].payment /\ Finish(t)
           /\ pay[p].state \in Waiting
           /\ pay' = [pay EXCEPT ![p] = Approved(pay[p], arrived)]
           /\ MarkOrderPaid(p)
           /\ approvals' = [approvals EXCEPT ![p] = @ + 1]
           /\ UNCHANGED <<refunded, total>>
<1>1. TypeOK /\ txn[t] # Idle
  BY ApproveEffect DEF IInv
<1>2. PICK p \in Payment : p = txn[t].payment
  BY <1>1, RequestShape
<1>3. PICK arrived \in Nat : /\ Settle(t, p, arrived)
                             /\ Saves(p, txn[t].row, Approved(txn[t].row, arrived))
  BY <1>1, <1>2, ApproveEffect
<1>4. txn[t].row = pay[p] /\ PhaseHolds(p)
  BY <1>1, <1>2 DEF TurnInv, SnapshotCurrent
<1>5. pay[p].state \in Waiting
  BY <1>1, <1>2 DEF TurnInv, SnapshotCurrent, Approve, VerifyConfirmed, Runs
<1>6. total[p] > 0 /\ total[p] \in Nat
  BY <1>1, <1>4, <1>5 DEF PhaseHolds, TypeOK
<1>7. arrived \in Nat \ {0}
  BY <1>3, <1>6 DEF Settle
<1>8. pay' = [pay EXCEPT ![p] = Approved(pay[p], arrived)]
  BY <1>1, <1>3, <1>4, CurrentSave DEF Saves
<1>9. QED
  BY <1>1, <1>2, <1>3, <1>5, <1>7, <1>8 DEF Settle

\* A payment that moves while it waits, or is given up and its order released.
LEMMA WaitingTurn ==
  ASSUME NEW S \in SUBSET Payment, IInv, TurnInv(S), NEW t \in Tx, txn[t].payment \in S,
         Undecided(t)
  PROVE  \E p \in Payment, new \in Row :
           /\ txn[t] # Idle /\ p = txn[t].payment /\ Finish(t)
           /\ pay[p].state \in Waiting
           /\ pay' = [pay EXCEPT ![p] = new] /\ new.captured = pay[p].captured
           /\ \/ new.state \in Waiting /\ UNCHANGED order
              \/ new.state \in {"REJECTED", "FAILED"} /\ Release(p)
           /\ UNCHANGED <<refunded, invoice, total, approvals>>
<1>1. TypeOK /\ txn[t] # Idle /\ Finish(t)
      /\ UNCHANGED <<refunded, invoice, total, approvals>>
  BY UndecidedEffect DEF IInv
<1>2. PICK p \in Payment : p = txn[t].payment
  BY <1>1, RequestShape
<1>3. txn[t].row = pay[p] /\ pay[p] \in Row
  BY <1>1, <1>2 DEF TurnInv, SnapshotCurrent, TypeOK
<1>4. pay[p].state \in Waiting
  BY <1>1, <1>2 DEF TurnInv, SnapshotCurrent, Undecided, Reject, RequestBetterProof,
                    SubmitProof, VerifyEscalated, VerifyDeclined, Runs
<1>5. \A state \in PaymentState, d \in Digest \cup {None} :
        /\ Moved(pay[p], state) \in Row
        /\ Moved(pay[p], state).state = state
        /\ Moved(pay[p], state).captured = pay[p].captured
        /\ WithProof(pay[p], state, d) \in Row
        /\ WithProof(pay[p], state, d).state = state
        /\ WithProof(pay[p], state, d).captured = pay[p].captured
  BY <1>3 DEF Moved, WithProof, Row
<1>6. {"REJECTED", "FAILED", "AWAITING_PROOF", "PENDING_REVIEW"} \subseteq PaymentState
      /\ {"AWAITING_PROOF", "PENDING_REVIEW"} \subseteq Waiting
  BY DEF PaymentState, Waiting, Terminal
<1>7. PICK new \in Row :
        /\ Save(p, pay[p], new) /\ new.captured = pay[p].captured
        /\ \/ new.state \in Waiting /\ UNCHANGED order
           \/ new.state \in {"REJECTED", "FAILED"} /\ Release(p)
  <2>1. CASE Reject(t) \/ VerifyDeclined(t)
    BY <1>2, <1>3, <1>5, <1>6, <2>1 DEF Reject, VerifyDeclined
  <2>2. CASE RequestBetterProof(t)
    BY <1>2, <1>3, <1>5, <1>6, <2>2 DEF RequestBetterProof
  <2>3. CASE SubmitProof(t)
    BY <1>2, <1>3, <1>5, <1>6, <2>3 DEF SubmitProof
  <2>4. CASE VerifyEscalated(t)
    BY <1>2, <1>3, <1>5, <1>6, <2>4 DEF VerifyEscalated
  <2>5. QED
    BY <2>1, <2>2, <2>3, <2>4 DEF Undecided
<1>8. pay' = [pay EXCEPT ![p] = new]
  BY <1>1, <1>7, CurrentSave
<1>9. QED
  BY <1>1, <1>2, <1>4, <1>7, <1>8

\* A refund of part or all of what is left.
LEMMA ReturningTurn ==
  ASSUME NEW S \in SUBSET Payment, IInv, TurnInv(S), NEW t \in Tx, txn[t].payment \in S,
         Refund(t)
  PROVE  \E p \in Payment, amount \in Nat \ {0}, state \in {"REFUNDED", "PARTIALLY_REFUNDED"} :
           /\ txn[t] # Idle /\ p = txn[t].payment /\ Finish(t)
           /\ pay[p].state \in Settled
           /\ pay' = [pay EXCEPT ![p] = Moved(pay[p], state)]
           /\ refunded[p] + amount <= pay[p].captured
           /\ refunded' = [refunded EXCEPT ![p] = @ + amount]
           /\ UNCHANGED <<total, order, approvals>>
<1>1. TypeOK /\ txn[t] # Idle /\ txn[t].handler = "refund" /\ Finish(t)
      /\ UNCHANGED <<total, order, approvals>>
  BY RefundEffect DEF IInv
<1>2. PICK p \in Payment : p = txn[t].payment
  BY <1>1, RequestShape
<1>3. /\ txn[t].row = pay[p] /\ txn[t].refunded = refunded[p]
      /\ pay[p] \in Row /\ refunded[p] \in Nat
      /\ pay[p].state \in Settled
  BY <1>1, <1>2 DEF TurnInv, SnapshotCurrent, TypeOK
<1> DEFINE left == pay[p].captured - refunded[p]
<1>4. PICK amount \in 1 .. left :
        /\ Save(p, pay[p], Moved(pay[p], IF amount = left THEN "REFUNDED"
                                         ELSE "PARTIALLY_REFUNDED"))
        /\ refunded' = [refunded EXCEPT ![p] = @ + amount]
  BY <1>2, <1>3 DEF Refund, Refundable
<1>5. amount \in Nat \ {0} /\ refunded[p] + amount <= pay[p].captured
  BY <1>3 DEF Row
<1>6. PICK state \in {"REFUNDED", "PARTIALLY_REFUNDED"} : Save(p, pay[p], Moved(pay[p], state))
  BY <1>4
<1>7. Moved(pay[p], state) \in Row
  BY <1>3 DEF Moved, Row, PaymentState, Settled, Terminal
<1>8. pay' = [pay EXCEPT ![p] = Moved(pay[p], state)]
  BY <1>1, <1>6, <1>7, CurrentSave
<1>9. QED
  BY <1>1, <1>2, <1>3, <1>4, <1>5, <1>8

\* A step on the rows of one payment leaves the rest of the invariant alone.
LEMMA OthersKept ==
  ASSUME NEW S \in SUBSET Payment, TypeOK, TypeOK', TurnInv(S), NEW p \in Payment,
         \A q \in Payment \ {p} :
           /\ pay'[q] = pay[q] /\ invoice'[q] = invoice[q] /\ total'[q] = total[q]
           /\ order'[q] = order[q] /\ refunded'[q] = refunded[q]
           /\ approvals'[q] = approvals[q],
         \A u \in Tx : txn'[u] # Idle => txn'[u] = txn[u] /\ (p \in S => txn[u].payment # p),
         p \in S => PhaseHolds(p)' /\ (p \in Topup => order'[p] = order[p])
  PROVE  TurnInv(S)'
<1>1. \A q \in S \ {p} : PhaseHolds(q)'
  BY DEF TurnInv, PhaseHolds
<1>2. \A q \in S \cap Topup : order'[q] = "ABSENT"
  BY DEF TurnInv
<1>3. ASSUME NEW u \in Tx, txn'[u] # Idle, txn'[u].payment \in S
      PROVE  SnapshotCurrent(u)'
  <2>1. txn'[u] = txn[u] /\ txn[u] # Idle /\ txn[u].payment \in S \ {p}
    BY <1>3
  <2>2. SnapshotCurrent(u)
    BY <2>1 DEF TurnInv
  <2>3. QED
    BY <2>1, <2>2 DEF SnapshotCurrent
<1>4. QED
  BY <1>1, <1>2, <1>3 DEF TurnInv

LEMMA StartTurn ==
  ASSUME NEW S \in SUBSET Payment, IInv, TurnInv(S), NEW p \in S, PlaceOrder(p) \/ Begin(p)
  PROVE  /\ pay[p].state = "ABSENT" /\ refunded' = refunded /\ refunded[p] = 0
         /\ approvals[p] = 0
         /\ \A q \in Payment \ {p} : /\ pay'[q] = pay[q] /\ order'[q] = order[q]
                                     /\ approvals'[q] = approvals[q]
         /\ \/ /\ p \notin Topup /\ order[p] = "ABSENT" /\ order'[p] = "PENDING"
               /\ pay' = pay
            \/ /\ p \notin Topup => order[p] = "PENDING"
               /\ pay'[p].state \in Waiting /\ pay'[p].captured = 0
               /\ order' = order
            \/ /\ p \notin Topup /\ order[p] = "PENDING" /\ order'[p] = "PAID"
               /\ pay'[p].state = "APPROVED" /\ pay'[p].captured > 0
         /\ TurnInv(S)'
<1>1. TypeOK /\ TypeOK' /\ PhaseHolds(p) /\ pay[p] \in Row
  BY StartStep DEF IInv, TurnInv, TypeOK
<1>2. CASE PlaceOrder(p)
  <2>1. /\ pay[p].state = "ABSENT" /\ p \notin Topup /\ order[p] = "ABSENT"
        /\ order' = [order EXCEPT ![p] = "PENDING"]
        /\ UNCHANGED <<pay, refunded, invoice, total, approvals, txn>>
    BY <1>1, <1>2 DEF PlaceOrder, PhaseHolds, Row, PaymentState, Settled, Terminal
  <2>2. order'[p] = "PENDING" /\ \A q \in Payment \ {p} : order'[q] = order[q]
    BY <1>1, <2>1 DEF TypeOK
  <2>3. PhaseHolds(p)'
    BY <1>1, <2>1, <2>2, StatesApart DEF PhaseHolds
  <2>4. \A u \in Tx : txn'[u] # Idle => txn'[u] = txn[u] /\ txn[u].payment # p
    BY <2>1, StatesApart DEF TurnInv, SnapshotCurrent
  <2>5. TurnInv(S)'
    BY <1>1, <2>1, <2>2, <2>3, <2>4, OthersKept
  <2>6. QED
    BY <1>1, <2>1, <2>2, <2>5, StatesApart DEF PhaseHolds
<1>3. CASE Begin(p)
  <2>1. PICK state \in {"AWAITING_PROOF", "PENDING_GATEWAY", "APPROVED"}, amount \in Nat :
          /\ BeginCheckout(p, state, amount)
          /\ IF state = "APPROVED"
             THEN /\ p \notin Topup
                  /\ order' = [order EXCEPT ![p] = "PAID"]
                  /\ approvals' = [approvals EXCEPT ![p] = @ + 1]
             ELSE amount > 0 /\ UNCHANGED <<order, approvals>>
    <3>1. CASE BeginByProof(p)
      <4>1. PICK extra \in Remainder(p) :
              BeginCheckout(p, "AWAITING_PROOF", Price[p] + extra)
        BY <3>1 DEF BeginByProof
      <4>2. Price[p] + extra \in Nat /\ Price[p] + extra > 0
        BY <3>1 DEF Remainder, BeginByProof
      <4>3. QED
        BY <3>1, <4>1, <4>2 DEF BeginByProof
    <3>2. CASE BeginAtGateway(p)
      BY <3>2 DEF BeginAtGateway
    <3>3. CASE BeginSettled(p)
      BY <3>3 DEF BeginSettled
    <3>4. QED
      BY <1>3, <3>1, <3>2, <3>3 DEF Begin
  <2>2. /\ invoice[p] = "ABSENT" /\ pay' \in [Payment -> Row]
        /\ pay'[p].state = state
        /\ invoice'[p] # "ABSENT"
        /\ \A q \in Payment \ {p} : /\ pay'[q] = pay[q] /\ invoice'[q] = invoice[q]
                                    /\ total'[q] = total[q]
        /\ UNCHANGED <<refunded, credits, claimed, late, provider, txn>>
    BY <1>1, <2>1, BeginEffect
  <2>3. /\ total'[p] = amount
        /\ pay'[p].captured = IF state # "APPROVED" THEN 0 ELSE IF amount = 0 THEN 1 ELSE amount
        /\ p \notin Topup => order[p] = "PENDING"
    BY <1>1, <2>1 DEF BeginCheckout, TypeOK
  <2>4. pay[p].state = "ABSENT" /\ refunded[p] = 0 /\ approvals[p] = 0
    BY <1>1, <2>2, StatesApart DEF PhaseHolds
  <2>5. /\ \A q \in Payment \ {p} : order'[q] = order[q] /\ approvals'[q] = approvals[q]
        /\ IF state = "APPROVED" THEN order'[p] = "PAID" /\ approvals'[p] = 1
           ELSE order' = order /\ approvals' = approvals
    BY <1>1, <2>1, <2>4 DEF TypeOK
  <2>6. state = "APPROVED" \/ state \in Waiting
    BY DEF Waiting
  <2>7. PhaseHolds(p)'
    <3>1. CASE state = "APPROVED"
      BY <2>1, <2>2, <2>3, <2>4, <2>5, <3>1, StatesApart DEF PhaseHolds
    <3>2. CASE state \in Waiting
      BY <2>1, <2>2, <2>3, <2>4, <2>5, <3>2, StatesApart DEF PhaseHolds
    <3>3. QED
      BY <2>6, <3>1, <3>2
  <2>8. \A u \in Tx : txn'[u] # Idle => txn'[u] = txn[u] /\ txn[u].payment # p
    BY <2>2, <2>4, StatesApart DEF TurnInv, SnapshotCurrent
  <2>9. TurnInv(S)'
    BY <1>1, <2>1, <2>2, <2>5, <2>7, <2>8, StatesApart, OthersKept
  <2>10. QED
    BY <2>1, <2>2, <2>3, <2>4, <2>5, <2>6, <2>9, StatesApart
<1>4. QED
  BY <1>2, <1>3

\* A checkout, and the commit of a request, write the rows of one payment.
LEMMA StartReach ==
  ASSUME TypeOK, NEW p \in Payment, PlaceOrder(p) \/ Begin(p)
  PROVE  /\ txn' = txn
         /\ \A q \in Payment \ {p} :
              /\ pay'[q] = pay[q] /\ invoice'[q] = invoice[q] /\ total'[q] = total[q]
              /\ order'[q] = order[q] /\ refunded'[q] = refunded[q]
              /\ approvals'[q] = approvals[q]
<1>1. CASE PlaceOrder(p)
  BY <1>1 DEF PlaceOrder, TypeOK
<1>2. CASE Begin(p)
  <2>1. \E state \in {"AWAITING_PROOF", "PENDING_GATEWAY", "APPROVED"}, amount \in Nat :
          BeginCheckout(p, state, amount)
    BY <1>2, PriceAssumption DEF Begin, BeginByProof, BeginAtGateway, BeginSettled, Remainder
  <2>2. /\ txn' = txn /\ refunded' = refunded
        /\ \A q \in Payment \ {p} : /\ pay'[q] = pay[q] /\ invoice'[q] = invoice[q]
                                    /\ total'[q] = total[q]
    BY <2>1, BeginEffect
  <2>3. \A q \in Payment \ {p} : order'[q] = order[q] /\ approvals'[q] = approvals[q]
    BY <1>2 DEF Begin, BeginByProof, BeginAtGateway, BeginSettled, TypeOK
  <2>4. QED
    BY <2>2, <2>3
<1>3. QED
  BY <1>1, <1>2

LEMMA CommitReach ==
  ASSUME TypeOK, NEW t \in Tx, Commit(t)
  PROVE  /\ txn[t] # Idle /\ txn' = [txn EXCEPT ![t] = Idle]
         /\ \A q \in Payment \ {txn[t].payment} :
              /\ pay'[q] = pay[q] /\ invoice'[q] = invoice[q] /\ total'[q] = total[q]
              /\ order'[q] = order[q] /\ refunded'[q] = refunded[q]
              /\ approvals'[q] = approvals[q]
<1> DEFINE p == txn[t].payment
<1>1. CASE Approve(t) \/ VerifyConfirmed(t)
  <2>1. txn[t] # Idle /\ p \in Payment
    BY <1>1, ApproveEffect, RequestShape
  <2>2. PICK arrived \in Nat : /\ Settle(t, p, arrived)
                               /\ Saves(p, txn[t].row, Approved(txn[t].row, arrived))
    BY <1>1, ApproveEffect
  <2>3. /\ Finish(t) /\ UNCHANGED <<refunded, total>>
        /\ approvals' = [approvals EXCEPT ![p] = @ + 1]
    BY <1>1, <2>2 DEF Settle, Approve, VerifyConfirmed
  <2>4. \A q \in Payment \ {p} : pay'[q] = pay[q]
    BY <2>1, <2>2, SaveEffect DEF Saves
  <2>5. \A q \in Payment \ {p} : invoice'[q] = invoice[q] /\ order'[q] = order[q]
    BY <2>1, <2>2, SettleEffect
  <2>6. QED
    BY <2>1, <2>3, <2>4, <2>5 DEF TypeOK, Finish
<1>2. CASE Undecided(t)
  <2>1. txn[t] # Idle /\ Finish(t) /\ UNCHANGED <<refunded, invoice, total, approvals>>
    BY <1>2, UndecidedEffect
  <2>2. \A q \in Payment \ {p} : pay'[q] = pay[q]
    BY <1>2, <2>1, UndecidedEffect, RequestShape, SaveEffect DEF Saves
  <2>3. order' = order \/ Release(p)
    BY <1>2 DEF Undecided, Reject, RequestBetterProof, SubmitProof, VerifyEscalated, VerifyDeclined
  <2>4. \A q \in Payment \ {p} : order'[q] = order[q]
    BY <2>3 DEF Release, TypeOK
  <2>5. QED
    BY <2>1, <2>2, <2>4 DEF Finish
<1>3. CASE Refund(t)
  <2>1. txn[t] # Idle /\ Finish(t) /\ UNCHANGED <<total, order, approvals>>
    BY <1>3, RefundEffect
  <2>2. \A q \in Payment \ {p} : pay'[q] = pay[q] /\ invoice'[q] = invoice[q]
    <3>1. PICK new \in Row :
            /\ Saves(p, txn[t].row, new)
            /\ invoice' = invoice \/ invoice' = [invoice EXCEPT ![p] = "REFUNDED"]
      BY <1>3, RefundEffect
    <3>2. \A q \in Payment \ {p} : pay'[q] = pay[q]
      BY <2>1, <3>1, RequestShape, SaveEffect DEF Saves
    <3>3. QED
      BY <3>1, <3>2 DEF TypeOK
  <2>3. \A q \in Payment \ {p} : refunded'[q] = refunded[q]
    BY <1>3 DEF Refund, TypeOK
  <2>4. QED
    BY <2>1, <2>2, <2>3 DEF Finish
<1>4. QED
  BY <1>1, <1>2, <1>3 DEF Commit, Undecided

\* After the commit of a request nobody else holds its payment.
LEMMA AloneOn ==
  ASSUME NEW S \in SUBSET Payment, TypeOK, InTurn(S), NEW t \in Tx, txn[t] # Idle,
         txn[t].payment \in S, Finish(t)
  PROVE  \A u \in Tx : txn'[u] # Idle => txn'[u] = txn[u] /\ txn[u].payment # txn[t].payment
  BY FinishType DEF InTurn

LEMMA CommitTurn ==
  ASSUME NEW S \in SUBSET Payment, IInv, TurnInv(S), InTurn(S), NEW t \in Tx, Commit(t),
         txn[t].payment \in S
  PROVE  TurnInv(S)'
<1>1. TypeOK /\ TypeOK'
  BY SettlingStep, UndecidedStep, RefundStep DEF IInv, Commit, Undecided
<1>2. CASE Approve(t) \/ VerifyConfirmed(t)
  <2>1. PICK p \in Payment, arrived \in Nat \ {0} :
          /\ txn[t] # Idle /\ p = txn[t].payment /\ Finish(t)
          /\ pay[p].state \in Waiting
          /\ pay' = [pay EXCEPT ![p] = Approved(pay[p], arrived)]
          /\ MarkOrderPaid(p)
          /\ approvals' = [approvals EXCEPT ![p] = @ + 1]
          /\ UNCHANGED <<refunded, total>>
    BY <1>2, SellingTurn
  <2>2. \A q \in Payment \ {p} : invoice'[q] = invoice[q]
    BY <1>1, <1>2, <2>1, ApproveEffect, SettleEffect
  <2>3. PhaseHolds(p) /\ pay[p] \in Row /\ approvals[p] \in Nat /\ refunded[p] \in Nat
    BY <1>1, <2>1 DEF TurnInv, TypeOK
  <2>4. pay'[p].state = "APPROVED" /\ pay'[p].captured = arrived
    BY <1>1, <2>1, <2>3 DEF TypeOK, Approved, Row
  <2>5. /\ approvals'[p] > 0
        /\ order'[p] = IF order[p] = "PENDING" THEN "PAID" ELSE order[p]
        /\ \A q \in Payment \ {p} : order'[q] = order[q] /\ approvals'[q] = approvals[q]
    BY <1>1, <2>1, <2>3 DEF TypeOK, MarkOrderPaid
  <2>6. invoice'[p] # "ABSENT"
    BY <1>2, SettlingStep, <2>4, StatesApart DEF IInv, SettledMeansInvoicePaid, Collected
  <2>7. PhaseHolds(p)'
    BY <2>1, <2>3, <2>4, <2>5, <2>6, StatesApart DEF PhaseHolds
  <2>8. p \in Topup => order'[p] = order[p]
    BY <2>1, <2>5 DEF TurnInv
  <2>9. \A q \in Payment \ {p} : pay'[q] = pay[q] /\ refunded'[q] = refunded[q] /\ total'[q] = total[q]
    BY <1>1, <2>1 DEF TypeOK
  <2>10. QED
    BY <1>1, <2>1, <2>2, <2>5, <2>7, <2>8, <2>9, AloneOn, OthersKept
<1>3. CASE Undecided(t)
  <2>1. PICK p \in Payment, new \in Row :
          /\ txn[t] # Idle /\ p = txn[t].payment /\ Finish(t)
          /\ pay[p].state \in Waiting
          /\ pay' = [pay EXCEPT ![p] = new] /\ new.captured = pay[p].captured
          /\ \/ new.state \in Waiting /\ UNCHANGED order
             \/ new.state \in {"REJECTED", "FAILED"} /\ Release(p)
          /\ UNCHANGED <<refunded, invoice, total, approvals>>
    BY <1>3, WaitingTurn
  <2>2. p \in Topup => order[p] = "ABSENT"
    BY <2>1 DEF TurnInv
  <2>3. pay'[p] = new /\ \A q \in Payment \ {p} : pay'[q] = pay[q] /\ order'[q] = order[q]
    BY <1>1, <2>1 DEF TypeOK, Release
  <2>4. p \in Topup => order'[p] = order[p]
    BY <1>1, <2>1, <2>2 DEF TypeOK, Release
  <2>5. PhaseHolds(p)'
    <3>1. PhaseHolds(p)
      BY <2>1 DEF TurnInv
    <3>2. invoice[p] # "ABSENT" /\ total[p] > 0 /\ pay[p].captured = 0 /\ refunded[p] = 0
          /\ approvals[p] = 0 /\ (p \notin Topup => order[p] = "PENDING")
      BY <2>1, <3>1, StatesApart DEF PhaseHolds
    <3>3. CASE new.state \in Waiting /\ UNCHANGED order
      BY <2>1, <2>3, <3>2, <3>3, StatesApart DEF PhaseHolds
    <3>4. CASE new.state \in {"REJECTED", "FAILED"} /\ Release(p)
      <4>1. p \notin Topup => order'[p] = "CANCELLED"
        BY <1>1, <2>1, <3>2, <3>4 DEF TypeOK, Release
      <4>2. QED
        BY <4>1, <2>1, <2>3, <3>2, <3>4, StatesApart DEF PhaseHolds, Waiting, Settled
    <3>5. QED
      BY <2>1, <3>3, <3>4
  <2>6. QED
    BY <1>1, <2>1, <2>3, <2>4, <2>5, AloneOn, OthersKept
<1>4. CASE Refund(t)
  <2>1. PICK p \in Payment, amount \in Nat \ {0}, state \in {"REFUNDED", "PARTIALLY_REFUNDED"} :
           /\ txn[t] # Idle /\ p = txn[t].payment /\ Finish(t)
           /\ pay[p].state \in Settled
           /\ pay' = [pay EXCEPT ![p] = Moved(pay[p], state)]
           /\ refunded[p] + amount <= pay[p].captured
           /\ refunded' = [refunded EXCEPT ![p] = @ + amount]
           /\ UNCHANGED <<total, order, approvals>>
    BY <1>4, ReturningTurn
  <2>2. \A q \in Payment \ {p} : invoice'[q] = invoice[q]
    BY <1>1, <1>4, <2>1, RefundEffect DEF TypeOK
  <2>3. PhaseHolds(p) /\ pay[p] \in Row /\ refunded[p] \in Nat
    BY <1>1, <2>1 DEF TurnInv, TypeOK
  <2>4. /\ pay'[p].state = state /\ pay'[p].captured = pay[p].captured
        /\ refunded'[p] = refunded[p] + amount
        /\ \A q \in Payment \ {p} : pay'[q] = pay[q] /\ refunded'[q] = refunded[q]
    BY <1>1, <2>1, <2>3 DEF TypeOK, Moved, Row
  <2>5. state \in Settled \cup {"REFUNDED"}
    BY DEF Settled
  <2>6. invoice'[p] # "ABSENT"
    BY <1>4, RefundStep, <2>4, <2>5 DEF IInv, SettledMeansInvoicePaid, Collected
  <2>7. PhaseHolds(p)'
    BY <2>1, <2>3, <2>4, <2>5, <2>6, StatesApart DEF PhaseHolds
  <2>8. QED
    BY <1>1, <2>1, <2>2, <2>4, <2>7, AloneOn, OthersKept
<1>5. QED
  BY <1>2, <1>3, <1>4 DEF Commit, Undecided

LEMMA TurnInit == ASSUME NEW S \in SUBSET Payment, Init PROVE TurnInv(S)
  BY StatesApart DEF Init, TurnInv, PhaseHolds, NoRow, SnapshotCurrent

\* A step that writes no row and leaves each request alone, done, or with the
\* rows as they are.
LEMMA TurnAside ==
  ASSUME NEW S \in SUBSET Payment, TurnInv(S), UNCHANGED rows,
         \A u \in Tx : \/ txn'[u] = txn[u] \/ txn'[u] = Idle \/ SnapshotCurrent(u)'
                      \/ txn'[u].payment \notin S
  PROVE  TurnInv(S)'
<1>1. pay' = pay /\ refunded' = refunded /\ invoice' = invoice /\ total' = total
      /\ order' = order /\ approvals' = approvals
  BY DEF rows
<1>2. \A p \in S : PhaseHolds(p)'
  BY <1>1 DEF TurnInv, PhaseHolds
<1>3. \A p \in S \cap Topup : order'[p] = "ABSENT"
  BY <1>1 DEF TurnInv
<1>4. ASSUME NEW u \in Tx, txn'[u] # Idle, txn'[u].payment \in S
      PROVE  SnapshotCurrent(u)'
  <2>1. CASE txn'[u] = txn[u]
    <3>1. SnapshotCurrent(u)
      BY <1>4, <2>1 DEF TurnInv
    <3>2. QED
      BY <1>1, <2>1, <3>1 DEF SnapshotCurrent
  <2>2. QED
    BY <1>4, <2>1
<1>5. QED
  BY <1>2, <1>3, <1>4 DEF TurnInv

LEMMA TurnStep ==
  ASSUME NEW S \in SUBSET Payment, IInv, TurnInv(S), InTurn(S), [Next]_vars
  PROVE  TurnInv(S)'
<1>1. TypeOK /\ TypeOK'
  BY InvariantStep DEF IInv
<1>2. ASSUME NEW p \in Payment, PlaceOrder(p) \/ Begin(p)
      PROVE  TurnInv(S)'
  <2>1. CASE p \in S
    BY <1>2, <2>1, StartTurn
  <2>2. CASE p \notin S
    BY <1>1, <1>2, <2>2, StartReach, OthersKept
  <2>3. QED
    BY <2>1, <2>2
<1>3. ASSUME NEW t \in Tx, NEW handler \in Handler, NEW p \in Payment, Read(t, handler, p)
      PROVE  TurnInv(S)'
  <2>1. /\ UNCHANGED rows
        /\ txn'[t] = [handler |-> handler, payment |-> p, row |-> pay[p],
                      invoice |-> invoice[p], refunded |-> refunded[p]]
        /\ \A u \in Tx \ {t} : txn'[u] = txn[u]
    BY <1>1, <1>3 DEF Read, TypeOK
  <2>2. pay[p].state \in IF handler = "refund" THEN Settled ELSE Waiting
    BY <1>1, <1>3, AdmittedStates DEF Read, TypeOK
  <2>3. SnapshotCurrent(t)'
    BY <2>1, <2>2 DEF SnapshotCurrent, rows
  <2>4. QED
    BY <2>1, <2>3, TurnAside
<1>4. ASSUME NEW t \in Tx, Commit(t)
      PROVE  TurnInv(S)'
  <2>1. CASE txn[t].payment \in S
    BY <1>4, <2>1, CommitTurn
  <2>2. CASE txn[t].payment \notin S
    <3>1. txn[t].payment \in Payment /\ \A u \in Tx : txn'[u] # Idle => txn'[u] = txn[u]
      BY <1>1, <1>4, CommitReach, RequestShape DEF TypeOK
    <3>2. QED
      BY <1>1, <1>4, <2>2, <3>1, CommitReach, OthersKept
  <2>3. QED
    BY <2>1, <2>2
<1>5. ASSUME NEW t \in Tx, ReadInvoice(t)
      PROVE  TurnInv(S)'
  <2>1. /\ txn[t] # Idle /\ UNCHANGED rows
        /\ txn' = [txn EXCEPT ![t] = Newer(txn[t], invoice[txn[t].payment])]
    BY <1>5 DEF ReadInvoice
  <2>2. /\ txn'[t].payment = txn[t].payment /\ txn'[t].row = txn[t].row
        /\ txn'[t].refunded = txn[t].refunded /\ txn'[t].handler = txn[t].handler
        /\ \A u \in Tx \ {t} : txn'[u] = txn[u]
    BY <1>1, <2>1, RequestShape DEF TypeOK, Newer, Snapshot
  <2>3. CASE txn[t].payment \in S
    <3>1. SnapshotCurrent(t)'
      BY <2>1, <2>2, <2>3 DEF TurnInv, SnapshotCurrent, rows
    <3>2. QED
      BY <2>1, <2>2, <3>1, TurnAside
  <2>4. CASE txn[t].payment \notin S
    BY <2>1, <2>2, <2>4, TurnAside
  <2>5. QED
    BY <2>3, <2>4
<1>6. CASE \/ \E p \in Payment : WindowCloses(p) \/ ProviderAnswers(p)
           \/ \E t \in Tx : Abort(t)
           \/ UNCHANGED vars
  <2>1. UNCHANGED rows /\ \A u \in Tx : txn'[u] \in {txn[u], Idle}
    BY <1>1, <1>6, FinishType DEF WindowCloses, ProviderAnswers, Abort, vars, rows
  <2>2. QED
    BY <2>1, TurnAside
<1>7. QED
  BY <1>2, <1>3, <1>4, <1>5, <1>6 DEF Next

\* What a step leaves of the payments it does not work on, seen as sales.
LEMMA OtherSalesKept ==
  ASSUME NEW p \in Payment,
         \A q \in Payment \ {p} : pay'[q] = pay[q] /\ refunded'[q] = refunded[q]
                                  /\ order'[q] = order[q]
  PROVE  \A q \in Payment \ {p} : /\ Outcome(q)' = Outcome(q)
                                  /\ Kept(q)' = Kept(q)
                                  /\ Due(q)' = Due(q)
  BY DEF Outcome, Kept, Due

\* The mapped variables change at one checkout only.
LEMMA SaleUpdate ==
  ASSUME NEW p \in Payment,
         \A q \in Payment \ {p} : pay'[q] = pay[q] /\ refunded'[q] = refunded[q]
                                  /\ order'[q] = order[q]
  PROVE  /\ [q \in Payment |-> Outcome(q)]' = [[q \in Payment |-> Outcome(q)] EXCEPT ![p] = Outcome(p)']
         /\ [q \in Payment |-> Kept(q)]' = [[q \in Payment |-> Kept(q)] EXCEPT ![p] = Kept(p)']
         /\ [q \in Payment |-> Due(q)]' = [[q \in Payment |-> Due(q)] EXCEPT ![p] = Due(p)']
<1>1. \A q \in Payment \ {p} : Outcome(q)' = Outcome(q) /\ Kept(q)' = Kept(q) /\ Due(q)' = Due(q)
  BY OtherSalesKept
<1>2. \A q \in Payment : Outcome(q)' = IF q = p THEN Outcome(p)' ELSE Outcome(q)
  BY <1>1
<1>3. \A q \in Payment : Kept(q)' = IF q = p THEN Kept(p)' ELSE Kept(q)
  BY <1>1
<1>4. \A q \in Payment : Due(q)' = IF q = p THEN Due(p)' ELSE Due(q)
  BY <1>1
<1>5. [q \in Payment |-> Outcome(q)]' = [[q \in Payment |-> Outcome(q)] EXCEPT ![p] = Outcome(p)']
  BY <1>2
<1>6. [q \in Payment |-> Kept(q)]' = [[q \in Payment |-> Kept(q)] EXCEPT ![p] = Kept(p)']
  BY <1>3
<1>7. [q \in Payment |-> Due(q)]' = [[q \in Payment |-> Due(q)] EXCEPT ![p] = Due(p)']
  BY <1>4
<1>8. QED
  BY <1>5, <1>6, <1>7

\* Nor there, where the checkout itself reads as before.
LEMMA SaleUnmoved ==
  ASSUME NEW p \in Payment,
         \A q \in Payment \ {p} : pay'[q] = pay[q] /\ refunded'[q] = refunded[q]
                                  /\ order'[q] = order[q]
  PROVE  /\ Outcome(p)' = Outcome(p) =>
              [q \in Payment |-> Outcome(q)]' = [q \in Payment |-> Outcome(q)]
         /\ Kept(p)' = Kept(p) => [q \in Payment |-> Kept(q)]' = [q \in Payment |-> Kept(q)]
         /\ Due(p)' = Due(p) => [q \in Payment |-> Due(q)]' = [q \in Payment |-> Due(q)]
<1>1. \A q \in Payment \ {p} : Outcome(q)' = Outcome(q) /\ Kept(q)' = Kept(q) /\ Due(q)' = Due(q)
  BY OtherSalesKept
<1>2. Outcome(p)' = Outcome(p) => \A q \in Payment : Outcome(q)' = Outcome(q)
  BY <1>1
<1>3. Kept(p)' = Kept(p) => \A q \in Payment : Kept(q)' = Kept(q)
  BY <1>1
<1>4. Due(p)' = Due(p) => \A q \in Payment : Due(q)' = Due(q)
  BY <1>1
<1>5. QED
  BY <1>2, <1>3, <1>4

LEMMA SaleInit == Init => AtomicSale!Init
<1> SUFFICES ASSUME Init PROVE AtomicSale!Init
  OBVIOUS
<1>1. \A p \in Payment : Outcome(p) = "none" /\ Kept(p) = 0 /\ Due(p) = "none"
  <2> SUFFICES ASSUME NEW p \in Payment
               PROVE  Outcome(p) = "none" /\ Kept(p) = 0 /\ Due(p) = "none"
    OBVIOUS
  <2>1. /\ pay[p].state = "ABSENT" /\ pay[p].captured = 0 /\ refunded[p] = 0
        /\ order[p] = "ABSENT"
    BY DEF Init, NoRow
  <2>2. QED
    BY <2>1, StatesApart DEF Outcome, Kept, Due
<1>2. QED
  BY <1>1 DEF AtomicSale!Init

\* Starting a checkout is Order, Open or Sell.
LEMMA StartIsSale ==
  ASSUME IInv, TurnInv(Payment), NEW p \in Payment, PlaceOrder(p) \/ Begin(p)
  PROVE  AtomicSale!Next
<1>1. /\ pay[p].state = "ABSENT" /\ refunded' = refunded /\ refunded[p] = 0
      /\ approvals[p] = 0
      /\ \A q \in Payment \ {p} : pay'[q] = pay[q] /\ order'[q] = order[q]
  BY StartTurn
<1>2. pay[p] \in Row /\ pay[p].captured = 0
  BY <1>1, StatesApart DEF IInv, TypeOK, TurnInv, PhaseHolds
<1>3. Outcome(p) = "none" /\ Kept(p) = 0
  BY <1>1, <1>2, StatesApart DEF Outcome, Kept
<1>4. /\ [q \in Payment |-> Outcome(q)]' = [[q \in Payment |-> Outcome(q)] EXCEPT ![p] = Outcome(p)']
      /\ [q \in Payment |-> Kept(q)]' = [[q \in Payment |-> Kept(q)] EXCEPT ![p] = Kept(p)']
      /\ [q \in Payment |-> Due(q)]' = [[q \in Payment |-> Due(q)] EXCEPT ![p] = Due(p)']
  BY <1>1, SaleUpdate
<1>5. CASE /\ p \notin Topup /\ order[p] = "ABSENT" /\ order'[p] = "PENDING" /\ pay' = pay
  <2>1. Due(p) = "none" /\ Due(p)' = "waiting" /\ Outcome(p)' = "none" /\ Kept(p)' = 0
    BY <1>1, <1>2, <1>3, <1>5, StatesApart DEF Due, Outcome, Kept
  <2>2. /\ [q \in Payment |-> Outcome(q)]' = [q \in Payment |-> Outcome(q)]
        /\ [q \in Payment |-> Kept(q)]' = [q \in Payment |-> Kept(q)]
    BY <1>1, <1>3, <2>1, SaleUnmoved
  <2>3. [q \in Payment |-> Due(q)]' = [[q \in Payment |-> Due(q)] EXCEPT ![p] = "waiting"]
    BY <1>4, <2>1
  <2>4. AtomicSale!Order(p)
    BY <1>5, <2>1, <2>2, <2>3 DEF AtomicSale!Order
  <2>5. QED
    BY <2>4 DEF AtomicSale!Next
<1>6. CASE /\ p \notin Topup => order[p] = "PENDING"
           /\ pay'[p].state \in Waiting /\ pay'[p].captured = 0
           /\ order' = order
  <2>1. Outcome(p)' = "open" /\ Kept(p)' = 0 /\ Due(p)' = Due(p)
    BY <1>1, <1>6, StatesApart DEF Outcome, Kept, Due
  <2>2. p \in Payment \ Topup => Due(p) = "waiting"
    BY <1>6 DEF Due
  <2>3. /\ [q \in Payment |-> Kept(q)]' = [q \in Payment |-> Kept(q)]
        /\ [q \in Payment |-> Due(q)]' = [q \in Payment |-> Due(q)]
    BY <1>1, <1>3, <2>1, SaleUnmoved
  <2>4. [q \in Payment |-> Outcome(q)]' = [[q \in Payment |-> Outcome(q)] EXCEPT ![p] = "open"]
    BY <1>4, <2>1
  <2>5. AtomicSale!Open(p)
    BY <1>3, <2>2, <2>3, <2>4 DEF AtomicSale!Open
  <2>6. QED
    BY <2>5 DEF AtomicSale!Next
<1>7. CASE /\ p \notin Topup /\ order[p] = "PENDING" /\ order'[p] = "PAID"
           /\ pay'[p].state = "APPROVED" /\ pay'[p].captured > 0
  <2>1. Outcome(p)' = "sold" /\ Due(p)' = "owed" /\ Due(p) = "waiting"
    BY <1>7, StatesApart DEF Outcome, Due
  <2>2. Kept(p)' > 0
    <3>1. pay'[p].captured \in Nat
      BY StartStep DEF IInv, TypeOK, Row
    <3>2. QED
      BY <1>1, <1>7, <3>1 DEF Kept
  <2>3. AtomicSale!Sell(p)
    BY <1>3, <1>4, <1>7, <2>1, <2>2 DEF AtomicSale!Sell, AtomicSale!Keep
  <2>4. QED
    BY <2>3 DEF AtomicSale!Next
<1>8. QED
  BY <1>5, <1>6, <1>7, StartTurn

\* A commit is Sell, Abandon or Return, or leaves the sale as it was.
LEMMA CommitIsSale ==
  ASSUME IInv, TurnInv(Payment), NEW t \in Tx, Commit(t)
  PROVE  AtomicSale!Next \/ UNCHANGED AtomicSale!vars
<1>1. TypeOK /\ TypeOK' /\ txn[t].payment \in Payment
  BY SettlingStep, UndecidedStep, RefundStep, CommitReach, RequestShape
     DEF IInv, Commit, Undecided
<1>2. CASE Approve(t) \/ VerifyConfirmed(t)
  <2>1. PICK p \in Payment, arrived \in Nat \ {0} :
          /\ pay[p].state \in Waiting
          /\ pay' = [pay EXCEPT ![p] = Approved(pay[p], arrived)]
          /\ MarkOrderPaid(p)
          /\ UNCHANGED refunded
    BY <1>1, <1>2, SellingTurn
  <2>2. /\ pay[p] \in Row /\ refunded[p] = 0
        /\ p \notin Topup => order[p] = "PENDING"
        /\ p \in Topup => order[p] = "ABSENT"
    BY <1>1, <2>1, StatesApart DEF TypeOK, TurnInv, PhaseHolds
  <2>3. /\ pay'[p].state = "APPROVED" /\ pay'[p].captured = arrived
        /\ order'[p] = IF p \in Topup THEN "ABSENT" ELSE "PAID"
        /\ \A q \in Payment \ {p} : pay'[q] = pay[q] /\ refunded'[q] = refunded[q]
                                    /\ order'[q] = order[q]
    BY <1>1, <2>1, <2>2 DEF TypeOK, Approved, Row, MarkOrderPaid
  <2>4. Outcome(p) = "open" /\ Outcome(p)' = "sold" /\ Kept(p)' = arrived
    BY <2>1, <2>2, <2>3, StatesApart DEF Outcome, Kept
  <2>5. IF p \in Topup THEN Due(p)' = Due(p) ELSE Due(p) = "waiting" /\ Due(p)' = "owed"
    BY <2>2, <2>3 DEF Due
  <2>6. /\ [q \in Payment |-> Outcome(q)]' = [[q \in Payment |-> Outcome(q)] EXCEPT ![p] = Outcome(p)']
        /\ [q \in Payment |-> Kept(q)]' = [[q \in Payment |-> Kept(q)] EXCEPT ![p] = Kept(p)']
        /\ [q \in Payment |-> Due(q)]' = [[q \in Payment |-> Due(q)] EXCEPT ![p] = Due(p)']
    BY <2>3, SaleUpdate
  <2>7. AtomicSale!Sell(p)
    <3>1. /\ [q \in Payment |-> Kept(q)]'[p] = arrived
          /\ [q \in Payment |-> Outcome(q)][p] = "open"
          /\ [q \in Payment |-> Due(q)][p] = Due(p)
      BY <2>4
    <3>2. CASE p \in Topup
      <4>1. [q \in Payment |-> Due(q)]' = [q \in Payment |-> Due(q)]
        BY <2>5, <2>6, <3>2
      <4>2. QED
        BY <2>4, <2>6, <3>1, <3>2, <4>1 DEF AtomicSale!Sell, AtomicSale!Keep
    <3>3. CASE p \notin Topup
      BY <2>4, <2>5, <2>6, <3>1, <3>3 DEF AtomicSale!Sell, AtomicSale!Keep
    <3>4. QED
      BY <3>2, <3>3
  <2>8. QED
    BY <2>7 DEF AtomicSale!Next
<1>3. CASE Undecided(t)
  <2>1. PICK p \in Payment, new \in Row :
          /\ pay[p].state \in Waiting
          /\ pay' = [pay EXCEPT ![p] = new] /\ new.captured = pay[p].captured
          /\ \/ new.state \in Waiting /\ UNCHANGED order
             \/ new.state \in {"REJECTED", "FAILED"} /\ Release(p)
          /\ UNCHANGED refunded
    BY <1>1, <1>3, WaitingTurn
  <2>2. /\ p \notin Topup => order[p] = "PENDING"
        /\ p \in Topup => order[p] = "ABSENT"
    BY <2>1 DEF TurnInv, PhaseHolds
  <2>3. /\ pay'[p] = new
        /\ \A q \in Payment \ {p} : pay'[q] = pay[q] /\ refunded'[q] = refunded[q]
                                    /\ order'[q] = order[q]
    BY <1>1, <2>1 DEF TypeOK, Release
  <2>4. Outcome(p) = "open" /\ Kept(p)' = Kept(p)
    BY <2>1, <2>3, StatesApart DEF Outcome, Kept
  <2>5. CASE new.state \in Waiting /\ UNCHANGED order
    <3>1. Outcome(p)' = Outcome(p) /\ Due(p)' = Due(p)
      BY <2>3, <2>4, <2>5, StatesApart DEF Outcome, Due
    <3>2. \A q \in Payment : Outcome(q)' = Outcome(q) /\ Kept(q)' = Kept(q) /\ Due(q)' = Due(q)
      BY <2>3, <2>4, <3>1, OtherSalesKept
    <3>3. QED
      BY <3>2 DEF AtomicSale!vars
  <2>6. CASE new.state \in {"REJECTED", "FAILED"} /\ Release(p)
    <3>1. order'[p] = IF p \in Topup THEN "ABSENT" ELSE "CANCELLED"
      BY <1>1, <2>2, <2>6 DEF TypeOK, Release
    <3>2. Outcome(p)' = "abandoned"
      BY <2>3, <2>6 DEF Outcome, Waiting, Settled
    <3>3. Due(p)' = IF p \in Topup THEN Due(p) ELSE "released"
      BY <2>2, <3>1 DEF Due
    <3>4. /\ [q \in Payment |-> Outcome(q)]' = [[q \in Payment |-> Outcome(q)] EXCEPT ![p] = Outcome(p)']
          /\ [q \in Payment |-> Kept(q)]' = [[q \in Payment |-> Kept(q)] EXCEPT ![p] = Kept(p)']
          /\ [q \in Payment |-> Due(q)]' = [[q \in Payment |-> Due(q)] EXCEPT ![p] = Due(p)']
      BY <2>3, SaleUpdate
    <3>5. AtomicSale!Abandon(p)
      <4>1. [q \in Payment |-> Kept(q)]' = [q \in Payment |-> Kept(q)]
        BY <2>4, <3>4
      <4>2. CASE p \in Topup
        <5>1. [q \in Payment |-> Due(q)]' = [q \in Payment |-> Due(q)]
          BY <3>3, <3>4, <4>2
        <5>2. QED
          BY <2>4, <3>2, <3>4, <4>1, <4>2, <5>1 DEF AtomicSale!Abandon
      <4>3. CASE p \notin Topup
        BY <2>4, <3>2, <3>3, <3>4, <4>1, <4>3 DEF AtomicSale!Abandon
      <4>4. QED
        BY <4>2, <4>3
    <3>6. QED
      BY <3>5 DEF AtomicSale!Next
  <2>7. QED
    BY <2>1, <2>5, <2>6
<1>4. CASE Refund(t)
  <2>1. PICK p \in Payment, amount \in Nat \ {0}, state \in {"REFUNDED", "PARTIALLY_REFUNDED"} :
           /\ pay[p].state \in Settled
           /\ pay' = [pay EXCEPT ![p] = Moved(pay[p], state)]
           /\ refunded[p] + amount <= pay[p].captured
           /\ refunded' = [refunded EXCEPT ![p] = @ + amount]
           /\ UNCHANGED order
    BY <1>1, <1>4, ReturningTurn
  <2>2. pay[p] \in Row /\ refunded[p] \in Nat /\ pay[p].captured \in Nat
    BY <1>1 DEF TypeOK, Row
  <2>3. /\ pay'[p].state = state /\ pay'[p].captured = pay[p].captured
        /\ refunded'[p] = refunded[p] + amount
        /\ \A q \in Payment \ {p} : pay'[q] = pay[q] /\ refunded'[q] = refunded[q]
                                    /\ order'[q] = order[q]
    BY <1>1, <2>1, <2>2 DEF TypeOK, Moved, Row
  <2>4. Outcome(p) = "sold" /\ Outcome(p)' = "sold" /\ Due(p)' = Due(p)
    BY <2>1, <2>3 DEF Outcome, Due, Waiting, Settled
  <2>5. 0 <= Kept(p)' /\ Kept(p)' < Kept(p)
    BY <2>1, <2>2, <2>3 DEF Kept
  <2>6. /\ [q \in Payment |-> Outcome(q)]' = [[q \in Payment |-> Outcome(q)] EXCEPT ![p] = Outcome(p)']
        /\ [q \in Payment |-> Kept(q)]' = [[q \in Payment |-> Kept(q)] EXCEPT ![p] = Kept(p)']
        /\ [q \in Payment |-> Due(q)]' = [[q \in Payment |-> Due(q)] EXCEPT ![p] = Due(p)']
    BY <2>3, SaleUpdate
  <2>7. AtomicSale!Return(p)
    <3>1. /\ [q \in Payment |-> Outcome(q)][p] = "sold"
          /\ [q \in Payment |-> Kept(q)][p] = Kept(p)
          /\ [q \in Payment |-> Kept(q)]'[p] = Kept(p)'
      BY <2>4
    <3>2. [q \in Payment |-> Outcome(q)]' = [q \in Payment |-> Outcome(q)]
      BY <2>4, <2>6
    <3>3. [q \in Payment |-> Due(q)]' = [q \in Payment |-> Due(q)]
      BY <2>4, <2>6
    <3>4. QED
      BY <2>5, <2>6, <3>1, <3>2, <3>3 DEF AtomicSale!Return, AtomicSale!Keep
  <2>8. QED
    BY <2>7 DEF AtomicSale!Next
<1>5. QED
  BY <1>2, <1>3, <1>4 DEF Commit, Undecided

LEMMA StepIsSale ==
  IInv /\ TurnInv(Payment) /\ [Next]_vars => [AtomicSale!Next]_(AtomicSale!vars)
<1> SUFFICES ASSUME IInv, TurnInv(Payment), [Next]_vars
             PROVE  AtomicSale!Next \/ UNCHANGED AtomicSale!vars
  OBVIOUS
<1>1. CASE \E p \in Payment : PlaceOrder(p) \/ Begin(p)
  BY <1>1, StartIsSale
<1>2. CASE \E t \in Tx : Commit(t)
  BY <1>2, CommitIsSale
<1>3. CASE UNCHANGED rows
  <2>1. \A q \in Payment : Outcome(q)' = Outcome(q) /\ Kept(q)' = Kept(q) /\ Due(q)' = Due(q)
    BY <1>3 DEF rows, Outcome, Kept, Due
  <2>2. QED
    BY <2>1 DEF AtomicSale!vars
<1>4. QED
  BY <1>1, <1>2, <1>3 DEF Next, Read, ReadInvoice, Abort, WindowCloses, ProviderAnswers, vars, rows

-----------------------------------------------------------------------------
(* Theorems about requests that take turns *)

\* As long as the requests on one payment do not overlap, whatever those on
\* others do, each of them holds the payment as it is, and the payment, its
\* invoice, its order and its refunds are in step.
THEOREM TakingTurns ==
  ASSUME NEW p \in Payment
  PROVE  Spec /\ []InTurn({p}) => []TurnInv({p})
<1>1. Init => TurnInv({p})
  BY TurnInit
<1>2. IInv /\ TurnInv({p}) /\ InTurn({p}) /\ [Next]_vars => TurnInv({p})'
  BY TurnStep
<1>3. QED
  BY <1>1, <1>2, Invariance, PTL DEF Spec

\* All of them in turn.
LEMMA AllInTurn == Spec /\ []OnePerPayment => []TurnInv(Payment)
<1>1. Init => TurnInv(Payment)
  BY TurnInit
<1>2. IInv /\ TurnInv(Payment) /\ OnePerPayment /\ [Next]_vars => TurnInv(Payment)'
  BY TurnStep DEF OnePerPayment
<1>3. QED
  BY <1>1, <1>2, Invariance, PTL DEF Spec

\* No more is refunded of a payment than was captured, over any number of
\* partial refunds, as long as the requests on this one payment take turns.
THEOREM RefundsInTurn ==
  ASSUME NEW p \in Payment
  PROVE  Spec /\ []InTurn({p}) => [](refunded[p] <= pay[p].captured)
<1>1. TurnInv({p}) => refunded[p] <= pay[p].captured
  <2> SUFFICES ASSUME TurnInv({p}) PROVE refunded[p] <= pay[p].captured
    OBVIOUS
  <2>1. PhaseHolds(p)
    BY DEF TurnInv
  <2>2. QED
    BY <2>1 DEF PhaseHolds
<1>2. QED
  BY <1>1, TakingTurns, PTL

\* No more is refunded than was captured, of any payment, as long as two refunds
\* of one payment take turns.
THEOREM NoOverRefund == Spec /\ []OnePerPayment => []RefundWithinCapture
<1>1. TurnInv(Payment) => RefundWithinCapture
  <2> SUFFICES ASSUME TurnInv(Payment), NEW p \in Payment
               PROVE  refunded[p] <= pay[p].captured
    BY DEF RefundWithinCapture
  <2>1. PhaseHolds(p)
    BY DEF TurnInv
  <2>2. QED
    BY <2>1 DEF PhaseHolds
<1>2. QED
  BY <1>1, AllInTurn, PTL

\* What a step may make of a decision.
Stands(p) ==
  /\ pay[p].state \in Terminal => pay'[p].state = pay[p].state
  /\ approvals[p] > 0 => approvals'[p] = approvals[p]

LEMMA DecisionStands ==
  ASSUME NEW S \in SUBSET Payment, IInv, TurnInv(S), NEW p \in S, Next
  PROVE  Stands(p)
<1>1. TypeOK
  BY DEF IInv
<1>2. ASSUME NEW q \in Payment, PlaceOrder(q) \/ Begin(q) PROVE Stands(p)
  <2>1. CASE q = p
    <3>1. pay[p].state = "ABSENT" /\ approvals[p] = 0
      BY <1>2, <2>1, StartTurn
    <3>2. QED
      BY <3>1, StatesApart DEF Stands
  <2>2. CASE q # p
    BY <1>1, <1>2, <2>2, StartReach DEF Stands
  <2>3. QED
    BY <2>1, <2>2
<1>3. ASSUME NEW t \in Tx, Commit(t) PROVE Stands(p)
  <2>1. CASE txn[t].payment # p
    BY <1>1, <1>3, <2>1, CommitReach DEF Stands
  <2>2. CASE txn[t].payment = p
    <3>1. CASE Approve(t) \/ VerifyConfirmed(t)
      <4>1. pay[p].state \in Waiting
        BY <2>2, <3>1, SellingTurn
      <4>2. approvals[p] = 0
        BY <4>1, StatesApart DEF TurnInv, PhaseHolds
      <4>3. QED
        BY <4>1, <4>2, StatesApart DEF Stands
    <3>2. CASE Undecided(t)
      <4>1. pay[p].state \in Waiting /\ UNCHANGED approvals
        BY <2>2, <3>2, WaitingTurn
      <4>2. QED
        BY <4>1, StatesApart DEF Stands
    <3>3. CASE Refund(t)
      <4>1. pay[p].state \in Settled /\ UNCHANGED approvals
        BY <2>2, <3>3, ReturningTurn
      <4>2. QED
        BY <4>1, StatesApart DEF Stands
    <3>4. QED
      BY <1>3, <3>1, <3>2, <3>3 DEF Commit, Undecided
  <2>3. QED
    BY <2>1, <2>2
<1>4. CASE UNCHANGED rows
  BY <1>4 DEF rows, Stands
<1>5. QED
  BY <1>2, <1>3, <1>4 DEF Next, Read, ReadInvoice, Abort, WindowCloses, ProviderAnswers

\* A payment that was decided is not decided again, by whichever of the reviewer,
\* the callback, the sweep and the wallet came first, as long as the requests on
\* this one payment take turns.
THEOREM DecisionInTurn ==
  ASSUME NEW p \in Payment
  PROVE  Spec /\ []InTurn({p}) => [][Stands(p)]_vars
<1>1. IInv /\ TurnInv({p}) /\ [Next]_vars => [Stands(p)]_vars
  BY DecisionStands
<1>2. QED
  BY <1>1, TakingTurns, Invariance, PTL DEF Spec

\* The same of all payments.
THEOREM DecisionsAreFinal == Spec /\ []OnePerPayment => DecisionIsFinal
<1> DEFINE Final == \A p \in Payment :
                      /\ pay[p].state \in Terminal => pay'[p].state = pay[p].state
                      /\ approvals[p] > 0 => approvals'[p] = approvals[p]
<1>1. IInv /\ TurnInv(Payment) /\ [Next]_vars => [Final]_vars
  BY DecisionStands DEF Stands
<1>2. QED
  BY <1>1, Invariance, AllInTurn, PTL DEF Spec, DecisionIsFinal

\* Checkout, review, verification, refund, the bridge and the release together
\* implement one atomic sale per checkout: opened once, sold or abandoned with
\* the order following in the same step, and money returned only once kept.
THEOREM SalesImplemented == Spec /\ []OnePerPayment => SalesAreAtomic
  BY SaleInit, StepIsSale, Invariance, AllInTurn, PTL DEF Spec, SalesAreAtomic, AtomicSale!Spec

=============================================================================
