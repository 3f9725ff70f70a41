------------------------------ MODULE Resellers ------------------------------
(***************************************************************************)
(* One reseller's credit: sales and test accounts drawn on it, top-ups and *)
(* corrections by operators, edits of the same row, and the ledger beside  *)
(* it.  Every service method reads the row without locking it, changes the *)
(* copy, and save() reads the row again and writes the columns in which    *)
(* the copy differs; the UPDATE waits for the transaction that wrote the   *)
(* row before.  A sale keeps its transaction, and the row, while a panel   *)
(* makes the account.                                                      *)
(*                                                                         *)
(* A sale that fails is refunded.  After a panel's refusal its order is    *)
(* cancelled with the refund; after any other error the order is still     *)
(* PROVISIONING, which cannot be cancelled, and the worker's sweep later   *)
(* delivers it for nothing.                                                *)
(*                                                                         *)
(* The reseller has no server list and no prices of its own: with either,  *)
(* _write_children makes the second of two waiting saves fail on a key.    *)
(***************************************************************************)
EXTENDS Integers, FiniteSets

CONSTANTS
  Slot,        \* slots for one request each
  Topup,       \* requests for credit
  Ops,         \* the kinds of request of this instance, out of Kind
  Cost,        \* what the package costs this reseller
  Amount,      \* what each top-up and each correction moves
  TrialLimit,  \* test accounts the operator allows
  MaxGiven, MaxSold, MaxTrouble,  \* bounds
  None

\* "sell" is the bot's sale, which commits what is left of a failed one, and
\* "sellApi" the panel's, which undoes it.  "take" is an operator's correction; "bar" and
\* "unbar" set the status.
Selling == {"sell", "sellApi"}
Deciding == {"approve", "reject"}
Editing == {"bar", "unbar"}
Kind == Selling \cup Deciding \cup Editing \cup {"take", "trial"}

ASSUME NumberAssumption ==
  /\ Ops \subseteq Kind /\ IsFiniteSet(Slot) /\ Slot # {}
  /\ {Cost, Amount} \subseteq Nat \ {0}
  /\ {TrialLimit, MaxGiven, MaxSold, MaxTrouble} \subseteq Nat

VARIABLES
  row,        \* the committed reseller row: its balance, and whether it may sell
  ledger,     \* the sum of the committed ledger rows
  sold,       \* sales whose order is delivered and committed
  left,       \* refunded orders still PROVISIONING, without an account and with one
  uncancelled,\* refunds whose order could not be cancelled
  trials,     \* test orders committed
  accounts,   \* accounts made on panels for sales
  topup,      \* each request's committed state
  txn,        \* the session in each slot
  trouble,    \* times something went wrong
  given,      \* what operators added, less what they took, as committed
  funded,     \* what they added
  credits,    \* how often each top-up's amount was added
  orphans,    \* accounts made for a sale that was not kept
  stale,      \* a balance was written from a copy that was out of date
  contested   \* top-ups that two sessions were deciding at once

work == <<row, ledger, sold, left, uncancelled, trials, topup, given, funded, credits>>
vars == <<work, accounts, txn, trouble, orphans, stale, contested>>

-----------------------------------------------------------------------------
(* Rows and sessions *)

Row == [balance : Int, active : BOOLEAN]
ASSUME NoneAssumption == None \notin Topup \cup Row

Column == {"balance", "active"}
Decision == {"PENDING", "APPROVED", "REJECTED"}
Pc == {"idle", "load", "save", "write", "deliver", "close"}

\* of: the top-up being decided; copy: the Reseller as read; want and cols: as
\* changed, and where it differs from the row; flushed: the row as written;
\* entries: the sum of the ledger rows added; made: accounts made; kept: the
\* order is committed to be delivered.
Session ==
  [pc : Pc, op : Kind \cup {"refund", None}, of : Topup \cup {None},
   copy : Row \cup {None}, want : Row \cup {None}, cols : SUBSET Column,
   flushed : Row \cup {None}, entries : Int, made : {0, 1}, kept : BOOLEAN]

Idle ==
  [pc |-> "idle", op |-> None, of |-> None, copy |-> None, want |-> None, cols |-> {},
   flushed |-> None, entries |-> 0, made |-> 0, kept |-> FALSE]

View(t) == IF txn[t].flushed # None THEN txn[t].flushed ELSE row
Free(t) == \A u \in Slot \ {t} : txn[u].flushed = None

-----------------------------------------------------------------------------
(* The aggregate: Reseller *)

\* charge: refused beyond the balance or while barred.
ChargeBlindly(r) == r.active   \* mutant
MayCharge(r) == r.active /\ Cost <= r.balance

\* What a method adds to the balance.
Moves(op) ==
  CASE op \in Selling            -> -Cost
    [] op = "refund"             -> Cost
    [] op = "approve"            -> Amount
    [] op = "take"               -> -Amount
    [] OTHER                     -> 0

Changed(op, r) ==
  IF op \in Editing THEN [r EXCEPT !.active = op = "unbar"]
  ELSE [r EXCEPT !.balance = @ + Moves(op)]

-----------------------------------------------------------------------------
(* Requests begin *)

Within(op) ==
  /\ op = "approve" => given < MaxGiven
  /\ op = "take" => given > -MaxGiven
  /\ op \in Selling => accounts < MaxSold
  /\ op = "trial" => trials < MaxSold

Starting(op, p, pc) == [Idle EXCEPT !.pc = pc, !.op = op, !.of = p]

Start(t, op) ==
  /\ txn[t].pc = "idle"
  /\ op \notin Deciding \cup {"trial"} /\ Within(op)
  /\ txn' = [txn EXCEPT ![t] = Starting(op, None, "load")]
  /\ UNCHANGED <<work, accounts, trouble, orphans, stale, contested>>

\* _require_pending, which locks nothing.
AlsoDecided(p) == TRUE   \* mutant
Pending(p) == topup[p] = "PENDING"

Decide(t, op, p) ==
  /\ txn[t].pc = "idle"
  /\ op \in Deciding /\ Within(op)
  /\ Pending(p)
  /\ txn' = [txn EXCEPT ![t] = Starting(op, p, IF op = "approve" THEN "load" ELSE "close")]
  /\ contested' = IF \E u \in Slot : txn[u].of = p THEN contested \cup {p} ELSE contested
  /\ UNCHANGED <<work, accounts, trouble, orphans, stale>>

\* give_trial counts the orders it can see.
TrialLeft == trials < TrialLimit

Trial(t) ==
  /\ txn[t].pc = "idle"
  /\ Within("trial")
  /\ row.active /\ TrialLeft
  /\ txn' = [txn EXCEPT ![t] = Starting("trial", None, "deliver")]
  /\ UNCHANGED <<work, accounts, trouble, orphans, stale, contested>>

-----------------------------------------------------------------------------
(* get, change, save *)

Load(t) ==
  /\ txn[t].pc = "load"
  /\ txn[t].op \in Selling => MayCharge(View(t))
  /\ txn' = [txn EXCEPT ![t].pc = "save", ![t].copy = View(t)]
  /\ UNCHANGED <<work, accounts, trouble, orphans, stale, contested>>

\* InsufficientCredit or ResellerSuspended, before anything was written.
Declined(t) ==
  /\ txn[t].pc = "load"
  /\ txn[t].op \in Selling /\ ~MayCharge(View(t))
  /\ txn' = [txn EXCEPT ![t] = Idle]
  /\ UNCHANGED <<work, accounts, trouble, orphans, stale, contested>>

Merged(t, x) ==
  [balance |-> IF "balance" \in x.cols THEN x.want.balance ELSE View(t).balance,
   active |-> IF "active" \in x.cols THEN x.want.active ELSE View(t).active]

\* The session after the UPDATE, with its ledger row: a sale goes on to the
\* panel, the others to their end.
NoEntry(t, x) ==   \* mutant
  [x EXCEPT !.pc = IF x.op \in Selling THEN "deliver" ELSE "close", !.copy = None,
            !.want = None, !.cols = {},
            !.flushed = IF x.cols = {} THEN @ ELSE Merged(t, x)]
Written(t, x) ==
  [x EXCEPT !.pc = IF x.op \in Selling THEN "deliver" ELSE "close", !.copy = None,
            !.want = None, !.cols = {},
            !.flushed = IF x.cols = {} THEN @ ELSE Merged(t, x),
            !.entries = @ + Moves(x.op)]

\* The row is not what the copy was taken from.
Outdated(t, x) == "balance" \in x.cols /\ View(t).balance # x.copy.balance

Save(t) ==
  LET x == txn[t]
      r == Changed(x.op, x.copy)
      y == [x EXCEPT !.want = r, !.cols = {c \in Column : r[c] # View(t)[c]}]
      now == y.cols = {} \/ Free(t) IN
  /\ x.pc = "save"
  /\ txn' = [txn EXCEPT ![t] = IF now THEN Written(t, y) ELSE [y EXCEPT !.pc = "write"]]
  /\ stale' = (stale \/ (now /\ Outdated(t, y)) \/ (Moves(x.op) # 0 /\ "balance" \notin y.cols))
  /\ UNCHANGED <<work, accounts, trouble, orphans, contested>>

Write(t) ==
  /\ txn[t].pc = "write" /\ Free(t)
  /\ txn' = [txn EXCEPT ![t] = Written(t, txn[t])]
  /\ stale' = (stale \/ Outdated(t, txn[t]))
  /\ UNCHANGED <<work, accounts, trouble, orphans, contested>>

-----------------------------------------------------------------------------
(* The panel, and the end of a session *)

Trouble == trouble < MaxTrouble /\ trouble' = trouble + 1

\* The order is placed and paid, and the account made.
Deliver(t) ==
  /\ txn[t].pc = "deliver" /\ txn[t].op \in Selling
  /\ accounts' = accounts + 1
  /\ txn' = [txn EXCEPT ![t].pc = "close", ![t].made = 1, ![t].kept = TRUE]
  /\ UNCHANGED <<work, trouble, orphans, stale, contested>>

\* A test order is kept whatever the panel says: the sweep delivers it later.
DeliverTest(t) ==
  /\ txn[t].pc = "deliver" /\ txn[t].op = "trial"
  /\ txn' = [txn EXCEPT ![t].pc = "close", ![t].kept = TRUE]
  /\ UNCHANGED <<work, accounts, trouble, orphans, stale, contested>>

\* The bot's sale goes on to refund_sale, and cancels its order if that is
\* PAID or FAILED; the panel's is rolled back.
KeptAnyway(x, made, cancels) ==   \* mutant
  IF x.op = "sell" THEN [x EXCEPT !.pc = "close", !.kept = TRUE] ELSE Idle
Refunding(x, made, cancels) ==
  IF x.op # "sell" THEN Idle
  ELSE [x EXCEPT !.pc = "load", !.op = "refund", !.made = IF cancels THEN 0 ELSE made,
                 !.kept = ~cancels]

\* provision raises, with an account made or not.  A PanelError or a lack of
\* capacity leaves the order FAILED; anything else leaves it PROVISIONING.
NotDelivered(t, made, cancels) ==
  /\ txn[t].pc = "deliver" /\ txn[t].op \in Selling
  /\ Trouble
  /\ accounts' = accounts + made
  /\ orphans' = IF txn[t].op = "sell" /\ ~cancels THEN orphans ELSE orphans + made
  /\ txn' = [txn EXCEPT ![t] = Refunding(txn[t], made, cancels)]
  /\ UNCHANGED <<work, stale, contested>>

\* The reseller row, the ledger, the order and the decision become visible.
Commit(t) ==
  LET x == txn[t]
      leaves == x.op = "refund" /\ x.kept IN
  /\ x.pc = "close"
  /\ row' = View(t)
  /\ ledger' = ledger + x.entries
  /\ sold' = IF x.op \in Selling /\ x.kept THEN sold + 1 ELSE sold
  /\ left' = IF leaves THEN [left EXCEPT ![x.made] = @ + 1] ELSE left
  /\ uncancelled' = IF leaves THEN uncancelled + 1 ELSE uncancelled
  /\ trials' = IF x.op = "trial" THEN trials + 1 ELSE trials
  /\ topup' = [p \in Topup |-> IF p # x.of THEN topup[p]
                               ELSE IF x.op = "approve" THEN "APPROVED" ELSE "REJECTED"]
  /\ given' = IF x.op \in {"approve", "take"} THEN given + Moves(x.op) ELSE given
  /\ funded' = IF x.op = "approve" THEN funded + Amount ELSE funded
  /\ credits' = [p \in Topup |-> IF p = x.of /\ x.op = "approve" THEN credits[p] + 1
                                 ELSE credits[p]]
  /\ txn' = [txn EXCEPT ![t] = Idle]
  /\ UNCHANGED <<accounts, trouble, orphans, stale, contested>>

\* The process is killed or the connection lost.
Die(t) ==
  /\ txn[t].pc # "idle"
  /\ Trouble
  /\ orphans' = orphans + txn[t].made
  /\ txn' = [txn EXCEPT ![t] = Idle]
  /\ UNCHANGED <<work, accounts, stale, contested>>

-----------------------------------------------------------------------------
(* The worker's sweep over refunded orders that were left PROVISIONING *)

swept == <<row, ledger, uncancelled, trials, topup, given, funded, credits>>

\* drain_stuck: the account that was made is found by its name, or a new one is
\* made, on another server if one was made before.
Drain(had, fresh) ==
  /\ left[had] > 0 /\ had + fresh > 0
  /\ left' = [left EXCEPT ![had] = @ - 1]
  /\ sold' = sold + 1
  /\ accounts' = accounts + fresh /\ orphans' = orphans + had + fresh - 1
  /\ UNCHANGED <<swept, txn, trouble, stale, contested>>

\* The panel made the account; its answer, or the sweep's transaction, is lost.
DrainLost(had) ==
  /\ left[had] > 0 /\ accounts < MaxSold
  /\ left' = [n \in {0, 1} |-> left[n] - (IF n = had THEN 1 ELSE 0) + n]
  /\ accounts' = accounts + 1 /\ orphans' = orphans + had
  /\ UNCHANGED <<swept, sold, txn, trouble, stale, contested>>

-----------------------------------------------------------------------------
Init ==
  /\ row = [balance |-> 0, active |-> TRUE]
  /\ ledger = 0 /\ sold = 0 /\ trials = 0 /\ accounts = 0 /\ trouble = 0
  /\ given = 0 /\ funded = 0 /\ orphans = 0
  /\ left = [n \in {0, 1} |-> 0] /\ uncancelled = 0
  /\ topup = [p \in Topup |-> "PENDING"] /\ credits = [p \in Topup |-> 0]
  /\ stale = FALSE /\ contested = {}
  /\ txn = [t \in Slot |-> Idle]

Begin(t) ==
  \E op \in Ops :
    \/ Start(t, op)
    \/ \E p \in Topup : Decide(t, op, p)
    \/ op = "trial" /\ Trial(t)

Step(t) ==
  \/ Load(t) \/ Declined(t) \/ Save(t) \/ Write(t)
  \/ Deliver(t) \/ DeliverTest(t)
  \/ \E made \in {0, 1}, cancels \in BOOLEAN : NotDelivered(t, made, cancels)
  \/ Commit(t)

Sweep == \E had, fresh \in {0, 1} : Drain(had, fresh) \/ DrainLost(had)

Next == Sweep \/ \E t \in Slot : Begin(t) \/ Step(t) \/ Die(t)

Spec == Init /\ [][Next]_vars

-----------------------------------------------------------------------------
(* Properties *)

\* Every variable has its type.
TypeOK ==
  /\ row \in Row /\ {ledger, given} \subseteq Int
  /\ {sold, uncancelled, trials, accounts, trouble, funded, orphans} \subseteq Nat
  /\ left \in [{0, 1} -> Nat]
  /\ topup \in [Topup -> Decision] /\ credits \in [Topup -> Nat]
  /\ stale \in BOOLEAN /\ contested \subseteq Topup
  /\ txn \in [Slot -> Session]

\* Refunded sales that were delivered all the same: the refund's order could not
\* be cancelled, and it is no longer waiting for the sweep.
GivenAway == uncancelled - left[0] - left[1]

\* "Every movement writes a ledger row": whatever overlaps or fails, the ledger
\* sums to what operators gave less what the delivered sales cost, those given
\* away left out, and a failed sale leaves nothing on it.
LedgerIsTrue == ledger = given - Cost * (sold - GivenAway)

\* The balance is the ledger's sum, unless a save wrote it from a copy that
\* another transaction's movement had overtaken.
BalanceIsLedger == ~stale => row.balance = ledger

\* Sales stay within what operators funded, with the same exception, beyond one
\* sale for each refund whose order was delivered later: charge_for_sale debits
\* before anything is provisioned.  "Refunded, so no longer owed" is what the
\* code says of such an order and does not ensure.
SalesAreFunded == ~stale => Cost * sold <= funded + Cost * GivenAway

\* A transfer is credited once when approved and never when rejected, unless two
\* operators had it in hand at once.
CreditedOnce ==
  \A p \in Topup \ contested : credits[p] = IF topup[p] = "APPROVED" THEN 1 ELSE 0

\* Requests that overlap overshoot the limit by at most one each but the first.
TrialsBounded == trials <= TrialLimit + Cardinality(Slot) - 1

\* Every account a sale made on a panel belongs to a delivered sale, to a refunded
\* one the sweep has still to deliver, to one in flight, or was lost with an
\* attempt that failed.
AccountsAreSold ==
  accounts = sold + left[1] + orphans + Cardinality({t \in Slot : txn[t].made = 1})

=============================================================================
