-------------------------------- MODULE Wallet --------------------------------
(***************************************************************************)
(* The wallets: append-only ledgers, and the requests that write them.     *)
(*                                                                         *)
(* There is no balance column.  A wallet is its ledger entries in order of *)
(* (occurred_at, id), and its balance is balance_after of the last one.    *)
(* A request reads a whole ledger, computes the next balance_after from    *)
(* it, and inserts its entries when it commits.  Some requests take the    *)
(* wallet's advisory lock first, some do not; some read the clock before   *)
(* everything else, some after they have read the ledger.  Each of these   *)
(* is a step, because two requests may be between any two of them.         *)
(*                                                                         *)
(* No two readings of the clock are equal; two entries of one request may  *)
(* carry the same reading, and then their random ids order them.           *)
(***************************************************************************)
EXTENDS Integers, FiniteSetsExt

CONSTANTS
  User,       \* Telegram ids of the customers, the keys of the locks
  Request,    \* what is asked of the wallets, one record for each click or event
  MaxTries,   \* how often each request is made: repeated clicks and deliveries
  Opening,    \* what each wallet holds to begin with
  Tx,         \* slots for requests that are in a transaction
  None        \* no request, nobody, or no reference

Op == {"transfer", "purchase", "topup", "surplus", "refund", "reward",
       "adjust", "deduct", "takeback"}

ASSUME UserAssumption == User \subseteq Nat
ASSUME RequestAssumption ==
  \A r \in Request :
    /\ r.op \in Op /\ r.user \in User /\ r.to \in User /\ r.ref \in STRING \cup {None}
    /\ r.op = "transfer" <=> r.user # r.to
    /\ r.amount \in Nat \ {0} /\ r.extra \in Nat
    /\ r.extra > 0 => r.op = "topup"
ASSUME OpeningAssumption == Opening \in [User -> Nat] /\ MaxTries \in [Request -> Nat]

VARIABLES
  ledger,   \* billing_wallet_entries: the set of entries of each customer
  lock,     \* the request that holds each customer's advisory lock
  clock,    \* the last reading of the clock
  tries,    \* how often each request was started
  txn       \* the request in each slot, with what it has read

vars == <<ledger, lock, clock, tries, txn>>

-----------------------------------------------------------------------------
(* Entries and balances *)

Earlier(e, f) == e.stamp < f.stamp \/ (e.stamp = f.stamp /\ e.rank < f.rank)

\* The balance of a wallet rebuilt from these entries.
Last(entries) == CHOOSE e \in entries : \A f \in entries \ {e} : Earlier(f, e)
Balance(entries) == IF entries = {} THEN 0 ELSE Last(entries).after

\* recompute_balance
Replay(entries) == MapThenSumSet(LAMBDA e : e.amount, entries)

TransactionKind ==
  {"TOPUP", "PURCHASE", "REFUND", "REFERRAL_REWARD", "ADJUSTMENT", "OVERPAYMENT",
   "TRANSFER_OUT", "TRANSFER_IN"}

Entry == [stamp : Nat, rank : {1, 2}, kind : TransactionKind, ref : STRING \cup {None},
          amount : Int, after : Nat]

-----------------------------------------------------------------------------
(* What each request does to which wallets *)

Locking == {"transfer", "purchase", "topup"}
Touched(r) == {r.user, r.to}
Locks(r) == IF r.op \in Locking THEN Touched(r) ELSE {}

\* These read the clock on entry, the others once the ledgers are read.
AllOnEntry == Op   \* mutant
StampedOnEntry == {"purchase", "topup", "surplus", "refund"}

Taking == {"transfer", "purchase", "deduct", "takeback"}
Signed(r, u, amount) == IF r.op \in Taking /\ u = r.user THEN -amount ELSE amount

Kind(r, u) ==
  CASE r.op = "transfer" -> IF u = r.user THEN "TRANSFER_OUT" ELSE "TRANSFER_IN"
    [] r.op = "purchase" -> "PURCHASE"
    [] r.op = "topup"    -> "TOPUP"
    [] r.op = "surplus"  -> "OVERPAYMENT"
    [] r.op = "refund"   -> "REFUND"
    [] r.op = "reward"   -> "REFERRAL_REWARD"
    [] OTHER             -> "ADJUSTMENT"

\* What a request knows: its stamp (0 before it has one), how much it moves,
\* and the ledgers it has read.
Working == [req : Request, stamp : Nat, take : Nat, read : SUBSET User,
            seen : [User -> SUBSET Entry]]
Idle == None
Active(t) == txn[t] # Idle

ASSUME NoneAssumption == None \notin Tx \cup Working

-----------------------------------------------------------------------------
(* A request, step by step *)

Start(t, r) ==
  /\ txn[t] = Idle
  /\ tries[r] < MaxTries[r]
  /\ tries' = [tries EXCEPT ![r] = @ + 1]
  /\ clock' = IF r.op \in StampedOnEntry THEN clock + 1 ELSE clock
  /\ txn' = [txn EXCEPT ![t] =
       [req   |-> r,
        stamp |-> IF r.op \in StampedOnEntry THEN clock + 1 ELSE 0,
        take  |-> IF r.op = "takeback" THEN 0 ELSE r.amount,
        read  |-> {},
        seen  |-> [u \in User |-> {}]]]
  /\ UNCHANGED <<ledger, lock>>

Missing(t) == {u \in Locks(txn[t].req) : lock[u] # t}

\* Locks are taken lowest id first, and waited for.
IsNext(t, u) == \A v \in Missing(t) : u <= v

Free(u) == lock[u] = None

Acquire(t, u) ==
  /\ Active(t)
  /\ u \in Missing(t)
  /\ IsNext(t, u)
  /\ Free(u)
  /\ lock' = [lock EXCEPT ![u] = t]
  /\ UNCHANGED <<ledger, clock, tries, txn>>

Smaller(a, b) == IF a <= b THEN a ELSE b

Capped(request, amount) == [request EXCEPT !.take = amount]

\* adjust_many takes no more than the balance it finds; an empty wallet it
\* skips, which here is a refusal.
Cap(t) ==
  LET r == txn[t].req  balance == Balance(ledger[r.user]) IN
  /\ Active(t)
  /\ r.op = "takeback"
  /\ txn[t].take = 0
  /\ balance > 0
  /\ txn' = [txn EXCEPT ![t] = Capped(txn[t], Smaller(r.amount, balance))]
  /\ UNCHANGED <<ledger, lock, clock, tries>>

\* get_or_create, once for each wallet, the sender's first
Loaded(request, u, entries) ==
  [request EXCEPT !.read = request.read \cup {u},
                  !.seen = [request.seen EXCEPT ![u] = entries]]

Read(t, u) ==
  /\ Active(t)
  /\ Missing(t) = {}
  /\ txn[t].take > 0
  /\ u \in Touched(txn[t].req) \ txn[t].read
  /\ txn[t].req.user \in txn[t].read \cup {u}
  /\ txn' = [txn EXCEPT ![t] = Loaded(txn[t], u, ledger[u])]
  /\ UNCHANGED <<ledger, lock, clock, tries>>

Stamped(request, now) == [request EXCEPT !.stamp = now]

Stamp(t) ==
  /\ Active(t)
  /\ txn[t].stamp = 0
  /\ txn[t].read = Touched(txn[t].req)
  /\ clock' = clock + 1
  /\ txn' = [txn EXCEPT ![t] = Stamped(txn[t], clock + 1)]
  /\ UNCHANGED <<ledger, lock, tries>>

Ready(t) == Active(t) /\ txn[t].stamp > 0 /\ txn[t].read = Touched(txn[t].req)

\* Wallet._append: balance_after is computed from what was read.
Change(t, u) == Signed(txn[t].req, u, txn[t].take)
AfterUnsigned(t, u) == Balance(txn[t].seen[u]) + txn[t].take   \* mutant
After(t, u) == Balance(txn[t].seen[u]) + Change(t, u)

Main(t, u, rank) ==
  [stamp |-> txn[t].stamp, rank |-> rank, kind |-> Kind(txn[t].req, u),
   ref |-> txn[t].req.ref, amount |-> Change(t, u), after |-> After(t, u)]

\* An overpaid top-up credits its surplus beside the principal.
Extra(t, u, rank) ==
  [stamp |-> txn[t].stamp, rank |-> rank, kind |-> "OVERPAYMENT",
   ref |-> txn[t].req.ref, amount |-> txn[t].req.extra,
   after |-> After(t, u) + txn[t].req.extra]

Entries(t, u, rank) ==
  {Main(t, u, rank)} \cup
    IF txn[t].req.extra = 0 THEN {} ELSE {Extra(t, u, 3 - rank)}

\* InsufficientFunds
AnyBalance(t) == TRUE   \* mutant
Affordable(t) == \A u \in Touched(txn[t].req) : After(t, u) >= 0

\* uq_wallet_user_kind_reference, where NULL equals nothing
Unlimited(t, rank) == TRUE   \* mutant
Unique(t, rank) ==
  \A u \in Touched(txn[t].req) :
    \A e \in Entries(t, u, rank), f \in ledger[u] :
      e.ref = None \/ e.kind # f.kind \/ e.ref # f.ref

\* The transaction ends, and its locks with it.
EndKeepingLocks(t) ==   \* mutant
  /\ txn' = [txn EXCEPT ![t] = Idle]
  /\ UNCHANGED <<lock, clock, tries>>
Finish(t) ==
  /\ lock' = [u \in User |-> IF lock[u] = t THEN None ELSE lock[u]]
  /\ txn' = [txn EXCEPT ![t] = Idle]
  /\ UNCHANGED <<clock, tries>>

SenderOnly(t) == {txn[t].req.user}   \* mutant: the recipient is not saved
Saved(t) == Touched(txn[t].req)

Commit(t) ==
  /\ Ready(t)
  /\ Affordable(t)
  /\ \E rank \in IF txn[t].req.extra = 0 THEN {1} ELSE {1, 2} :
       /\ Unique(t, rank)
       /\ ledger' = [u \in User |-> IF u \in Saved(t)
                                    THEN ledger[u] \cup Entries(t, u, rank)
                                    ELSE ledger[u]]
  /\ Finish(t)

\* What makes a handler raise: too little money, a reference that was used, a
\* wallet with nothing to take back.
Refused(t) ==
  \/ Ready(t) /\ ~ (Affordable(t) /\ Unique(t, 1))
  \/ /\ Active(t)
     /\ txn[t].take = 0
     /\ Balance(ledger[txn[t].req.user]) = 0

\* A refused request, or one whose process or connection died.
Abort(t) ==
  /\ Active(t)
  /\ UNCHANGED ledger
  /\ Finish(t)

-----------------------------------------------------------------------------
FirstEntry(u) ==
  [stamp |-> 0, rank |-> 1, kind |-> "TOPUP", ref |-> None,
   amount |-> Opening[u], after |-> Opening[u]]

Init ==
  /\ ledger = [u \in User |-> IF Opening[u] = 0 THEN {} ELSE {FirstEntry(u)}]
  /\ lock = [u \in User |-> None]
  /\ clock = 0
  /\ tries = [r \in Request |-> 0]
  /\ txn = [t \in Tx |-> Idle]

Advance(t) == (\E u \in User : Acquire(t, u) \/ Read(t, u)) \/ Cap(t) \/ Stamp(t) \/ Commit(t)

Next ==
  \/ \E t \in Tx, r \in Request : Start(t, r)
  \/ \E t \in Tx : Advance(t) \/ Abort(t)

Spec == Init /\ [][Next]_vars

\* A request that can go on does, and one that is refused ends.
FairSpec == Spec /\ \A t \in Tx : WF_vars(Advance(t) \/ (Refused(t) /\ Abort(t)))

-----------------------------------------------------------------------------
(* Properties of any requests, however they interleave *)

\* Ledgers, locks and requests have their declared shapes.
TypeOK ==
  /\ ledger \in [User -> SUBSET Entry]
  /\ lock \in [User -> Tx \cup {None}]
  /\ clock \in Nat
  /\ tries \in [Request -> Nat]
  /\ txn \in [Tx -> Working \cup {Idle}]

\* Two requests that lock a wallet never work on the same balance: what the
\* holder of the lock has read misses no entry that was written under it (lock:
\* "two simultaneous purchases can both read a balance of 100,000").
UnderLock(entries) ==
  {e \in entries : e.kind \in {"TRANSFER_OUT", "TRANSFER_IN", "PURCHASE", "TOPUP"}}
LockedReadsAreFresh ==
  \A t \in Tx, u \in User :
    Active(t) /\ lock[u] = t /\ u \in txn[t].read =>
      UnderLock(txn[t].seen[u]) = UnderLock(ledger[u])

\* A request that waits for a wallet holds only lower ones, so no two wait for
\* each other (transfer: "wait for one another instead of deadlocking").
WaitsUpward ==
  \A t \in Tx, u, v \in User :
    Active(t) /\ lock[u] = t /\ v \in Missing(t) => u < v

\* A transfer takes from one wallet what it adds to another, in one commit:
\* one without the other is never seen (transfer, the two saves).
TransfersConserve ==
  \A u \in User : \A e \in ledger[u] :
    e.kind = "TRANSFER_OUT" =>
      \E v \in User \ {u} : \E f \in ledger[v] :
        f.kind = "TRANSFER_IN" /\ f.ref = e.ref /\ f.amount = -e.amount

\* A reason pays once: no wallet holds two entries of one kind for one
\* reference, however often its event is delivered (credit_reward, credit_topup).
PaidOnce ==
  \A u \in User : \A e, f \in ledger[u] :
    e # f /\ e.kind = f.kind => e.ref = None \/ e.ref # f.ref

\* Every balance_after is the one before it and the entry's amount.
Before(entries, e) == {f \in entries : Earlier(f, e)}
AddsUp(entries) ==
  \A e \in entries : e.after = Balance(Before(entries, e)) + e.amount

\* A wallet that only transfers have moved adds up, whatever runs at the same
\* time: a transfer reads and stamps under both locks (transfer).
Carried(entries) == \A e \in entries : e.stamp = 0 \/ e.kind \in {"TRANSFER_OUT", "TRANSFER_IN"}
TransferredWalletsAddUp == \A u \in User : Carried(ledger[u]) => AddsUp(ledger[u])

\* Every request ends: none waits for a lock for ever.
RequestsEnd == \A t \in Tx : Active(t) ~> ~ Active(t)

-----------------------------------------------------------------------------
(* Properties that need requests to take turns and no top-up to be overpaid *)

\* verify_integrity: the recorded balance is the sum of the ledger.
IntegrityHolds == \A u \in User : Balance(ledger[u]) = Replay(ledger[u])

\* The ledgers keep account as a bank does, one whole movement at a time, and
\* nothing is spent that the entries do not bring together.
Account == INSTANCE Bank WITH balance <- [u \in User |-> Replay(ledger[u])]
KeepsAccount == Account!Spec

=============================================================================
