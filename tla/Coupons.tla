------------------------------- MODULE Coupons -------------------------------
(***************************************************************************)
(* One coupon through the checkouts that use it.  A checkout quotes the    *)
(* price, commits its order, and only then, in a second transaction that   *)
(* stays open while the payment is begun on another connection, counts the *)
(* redemption.  An abandoned payment cancels the order and gives the       *)
(* redemption back; an operator edits the same row.                        *)
(*                                                                         *)
(* A code that is accepted but takes nothing off, a campaign being larger, *)
(* is stored on the order and not counted.  Abandoning the order gives it  *)
(* back all the same, so the counter falls below the redemptions on        *)
(* record; unbacked counts how often, and every limit below names it.      *)
(*                                                                         *)
(* The coupon is read without a lock; update() reads it again and writes   *)
(* the columns in which the copy differs, waiting for the transaction that *)
(* wrote the row before.  Giving back is a relative decrement.             *)
(***************************************************************************)
EXTENDS Integers, FiniteSets

CONSTANTS
  Order,      \* checkouts with the code, and the order each one places
  Customer,   \* whose they are
  Of,
  Releaser,   \* slots for one abandoned payment each
  Editor,     \* the operator's slot
  MaxUses,    \* max_redemptions
  PerUser,    \* max_per_user
  MaxTrouble, \* bound on the times something goes wrong
  MaxEdits,   \* bound on the operator's edits
  None

ASSUME LimitAssumption ==
  /\ IsFiniteSet(Order) /\ Of \in [Order -> Customer]
  /\ {MaxUses, PerUser, MaxTrouble, MaxEdits} \subseteq Nat
  /\ Releaser \cap Order = {} /\ Editor \notin Order \cup Releaser

Tx == Order \cup Releaser \cup {Editor}

VARIABLES
  coupon,    \* the committed row: redemption_count, and whether it is published
  uses,      \* orders with a committed redemption row
  order,     \* each order's committed state
  paying,    \* orders with a payment begun that waits for a decision
  txn,       \* the session of each checkout, release and edit
  trouble, edits,
  spends,    \* orders whose code took something off their price
  raced,     \* <<o, q>>: o was quoted while q's use was decided, not yet visible
  unbacked,  \* uses given back for which no redemption was on record
  stale,     \* a count was written from a copy that was out of date
  undone,    \* orders whose checkout was undone after the order's own commit
  early      \* orders released when their redemption could not be seen

vars ==
  <<coupon, uses, order, paying, txn, trouble, edits, spends, raced, unbacked, stale, undone,
    early>>
causes == <<spends, raced, unbacked, stale, undone, early>>

-----------------------------------------------------------------------------
Row == [count : Nat, open : BOOLEAN]
ASSUME NoneAssumption == None \notin Row \cup Order

State == {"NONE", "PENDING", "PAID", "CANCELLED"}
Pc == {"idle", "quoted", "placed", "read", "write", "counted", "begun", "ended"}

\* copy: the coupon as read; want and cols: as changed, and where it differs
\* from the row; flushed: the row as written; of and rows: the order being
\* released, and the redemption rows deleted for it.
Session ==
  [pc : Pc, copy : Row \cup {None}, want : Row \cup {None}, cols : SUBSET {"count", "open"},
   flushed : Row \cup {None}, of : Order \cup {None}, rows : SUBSET Order]

Rest(pc) ==
  [pc |-> pc, copy |-> None, want |-> None, cols |-> {}, flushed |-> None, of |-> None,
   rows |-> {}]

Free(x) == \A y \in Tx \ {x} : txn[y].flushed = None

\* A checkout whose use of the coupon is decided but not yet visible.
Counting(o) == o \in spends /\ txn[o].pc \notin {"idle", "ended"}

\* Checkouts quoted while another's use, or the same customer's, was decided.
Late == {o \in Order : \E q \in Order : <<o, q>> \in raced}
LateOf(customer) ==
  {o \in Order : Of[o] = customer /\ \E q \in Order : <<o, q>> \in raced /\ Of[q] = customer}

-----------------------------------------------------------------------------
(* A checkout: quote, order, redemption, payment *)

UsesOf(customer) == Cardinality({o \in uses : Of[o] = customer})

\* assert_redeemable
OffByOne(o) ==   \* mutant
  coupon.open /\ coupon.count <= MaxUses /\ UsesOf(Of[o]) < PerUser
Redeemable(o) ==
  /\ coupon.open
  /\ coupon.count < MaxUses
  /\ UsesOf(Of[o]) < PerUser

\* took: whether the code beats the running campaign, or stacks with it.
Quote(o, took) ==
  /\ txn[o].pc = "idle"
  /\ Redeemable(o)
  /\ txn' = [txn EXCEPT ![o] = Rest("quoted")]
  /\ spends' = IF took THEN spends \cup {o} ELSE spends
  /\ raced' = IF took THEN raced \cup ({o} \X {q \in Order : Counting(q)}) ELSE raced
  /\ UNCHANGED <<coupon, uses, order, paying, trouble, edits, unbacked, stale, undone, early>>

\* The order's own transaction.
Place(o) ==
  /\ txn[o].pc = "quoted"
  /\ order' = [order EXCEPT ![o] = "PENDING"]
  /\ txn' = [txn EXCEPT ![o].pc = "placed"]
  /\ UNCHANGED <<coupon, uses, paying, trouble, edits, causes>>

\* A code that took nothing off is not counted.
NothingToCount(o) ==
  /\ txn[o].pc = "placed" /\ o \notin spends
  /\ txn' = [txn EXCEPT ![o].pc = "counted"]
  /\ UNCHANGED <<coupon, uses, order, paying, trouble, edits, causes>>

\* get_by_code; the operator's edit begins with the same read.
Read(x) ==
  /\ txn[x].pc = IF x = Editor THEN "idle" ELSE "placed"
  /\ IF x = Editor THEN edits < MaxEdits ELSE x \in spends
  /\ edits' = IF x = Editor THEN edits + 1 ELSE edits
  /\ txn' = [txn EXCEPT ![x].pc = "read", ![x].copy = coupon]
  /\ UNCHANGED <<coupon, uses, order, paying, trouble, causes>>

\* redeem, archive or publish
NotCounted(x, r) == IF x = Editor THEN [r EXCEPT !.open = ~@] ELSE r   \* mutant
Changed(x, r) ==
  IF x = Editor THEN [r EXCEPT !.open = ~@] ELSE [r EXCEPT !.count = @ + 1]

Merged(y) ==
  [count |-> IF "count" \in y.cols THEN y.want.count ELSE coupon.count,
   open |-> IF "open" \in y.cols THEN y.want.open ELSE coupon.open]

\* After the UPDATE, the redemption row: both visible at the commit.
Written(y) ==
  [y EXCEPT !.pc = "counted", !.copy = None, !.want = None, !.cols = {},
            !.flushed = IF y.cols = {} THEN None ELSE Merged(y)]

\* A count that is written over another, or is taken for written.
Overtaken(x, y) ==
  /\ x \in Order \/ "count" \in y.cols
  /\ coupon.count # y.copy.count

Update(x) ==
  LET r == Changed(x, txn[x].copy)
      y == [txn[x] EXCEPT !.want = r, !.cols = {c \in {"count", "open"} : r[c] # coupon[c]}]
      now == y.cols = {} \/ Free(x) IN
  /\ txn[x].pc = "read"
  /\ txn' = [txn EXCEPT ![x] = IF now THEN Written(y) ELSE [y EXCEPT !.pc = "write"]]
  /\ stale' = (stale \/ Overtaken(x, y))
  /\ UNCHANGED <<coupon, uses, order, paying, trouble, edits, spends, raced, unbacked, undone, early>>

Write(x) ==
  /\ txn[x].pc = "write" /\ Free(x)
  /\ txn' = [txn EXCEPT ![x] = Written(txn[x])]
  /\ stale' = (stale \/ Overtaken(x, txn[x]))
  /\ UNCHANGED <<coupon, uses, order, paying, trouble, edits, spends, raced, unbacked, undone, early>>

Trouble == trouble < MaxTrouble /\ trouble' = trouble + 1

\* checkout.begin, committed on its own connection: a wallet settles the order
\* at once, the others wait for a decision.
Pay(o, wallet) ==
  /\ txn[o].pc = "counted"
  /\ paying' = IF wallet THEN paying ELSE paying \cup {o}
  /\ order' = IF wallet THEN [order EXCEPT ![o] = "PAID"] ELSE order
  /\ txn' = [txn EXCEPT ![o].pc = "begun"]
  /\ UNCHANGED <<coupon, uses, trouble, edits, causes>>

Visible(x) == IF txn[x].flushed = None THEN coupon ELSE txn[x].flushed

CommitIfUnlinked(o) ==   \* mutant
  /\ txn[o].pc = "begun"
  /\ coupon' = IF o \in paying THEN Visible(o) ELSE coupon
  /\ uses' = IF o \in paying \cap spends THEN uses \cup {o} ELSE uses
  /\ txn' = [txn EXCEPT ![o] = Rest("ended")]
  /\ UNCHANGED <<order, paying, trouble, edits, causes>>
Commit(o) ==
  /\ txn[o].pc = "begun"
  /\ coupon' = Visible(o)
  /\ uses' = uses \cup ({o} \cap spends)
  /\ txn' = [txn EXCEPT ![o] = Rest("ended")]
  /\ UNCHANGED <<order, paying, trouble, edits, causes>>

CommitEdit ==
  /\ txn[Editor].pc = "counted"
  /\ coupon' = Visible(Editor)
  /\ txn' = [txn EXCEPT ![Editor] = Rest("idle")]
  /\ UNCHANGED <<uses, order, paying, trouble, edits, causes>>

\* begin raises, the process is killed or the connection lost: the order stays.
Die(x) ==
  /\ txn[x].pc \notin {"idle", "ended"}
  /\ Trouble
  /\ undone' = IF x \in Order /\ order[x] # "NONE" THEN undone \cup {x} ELSE undone
  /\ txn' = [txn EXCEPT ![x] = Rest(IF x \in Order THEN "ended" ELSE "idle")]
  /\ UNCHANGED <<coupon, uses, order, paying, edits, spends, raced, unbacked, stale, early>>

-----------------------------------------------------------------------------
(* A payment that waits: approved, or abandoned and its coupon given back *)

Handling(o) == \E r \in Releaser : txn[r].of = o

\* on_payment_approved
Approve(o) ==
  /\ o \in paying /\ order[o] = "PENDING"
  /\ order' = [order EXCEPT ![o] = "PAID"]
  /\ UNCHANGED <<coupon, uses, paying, txn, trouble, edits, causes>>

\* on_payment_abandoned up to the DELETE, which sees committed rows only.
RowKept(r, o) ==   \* mutant
  /\ txn[r].pc = "idle"
  /\ o \in paying /\ order[o] = "PENDING"
  /\ txn' = [txn EXCEPT ![r] = [Rest("read") EXCEPT !.of = o]]
  /\ early' = IF o \in uses THEN early ELSE early \cup {o}
  /\ UNCHANGED <<coupon, uses, order, paying, trouble, edits, spends, raced, unbacked, stale, undone>>
Find(r, o) ==
  /\ txn[r].pc = "idle"
  /\ o \in paying /\ order[o] = "PENDING"
  /\ txn' = [txn EXCEPT ![r] = [Rest("read") EXCEPT !.of = o, !.rows = {o} \cap uses]]
  /\ early' = IF o \in uses /\ ~Handling(o) THEN early ELSE early \cup {o}
  /\ UNCHANGED <<coupon, uses, order, paying, trouble, edits, spends, raced, unbacked, stale, undone>>

\* The UPDATE, which waits for the coupon's row, and the commit: for any order
\* that stores a code, whether or not a redemption was deleted.
Floored(n) == IF n > 0 THEN n - 1 ELSE 0

GiveBack(r) ==
  /\ txn[r].pc = "read" /\ Free(r)
  /\ order' = [order EXCEPT ![txn[r].of] = "CANCELLED"]
  /\ uses' = uses \ txn[r].rows
  /\ coupon' = [coupon EXCEPT !.count = Floored(@)]
  /\ unbacked' = IF txn[r].rows \cap uses = {} THEN unbacked + 1 ELSE unbacked
  /\ txn' = [txn EXCEPT ![r] = Rest("idle")]
  /\ UNCHANGED <<paying, trouble, edits, spends, raced, stale, undone, early>>

-----------------------------------------------------------------------------
Init ==
  /\ coupon = [count |-> 0, open |-> TRUE]
  /\ uses = {} /\ paying = {} /\ order = [o \in Order |-> "NONE"]
  /\ txn = [x \in Tx |-> Rest("idle")]
  /\ trouble = 0 /\ edits = 0
  /\ spends = {} /\ raced = {} /\ unbacked = 0 /\ stale = FALSE /\ undone = {} /\ early = {}

Next ==
  \/ \E o \in Order : Place(o) \/ NothingToCount(o) \/ Commit(o) \/ Approve(o)
  \/ \E o \in Order, took \in BOOLEAN : Quote(o, took)
  \/ \E o \in Order, wallet \in BOOLEAN : Pay(o, wallet)
  \/ \E x \in Order \cup {Editor} : Read(x) \/ Update(x) \/ Write(x)
  \/ CommitEdit
  \/ \E r \in Releaser, o \in Order : Find(r, o)
  \/ \E r \in Releaser : GiveBack(r)
  \/ \E x \in Tx : Die(x)

Spec == Init /\ [][Next]_vars

-----------------------------------------------------------------------------
(* Every variable has its type. *)
TypeOK ==
  /\ coupon \in Row /\ uses \subseteq Order /\ paying \subseteq Order
  /\ order \in [Order -> State] /\ txn \in [Tx -> Session]
  /\ trouble \in 0..MaxTrouble /\ edits \in 0..MaxEdits
  /\ spends \subseteq Order /\ raced \subseteq Order \X Order /\ unbacked \in Nat /\ stale \in BOOLEAN
  /\ {undone, early} \subseteq SUBSET Order

(* Unless a count is written from an old copy, the counter every limit is
   checked against never exceeds the redemptions on record, and falls short of
   them by no more than the uses given back that nobody had counted: a code
   that took nothing off, or a release that came before the commit. *)
CountIsRedemptions ==
  ~stale =>
    coupon.count <= Cardinality(uses) /\ Cardinality(uses) <= coupon.count + unbacked

(* A code is used beyond its limit only by as much as checkouts overlapped
   and uses nobody had counted were given back: one more for each, over every
   order of checkouts, payments, releases and edits. *)
LimitHolds ==
  ~stale => Cardinality(uses) <= MaxUses + unbacked + Cardinality(Late)

(* A customer uses a code beyond the limit for one customer only by as many
   of their own checkouts as overlapped, whatever becomes of the counter. *)
CustomerLimitHolds ==
  \A c \in Customer : UsesOf(c) <= PerUser + Cardinality(LateOf(c))

(* An order that was paid for with the discount has used the code: a late
   rejection does not give back what was bought. *)
PaidOrdersAreCounted ==
  \A o \in spends :
    order[o] = "PAID" /\ txn[o].pc = "ended" /\ o \notin undone => o \in uses

(* An abandoned order has its use given back, if it had been recorded. *)
AbandonedAreGivenBack ==
  \A o \in Order : order[o] = "CANCELLED" /\ o \notin early => o \notin uses
=============================================================================
