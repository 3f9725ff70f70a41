-------------------------- MODULE ProvisioningProofs --------------------------
(***************************************************************************)
(* Provisioning's safety, proved for any orders, renewals, servers and     *)
(* numbers of concurrent requests, sweeps and failures.                    *)
(***************************************************************************)
EXTENDS Provisioning, FiniteSetTheorems, TLAPS

USE OrderAssumption, SlotAssumption, NoneAssumption

-----------------------------------------------------------------------------
(* The inductive invariant *)

Asking == {"create", "look", "extend"}
Renewing == {"look", "extend", "save"}

\* A row, read or about to be written, keeps its order and has its account.
RowOK(s, row, pn) == row # None => row.orderId = s /\ pn[row.node][s] >= 1

\* Where a session is with the order it works at: locked, not delivered.
Placed(t, x, lk, od, sb, pn) ==
  /\ (x.at # None) <=> (x.pc \in Asking \cup Renewing)
  /\ x.at # None =>
       x.at \in x.todo /\ lk[x.at] = t /\ x.node \in Node /\ od[x.at] # "ACTIVE"
  /\ x.pc = "create" => x.at \in Service
  /\ x.pc \in Renewing =>
       /\ x.at \in Renewal /\ x.held # None /\ x.held.node = x.node
       /\ RowOK(Renews[x.at], x.held, pn)
       /\ x.rows[Renews[x.at]] # None \/ sb[Renews[x.at]] # None

\* What it wrote is of orders it holds, and takes no delivered order back.
Owns(t, x, lk, od) ==
  \A o \in Order :
    /\ x.wrote[o] # None \/ o \in x.told => lk[o] = t
    /\ x.wrote[o] \notin {None, "ACTIVE"} => od[o] # "ACTIVE"
    /\ x.wrote[o] # None => o \notin x.todo \/ (o = x.at /\ x.wrote[o] # "ACTIVE")

\* What it wrote is backed by panels, rows and orders together.
Backed(x, sb, pn, tl) ==
  /\ \A o \in Order : x.wrote[o] = "ACTIVE" \/ o \in x.told => tl[o] >= 1
  /\ \A s \in Service :
       /\ RowOK(s, x.rows[s], pn)
       /\ x.rows[s] # None => x.wrote[s] = "ACTIVE" \/ sb[s] # None
       /\ x.wrote[s] = "ACTIVE" => x.rows[s] # None \/ sb[s] # None

\* A panel told for an order is followed by that order's delivery.
Owed(x) ==
  /\ x.pc = "save" => x.at \in x.told
  /\ x.pc \in Asking => x.at \notin x.told
  /\ x.pc \in {"idle", "done"} => x.told = {}
  /\ \A o \in x.told : o = x.at \/ (o \notin x.todo /\ x.wrote[o] = "ACTIVE")

Good(t, x, lk, od, sb, pn, tl) ==
  Placed(t, x, lk, od, sb, pn) /\ Owns(t, x, lk, od) /\ Backed(x, sb, pn, tl) /\ Owed(x)

Sessions == \A t \in Tx : Good(t, txn[t], lock, order, sub, panel, told)

RowsOK == \A s \in Service : RowOK(s, sub[s], panel)

AccountsTold == \A n \in Node, s \in Service : panel[n][s] >= 1 => told[s] >= 1

\* An order nobody has been told of and not delivered has cost nothing uncaused.
Unspent ==
  \A o \in Order :
    order[o] # "ACTIVE" /\ (\A t \in Tx : o \notin txn[t].told) => told[o] <= excuse[o]

IInv ==
  /\ TypeOK /\ Sessions /\ ActiveMeansTold /\ RowsOK /\ AccountsTold
  /\ DeliveredTogether /\ ToldAgainForCause /\ Unspent

-----------------------------------------------------------------------------
(* What the helpers make of a session *)

LEMMA RestingShape ==
  ASSUME NEW pc \in Pc
  PROVE  /\ Resting(pc) \in Session
         /\ Resting(pc).pc = pc /\ Resting(pc).todo = {} /\ Resting(pc).at = None
         /\ \A o \in Order : Resting(pc).wrote[o] = None
         /\ \A s \in Service : Resting(pc).rows[s] = None
         /\ Resting(pc).told = {}
  BY DEF Resting, Session

LEMMA OverShape ==
  ASSUME NEW x \in Session, NEW o \in Order, NEW state \in State
  PROVE  /\ Over(x, o, state) \in Session
         /\ Over(x, o, state).pc = "next" /\ Over(x, o, state).at = None
         /\ Over(x, o, state).todo = x.todo \ {o}
         /\ Over(x, o, state).wrote[o] = state
         /\ \A q \in Order \ {o} : Over(x, o, state).wrote[q] = x.wrote[q]
         /\ Over(x, o, state).rows = x.rows /\ Over(x, o, state).told = x.told
<1>1. Put(x.wrote, o, state) \in [Order -> State \cup {None}]
      /\ Put(x.wrote, o, state)[o] = state
      /\ \A q \in Order \ {o} : Put(x.wrote, o, state)[q] = x.wrote[q]
  BY DEF Put, Session
<1>2. QED
  BY <1>1 DEF Over, Session, Pc

LEMMA LeftShape ==
  ASSUME NEW x \in Session, NEW o \in Order
  PROVE  /\ Left(x, o) \in Session
         /\ Left(x, o).pc = "next" /\ Left(x, o).at = None
         /\ Left(x, o).todo = x.todo \ {o}
         /\ Left(x, o).wrote = x.wrote
         /\ Left(x, o).rows = x.rows /\ Left(x, o).told = x.told
  BY DEF Left, Session, Pc

LEMMA WorkingShape ==
  ASSUME NEW x \in Session, NEW o \in Order, NEW pc \in Pc, NEW n \in Node,
         NEW held \in Row \cup {None}
  PROVE  LET w == Working(x, o, pc, n, held) IN
         /\ w \in Session
         /\ w.pc = pc /\ w.at = o /\ w.node = n /\ w.held = held
         /\ w.todo = x.todo /\ w.rows = x.rows /\ w.told = x.told
         /\ w.wrote[o] \in {x.wrote[o], "PROVISIONING"}
         /\ \A q \in Order \ {o} : w.wrote[q] = x.wrote[q]
<1> DEFINE wrote == IF order[o] \in Startable THEN Put(x.wrote, o, "PROVISIONING") ELSE x.wrote
<1>1. /\ wrote \in [Order -> State \cup {None}]
      /\ wrote[o] \in {x.wrote[o], "PROVISIONING"}
      /\ \A q \in Order \ {o} : wrote[q] = x.wrote[q]
  BY DEF Put, Session, State
<1>2. Working(x, o, pc, n, held)
      = [x EXCEPT !.pc = pc, !.at = o, !.node = n, !.held = held, !.wrote = wrote]
  BY DEF Working
<1> HIDE DEF wrote
<1> DEFINE w == [x EXCEPT !.pc = pc, !.at = o, !.node = n, !.held = held, !.wrote = wrote]
<1>3. w \in Session
  BY <1>1 DEF Session
<1>4. /\ w.pc = pc /\ w.at = o /\ w.node = n /\ w.held = held /\ w.wrote = wrote
      /\ w.todo = x.todo /\ w.rows = x.rows /\ w.told = x.told
  BY DEF Session
<1> HIDE DEF w
<1>5. Working(x, o, pc, n, held) = w
  BY <1>2 DEF w
<1>6. QED
  BY <1>1, <1>3, <1>4, <1>5

LEMMA ToldShape ==
  ASSUME NEW x \in Session, x.at \in Order
  PROVE  /\ Told(x) \in Session
         /\ Told(x).pc = x.pc /\ Told(x).todo = x.todo /\ Told(x).at = x.at
         /\ Told(x).node = x.node /\ Told(x).held = x.held
         /\ Told(x).wrote = x.wrote /\ Told(x).rows = x.rows
         /\ Told(x).told = x.told \cup {x.at}
  BY DEF Told, Session

LEMMA WithRowShape ==
  ASSUME NEW x \in Session, NEW s \in Service, NEW row \in Row
  PROVE  LET w == WithRow(x, s, row) IN
         /\ w \in Session
         /\ w.pc = x.pc /\ w.todo = x.todo /\ w.at = x.at /\ w.wrote = x.wrote
         /\ w.told = x.told
         /\ w.rows[s] = row /\ \A q \in Service \ {s} : w.rows[q] = x.rows[q]
<1> DEFINE rows == Put(x.rows, s, row)
<1>1. /\ rows \in [Service -> Row \cup {None}]
      /\ rows[s] = row
      /\ \A q \in Service \ {s} : rows[q] = x.rows[q]
  BY DEF Put, Session
<1>2. WithRow(x, s, row) = [x EXCEPT !.rows = rows]
  BY DEF WithRow
<1> HIDE DEF rows
<1>3. QED
  BY <1>1, <1>2 DEF Session

LEMMA AppliedShape ==
  ASSUME NEW row \in Row, NEW held \in Row, NEW o \in Order
  PROVE  /\ Applied(row, Extend(held, o)) \in Row
         /\ Applied(row, Extend(held, o)).node = held.node
         /\ Applied(row, Extend(held, o)).orderId = row.orderId
<1>1. Extend(held, o) \in Row /\ Extend(held, o).node = held.node
  <2> DEFINE days == held.days + 1
  <2>1. days \in Nat
    BY DEF Row
  <2>2. Extend(held, o) = [held EXCEPT !.days = days, !.orderId = o]
    BY DEF Extend
  <2> HIDE DEF days
  <2>3. QED
    BY <2>1, <2>2 DEF Row
<1>2. QED
  BY <1>1 DEF Applied, Row

-----------------------------------------------------------------------------
(* When a session stays good *)

\* The others go on: locks they hold stay theirs, accounts and rows only
\* appear, and no order they hold is delivered behind their backs.
LEMMA OthersStayGood ==
  ASSUME NEW t \in Tx, NEW x \in Session,
         NEW lk, NEW od, NEW sb, NEW pn \in [Node -> [Service -> Nat]], NEW tl \in [Order -> Nat],
         NEW lk2, NEW od2, NEW sb2, NEW pn2 \in [Node -> [Service -> Nat]], NEW tl2 \in [Order -> Nat],
         Good(t, x, lk, od, sb, pn, tl),
         \A o \in Order : lk[o] = t => lk2[o] = t /\ (od[o] # "ACTIVE" => od2[o] # "ACTIVE"),
         \A s \in Service : sb[s] # None => sb2[s] # None,
         \A n \in Node, s \in Service : pn[n][s] >= 1 => pn2[n][s] >= 1,
         \A o \in Order : tl[o] >= 1 => tl2[o] >= 1
  PROVE  Good(t, x, lk2, od2, sb2, pn2, tl2)
<1>1. \A s \in Service, row \in Row \cup {None} : RowOK(s, row, pn) => RowOK(s, row, pn2)
  BY DEF RowOK, Row
<1>2. Placed(t, x, lk2, od2, sb2, pn2)
  BY <1>1 DEF Good, Placed, Session
<1>3. Owns(t, x, lk2, od2)
  <2>1. Owns(t, x, lk, od)
    BY DEF Good
  <2>2. SUFFICES ASSUME NEW o \in Order
                 PROVE  /\ x.wrote[o] # None \/ o \in x.told => lk2[o] = t
                        /\ x.wrote[o] \notin {None, "ACTIVE"} => od2[o] # "ACTIVE"
                        /\ x.wrote[o] # None => o \notin x.todo \/ (o = x.at /\ x.wrote[o] # "ACTIVE")
    BY DEF Owns
  <2>3. QED
    BY <2>1 DEF Owns
<1>4. Backed(x, sb2, pn2, tl2)
  <2>1. Backed(x, sb, pn, tl)
    BY DEF Good
  <2>2. \A s \in Service : RowOK(s, x.rows[s], pn2)
    BY <1>1, <2>1 DEF Backed, Session
  <2>3. QED
    BY <2>1, <2>2 DEF Backed
<1>5. QED
  BY <1>2, <1>3, <1>4 DEF Good

LEMMA PanelsGrow ==
  ASSUME NEW t \in Tx, NEW x \in Session, NEW lk, NEW od, NEW sb,
         NEW pn \in [Node -> [Service -> Nat]], NEW tl \in [Order -> Nat],
         NEW pn2 \in [Node -> [Service -> Nat]], NEW tl2 \in [Order -> Nat],
         Good(t, x, lk, od, sb, pn, tl),
         \A n \in Node, s \in Service : pn[n][s] >= 1 => pn2[n][s] >= 1,
         \A o \in Order : tl[o] >= 1 => tl2[o] >= 1
  PROVE  Good(t, x, lk, od, sb, pn2, tl2)
BY OthersStayGood

LEMMA CommitsGrow ==
  ASSUME NEW t \in Tx, NEW x \in Session, NEW lk, NEW od, NEW sb,
         NEW lk2, NEW od2, NEW sb2,
         NEW pn \in [Node -> [Service -> Nat]], NEW tl \in [Order -> Nat],
         Good(t, x, lk, od, sb, pn, tl),
         \A o \in Order : lk[o] = t => lk2[o] = t /\ (od[o] # "ACTIVE" => od2[o] # "ACTIVE"),
         \A s \in Service : sb[s] # None => sb2[s] # None
  PROVE  Good(t, x, lk2, od2, sb2, pn, tl)
<1>1. Placed(t, x, lk2, od2, sb2, pn)
  BY DEF Good, Placed, Session
<1>2. Owns(t, x, lk2, od2)
  <2>1. Owns(t, x, lk, od)
    BY DEF Good
  <2>2. QED
    BY <2>1 DEF Owns
<1>3. Backed(x, sb2, pn, tl)
  BY DEF Good, Backed
<1>4. QED
  BY <1>1, <1>2, <1>3 DEF Good

LEMMA LocksGrow ==
  ASSUME NEW t \in Tx, NEW x \in Session, NEW lk, NEW lk2, NEW od, NEW sb,
         NEW pn \in [Node -> [Service -> Nat]], NEW tl \in [Order -> Nat],
         Good(t, x, lk, od, sb, pn, tl),
         \A o \in Order : lk[o] = t => lk2[o] = t
  PROVE  Good(t, x, lk2, od, sb, pn, tl)
BY OthersStayGood

\* A routine that ends with a write: the delivery is backed, or the order is
\* not delivered.
LEMMA OverIsGood ==
  ASSUME NEW t \in Tx, NEW x \in Session, NEW o \in Order, NEW state \in State,
         NEW lk, NEW od, NEW sb, NEW pn, NEW tl,
         Owns(t, x, lk, od), Backed(x, sb, pn, tl), Owed(x),
         x.at \in {None, o}, o \in x.todo, lk[o] = t,
         state = "ACTIVE" => /\ tl[o] >= 1
                             /\ o \in Service => x.rows[o] # None \/ sb[o] # None,
         state # "ACTIVE" => od[o] # "ACTIVE" /\ o \notin x.told
  PROVE  Good(t, Over(x, o, state), lk, od, sb, pn, tl)
<1> DEFINE w == Over(x, o, state)
<1>1. /\ w \in Session /\ w.pc = "next" /\ w.at = None /\ w.todo = x.todo \ {o}
      /\ w.wrote[o] = state /\ \A q \in Order \ {o} : w.wrote[q] = x.wrote[q]
      /\ w.rows = x.rows /\ w.told = x.told
  BY OverShape
<1> HIDE DEF w
<1>2. None \notin Order /\ x.wrote \in [Order -> State \cup {None}] /\ x.told \subseteq Order
      /\ Service \subseteq Order
  BY DEF Session, Order
<1>3. Placed(t, w, lk, od, sb, pn)
  BY <1>1 DEF Placed, Asking, Renewing
<1>4. Owns(t, w, lk, od)
  BY <1>1, <1>2 DEF Owns
<1>5. Backed(w, sb, pn, tl)
  BY <1>1, <1>2 DEF Backed, Owns, State
<1>6. Owed(w)
  BY <1>1, <1>2 DEF Owed, Asking
<1>7. QED
  BY <1>3, <1>4, <1>5, <1>6 DEF Good, w

\* A routine that ends without one.
LEMMA LeftIsGood ==
  ASSUME NEW t \in Tx, NEW x \in Session, NEW o \in Order,
         NEW lk, NEW od, NEW sb, NEW pn, NEW tl,
         Owns(t, x, lk, od), Backed(x, sb, pn, tl), Owed(x),
         x.at \in {None, o}, o \notin x.told
  PROVE  Good(t, Left(x, o), lk, od, sb, pn, tl)
<1> DEFINE w == Left(x, o)
<1>1. /\ w \in Session /\ w.pc = "next" /\ w.at = None /\ w.todo = x.todo \ {o}
      /\ w.wrote = x.wrote /\ w.rows = x.rows /\ w.told = x.told
  BY LeftShape
<1> HIDE DEF w
<1>2. None \notin Order /\ x.told \subseteq Order
  BY DEF Session
<1>3. Placed(t, w, lk, od, sb, pn)
  BY <1>1 DEF Placed, Asking, Renewing
<1>4. Owns(t, w, lk, od)
  BY <1>1 DEF Owns
<1>5. Backed(w, sb, pn, tl)
  BY <1>1 DEF Backed
<1>6. Owed(w)
  BY <1>1, <1>2 DEF Owed, Asking
<1>7. QED
  BY <1>3, <1>4, <1>5, <1>6 DEF Good, w

LEMMA RestingIsGood ==
  ASSUME NEW t \in Tx, NEW pc \in {"idle", "next", "done"},
         NEW lk, NEW od, NEW sb, NEW pn, NEW tl
  PROVE  Good(t, Resting(pc), lk, od, sb, pn, tl)
<1>1. pc \in Pc
  BY DEF Pc
<1>2. QED
  BY <1>1, RestingShape
     DEF Good, Placed, Owns, Backed, Owed, RowOK, Asking, Renewing, Order, State

-----------------------------------------------------------------------------
(* Steps that touch neither committed rows nor panels *)

LEMMA SessionOf ==
  ASSUME TypeOK, NEW t \in Tx
  PROVE  txn[t] \in Session
  BY DEF TypeOK

\* Only the session's own locks and the row locks may change.
QuietFrame(t) ==
  /\ UNCHANGED <<order, paidAt, sub, panel, told, excuse>>
  /\ lock' \in [Order -> Tx \cup {None}]
  /\ \A o \in Order : lock[o] \in Tx \ {t} => lock'[o] = lock[o]
  /\ rowLock' \in [Service -> Tx \cup {None}]
  /\ trouble' \in Nat

LEMMA QuietKeeps ==
  ASSUME IInv, NEW t \in Tx, NEW x \in Session,
         txn' = [txn EXCEPT ![t] = x], QuietFrame(t),
         Good(t, x, lock', order, sub, panel, told),
         txn[t].told \subseteq x.told
  PROVE  IInv'
<1> USE DEF QuietFrame
<1>1. TypeOK'
  BY DEF IInv, TypeOK
<1>2. txn'[t] = x /\ \A u \in Tx \ {t} : txn'[u] = txn[u]
  BY DEF IInv, TypeOK
<1>3. Sessions'
  <2>1. SUFFICES ASSUME NEW u \in Tx
                 PROVE  Good(u, txn'[u], lock', order, sub, panel, told)
    BY DEF Sessions
  <2>2. CASE u = t
    BY <2>2, <1>2
  <2>3. CASE u # t
    <3>1. Good(u, txn[u], lock, order, sub, panel, told) /\ txn[u] \in Session
      BY DEF IInv, Sessions, TypeOK
    <3>2. \A o \in Order : lock[o] = u => lock'[o] = u
      BY <2>3
    <3>3. panel \in [Node -> [Service -> Nat]] /\ told \in [Order -> Nat]
      BY DEF IInv, TypeOK
    <3>4. Good(u, txn[u], lock', order, sub, panel, told)
      BY <3>1, <3>2, <3>3, LocksGrow
    <3>5. QED
      BY <3>4, <2>3, <1>2
  <2>4. QED
    BY <2>2, <2>3
<1>4. ActiveMeansTold' /\ RowsOK' /\ AccountsTold' /\ DeliveredTogether' /\ ToldAgainForCause'
  BY DEF IInv, ActiveMeansTold, RowsOK, AccountsTold, DeliveredTogether, ToldAgainForCause
<1>5. Unspent'
  <2>1. \A o \in Order : (\A u \in Tx : o \notin txn'[u].told) => \A u \in Tx : o \notin txn[u].told
    BY <1>2
  <2>2. QED
    BY <2>1 DEF IInv, Unspent
<1>6. QED
  BY <1>1, <1>3, <1>4, <1>5 DEF IInv

\* What a session knows of itself.
LEMMA Mine ==
  ASSUME IInv, NEW t \in Tx
  PROVE  /\ txn[t] \in Session
         /\ Good(t, txn[t], lock, order, sub, panel, told)
         /\ Placed(t, txn[t], lock, order, sub, panel) /\ Owns(t, txn[t], lock, order)
         /\ Backed(txn[t], sub, panel, told) /\ Owed(txn[t])
  BY DEF IInv, TypeOK, Sessions, Good

LEMMA BeginKeeps ==
  ASSUME IInv, NEW t \in Tx, NEW orders \in SUBSET Order,
         txn[t].pc = "idle", txn' = [txn EXCEPT ![t] = Starting(orders)],
         UNCHANGED <<order, paidAt, sub, panel, lock, rowLock, trouble, told, excuse>>
  PROVE  IInv'
<1> DEFINE x == Starting(orders)
<1>1. /\ x \in Session /\ x.pc = "next" /\ x.at = None /\ x.told = {}
      /\ x.wrote = Resting("next").wrote /\ x.rows = Resting("next").rows
  BY DEF Starting, Resting, Session, Pc
<1>2. /\ \A o \in Order : x.wrote[o] = None
      /\ \A s \in Service : x.rows[s] = None
  BY <1>1 DEF Resting
<1> HIDE DEF x
<1>3. Good(t, x, lock, order, sub, panel, told)
  BY <1>1, <1>2 DEF Good, Placed, Owns, Backed, Owed, RowOK, Asking, Renewing, Order, State
<1>4. txn[t].told = {}
  BY Mine DEF Owed
<1>5. QuietFrame(t) /\ lock' = lock
  BY DEF QuietFrame, IInv, TypeOK
<1>6. QED
  BY <1>1, <1>3, <1>4, <1>5, QuietKeeps DEF x

\* An order a session is about to claim: nobody holds it, and no row names it
\* unless it is delivered.
LEMMA Claimed ==
  ASSUME IInv, NEW t \in Tx, NEW o \in Order, Claim(t, o)
  PROVE  /\ txn[t].pc = "next" /\ txn[t].at = None /\ o \in txn[t].todo
         /\ o \notin txn[t].told /\ txn[t].wrote[o] = None
         /\ lock'[o] = t
         /\ \A q \in Order : lock[q] \in Tx => lock'[q] = lock[q]
         /\ lock' \in [Order -> Tx \cup {None}]
         /\ Good(t, txn[t], lock', order, sub, panel, told)
<1>1. /\ txn[t].pc = "next" /\ o \in txn[t].todo /\ lock[o] = None
      /\ lock' = [lock EXCEPT ![o] = t]
  BY DEF Claim, IsNext, Free
<1>2. lock \in [Order -> Tx \cup {None}]
  BY DEF IInv, TypeOK
<1>3. txn[t].at = None
  BY <1>1, Mine DEF Placed, Asking, Renewing
<1>4. o \notin txn[t].told /\ txn[t].wrote[o] = None
  BY <1>1, Mine DEF Owns
<1>5. lock'[o] = t /\ (\A q \in Order : lock[q] \in Tx => lock'[q] = lock[q])
      /\ lock' \in [Order -> Tx \cup {None}]
  BY <1>1, <1>2
<1>6. panel \in [Node -> [Service -> Nat]] /\ told \in [Order -> Nat]
  BY DEF IInv, TypeOK
<1>7. Good(t, txn[t], lock', order, sub, panel, told)
  BY <1>5, <1>6, Mine, LocksGrow
<1>8. QED
  BY <1>1, <1>3, <1>4, <1>5, <1>7

\* What a session finds for a service is the row of that service.
LEMMA ViewOK ==
  ASSUME IInv, NEW t \in Tx, NEW s \in Service
  PROVE  View(t, s) \in Row \cup {None} /\ RowOK(s, View(t, s), panel)
  BY Mine DEF View, IInv, TypeOK, RowsOK, Backed, Session

LEMMA ByOrderOf ==
  ASSUME IInv, NEW t \in Tx, NEW o \in Order, NEW s \in ByOrder(t, o)
  PROVE  s = o /\ o \in Service /\ View(t, o) # None /\ told[o] >= 1
<1>1. s \in Service /\ View(t, s) # None /\ View(t, s).orderId = o
  BY DEF ByOrder
<1>2. s = o /\ View(t, s) \in Row /\ panel[View(t, s).node][s] >= 1
  BY <1>1, ViewOK DEF RowOK
<1>3. told[s] >= 1
  BY <1>1, <1>2 DEF IInv, AccountsTold, Row
<1>4. QED
  BY <1>1, <1>2, <1>3

-----------------------------------------------------------------------------
(* provision, up to the panel *)

LEMMA AlreadyDeliveredKeeps ==
  ASSUME IInv, NEW t \in Tx, NEW o \in Order, AlreadyDelivered(t, o)
  PROVE  IInv'
<1>1. Claim(t, o) /\ trouble' = trouble
  BY DEF AlreadyDelivered
<1>2. PICK s \in ByOrder(t, o) : TRUE
  BY DEF AlreadyDelivered
<1>3. o \in Service /\ View(t, o) # None /\ told[o] >= 1
  BY <1>2, ByOrderOf
<1>4. QuietFrame(t)
  BY <1>1, Claimed DEF QuietFrame, Claim, IInv, TypeOK
<1>5. /\ Owns(t, txn[t], lock', order) /\ Backed(txn[t], sub, panel, told) /\ Owed(txn[t])
      /\ txn[t].at \in {None, o} /\ o \in txn[t].todo /\ lock'[o] = t
      /\ o \notin txn[t].told /\ txn[t] \in Session
  BY <1>1, Claimed, Mine DEF Good
<1>6. CASE order[o] \in Activable
  <2>1. txn' = [txn EXCEPT ![t] = Over(txn[t], o, "ACTIVE")]
    BY <1>6 DEF AlreadyDelivered
  <2>2. o \in Service => txn[t].rows[o] # None \/ sub[o] # None
    BY <1>3 DEF View
  <2>3. "ACTIVE" \in State
    BY DEF State
  <2>4. Good(t, Over(txn[t], o, "ACTIVE"), lock', order, sub, panel, told)
    BY <1>3, <1>5, <2>2, <2>3, OverIsGood
  <2>5. Over(txn[t], o, "ACTIVE") \in Session /\ Over(txn[t], o, "ACTIVE").told = txn[t].told
    BY <1>5, <2>3, OverShape
  <2>6. QED
    BY <1>4, <2>1, <2>4, <2>5, QuietKeeps
<1>7. CASE order[o] \notin Activable
  <2>1. txn' = [txn EXCEPT ![t] = Left(txn[t], o)]
    BY <1>7 DEF AlreadyDelivered
  <2>2. Good(t, Left(txn[t], o), lock', order, sub, panel, told)
    BY <1>5, LeftIsGood
  <2>3. Left(txn[t], o) \in Session /\ Left(txn[t], o).told = txn[t].told
    BY <1>5, LeftShape
  <2>4. QED
    BY <1>4, <2>1, <2>2, <2>3, QuietKeeps
<1>8. QED
  BY <1>6, <1>7

LEMMA TurnedAwayKeeps ==
  ASSUME IInv, NEW t \in Tx, NEW o \in Order, TurnedAway(t, o)
  PROVE  IInv'
<1>1. Claim(t, o) /\ trouble' = trouble /\ txn' = [txn EXCEPT ![t] = Left(txn[t], o)]
  BY DEF TurnedAway
<1>2. QuietFrame(t)
  BY <1>1, Claimed DEF QuietFrame, Claim, IInv, TypeOK
<1>3. /\ Owns(t, txn[t], lock', order) /\ Backed(txn[t], sub, panel, told) /\ Owed(txn[t])
      /\ txn[t].at \in {None, o} /\ o \notin txn[t].told /\ txn[t] \in Session
  BY <1>1, Claimed, Mine DEF Good
<1>4. Good(t, Left(txn[t], o), lock', order, sub, panel, told)
  BY <1>3, LeftIsGood
<1>5. Left(txn[t], o) \in Session /\ Left(txn[t], o).told = txn[t].told
  BY <1>3, LeftShape
<1>6. QED
  BY <1>1, <1>2, <1>4, <1>5, QuietKeeps

\* A routine that starts works at an order that is not delivered and whose
\* service, if it is a new one, has no row.
LEMMA Started ==
  ASSUME IInv, NEW t \in Tx, NEW o \in Order, Starts(t, o)
  PROVE  /\ Claim(t, o) /\ order[o] # "ACTIVE" /\ o \notin txn[t].told
         /\ txn[t] \in Session /\ txn[t].at = None /\ o \in txn[t].todo /\ lock'[o] = t
         /\ Owns(t, txn[t], lock', order) /\ Backed(txn[t], sub, panel, told) /\ Owed(txn[t])
         /\ trouble' \in Nat => QuietFrame(t)
<1>1. Claim(t, o) /\ CanStart(order[o])
  BY DEF Starts
<1>2. order[o] # "ACTIVE"
  BY <1>1 DEF CanStart, Startable
<1>3. /\ Owns(t, txn[t], lock', order) /\ Backed(txn[t], sub, panel, told) /\ Owed(txn[t])
      /\ txn[t].at = None /\ o \in txn[t].todo /\ lock'[o] = t
      /\ o \notin txn[t].told /\ txn[t] \in Session
  BY <1>1, Claimed, Mine DEF Good
<1>4. trouble' \in Nat => QuietFrame(t)
  BY <1>1, Claimed DEF QuietFrame, Claim, IInv, TypeOK
<1>5. QED
  BY <1>1, <1>2, <1>3, <1>4

\* At the panel with an order.
LEMMA WorkingIsGood ==
  ASSUME IInv, NEW t \in Tx, NEW o \in Order, Starts(t, o),
         NEW pc \in {"create", "look"}, NEW n \in Node, NEW held \in Row \cup {None},
         trouble' = trouble,
         pc = "create" => o \in Service,
         pc = "look" => /\ o \in Renewal /\ held = View(t, Renews[o])
                        /\ held # None /\ held.node = n,
         txn' = [txn EXCEPT ![t] = Working(txn[t], o, pc, n, held)]
  PROVE  IInv'
<1> DEFINE x == txn[t]  w == Working(x, o, pc, n, held)
<1>1. /\ order[o] # "ACTIVE" /\ o \notin x.told /\ x.wrote[o] = None
      /\ x \in Session /\ x.at = None /\ o \in x.todo /\ lock'[o] = t
      /\ Owns(t, x, lock', order) /\ Backed(x, sub, panel, told) /\ Owed(x)
      /\ QuietFrame(t)
  BY Started, Claimed DEF IInv, TypeOK
<1>2. /\ w \in Session
      /\ w.pc = pc /\ w.at = o /\ w.node = n /\ w.held = held
      /\ w.todo = x.todo /\ w.rows = x.rows /\ w.told = x.told
      /\ w.wrote[o] \in {None, "PROVISIONING"}
      /\ \A q \in Order \ {o} : w.wrote[q] = x.wrote[q]
  <2>1. x \in Session /\ pc \in Pc /\ x.wrote[o] = None
    BY <1>1 DEF Pc
  <2> HIDE DEF x
  <2>2. QED
    BY <2>1, WorkingShape
<1>3. pc = "look" => /\ RowOK(Renews[o], held, panel)
                     /\ x.rows[Renews[o]] # None \/ sub[Renews[o]] # None
  BY ViewOK DEF View
<1> HIDE DEF w, x
<1>4. None \notin Order /\ Service \subseteq Order /\ x.told \subseteq Order
      /\ None # "ACTIVE" /\ None # "PROVISIONING"
  BY <1>1 DEF Order, State, Session
<1>5. Placed(t, w, lock', order, sub, panel)
  BY <1>1, <1>2, <1>3, <1>4 DEF Placed, Asking, Renewing
<1>6. Owns(t, w, lock', order)
  BY <1>1, <1>2, <1>4 DEF Owns
<1>7. Backed(w, sub, panel, told)
  BY <1>1, <1>2, <1>4 DEF Backed
<1>8. Owed(w)
  BY <1>1, <1>2, <1>4 DEF Owed, Asking
<1>9. Good(t, w, lock', order, sub, panel, told)
  BY <1>5, <1>6, <1>7, <1>8 DEF Good
<1>10. QED
  BY <1>1, <1>2, <1>9, QuietKeeps DEF w, x

LEMMA StartCreateKeeps ==
  ASSUME IInv, NEW t \in Tx, NEW o \in Order, StartCreate(t, o)
  PROVE  IInv'
<1>1. PICK n \in Bound[o] : txn' = [txn EXCEPT ![t] = Working(txn[t], o, "create", n, None)]
  BY DEF StartCreate
<1>2. o \in Service /\ Starts(t, o) /\ trouble' = trouble /\ n \in Node
  BY <1>1 DEF StartCreate
<1>3. QED
  BY <1>1, <1>2, WorkingIsGood

LEMMA StartRenewKeeps ==
  ASSUME IInv, NEW t \in Tx, NEW o \in Order, StartRenew(t, o)
  PROVE  IInv'
<1> DEFINE held == View(t, Renews[o])
<1>1. /\ o \in Renewal /\ Starts(t, o) /\ trouble' = trouble /\ held # None
      /\ txn' = [txn EXCEPT ![t] = Working(txn[t], o, "look", held.node, held)]
  BY DEF StartRenew
<1>2. held \in Row /\ held.node \in Node
  BY <1>1, ViewOK DEF Row
<1> HIDE DEF held
<1>3. QED
  BY <1>1, <1>2, WorkingIsGood DEF held

LEMMA NoServerKeeps ==
  ASSUME IInv, NEW t \in Tx, NEW o \in Order, NoServer(t, o)
  PROVE  IInv'
<1>1. /\ Starts(t, o) /\ trouble' = trouble + 1
      /\ txn' = [txn EXCEPT ![t] = Over(txn[t], o, "FAILED")]
  BY DEF NoServer
<1>2. trouble' \in Nat /\ "FAILED" \in State
  BY <1>1 DEF IInv, TypeOK, State
<1>3. Good(t, Over(txn[t], o, "FAILED"), lock', order, sub, panel, told)
  BY <1>1, <1>2, Started, OverIsGood
<1>4. /\ Over(txn[t], o, "FAILED") \in Session
      /\ Over(txn[t], o, "FAILED").told = txn[t].told
  BY <1>1, <1>2, Started, OverShape
<1>5. QED
  BY <1>1, <1>2, <1>3, <1>4, Started, QuietKeeps

-----------------------------------------------------------------------------
(* At the panel: steps without an effect on it *)

\* The order a session is at, and the server.
LEMMA AtWork ==
  ASSUME IInv, NEW t \in Tx, txn[t].pc \in Asking \cup Renewing
  PROVE  /\ txn[t] \in Session /\ txn[t].at \in Order /\ txn[t].node \in Node
         /\ txn[t].at \in txn[t].todo /\ lock[txn[t].at] = t
         /\ order[txn[t].at] # "ACTIVE"
  BY Mine DEF Placed, Session

LEMMA TroubleNat ==
  ASSUME IInv, NEW t \in Tx, Trouble(t)
  PROVE  trouble' \in Nat
  BY DEF IInv, TypeOK, Trouble

LEMMA LookKeeps ==
  ASSUME IInv, NEW t \in Tx, Look(t)
  PROVE  IInv'
<1> DEFINE x == txn[t]
           w == [x EXCEPT !.pc = "extend", !.seen = panel[x.node][Of(x.at)]]
<1>1. x.pc = "look" /\ x \in Session /\ x.at \in Order /\ x.node \in Node
  BY AtWork DEF Look, Asking, Renewing
<1>2. txn' = [txn EXCEPT ![t] = w]
  BY DEF Look
<1>3. panel[x.node][Of(x.at)] \in Nat
  BY <1>1 DEF IInv, TypeOK, Of, Order
<1>4. /\ w \in Session /\ w.pc = "extend" /\ w.todo = x.todo /\ w.at = x.at
      /\ w.node = x.node /\ w.held = x.held /\ w.wrote = x.wrote /\ w.rows = x.rows
      /\ w.told = x.told
  BY <1>1, <1>3 DEF Session, Pc
<1>5. /\ Placed(t, x, lock, order, sub, panel) /\ Owns(t, x, lock, order)
      /\ Backed(x, sub, panel, told) /\ Owed(x)
  BY Mine
<1>6. QuietFrame(t) /\ lock' = lock
  BY DEF QuietFrame, Look, IInv, TypeOK
<1> HIDE DEF w, x
<1>7. Placed(t, w, lock, order, sub, panel)
  BY <1>1, <1>4, <1>5 DEF Placed, Asking, Renewing
<1>8. Owns(t, w, lock, order) /\ Backed(w, sub, panel, told)
  BY <1>4, <1>5 DEF Owns, Backed
<1>9. Owed(w)
  BY <1>1, <1>4, <1>5 DEF Owed, Asking
<1>10. Good(t, w, lock, order, sub, panel, told)
  BY <1>7, <1>8, <1>9 DEF Good
<1>11. QED
  BY <1>2, <1>4, <1>6, <1>10, QuietKeeps DEF x

\* The UPDATE that moves the date leaves the row's order alone.
LEMMA RenewedKeeps ==
  ASSUME IInv, NEW t \in Tx, Renewed(t)
  PROVE  IInv'
<1> DEFINE x == txn[t]  o == x.at  s == Renews[o]
           row == Applied(View(t, s), Extend(x.held, o))
           w == WithRow(x, s, row)
<1>1. /\ x.pc = "save"
      /\ rowLock' = [rowLock EXCEPT ![s] = t]
      /\ txn' = [txn EXCEPT ![t] = Over(w, o, "ACTIVE")]
      /\ UNCHANGED <<order, paidAt, sub, panel, lock, trouble, told, excuse>>
  BY DEF Renewed
<1>2. /\ x \in Session /\ o \in Order /\ o \in x.todo /\ lock[o] = t
      /\ Placed(t, x, lock, order, sub, panel) /\ Owns(t, x, lock, order)
      /\ Backed(x, sub, panel, told) /\ Owed(x)
  BY <1>1, AtWork, Mine DEF Renewing
<1>3. /\ o \in Renewal /\ s \in Service /\ x.held # None /\ x.held \in Row
      /\ RowOK(s, x.held, panel)
      /\ x.rows[s] # None \/ sub[s] # None
  BY <1>1, <1>2 DEF Placed, Renewing, Session
<1>4. View(t, s) \in Row /\ View(t, s) # None /\ RowOK(s, View(t, s), panel)
  BY <1>3, ViewOK DEF View
<1>5. row \in Row /\ row.node = x.held.node /\ row.orderId = View(t, s).orderId
  <2>1. x.held \in Row /\ o \in Order /\ View(t, s) \in Row
    BY <1>2, <1>3, <1>4
  <2> DEFINE held == x.held  view == View(t, s)
  <2> HIDE DEF x, o, s, held, view
  <2>2. /\ Applied(view, Extend(held, o)) \in Row
        /\ Applied(view, Extend(held, o)).node = held.node
        /\ Applied(view, Extend(held, o)).orderId = view.orderId
    BY <2>1, AppliedShape DEF held, view
  <2>3. QED
    BY <2>2 DEF row, held, view
<1> HIDE DEF row
<1>6. RowOK(s, row, panel)
  BY <1>3, <1>4, <1>5 DEF RowOK
<1>7. /\ w \in Session
      /\ w.pc = x.pc /\ w.todo = x.todo /\ w.at = x.at /\ w.wrote = x.wrote
      /\ w.told = x.told
      /\ w.rows[s] = row /\ \A q \in Service \ {s} : w.rows[q] = x.rows[q]
  <2>1. x \in Session /\ s \in Service /\ row \in Row
    BY <1>2, <1>3, <1>5
  <2> HIDE DEF x, s
  <2>2. QED
    BY <2>1, WithRowShape
<1>8. QuietFrame(t)
  BY <1>1, <1>3 DEF QuietFrame, IInv, TypeOK
<1>9. "ACTIVE" \in State /\ o \in x.told /\ told[o] >= 1 /\ o \notin Service
  BY <1>1, <1>2, <1>3 DEF State, Owed, Backed
<1> HIDE DEF w
<1>10. Owns(t, w, lock, order) /\ Owed(w)
  BY <1>2, <1>7 DEF Owns, Owed
<1>11. Backed(w, sub, panel, told)
  <2>1. row # None /\ s \in Service /\ (x.wrote[s] = "ACTIVE" \/ sub[s] # None)
    BY <1>2, <1>3, <1>5 DEF Backed
  <2> HIDE DEF x, s
  <2>2. QED
    BY <1>2, <1>6, <1>7, <2>1 DEF Backed
<1>12. Good(t, Over(w, o, "ACTIVE"), lock, order, sub, panel, told)
  <2>1. w.at = o /\ o \in w.todo
    BY <1>2, <1>7
  <2> HIDE DEF o
  <2>2. QED
    BY <1>2, <1>7, <1>9, <1>10, <1>11, <2>1, OverIsGood
<1>13. Over(w, o, "ACTIVE") \in Session /\ Over(w, o, "ACTIVE").told = x.told
  <2> HIDE DEF o
  <2>1. QED
    BY <1>2, <1>7, <1>9, OverShape
<1>14. lock' = lock
  BY <1>1
<1>15. QED
  BY <1>1, <1>8, <1>12, <1>13, <1>14, QuietKeeps

LEMMA PanelFailsKeeps ==
  ASSUME IInv, NEW t \in Tx, PanelFails(t)
  PROVE  IInv'
<1> DEFINE x == txn[t]  o == x.at
<1>1. /\ x.pc \in Asking /\ trouble' \in Nat
      /\ txn' = [txn EXCEPT ![t] = Over(x, o, "FAILED")]
      /\ UNCHANGED <<order, paidAt, sub, panel, lock, rowLock, told, excuse>>
  BY TroubleNat DEF PanelFails, AtPanel, Asking
<1>2. /\ x \in Session /\ o \in Order /\ o \in x.todo /\ lock[o] = t
      /\ order[o] # "ACTIVE" /\ o \notin x.told
      /\ Owns(t, x, lock, order) /\ Backed(x, sub, panel, told) /\ Owed(x)
  BY <1>1, AtWork, Mine DEF Owed
<1>3. QuietFrame(t) /\ lock' = lock
  BY <1>1 DEF QuietFrame, IInv, TypeOK
<1>4. "FAILED" \in State
  BY DEF State
<1>5. Good(t, Over(x, o, "FAILED"), lock, order, sub, panel, told)
  BY <1>2, <1>4, OverIsGood
<1>6. Over(x, o, "FAILED") \in Session /\ Over(x, o, "FAILED").told = x.told
  BY <1>2, <1>4, OverShape
<1>7. QED
  BY <1>1, <1>3, <1>5, <1>6, QuietKeeps

LEMMA PanelRaisesKeeps ==
  ASSUME IInv, NEW t \in Tx, PanelRaises(t)
  PROVE  IInv'
<1> DEFINE x == txn[t]  o == x.at
<1>1. /\ x.pc \in Asking /\ trouble' \in Nat
      /\ txn' = [txn EXCEPT ![t] = Left(x, o)]
      /\ UNCHANGED <<order, paidAt, sub, panel, lock, rowLock, told, excuse>>
  BY TroubleNat DEF PanelRaises, AtPanel, Asking
<1>2. /\ x \in Session /\ o \in Order /\ o \notin x.told
      /\ Owns(t, x, lock, order) /\ Backed(x, sub, panel, told) /\ Owed(x)
  BY <1>1, AtWork, Mine DEF Owed
<1>3. QuietFrame(t) /\ lock' = lock
  BY <1>1 DEF QuietFrame, IInv, TypeOK
<1>4. Good(t, Left(x, o), lock, order, sub, panel, told)
  BY <1>2, LeftIsGood
<1>5. Left(x, o) \in Session /\ Left(x, o).told = x.told
  BY <1>2, LeftShape
<1>6. QED
  BY <1>1, <1>3, <1>4, <1>5, QuietKeeps

-----------------------------------------------------------------------------
(* At the panel: steps it acts on *)

\* What a panel may do for the order a session is at.
Acts(t) ==
  LET o == txn[t].at  n == txn[t].node IN
  /\ txn[t].pc \in Asking
  /\ \E d \in Nat : d >= 1 /\ SetDays(n, Of(o), d)
  /\ \/ told' = [told EXCEPT ![o] = @ + 1]
     \/ told' = told /\ o \in Service /\ panel[n][o] >= 1

LEMMA EffectsAreActs ==
  ASSUME IInv, NEW t \in Tx, CreateEffect(t) \/ ExtendEffect(t)
  PROVE  Acts(t)
<1> DEFINE o == txn[t].at  n == txn[t].node
<1>1. CASE CreateEffect(t)
  <2>1. txn[t].pc = "create"
    BY <1>1 DEF CreateEffect
  <2>2. o \in Service /\ o \in Order /\ n \in Node /\ Of(o) = o
    BY <2>1, AtWork, Mine DEF Placed, Asking, Of
  <2>3. panel[n][o] \in Nat
    BY <2>2 DEF IInv, TypeOK
  <2>4. PICK d \in Nat : d >= 1 /\ SetDays(n, o, d)
    BY <1>1, <2>3 DEF CreateEffect
  <2>5. told' = [told EXCEPT ![o] = @ + 1] \/ (told' = told /\ panel[n][o] >= 1)
    <3>1. told' = IF panel[n][o] = 0 THEN [told EXCEPT ![o] = @ + 1] ELSE told
      BY <1>1 DEF CreateEffect
    <3>2. CASE panel[n][o] = 0
      BY <3>1, <3>2
    <3>3. CASE panel[n][o] # 0
      BY <2>3, <3>1, <3>3
    <3>4. QED
      BY <3>2, <3>3
  <2>6. QED
    BY <2>1, <2>2, <2>4, <2>5 DEF Acts, Asking
<1>2. CASE ExtendEffect(t)
  <2>1. txn[t].pc = "extend" /\ txn[t].seen + 1 \in Nat /\ txn[t].seen + 1 >= 1
    BY <1>2, Mine DEF ExtendEffect, Session
  <2>2. QED
    BY <1>2, <2>1 DEF ExtendEffect, Acts, Asking
<1>3. QED
  BY <1>1, <1>2

\* Accounts only appear, each told for; only the session's order is told.
LEMMA ActsEffect ==
  ASSUME IInv, NEW t \in Tx, Acts(t)
  PROVE  LET o == txn[t].at  n == txn[t].node IN
         /\ panel' \in [Node -> [Service -> Nat]] /\ told' \in [Order -> Nat]
         /\ \A m \in Node, s \in Service : panel[m][s] >= 1 => panel'[m][s] >= 1
         /\ panel'[n][Of(o)] >= 1
         /\ \A q \in Order : told[q] >= 1 => told'[q] >= 1
         /\ \A q \in Order \ {o} : told'[q] = told[q]
         /\ told'[o] >= 1 /\ told[o] <= excuse[o] /\ told'[o] <= excuse[o] + 1
         /\ AccountsTold'
<1> DEFINE o == txn[t].at  n == txn[t].node
<1>1. PICK d \in Nat : d >= 1 /\ panel' = [panel EXCEPT ![n] = Put(panel[n], Of(o), d)]
  BY DEF Acts, SetDays
<1>2. o \in Order /\ n \in Node /\ lock[o] = t /\ order[o] # "ACTIVE" /\ o \notin txn[t].told
  BY AtWork, Mine DEF Acts, Owed
<1>3. panel \in [Node -> [Service -> Nat]] /\ told \in [Order -> Nat] /\ Of(o) \in Service
      /\ excuse \in [Order -> Nat]
  BY <1>2 DEF IInv, TypeOK, Of, Order
<1>4. Put(panel[n], Of(o), d) \in [Service -> Nat] /\ Put(panel[n], Of(o), d)[Of(o)] = d
      /\ \A s \in Service \ {Of(o)} : Put(panel[n], Of(o), d)[s] = panel[n][s]
  BY <1>2, <1>3 DEF Put
<1>5. /\ panel' \in [Node -> [Service -> Nat]] /\ panel'[n][Of(o)] = d
      /\ \A m \in Node, s \in Service : m # n \/ s # Of(o) => panel'[m][s] = panel[m][s]
  <2> HIDE DEF o, n
  <2>1. QED
    BY <1>1, <1>2, <1>3, <1>4
<1>6. \A m \in Node, s \in Service : panel[m][s] >= 1 => panel'[m][s] >= 1
  BY <1>1, <1>5
<1>7. told[o] <= excuse[o]
  <2>1. \A u \in Tx : o \notin txn[u].told
    BY <1>2, Mine DEF Owns
  <2>2. QED
    BY <1>2, <2>1 DEF IInv, Unspent
<1>8. panel[n][Of(o)] >= 1 => told[Of(o)] >= 1
  BY <1>2, <1>3 DEF IInv, AccountsTold
<1>9. o \in Renewal => panel[n][Of(o)] >= 1
  <2>1. SUFFICES ASSUME o \in Renewal  PROVE panel[n][Of(o)] >= 1
    OBVIOUS
  <2>2. txn[t].pc \in Renewing
    BY <2>1, Mine DEF Acts, Asking, Renewing, Placed
  <2>3. QED
    BY <2>1, <2>2, Mine DEF Placed, RowOK, Of
<1>10. /\ told' \in [Order -> Nat]
       /\ \A q \in Order \ {o} : told'[q] = told[q]
       /\ told'[o] >= told[o] /\ told'[o] <= told[o] + 1
       /\ told'[o] >= 1 \/ (told' = told /\ o \in Service /\ panel[n][o] >= 1)
  <2>1. \/ told' = [told EXCEPT ![o] = told[o] + 1]
        \/ told' = told /\ o \in Service /\ panel[n][o] >= 1
    BY DEF Acts
  <2> HIDE DEF o, n
  <2>2. QED
    BY <2>1, <1>2, <1>3
<1>11. told'[o] >= 1
  BY <1>2, <1>8, <1>9, <1>10 DEF Of, Order
<1>12. \A q \in Order : told[q] >= 1 => told'[q] >= 1
  BY <1>10, <1>11
<1>13. told'[Of(o)] >= 1
  BY <1>2, <1>3, <1>8, <1>9, <1>11, <1>12 DEF Of, Order
<1>14. AccountsTold'
  <2>1. SUFFICES ASSUME NEW m \in Node, NEW s \in Service, panel'[m][s] >= 1
                 PROVE  told'[s] >= 1
    BY DEF AccountsTold
  <2>2. CASE s = Of(o)
    BY <2>2, <1>13
  <2>3. CASE s # Of(o)
    <3>1. panel[m][s] >= 1 /\ s \in Order
      BY <2>1, <2>3, <1>5 DEF Order
    <3>2. QED
      BY <3>1, <1>12 DEF IInv, AccountsTold
  <2>4. QED
    BY <2>2, <2>3
<1>15. told'[o] <= excuse[o] + 1
  BY <1>2, <1>3, <1>7, <1>10
<1>16. panel'[n][Of(o)] >= 1
  BY <1>1, <1>5
<1>17. QED
  BY <1>5, <1>6, <1>7, <1>10, <1>11, <1>12, <1>14, <1>15, <1>16

LEMMA TellKeeps ==
  ASSUME IInv, NEW t \in Tx, NEW x \in Session, Acts(t),
         txn' = [txn EXCEPT ![t] = x],
         UNCHANGED <<order, paidAt, sub, lock, rowLock>>, trouble' \in Nat,
         excuse' \in {excuse, [excuse EXCEPT ![txn[t].at] = @ + 1]},
         txn[t].told \subseteq x.told,
         txn[t].at \in x.told \/ excuse' # excuse,
         Good(t, x, lock, order, sub, panel', told')
  PROVE  IInv'
<1> DEFINE o == txn[t].at
<1>1. o \in Order
  BY AtWork DEF Acts
<1>2. /\ panel' \in [Node -> [Service -> Nat]] /\ told' \in [Order -> Nat]
      /\ \A m \in Node, s \in Service : panel[m][s] >= 1 => panel'[m][s] >= 1
      /\ \A q \in Order : told[q] >= 1 => told'[q] >= 1
      /\ \A q \in Order \ {o} : told'[q] = told[q]
      /\ told[o] <= excuse[o] /\ told'[o] <= excuse[o] + 1
      /\ AccountsTold'
  BY ActsEffect
<1>3. excuse \in [Order -> Nat] /\ panel \in [Node -> [Service -> Nat]] /\ told \in [Order -> Nat]
  BY DEF IInv, TypeOK
<1>4. /\ excuse' \in [Order -> Nat]
      /\ \A q \in Order \ {o} : excuse'[q] = excuse[q]
      /\ excuse'[o] >= excuse[o] /\ (excuse' # excuse => excuse'[o] = excuse[o] + 1)
  BY <1>1, <1>3
<1>5. txn'[t] = x /\ \A u \in Tx \ {t} : txn'[u] = txn[u]
  BY DEF IInv, TypeOK
<1>6. TypeOK'
  BY <1>2, <1>4 DEF IInv, TypeOK
<1>7. Sessions'
  <2>1. SUFFICES ASSUME NEW u \in Tx
                 PROVE  Good(u, txn'[u], lock, order, sub, panel', told')
    BY DEF Sessions
  <2>2. CASE u = t
    BY <2>2, <1>5
  <2>3. CASE u # t
    <3>1. Good(u, txn[u], lock, order, sub, panel, told) /\ txn[u] \in Session
      BY Mine
    <3>2. Good(u, txn[u], lock, order, sub, panel', told')
      <4> HIDE DEF o
      <4>1. QED
        BY <3>1, <1>2, <1>3, PanelsGrow
    <3>3. QED
      BY <3>2, <2>3, <1>5
  <2>4. QED
    BY <2>2, <2>3
<1>8. ActiveMeansTold'
  BY <1>2 DEF IInv, ActiveMeansTold
<1>9. RowsOK'
  BY <1>2 DEF IInv, RowsOK, RowOK, TypeOK, Row
<1>10. DeliveredTogether'
  BY DEF IInv, DeliveredTogether
<1>11. ToldAgainForCause'
  <2>1. SUFFICES ASSUME NEW q \in Order  PROVE told'[q] <= 1 + excuse'[q]
    BY DEF ToldAgainForCause
  <2>2. CASE q = o
    BY <2>2, <1>1, <1>2, <1>3, <1>4
  <2>3. CASE q # o
    BY <2>3, <1>2, <1>4 DEF IInv, ToldAgainForCause
  <2>4. QED
    BY <2>2, <2>3
<1>12. Unspent'
  <2>1. SUFFICES ASSUME NEW q \in Order, order[q] # "ACTIVE",
                        \A u \in Tx : q \notin txn'[u].told
                 PROVE  told'[q] <= excuse'[q]
    BY DEF Unspent
  <2>2. CASE q = o
    <3>1. excuse'[o] = excuse[o] + 1
      BY <2>1, <2>2, <1>4, <1>5
    <3>2. QED
      BY <3>1, <2>2, <1>2
  <2>3. CASE q # o
    <3>1. \A u \in Tx : q \notin txn[u].told
      BY <2>1, <1>5
    <3>2. QED
      BY <3>1, <2>1, <2>3, <1>2, <1>4 DEF IInv, Unspent
  <2>4. QED
    BY <2>2, <2>3
<1>13. QED
  BY <1>2, <1>6, <1>7, <1>8, <1>9, <1>10, <1>11, <1>12 DEF IInv

\* The session before the step, as the world after it sees it.
LEMMA MineAfterActs ==
  ASSUME IInv, NEW t \in Tx, Acts(t)
  PROVE  Good(t, txn[t], lock, order, sub, panel', told')
<1>1. panel \in [Node -> [Service -> Nat]] /\ told \in [Order -> Nat]
  BY DEF IInv, TypeOK
<1>2. QED
  BY <1>1, Mine, ActsEffect, PanelsGrow

LEMMA CreatedKeeps ==
  ASSUME IInv, NEW t \in Tx, Created(t)
  PROVE  IInv'
<1> DEFINE x == txn[t]  o == x.at
           row == [node |-> x.node, days |-> 1, orderId |-> o]
           y == Told(x)
           w == WithRow(y, o, row)
<1>1. /\ CreateEffect(t) /\ x.pc = "create"
      /\ txn' = [txn EXCEPT ![t] = Over(w, o, "ACTIVE")]
      /\ UNCHANGED <<order, paidAt, sub, lock, rowLock, trouble, excuse>>
  BY DEF Created, CreateEffect
<1>2. Acts(t)
  BY <1>1, EffectsAreActs
<1>3. /\ x \in Session /\ o \in Order /\ x.node \in Node /\ o \in x.todo /\ lock[o] = t
      /\ o \in Service /\ o \notin Renewal /\ Of(o) = o
  BY <1>1, AtWork, Mine DEF Placed, Asking, Of
<1>4. panel'[x.node][o] >= 1 /\ told'[o] >= 1
  BY <1>2, <1>3, ActsEffect
<1>5. Owns(t, x, lock, order) /\ Backed(x, sub, panel', told') /\ Owed(x)
  BY <1>2, MineAfterActs DEF Good
<1>6. row \in Row /\ RowOK(o, row, panel') /\ row # None
  BY <1>3, <1>4 DEF Row, RowOK
<1>7. /\ y \in Session /\ y.pc = x.pc /\ y.todo = x.todo /\ y.at = o
      /\ y.wrote = x.wrote /\ y.rows = x.rows /\ y.told = x.told \cup {o}
  BY <1>3, ToldShape
<1> HIDE DEF row, y
<1>8. /\ w \in Session /\ w.pc = x.pc /\ w.todo = x.todo /\ w.at = o /\ w.wrote = x.wrote
      /\ w.told = x.told \cup {o}
      /\ w.rows[o] = row /\ \A q \in Service \ {o} : w.rows[q] = x.rows[q]
  <2>1. y \in Session /\ o \in Service /\ row \in Row
    BY <1>3, <1>6, <1>7
  <2>2. /\ w \in Session
        /\ w.pc = y.pc /\ w.todo = y.todo /\ w.at = y.at /\ w.wrote = y.wrote
        /\ w.told = y.told
        /\ w.rows[o] = row /\ \A q \in Service \ {o} : w.rows[q] = y.rows[q]
    <3> HIDE DEF o
    <3>1. QED
      BY <2>1, WithRowShape
  <2> HIDE DEF w
  <2>3. QED
    BY <2>2, <1>7
<1> HIDE DEF w
<1> DEFINE z == Over(w, o, "ACTIVE")
<1>9. /\ z \in Session /\ z.pc = "next" /\ z.at = None /\ z.todo = x.todo \ {o}
      /\ z.wrote[o] = "ACTIVE" /\ \A q \in Order \ {o} : z.wrote[q] = x.wrote[q]
      /\ z.rows[o] = row /\ \A q \in Service \ {o} : z.rows[q] = x.rows[q]
      /\ z.told = x.told \cup {o}
  <2>1. "ACTIVE" \in State /\ w \in Session /\ o \in Order
    BY <1>3, <1>8 DEF State
  <2>2. /\ z \in Session /\ z.pc = "next" /\ z.at = None /\ z.todo = w.todo \ {o}
        /\ z.wrote[o] = "ACTIVE" /\ \A q \in Order \ {o} : z.wrote[q] = w.wrote[q]
        /\ z.rows = w.rows /\ z.told = w.told
    <3> HIDE DEF o
    <3>1. QED
      BY <2>1, OverShape
  <2> HIDE DEF z
  <2>3. QED
    BY <2>2, <1>8
<1> HIDE DEF z
<1>10. None \notin Order /\ Service \subseteq Order /\ x.told \subseteq Order
  BY <1>3 DEF Order, Session
<1>11. Placed(t, z, lock, order, sub, panel')
  BY <1>9 DEF Placed, Asking, Renewing
<1>12. Owns(t, z, lock, order)
  BY <1>3, <1>5, <1>9 DEF Owns
<1>13. Backed(z, sub, panel', told')
  <2> HIDE DEF o, x
  <2>1. QED
    BY <1>4, <1>5, <1>6, <1>9, <1>10 DEF Backed
<1>14. Owed(z)
  BY <1>3, <1>5, <1>9, <1>10 DEF Owed, Asking
<1>15. Good(t, z, lock, order, sub, panel', told')
  BY <1>11, <1>12, <1>13, <1>14 DEF Good
<1>16. trouble' \in Nat /\ excuse' = excuse
  BY <1>1 DEF IInv, TypeOK
<1>17. QED
  BY <1>1, <1>2, <1>9, <1>15, <1>16, TellKeeps DEF z

LEMMA ExtendedKeeps ==
  ASSUME IInv, NEW t \in Tx, Extended(t)
  PROVE  IInv'
<1> DEFINE x == txn[t]  o == x.at  y == Told(x)  z == [y EXCEPT !.pc = "save"]
<1>1. /\ ExtendEffect(t) /\ x.pc = "extend"
      /\ txn' = [txn EXCEPT ![t] = z]
      /\ UNCHANGED <<order, paidAt, sub, lock, rowLock, trouble, excuse>>
  BY DEF Extended, ExtendEffect
<1>2. Acts(t)
  BY <1>1, EffectsAreActs
<1>3. /\ x \in Session /\ o \in Order /\ o \in x.todo /\ lock[o] = t
  BY <1>1, AtWork DEF Asking
<1>4. /\ Placed(t, x, lock, order, sub, panel') /\ Owns(t, x, lock, order)
      /\ Backed(x, sub, panel', told') /\ Owed(x)
  BY <1>2, MineAfterActs DEF Good
<1>5. told'[o] >= 1
  BY <1>2, ActsEffect
<1>6. /\ z \in Session /\ z.pc = "save" /\ z.todo = x.todo /\ z.at = o
      /\ z.node = x.node /\ z.held = x.held
      /\ z.wrote = x.wrote /\ z.rows = x.rows /\ z.told = x.told \cup {o}
  <2>1. /\ y \in Session /\ y.todo = x.todo /\ y.at = o
        /\ y.node = x.node /\ y.held = x.held
        /\ y.wrote = x.wrote /\ y.rows = x.rows /\ y.told = x.told \cup {o}
    BY <1>3, ToldShape
  <2> HIDE DEF y
  <2>2. QED
    BY <2>1 DEF Session, Pc
<1> HIDE DEF z
<1>7. None \notin Order /\ x.at = o
  OBVIOUS
<1>8. Placed(t, z, lock, order, sub, panel')
  <2> HIDE DEF o, x
  <2>1. QED
    BY <1>1, <1>3, <1>4, <1>6, <1>7 DEF Placed, Asking, Renewing
<1>9. Owns(t, z, lock, order) /\ Backed(z, sub, panel', told')
  <2> HIDE DEF o, x
  <2>1. QED
    BY <1>3, <1>4, <1>5, <1>6, <1>7 DEF Owns, Backed
<1>10. Owed(z)
  BY <1>4, <1>6 DEF Owed, Asking
<1>11. Good(t, z, lock, order, sub, panel', told')
  BY <1>8, <1>9, <1>10 DEF Good
<1>12. trouble' \in Nat /\ excuse' = excuse
  BY <1>1 DEF IInv, TypeOK
<1>13. QED
  BY <1>1, <1>2, <1>6, <1>11, <1>12, TellKeeps

LEMMA AnswerLostKeeps ==
  ASSUME IInv, NEW t \in Tx, AnswerLost(t)
  PROVE  IInv'
<1> DEFINE x == txn[t]  o == x.at  z == Over(x, o, "FAILED")
<1>1. /\ CreateEffect(t) \/ ExtendEffect(t)
      /\ txn' = [txn EXCEPT ![t] = z] /\ excuse' = [excuse EXCEPT ![o] = @ + 1]
      /\ UNCHANGED <<order, paidAt, sub, lock, rowLock>>
      /\ trouble' \in Nat
  BY TroubleNat DEF AnswerLost
<1>2. Acts(t) /\ x.pc \in Asking
  BY <1>1, EffectsAreActs DEF Acts
<1>3. /\ x \in Session /\ o \in Order /\ o \in x.todo /\ lock[o] = t
      /\ order[o] # "ACTIVE" /\ o \notin x.told
  BY <1>2, AtWork, Mine DEF Owed
<1>4. Owns(t, x, lock, order) /\ Backed(x, sub, panel', told') /\ Owed(x)
  BY <1>2, MineAfterActs DEF Good
<1>5. "FAILED" \in State
  BY DEF State
<1>6. Good(t, z, lock, order, sub, panel', told')
  BY <1>3, <1>4, <1>5, OverIsGood
<1>7. z \in Session /\ z.told = x.told
  BY <1>3, <1>5, OverShape
<1>8. excuse' # excuse
  BY <1>1, <1>3 DEF IInv, TypeOK
<1>9. QED
  BY <1>1, <1>2, <1>6, <1>7, <1>8, TellKeeps

-----------------------------------------------------------------------------
(* The end of a transaction, and a payment *)

LEMMA CloseEffect ==
  ASSUME IInv, NEW t \in Tx, Close(t)
  PROVE  /\ lock' \in [Order -> Tx \cup {None}] /\ rowLock' \in [Service -> Tx \cup {None}]
         /\ \A o \in Order : lock'[o] \in {lock[o], None} /\ (lock[o] # t => lock'[o] = lock[o])
         /\ txn' \in [Tx -> Session]
         /\ \A u \in Tx \ {t} : txn'[u] = txn[u]
         /\ txn'[t].told = {}
         /\ \A lk, od, sb, pn, tl : Good(t, txn'[t], lk, od, sb, pn, tl)
<1>1. PICK pc \in {"idle", "done"} : txn' = [txn EXCEPT ![t] = Resting(pc)]
  BY DEF Close
<1>2. pc \in Pc
  BY DEF Pc
<1>3. txn \in [Tx -> Session] /\ lock \in [Order -> Tx \cup {None}]
      /\ rowLock \in [Service -> Tx \cup {None}]
  BY DEF IInv, TypeOK
<1>4. txn'[t] = Resting(pc) /\ (\A u \in Tx \ {t} : txn'[u] = txn[u])
      /\ txn' \in [Tx -> Session] /\ txn'[t].told = {}
  BY <1>1, <1>2, <1>3, RestingShape
<1>5. \A lk, od, sb, pn, tl : Good(t, txn'[t], lk, od, sb, pn, tl)
  BY <1>4, RestingIsGood
<1>6. /\ lock' \in [Order -> Tx \cup {None}] /\ rowLock' \in [Service -> Tx \cup {None}]
      /\ \A o \in Order : lock'[o] \in {lock[o], None} /\ (lock[o] # t => lock'[o] = lock[o])
  BY <1>3 DEF Close
<1>7. QED
  BY <1>4, <1>5, <1>6

LEMMA CommitKeeps ==
  ASSUME IInv, NEW t \in Tx, Commit(t)
  PROVE  IInv'
<1> DEFINE x == txn[t]
<1>1. /\ x.pc = "next" /\ Close(t)
      /\ \A o \in Order : order'[o] = IF x.wrote[o] # None THEN x.wrote[o] ELSE order[o]
      /\ \A s \in Service : sub'[s] = View(t, s)
      /\ UNCHANGED <<paidAt, panel, trouble, told, excuse>>
  BY DEF Commit
<1>2. /\ x \in Session /\ x.at = None
      /\ Owns(t, x, lock, order) /\ Backed(x, sub, panel, told) /\ Owed(x)
  BY <1>1, Mine DEF Placed, Asking, Renewing
<1>3. order' \in [Order -> State] /\ sub' \in [Service -> Row \cup {None}]
  <2>1. \A o \in Order : x.wrote[o] \in State \cup {None} /\ order[o] \in State
    BY <1>2 DEF Session, IInv, TypeOK
  <2>2. \A s \in Service : View(t, s) \in Row \cup {None}
    BY ViewOK
  <2>3. QED
    BY <2>1, <2>2 DEF Commit
<1>4. TypeOK'
  BY <1>1, <1>3, CloseEffect DEF IInv, TypeOK
<1>5. \A s \in Service : sub[s] # None => sub'[s] # None
  BY <1>1 DEF View
<1>6. Sessions'
  <2>1. SUFFICES ASSUME NEW u \in Tx
                 PROVE  Good(u, txn'[u], lock', order', sub', panel, told)
    BY <1>1 DEF Sessions
  <2>2. CASE u = t
    BY <2>2, <1>1, CloseEffect
  <2>3. CASE u # t
    <3>1. Good(u, txn[u], lock, order, sub, panel, told) /\ txn[u] \in Session
      BY Mine
    <3>2. \A o \in Order : (lock[o] = u => lock'[o] = u) /\ (lock'[o] = u => lock[o] = u)
      BY <2>3, <1>1, CloseEffect
    <3>3. panel \in [Node -> [Service -> Nat]] /\ told \in [Order -> Nat]
      BY DEF IInv, TypeOK
    <3>4. Good(u, txn[u], lock', order, sub, panel, told)
      BY <3>1, <3>2, <3>3, LocksGrow
    <3>5. Good(u, txn[u], lock', order', sub', panel, told)
      <4>1. \A o \in Order : lock'[o] = u => (order[o] # "ACTIVE" => order'[o] # "ACTIVE")
        BY <2>3, <3>2, <1>1, <1>2 DEF Owns
      <4>2. QED
        BY <3>1, <3>3, <3>4, <4>1, <1>5, CommitsGrow
    <3>6. QED
      BY <3>5, <2>3, <1>1, CloseEffect
  <2>4. QED
    BY <2>2, <2>3
<1>7. ActiveMeansTold'
  BY <1>1, <1>2 DEF IInv, ActiveMeansTold, Backed
<1>8. RowsOK'
  BY <1>1, ViewOK DEF RowsOK
<1>9. DeliveredTogether'
  <2>1. SUFFICES ASSUME NEW s \in Service
                 PROVE  sub'[s] # None <=> order'[s] = "ACTIVE"
    BY DEF DeliveredTogether
  <2>2. s \in Order /\ None # "ACTIVE"
    BY DEF Order, State
  <2>3. sub[s] # None <=> order[s] = "ACTIVE"
    BY DEF IInv, DeliveredTogether
  <2>4. /\ x.rows[s] # None => x.wrote[s] = "ACTIVE" \/ sub[s] # None
        /\ x.wrote[s] = "ACTIVE" => x.rows[s] # None \/ sub[s] # None
        /\ x.wrote[s] \notin {None, "ACTIVE"} => order[s] # "ACTIVE"
    BY <1>2, <2>2 DEF Backed, Owns
  <2>5. sub'[s] # None <=> (x.rows[s] # None \/ sub[s] # None)
    BY <1>1 DEF View
  <2>6. order'[s] = "ACTIVE" <=> (x.wrote[s] = "ACTIVE" \/ (x.wrote[s] = None /\ order[s] = "ACTIVE"))
    BY <1>1, <2>2
  <2>7. QED
    BY <2>3, <2>4, <2>5, <2>6
<1>10. Unspent'
  <2>1. SUFFICES ASSUME NEW o \in Order, order'[o] # "ACTIVE",
                        \A u \in Tx : o \notin txn'[u].told
                 PROVE  told[o] <= excuse[o]
    BY <1>1 DEF Unspent
  <2>2. o # None /\ None # "ACTIVE"
    BY DEF State
  <2>3. o \notin x.told
    BY <1>1, <1>2, <2>1, <2>2 DEF Owed
  <2>4. \A u \in Tx : o \notin txn[u].told
    BY <1>1, <2>1, <2>3, CloseEffect
  <2>5. order[o] # "ACTIVE"
    BY <1>1, <1>2, <2>1 DEF Owns
  <2>6. QED
    BY <2>4, <2>5 DEF IInv, Unspent
<1>11. AccountsTold' /\ ToldAgainForCause'
  BY <1>1 DEF IInv, AccountsTold, ToldAgainForCause
<1>12. QED
  BY <1>4, <1>6, <1>7, <1>8, <1>9, <1>10, <1>11 DEF IInv

LEMMA RollBackKeeps ==
  ASSUME IInv, NEW t \in Tx, RollBack(t), trouble' \in Nat
  PROVE  IInv'
<1>1. /\ Close(t)
      /\ \A o \in Order : excuse'[o] = IF o \in txn[t].told THEN excuse[o] + 1 ELSE excuse[o]
      /\ UNCHANGED <<order, paidAt, sub, panel, told>>
  BY DEF RollBack
<1>2. excuse \in [Order -> Nat] /\ told \in [Order -> Nat] /\ panel \in [Node -> [Service -> Nat]]
  BY DEF IInv, TypeOK
<1>3. excuse' \in [Order -> Nat]
  BY <1>2 DEF RollBack
<1>4. TypeOK'
  BY <1>1, <1>3, CloseEffect DEF IInv, TypeOK
<1>5. Sessions'
  <2>1. SUFFICES ASSUME NEW u \in Tx
                 PROVE  Good(u, txn'[u], lock', order, sub, panel, told)
    BY <1>1 DEF Sessions
  <2>2. CASE u = t
    BY <2>2, <1>1, CloseEffect
  <2>3. CASE u # t
    <3>1. Good(u, txn[u], lock, order, sub, panel, told) /\ txn[u] \in Session
      BY Mine
    <3>2. \A o \in Order : lock[o] = u => lock'[o] = u
      BY <2>3, <1>1, CloseEffect
    <3>3. Good(u, txn[u], lock', order, sub, panel, told)
      BY <3>1, <3>2, <1>2, LocksGrow
    <3>4. QED
      BY <3>3, <2>3, <1>1, CloseEffect
  <2>4. QED
    BY <2>2, <2>3
<1>6. ActiveMeansTold' /\ RowsOK' /\ AccountsTold' /\ DeliveredTogether'
  BY <1>1 DEF IInv, ActiveMeansTold, RowsOK, AccountsTold, DeliveredTogether
<1>7. ToldAgainForCause'
  BY <1>1, <1>2 DEF IInv, ToldAgainForCause
<1>8. Unspent'
  <2>1. SUFFICES ASSUME NEW o \in Order, order[o] # "ACTIVE",
                        \A u \in Tx : o \notin txn'[u].told
                 PROVE  told[o] <= excuse'[o]
    BY <1>1 DEF Unspent
  <2>2. CASE o \in txn[t].told
    BY <2>2, <1>1, <1>2 DEF IInv, ToldAgainForCause
  <2>3. CASE o \notin txn[t].told
    <3>1. \A u \in Tx : o \notin txn[u].told
      BY <1>1, <2>1, <2>3, CloseEffect
    <3>2. QED
      BY <3>1, <2>1, <2>3, <1>1 DEF IInv, Unspent
  <2>4. QED
    BY <2>2, <2>3
<1>9. QED
  BY <1>4, <1>5, <1>6, <1>7, <1>8 DEF IInv

LEMMA PayKeeps ==
  ASSUME IInv, NEW o \in Order, Pay(o)
  PROVE  IInv'
<1>1. /\ order[o] = "PENDING" /\ order' = [order EXCEPT ![o] = "PAID"]
      /\ UNCHANGED <<sub, panel, lock, rowLock, txn, trouble, told, excuse>>
  BY DEF Pay
<1>2. order \in [Order -> State]
  BY DEF IInv, TypeOK
<1>3. order' \in [Order -> State]
      /\ \A q \in Order : order'[q] = "ACTIVE" <=> order[q] = "ACTIVE"
  BY <1>1, <1>2 DEF State
<1>4. paidAt' \in [Order -> Nat]
  <2>1. IsFiniteSet(Order)
    BY DEF Order
  <2>2. IsFiniteSet({q \in Order : paidAt[q] > 0})
    BY <2>1, FS_Subset
  <2>3. Cardinality({q \in Order : paidAt[q] > 0}) \in Nat
    BY <2>2, FS_CardinalityType
  <2> DEFINE rank == 1 + Cardinality({q \in Order : paidAt[q] > 0})
  <2>4. rank \in Nat
    BY <2>3
  <2>5. paidAt' = [paidAt EXCEPT ![o] = rank]
    BY DEF Pay
  <2> HIDE DEF rank
  <2>6. QED
    BY <2>4, <2>5 DEF IInv, TypeOK
<1>5. TypeOK'
  BY <1>1, <1>3, <1>4 DEF IInv, TypeOK
<1>6. Sessions'
  <2>1. SUFFICES ASSUME NEW u \in Tx
                 PROVE  Good(u, txn[u], lock, order', sub, panel, told)
    BY <1>1 DEF Sessions
  <2>2. Good(u, txn[u], lock, order, sub, panel, told) /\ txn[u] \in Session
    BY Mine
  <2>3. panel \in [Node -> [Service -> Nat]] /\ told \in [Order -> Nat]
    BY DEF IInv, TypeOK
  <2>4. \A q \in Order : lock[q] = u =>
          lock[q] = u /\ (order[q] # "ACTIVE" => order'[q] # "ACTIVE")
    BY <1>3
  <2>5. QED
    BY <2>2, <2>3, <2>4, CommitsGrow
<1>7. ActiveMeansTold' /\ RowsOK' /\ AccountsTold' /\ DeliveredTogether' /\ ToldAgainForCause'
  BY <1>1, <1>3
     DEF IInv, ActiveMeansTold, RowsOK, AccountsTold, DeliveredTogether, ToldAgainForCause, Order
<1>8. Unspent'
  BY <1>1, <1>3 DEF IInv, Unspent
<1>9. QED
  BY <1>5, <1>6, <1>7, <1>8 DEF IInv

-----------------------------------------------------------------------------
(* Theorems *)

LEMMA InitIInv == Init => IInv
<1> SUFFICES ASSUME Init  PROVE IInv
  OBVIOUS
<1>1. "idle" \in Pc /\ "PENDING" \in State /\ "PENDING" # "ACTIVE"
  BY DEF Pc, State
<1>2. \A t \in Tx : txn[t] = Resting("idle")
  BY DEF Init
<1>3. txn \in [Tx -> Session]
  BY <1>1, RestingShape DEF Init
<1>4. TypeOK
  BY <1>1, <1>3 DEF Init, TypeOK
<1>5. Sessions
  BY <1>2, RestingIsGood DEF Sessions
<1>6. RowsOK /\ AccountsTold
  BY DEF Init, RowsOK, RowOK, AccountsTold
<1>7. ActiveMeansTold /\ DeliveredTogether /\ ToldAgainForCause /\ Unspent
  BY DEF Init, ActiveMeansTold, DeliveredTogether, ToldAgainForCause, Unspent, Order
<1>8. QED
  BY <1>4, <1>5, <1>6, <1>7 DEF IInv

LEMMA NextKeeps == IInv /\ [Next]_vars => IInv'
<1> SUFFICES ASSUME IInv, [Next]_vars  PROVE IInv'
  OBVIOUS
<1>1. ASSUME NEW o \in Order, Pay(o)  PROVE IInv'
  BY <1>1, PayKeeps
<1>2. ASSUME NEW t \in Caller, NEW o \in Order, Call(t, o)  PROVE IInv'
  <2>1. t \in Tx /\ {o} \in SUBSET Order
    BY DEF Tx
  <2>2. /\ txn[t].pc = "idle" /\ txn' = [txn EXCEPT ![t] = Starting({o})]
        /\ UNCHANGED <<order, paidAt, sub, panel, lock, rowLock, trouble, told, excuse>>
    BY <1>2 DEF Call
  <2>3. QED
    BY <2>1, <2>2, BeginKeeps
<1>3. CASE BeginSweep
  <2>1. Oldest \in SUBSET Order /\ Sweeper \in Tx
    BY DEF Oldest, Stuck, Tx
  <2>2. QED
    BY <1>3, <2>1, BeginKeeps DEF BeginSweep
<1>4. ASSUME NEW t \in Tx, NEW o \in Order, Provision(t, o)  PROVE IInv'
  BY <1>4, AlreadyDeliveredKeeps, TurnedAwayKeeps, StartCreateKeeps, StartRenewKeeps,
     NoServerKeeps DEF Provision
<1>5. ASSUME NEW t \in Tx, AskPanel(t)  PROVE IInv'
  BY <1>5, CreatedKeeps, LookKeeps, ExtendedKeeps, RenewedKeeps, PanelFailsKeeps,
     AnswerLostKeeps, PanelRaisesKeeps DEF AskPanel
<1>6. ASSUME NEW t \in Tx, Commit(t)  PROVE IInv'
  BY <1>6, CommitKeeps
<1>7. ASSUME NEW t \in Tx, Die(t) \/ Deadlocked(t)  PROVE IInv'
  <2>1. trouble \in Nat
    BY DEF IInv, TypeOK
  <2>2. RollBack(t) /\ trouble' \in {trouble, trouble + 1}
    BY <1>7 DEF Die, Deadlocked
  <2>3. QED
    BY <2>1, <2>2, RollBackKeeps
<1>8. CASE UNCHANGED vars
  <2>1. TypeOK' /\ ActiveMeansTold' /\ RowsOK' /\ AccountsTold' /\ DeliveredTogether'
        /\ ToldAgainForCause'
    BY <1>8 DEF vars, IInv, TypeOK, ActiveMeansTold, RowsOK, AccountsTold, DeliveredTogether,
         ToldAgainForCause
  <2>2. Sessions' /\ Unspent'
    BY <1>8 DEF vars, IInv, Sessions, Unspent
  <2>3. QED
    BY <2>1, <2>2 DEF IInv
<1>9. QED
  BY <1>1, <1>2, <1>3, <1>4, <1>5, <1>6, <1>7, <1>8 DEF Next

\* The inductive invariant: what sessions hold, wrote and were told, the rows
\* and accounts behind it, and what the calls to panels may amount to.
THEOREM Invariance == Spec => []IInv
<1>1. IInv /\ [Next]_vars => IInv'
  BY NextKeeps
<1>2. QED
  BY <1>1, InitIInv, PTL DEF Spec

\* Orders, rows, panels and sessions keep their declared shapes.
THEOREM TypeCorrect == Spec => []TypeOK
<1>1. IInv => TypeOK
  BY DEF IInv
<1>2. QED
  BY <1>1, Invariance, PTL

\* An order says delivered only after a panel did what it paid for (mark_active).
THEOREM DeliveredWasMade == Spec => []ActiveMeansTold
<1>1. IInv => ActiveMeansTold
  BY DEF IInv
<1>2. QED
  BY <1>1, Invariance, PTL

\* Behind every subscription row there is an account on the server it names.
THEOREM RowsAreReal == Spec => []RowsHaveAccounts
<1>1. IInv => RowsHaveAccounts
  BY DEF IInv, RowsOK, RowOK, RowsHaveAccounts
<1>2. QED
  BY <1>1, Invariance, PTL

\* An order is active exactly when its subscription is there (provision).
THEOREM RowAndOrderTogether == Spec => []DeliveredTogether
<1>1. IInv => DeliveredTogether
  BY DEF IInv
<1>2. QED
  BY <1>1, Invariance, PTL

\* No number of requests, sweeps and retries makes a panel act again on an order
\* unless an answer or a transaction was lost (get_for_update).
THEOREM NoSecondCallWithoutCause == Spec => []ToldAgainForCause
<1>1. IInv => ToldAgainForCause
  BY DEF IInv
<1>2. QED
  BY <1>1, Invariance, PTL

=============================================================================
