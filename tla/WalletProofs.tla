----------------------------- MODULE WalletProofs -----------------------------
(***************************************************************************)
(* Wallet's invariants, proved for any customers, requests and number of   *)
(* requests at a time (IInv); and what holds beyond them when the requests *)
(* on a wallet take turns (TurnInv): its recorded balance is its ledger's  *)
(* sum, and with all of them in turn Wallet implements Bank.               *)
(***************************************************************************)
EXTENDS Wallet, FiniteSetTheorems, TLAPS

-----------------------------------------------------------------------------
(* The sum of a ledger *)

\* Replay is a recursive function over the subsets of the ledger, chosen by its
\* equation.  There is one for every finite ledger, it does not depend on the
\* order in which entries are picked, and each entry counts once.
First(s) == CHOOSE x \in s : TRUE
SumsUp(g, S) ==
  g = [s \in SUBSET S |-> IF s = {} THEN 0 ELSE First(s).amount + g[s \ {First(s)}]]
Summing(S) == CHOOSE g : SumsUp(g, S)

LEMMA ReplayIsSum ==
  ASSUME NEW S
  PROVE  Replay(S) = Summing(S)[S]
  BY DEF Replay, MapThenSumSet, MapThenFoldSet, SumsUp, First, Summing

\* A family of subsets of a finite set has a member with no smaller one in it:
\* this stands in for induction over finite sets.
LEMMA SmallestMember ==
  ASSUME NEW S, IsFiniteSet(S), NEW T, T \subseteq SUBSET S, T # {}
  PROVE  \E m \in T : \A s \in T : s \subseteq m => s = m
<1>1. IsWellFoundedOn(StrictSubsetOrdering(S), SUBSET S)
  BY FS_StrictSubsetOrderingWellFounded, FS_FiniteSubsetsOfFinite
<1>2. PICK m \in T : \A s \in T : ~ (<<s, m>> \in StrictSubsetOrdering(S))
  BY <1>1, WFMin
<1>3. ASSUME NEW s \in T, s \subseteq m, s # m
      PROVE  FALSE
  <2>1. <<s, m>> \in StrictSubsetOrdering(S)
    BY <1>3 DEF StrictSubsetOrdering
  <2>2. QED
    BY <1>2, <2>1
<1>4. QED
  BY <1>3

LEMMA FirstIsMember ==
  ASSUME NEW s, s # {}
  PROVE  First(s) \in s
  BY DEF First

\* Two such functions agree where both are defined.
LEMMA SumsAgree ==
  ASSUME NEW S, IsFiniteSet(S), NEW R \in SUBSET S,
         NEW g, SumsUp(g, S), NEW h, SumsUp(h, R), NEW s \in SUBSET R
  PROVE  g[s] = h[s]
<1> DEFINE Differ == {r \in SUBSET R : g[r] # h[r]}
<1>1. SUFFICES ASSUME s \in Differ PROVE FALSE
  OBVIOUS
<1>2. IsFiniteSet(R)
  BY FS_Subset
<1>3. PICK m \in Differ : \A r \in Differ : r \subseteq m => r = m
  <2>1. Differ \subseteq SUBSET R /\ Differ # {}
    BY <1>1
  <2> HIDE DEF Differ
  <2>2. QED
    BY <1>2, <2>1, SmallestMember
<1> DEFINE rest == m \ {First(m)}
<1>4. m # {}
  BY <1>3 DEF SumsUp
<1>5. rest \subseteq m /\ rest # m
  BY <1>4, FirstIsMember
<1>6. g[rest] = h[rest]
  BY <1>3, <1>5
<1>7. g[m] = First(m).amount + g[rest] /\ h[m] = First(m).amount + h[rest]
  <2>1. m \in SUBSET S /\ m \in SUBSET R
    OBVIOUS
  <2>2. QED
    BY <1>4, <2>1, Zenon DEF SumsUp
<1>8. QED
  BY <1>3, <1>6, <1>7

LEMMA SumExists ==
  ASSUME NEW S, IsFiniteSet(S)
  PROVE  SumsUp(Summing(S), S)
<1> DEFINE Without == {s \in SUBSET S : ~ SumsUp(Summing(s), s)}
<1>1. SUFFICES ASSUME Without # {} PROVE FALSE
  OBVIOUS
<1>2. PICK m \in Without : \A s \in Without : s \subseteq m => s = m
  <2>1. Without \subseteq SUBSET S
    OBVIOUS
  <2> HIDE DEF Without
  <2>2. QED
    BY <1>1, <2>1, SmallestMember
<1>3. \A s \in SUBSET m : s # m => SumsUp(Summing(s), s) /\ IsFiniteSet(s)
  BY <1>2, FS_Subset
<1> DEFINE sum == [s \in SUBSET m |->
                     IF s = {} THEN 0 ELSE First(s).amount + Replay(s \ {First(s)})]
<1>4. ASSUME NEW s \in SUBSET m, s # m
      PROVE  Replay(s) = sum[s]
  <2>1. SumsUp(Summing(s), s) /\ IsFiniteSet(s)
    BY <1>3, <1>4
  <2>2. CASE s = {}
    BY <2>1, <2>2, ReplayIsSum DEF SumsUp
  <2>3. CASE s # {}
    <3> DEFINE rest == s \ {First(s)}
    <3>1. rest \in SUBSET s /\ rest \in SUBSET m /\ rest # m
      BY <1>4
    <3>2. Summing(s)[s] = First(s).amount + Summing(s)[rest]
      <4>1. s \in SUBSET s
        OBVIOUS
      <4>2. QED
        BY <2>1, <2>3, <4>1, Zenon DEF SumsUp
    <3>3. SumsUp(Summing(rest), rest)
      BY <1>3, <3>1
    <3>4. Summing(s)[rest] = Summing(rest)[rest]
      BY <2>1, <3>1, <3>3, SumsAgree
    <3>5. Replay(s) = First(s).amount + Replay(rest)
      BY <3>2, <3>4, ReplayIsSum
    <3>6. QED
      BY <2>3, <3>5
  <2>4. QED
    BY <2>2, <2>3
<1>5. \A s \in SUBSET m : s # {} => /\ s \ {First(s)} \in SUBSET m
                                    /\ s \ {First(s)} # m
  BY FirstIsMember
<1>6. SumsUp(sum, m)
  <2>1. \A s \in SUBSET m :
          sum[s] = IF s = {} THEN 0 ELSE First(s).amount + sum[s \ {First(s)}]
    BY <1>4, <1>5
  <2>2. QED
    BY <2>1 DEF SumsUp
<1> HIDE DEF sum
<1>7. SumsUp(Summing(m), m)
  BY <1>6 DEF Summing
<1>8. QED
  BY <1>2, <1>7

\* recompute_balance adds the entries up in some order.
LEMMA ReplayStep ==
  ASSUME NEW S, IsFiniteSet(S)
  PROVE  Replay(S) = IF S = {} THEN 0 ELSE First(S).amount + Replay(S \ {First(S)})
<1>1. SumsUp(Summing(S), S)
  BY SumExists
<1>2. Summing(S)[S] = IF S = {} THEN 0 ELSE First(S).amount + Summing(S)[S \ {First(S)}]
  <2>1. S \in SUBSET S
    OBVIOUS
  <2>2. QED
    BY <1>1, <2>1, Zenon DEF SumsUp
<1>3. CASE S = {}
  BY <1>2, <1>3, ReplayIsSum
<1>4. CASE S # {}
  <2> DEFINE rest == S \ {First(S)}
  <2>1. rest \in SUBSET S /\ IsFiniteSet(rest)
    BY FS_Subset
  <2>2. SumsUp(Summing(rest), rest)
    BY <2>1, SumExists
  <2>3. Summing(S)[rest] = Summing(rest)[rest]
    BY <1>1, <2>1, <2>2, SumsAgree
  <2>4. QED
    BY <1>2, <1>4, <2>3, ReplayIsSum
<1>5. QED
  BY <1>3, <1>4

LEMMA ReplayIsInt ==
  ASSUME NEW S \in SUBSET Entry, IsFiniteSet(S)
  PROVE  Replay(S) \in Int
<1> DEFINE Bad == {s \in SUBSET S : Replay(s) \notin Int}
<1>1. SUFFICES ASSUME Bad # {} PROVE FALSE
  OBVIOUS
<1>2. PICK m \in Bad : \A s \in Bad : s \subseteq m => s = m
  <2>1. Bad \subseteq SUBSET S
    OBVIOUS
  <2> HIDE DEF Bad
  <2>2. QED
    BY <1>1, <2>1, SmallestMember
<1>3. IsFiniteSet(m)
  BY FS_Subset
<1>4. CASE m = {}
  BY <1>2, <1>3, <1>4, ReplayStep
<1>5. CASE m # {}
  <2>1. First(m) \in Entry /\ m \ {First(m)} \subseteq m /\ m \ {First(m)} # m
    BY <1>5, FirstIsMember
  <2>2. Replay(m \ {First(m)}) \in Int
    BY <1>2, <2>1
  <2>3. QED
    BY <1>2, <1>3, <1>5, <2>1, <2>2, ReplayStep DEF Entry
<1>6. QED
  BY <1>4, <1>5

\* The order does not matter: taking any entry off takes its amount off.
LEMMA ReplayWithout ==
  ASSUME NEW S \in SUBSET Entry, IsFiniteSet(S), NEW e \in S
  PROVE  Replay(S) = e.amount + Replay(S \ {e})
<1> DEFINE Bad == {s \in SUBSET S : \E f \in s : Replay(s) # f.amount + Replay(s \ {f})}
<1>1. SUFFICES ASSUME Bad # {} PROVE FALSE
  OBVIOUS
<1>2. PICK m \in Bad : \A s \in Bad : s \subseteq m => s = m
  <2>1. Bad \subseteq SUBSET S
    OBVIOUS
  <2> HIDE DEF Bad
  <2>2. QED
    BY <1>1, <2>1, SmallestMember
<1>3. PICK f \in m : Replay(m) # f.amount + Replay(m \ {f})
  OBVIOUS
<1> DEFINE x == First(m)
<1>4. /\ x \in m /\ x \in Entry /\ f \in Entry
      /\ m \in SUBSET Entry /\ IsFiniteSet(m) /\ m # {}
  BY FirstIsMember, FS_Subset
<1>5. Replay(m) = x.amount + Replay(m \ {x})
  BY <1>4, ReplayStep
<1>6. x # f
  BY <1>3, <1>5
<1> DEFINE both == m \ {x, f}
<1>7. Replay(m \ {x}) = f.amount + Replay(both)
  <2>1. m \ {x} \notin Bad /\ f \in m \ {x} /\ (m \ {x}) \ {f} = both
    BY <1>2, <1>4, <1>6
  <2>2. QED
    BY <2>1
<1>8. Replay(m \ {f}) = x.amount + Replay(both)
  <2>1. m \ {f} \notin Bad /\ x \in m \ {f} /\ (m \ {f}) \ {x} = both
    BY <1>2, <1>4, <1>6
  <2>2. QED
    BY <2>1
<1>9. Replay(both) \in Int /\ x.amount \in Int /\ f.amount \in Int
  <2>1. both \in SUBSET Entry /\ IsFiniteSet(both)
    BY <1>4, FS_Subset
  <2>2. QED
    BY <1>4, <2>1, ReplayIsInt DEF Entry
<1>10. QED
  BY <1>3, <1>5, <1>7, <1>8, <1>9

LEMMA ReplayInsert ==
  ASSUME NEW S \in SUBSET Entry, IsFiniteSet(S), NEW e \in Entry \ S
  PROVE  Replay(S \cup {e}) = Replay(S) + e.amount
<1>1. S \cup {e} \in SUBSET Entry /\ IsFiniteSet(S \cup {e}) /\ (S \cup {e}) \ {e} = S
  BY FS_AddElement
<1>2. Replay(S \cup {e}) = e.amount + Replay(S)
  BY <1>1, ReplayWithout
<1>3. Replay(S) \in Int /\ e.amount \in Int
  BY ReplayIsInt DEF Entry
<1>4. QED
  BY <1>2, <1>3

-----------------------------------------------------------------------------
USE UserAssumption, RequestAssumption

-----------------------------------------------------------------------------
(* The inductive invariant *)

HasLast(entries) ==
  entries = {} \/ \E e \in entries : \A f \in entries \ {e} : Earlier(f, e)

\* Whatever was read is a ledger, and so has a last entry.
LastExists ==
  \A u \in User :
    HasLast(ledger[u]) /\ \A t \in Tx : Active(t) => HasLast(txn[t].seen[u])

\* No reading of the clock is used twice.
StampsDiffer ==
  /\ \A u \in User : \A e \in ledger[u] : e.stamp <= clock
  /\ \A t \in Tx : Active(t) => txn[t].stamp <= clock
  /\ \A t \in Tx : Active(t) /\ txn[t].stamp > 0 =>
       \A u \in User : \A e \in ledger[u] : e.stamp # txn[t].stamp
  /\ \A s, t \in Tx : Active(s) /\ Active(t) /\ s # t /\ txn[t].stamp > 0 =>
       txn[s].stamp # txn[t].stamp

\* Locks are held by requests that use them, all of them from the first read
\* to the end; what is stamped late is stamped after the last read.
LocksHeld ==
  /\ \A t \in Tx, u \in User : lock[u] = t => Active(t) /\ u \in Locks(txn[t].req)
  /\ \A t \in Tx : Active(t) =>
       /\ txn[t].read \subseteq Touched(txn[t].req)
       /\ txn[t].read # {} => Missing(t) = {}
       /\ txn[t].stamp > 0 /\ txn[t].req.op \notin StampedOnEntry =>
            txn[t].read = Touched(txn[t].req)

\* A transfer works on the ledgers as they are, and after them, as long as
\* only transfers have written them.
TransfersAreSerial ==
  \A t \in Tx : Active(t) /\ txn[t].req.op = "transfer" =>
    \A u \in txn[t].read :
      Carried(ledger[u]) =>
        /\ txn[t].seen[u] = ledger[u]
        /\ txn[t].stamp > 0 => \A e \in ledger[u] : e.stamp < txn[t].stamp

IInv ==
  /\ TypeOK
  /\ LastExists
  /\ StampsDiffer
  /\ LocksHeld
  /\ LockedReadsAreFresh
  /\ WaitsUpward
  /\ TransfersConserve
  /\ PaidOnce
  /\ TransfersAreSerial
  /\ TransferredWalletsAddUp

-----------------------------------------------------------------------------
(* Balances and new entries *)

LEMMA BalanceIsNat ==
  ASSUME NEW entries \in SUBSET Entry, HasLast(entries)
  PROVE  Balance(entries) \in Nat
<1>1. CASE entries = {}
  BY <1>1 DEF Balance
<1>2. CASE entries # {}
  <2>1. \E e \in entries : \A f \in entries \ {e} : Earlier(f, e)
    BY <1>2 DEF HasLast
  <2>2. Last(entries) \in entries
    BY <2>1 DEF Last
  <2>3. QED
    BY <1>2, <2>2 DEF Balance, Entry
<1>3. QED
  BY <1>1, <1>2

LEMMA WorkShape ==
  ASSUME TypeOK, NEW t \in Tx, Active(t)
  PROVE  /\ txn[t] \in Working
         /\ txn[t].req \in Request
         /\ txn[t].stamp \in Nat
         /\ txn[t].take \in Nat
         /\ txn[t].read \in SUBSET User
         /\ txn[t].seen \in [User -> SUBSET Entry]
         /\ Touched(txn[t].req) \subseteq User
         /\ Locks(txn[t].req) \subseteq Touched(txn[t].req)
  BY DEF TypeOK, Active, Idle, Working, Touched, Locks

LEMMA NotIdle ==
  ASSUME NEW request \in Working
  PROVE  request # Idle
BY NoneAssumption DEF Idle

LEMMA KindFacts ==
  ASSUME NEW r \in Request, NEW u
  PROVE  /\ Kind(r, u) \in TransactionKind
         /\ Kind(r, u) # "OVERPAYMENT" \/ r.op = "surplus"
         /\ r.op = "transfer" <=> Kind(r, u) \in {"TRANSFER_OUT", "TRANSFER_IN"}
         /\ Kind(r, u) = "TRANSFER_OUT" <=> r.op = "transfer" /\ u = r.user
         /\ r.op \in Locking <=>
              Kind(r, u) \in {"TRANSFER_OUT", "TRANSFER_IN", "PURCHASE", "TOPUP"}
<1>1. r.op \in Op
  OBVIOUS
<1>2. CASE r.op = "transfer"
  <2>1. Kind(r, u) = IF u = r.user THEN "TRANSFER_OUT" ELSE "TRANSFER_IN"
    BY <1>2 DEF Kind
  <2>2. QED
    BY <1>2, <2>1 DEF Locking, TransactionKind
<1>3. CASE r.op = "purchase"
  <2>1. Kind(r, u) = "PURCHASE"
    BY <1>3 DEF Kind
  <2>2. QED
    BY <1>3, <2>1 DEF Locking, TransactionKind
<1>4. CASE r.op = "topup"
  <2>1. Kind(r, u) = "TOPUP"
    BY <1>4 DEF Kind
  <2>2. QED
    BY <1>4, <2>1 DEF Locking, TransactionKind
<1>5. CASE r.op = "surplus"
  <2>1. Kind(r, u) = "OVERPAYMENT"
    BY <1>5 DEF Kind
  <2>2. QED
    BY <1>5, <2>1 DEF Locking, TransactionKind
<1>6. CASE r.op = "refund"
  <2>1. Kind(r, u) = "REFUND"
    BY <1>6 DEF Kind
  <2>2. QED
    BY <1>6, <2>1 DEF Locking, TransactionKind
<1>7. CASE r.op = "reward"
  <2>1. Kind(r, u) = "REFERRAL_REWARD"
    BY <1>7 DEF Kind
  <2>2. QED
    BY <1>7, <2>1 DEF Locking, TransactionKind
<1>8. CASE r.op \in {"adjust", "deduct", "takeback"}
  <2>1. Kind(r, u) = "ADJUSTMENT"
    BY <1>8 DEF Kind
  <2>2. QED
    BY <1>8, <2>1 DEF Locking, TransactionKind
<1>9. QED
  BY <1>1, <1>2, <1>3, <1>4, <1>5, <1>6, <1>7, <1>8 DEF Op

LEMMA AfterIsNat ==
  ASSUME IInv, NEW t \in Tx, Ready(t), Affordable(t), NEW u \in Touched(txn[t].req)
  PROVE  Change(t, u) \in Int /\ After(t, u) \in Nat
<1>1. Active(t)
  BY DEF Ready
<1>2. txn[t].take \in Nat /\ u \in User /\ txn[t].seen[u] \in SUBSET Entry
  BY <1>1, WorkShape DEF IInv
<1>3. HasLast(txn[t].seen[u])
  BY <1>1, <1>2 DEF IInv, LastExists
<1>4. Balance(txn[t].seen[u]) \in Nat
  BY <1>2, <1>3, BalanceIsNat
<1>5. Change(t, u) \in Int
  BY <1>2 DEF Change, Signed
<1>6. QED
  BY <1>4, <1>5 DEF After, Affordable

\* One entry, or two that differ in kind and rank, all with the request's stamp.
LEMMA NewEntries ==
  ASSUME IInv, NEW t \in Tx, Ready(t), Affordable(t), NEW u \in Touched(txn[t].req),
         NEW rank \in {1, 2}
  PROVE  /\ Entries(t, u, rank) \subseteq Entry
         /\ Main(t, u, rank) \in Entries(t, u, rank)
         /\ \A e \in Entries(t, u, rank) : e.stamp = txn[t].stamp /\ e.ref = txn[t].req.ref
         /\ txn[t].req.extra = 0 => Entries(t, u, rank) = {Main(t, u, rank)}
         /\ txn[t].req.extra # 0 =>
              /\ txn[t].req.op = "topup"
              /\ Entries(t, u, rank) = {Main(t, u, rank), Extra(t, u, 3 - rank)}
<1>1. Active(t)
  BY DEF Ready
<1>2. txn[t].req \in Request /\ txn[t].stamp \in Nat
  BY <1>1, WorkShape DEF IInv
<1>3. Change(t, u) \in Int /\ After(t, u) \in Nat
  BY AfterIsNat
<1>4. Kind(txn[t].req, u) \in TransactionKind
  BY <1>2, KindFacts
<1>5. txn[t].req.ref \in STRING \cup {None} /\ txn[t].req.extra \in Nat
  BY <1>2
<1>6. Main(t, u, rank) \in Entry
  BY <1>2, <1>3, <1>4, <1>5 DEF Main, Entry
<1>7. Extra(t, u, 3 - rank) \in Entry
  <2>1. 3 - rank \in {1, 2} /\ After(t, u) + txn[t].req.extra \in Nat
    BY <1>3, <1>5
  <2>2. QED
    BY <1>2, <1>5, <2>1 DEF Extra, Entry, TransactionKind
<1>8. txn[t].req.extra # 0 => txn[t].req.op = "topup"
  BY <1>2, <1>5
<1>9. QED
  BY <1>6, <1>7, <1>8 DEF Entries, Main, Extra

LEMMA LastAfterInsert ==
  ASSUME NEW old \in SUBSET Entry, HasLast(old), NEW e \in Entry,
         \A f \in old : f.stamp # e.stamp
  PROVE  HasLast(old \cup {e})
<1>1. CASE old = {}
  BY <1>1 DEF HasLast
<1>2. CASE old # {}
  <2>1. PICK l \in old : \A f \in old \ {l} : Earlier(f, l)
    BY <1>2 DEF HasLast
  <2>2. CASE e.stamp < l.stamp
    <3>1. \A f \in (old \cup {e}) \ {l} : Earlier(f, l)
      BY <2>1, <2>2 DEF Earlier
    <3>2. QED
      BY <3>1 DEF HasLast
  <2>3. CASE l.stamp < e.stamp
    <3>1. \A f \in (old \cup {e}) \ {e} : Earlier(f, e)
      BY <2>1, <2>3 DEF Earlier, Entry
    <3>2. QED
      BY <3>1 DEF HasLast
  <2>4. QED
    BY <2>2, <2>3 DEF Entry
<1>3. QED
  BY <1>1, <1>2

LEMMA LastAfterTwo ==
  ASSUME NEW old \in SUBSET Entry, HasLast(old), NEW e \in Entry, NEW g \in Entry,
         e.stamp = g.stamp, e.rank # g.rank,
         \A f \in old : f.stamp # e.stamp
  PROVE  HasLast(old \cup {e, g})
<1>1. SUFFICES ASSUME NEW a \in Entry, NEW b \in Entry, {a, b} = {e, g},
                      a.stamp = b.stamp, a.rank < b.rank,
                      \A f \in old : f.stamp # a.stamp
               PROVE  HasLast(old \cup {a, b})
  <2>1. e.rank < g.rank \/ g.rank < e.rank
    BY DEF Entry
  <2>2. {e, g} = {g, e}
    OBVIOUS
  <2>3. QED
    BY <1>1, <2>1, <2>2
<1>2. HasLast(old \cup {b})
  BY <1>1, LastAfterInsert
<1>3. PICK l \in old \cup {b} : \A f \in (old \cup {b}) \ {l} : Earlier(f, l)
  BY <1>2 DEF HasLast
<1>4. \A f \in (old \cup {a, b}) \ {l} : Earlier(f, l)
  <2>1. CASE l = b
    BY <1>1, <1>3, <2>1 DEF Earlier
  <2>2. CASE l # b
    <3>1. Earlier(b, l) /\ l \in old
      BY <1>3, <2>2
    <3>2. Earlier(a, l)
      BY <1>1, <3>1 DEF Earlier, Entry
    <3>3. QED
      BY <1>3, <3>2
  <2>3. QED
    BY <2>1, <2>2
<1>5. QED
  BY <1>4 DEF HasLast

-----------------------------------------------------------------------------
(* The initial state *)

LEMMA InitIInv ==
  ASSUME Init
  PROVE  IInv
<1>1. \A t \in Tx : ~ Active(t)
  BY DEF Init, Active, Idle
<1>2. \A u \in User : ledger[u] = {} \/ ledger[u] = {FirstEntry(u)}
  BY DEF Init
<1>3. \A u \in User : FirstEntry(u) \in Entry
  BY OpeningAssumption DEF FirstEntry, Entry, TransactionKind
<1>4. TypeOK
  <2>1. ledger \in [User -> SUBSET Entry]
    BY <1>3 DEF Init
  <2>2. QED
    BY <2>1 DEF Init, TypeOK, Idle
<1>5. LastExists
  BY <1>1, <1>2 DEF LastExists, HasLast
<1>6. StampsDiffer
  BY <1>1, <1>2 DEF StampsDiffer, FirstEntry, Init
<1>7. LocksHeld
  BY <1>1, NoneAssumption DEF LocksHeld, Init
<1>8. LockedReadsAreFresh /\ WaitsUpward /\ TransfersAreSerial
  BY <1>1 DEF LockedReadsAreFresh, WaitsUpward, TransfersAreSerial
<1>9. TransfersConserve /\ PaidOnce
  BY <1>2 DEF TransfersConserve, PaidOnce, FirstEntry
<1>10. TransferredWalletsAddUp
  <2>1. SUFFICES ASSUME NEW u \in User, NEW e \in ledger[u]
                 PROVE  e.after = Balance(Before(ledger[u], e)) + e.amount
    BY DEF TransferredWalletsAddUp, AddsUp
  <2>2. e = FirstEntry(u) /\ ledger[u] = {e}
    BY <1>2
  <2>3. Before(ledger[u], e) = {}
    BY <2>2 DEF Before, Earlier, FirstEntry
  <2>4. QED
    BY <2>2, <2>3, OpeningAssumption DEF Balance, FirstEntry
<1>11. QED
  BY <1>4, <1>5, <1>6, <1>7, <1>8, <1>9, <1>10 DEF IInv

-----------------------------------------------------------------------------
(* Steps that leave the ledgers alone *)

LEMMA LedgersKept ==
  ASSUME IInv, UNCHANGED ledger
  PROVE  TransfersConserve' /\ PaidOnce' /\ TransferredWalletsAddUp'
<1>1. TransfersConserve'
  BY DEF IInv, TransfersConserve
<1>2. PaidOnce'
  BY DEF IInv, PaidOnce
<1>3. TransferredWalletsAddUp'
  BY DEF IInv, TransferredWalletsAddUp, Carried, AddsUp, Before, Earlier, Balance, Last
<1>4. QED
  BY <1>1, <1>2, <1>3

\* The stamps of filed entries and of requests are numbers.
LEMMA StampsAreNat ==
  ASSUME TypeOK
  PROVE  /\ \A u \in User : \A e \in ledger[u] : e.stamp \in Nat
         /\ \A t \in Tx : Active(t) => txn[t].stamp \in Nat
<1>1. ASSUME NEW u \in User, NEW e \in ledger[u]
      PROVE  e.stamp \in Nat
  <2>1. e \in Entry
    BY DEF TypeOK
  <2>2. QED
    BY <2>1 DEF Entry
<1>2. QED
  BY <1>1, WorkShape

LEMMA StartKeeps ==
  ASSUME IInv, NEW t \in Tx, NEW r \in Request, Start(t, r)
  PROVE  IInv'
<1> DEFINE new == txn'[t]
<1>1. ~ Active(t) /\ ledger' = ledger /\ lock' = lock
  BY DEF Start, Active
<1>2. clock \in Nat /\ clock' \in Nat /\ clock' >= clock
  BY DEF IInv, TypeOK, Start
<1>3. /\ txn' \in [Tx -> Working \cup {Idle}]
      /\ \A s \in Tx \ {t} : txn'[s] = txn[s]
      /\ new.req = r /\ new.read = {} /\ new.seen = [u \in User |-> {}]
      /\ new.stamp = IF r.op \in StampedOnEntry THEN clock + 1 ELSE 0
  <2>1. new = [req   |-> r,
               stamp |-> IF r.op \in StampedOnEntry THEN clock + 1 ELSE 0,
               take  |-> IF r.op = "takeback" THEN 0 ELSE r.amount,
               read  |-> {},
               seen  |-> [u \in User |-> {}]]
    BY DEF Start, IInv, TypeOK
  <2>2. new \in Working
    BY <1>2, <2>1 DEF Working
  <2>3. QED
    BY <2>1, <2>2 DEF Start, IInv, TypeOK
<1>4. \A s \in Tx \ {t} : Active(s)' <=> Active(s)
  BY <1>3 DEF Active
<1>5. \A s \in Tx \ {t} : Active(s) => Missing(s)' = Missing(s)
  BY <1>1, <1>3 DEF Missing
<1>6. \A u \in User : lock[u] # t
  BY <1>1 DEF IInv, LocksHeld
<1>7. TypeOK'
  BY <1>1, <1>2, <1>3 DEF IInv, TypeOK, Start
<1>8. LastExists'
  <2>1. HasLast({})
    BY DEF HasLast
  <2>2. ASSUME NEW u \in User, NEW s \in Tx, Active(s)'
        PROVE  HasLast(txn'[s].seen[u])
    <3>1. CASE s = t
      <4>1. txn'[s].seen[u] = {}
        BY <1>3, <3>1
      <4>2. QED
        BY <2>1, <4>1
    <3>2. CASE s # t
      BY <1>3, <1>4, <2>2, <3>2 DEF IInv, LastExists
    <3>3. QED
      BY <3>1, <3>2
  <2>3. QED
    BY <1>1, <2>2 DEF IInv, LastExists
<1>9. StampsDiffer'
  <2>1. clock' = IF r.op \in StampedOnEntry THEN clock + 1 ELSE clock
    BY DEF Start
  <2>2. new.stamp = 0 \/ (new.stamp = clock + 1 /\ clock' = clock + 1)
    BY <1>3, <2>1
  <2>3. QED
    BY <1>1, <1>2, <1>3, <1>4, <2>2, StampsAreNat DEF IInv, StampsDiffer
<1>10. LocksHeld'
  <2>1. \A s \in Tx, u \in User : lock'[u] = s => Active(s)' /\ u \in Locks(txn'[s].req)
    BY <1>1, <1>3, <1>4, <1>6 DEF IInv, LocksHeld
  <2>2. ASSUME NEW s \in Tx, Active(s)'
        PROVE  /\ txn'[s].read \subseteq Touched(txn'[s].req)
               /\ txn'[s].read # {} => Missing(s)' = {}
               /\ txn'[s].stamp > 0 /\ txn'[s].req.op \notin StampedOnEntry =>
                    txn'[s].read = Touched(txn'[s].req)
    <3>1. CASE s = t
      BY <1>3, <3>1
    <3>2. CASE s # t
      BY <1>3, <1>4, <1>5, <2>2, <3>2 DEF IInv, LocksHeld
    <3>3. QED
      BY <3>1, <3>2
  <2>3. QED
    BY <2>1, <2>2 DEF LocksHeld
<1>11. LockedReadsAreFresh'
  BY <1>1, <1>3, <1>4, <1>6 DEF IInv, LockedReadsAreFresh
<1>12. WaitsUpward'
  <2>1. SUFFICES ASSUME NEW s \in Tx, NEW u \in User, NEW v \in User,
                        Active(s)', lock'[u] = s, v \in Missing(s)'
                 PROVE  u < v
    BY DEF WaitsUpward
  <2>2. s # t
    BY <1>1, <1>6, <2>1
  <2>3. Active(s) /\ v \in Missing(s)
    BY <1>4, <1>5, <2>1, <2>2
  <2>4. QED
    BY <1>1, <2>1, <2>3 DEF IInv, WaitsUpward
<1>13. TransfersAreSerial'
  BY <1>1, <1>3, <1>4 DEF IInv, TransfersAreSerial
<1>14. QED
  BY <1>1, <1>7, <1>8, <1>9, <1>10, <1>11, <1>12, <1>13, LedgersKept DEF IInv

LEMMA AcquireKeeps ==
  ASSUME IInv, NEW t \in Tx, NEW u \in User, Acquire(t, u)
  PROVE  IInv'
<1>1. /\ Active(t) /\ u \in Missing(t) /\ lock[u] = None
      /\ \A v \in Missing(t) : u <= v
      /\ ledger' = ledger /\ txn' = txn /\ clock' = clock
      /\ lock' \in [User -> Tx \cup {None}]
      /\ lock'[u] = t /\ \A v \in User \ {u} : lock'[v] = lock[v]
  BY DEF Acquire, IsNext, Free, IInv, TypeOK
<1>2. \A s \in Tx : Active(s)' <=> Active(s)
  BY <1>1 DEF Active
<1>3. \A s \in Tx : Active(s) => Locks(txn[s].req) \subseteq User
  BY WorkShape DEF IInv
<1>4. \A s \in Tx \ {t} : Active(s) => Missing(s)' = Missing(s)
  BY <1>1, <1>3, NoneAssumption DEF Missing
<1>5. Missing(t)' = Missing(t) \ {u}
  BY <1>1, <1>3, NoneAssumption DEF Missing
<1>6. txn[t].read = {}
  BY <1>1 DEF IInv, LocksHeld
<1>7. u \in Locks(txn[t].req)
  BY <1>1 DEF Missing
<1>8. TypeOK'
  BY <1>1 DEF IInv, TypeOK, Acquire
<1>9. LastExists'
  BY <1>1, <1>2 DEF IInv, LastExists, HasLast
<1>10. StampsDiffer'
  BY <1>1, <1>2 DEF IInv, StampsDiffer
<1>11. LocksHeld'
  <2>1. \A s \in Tx, v \in User : lock'[v] = s => Active(s)' /\ v \in Locks(txn'[s].req)
    BY <1>1, <1>2, <1>7 DEF IInv, LocksHeld
  <2>2. QED
    BY <1>1, <1>2, <1>4, <1>5, <2>1 DEF IInv, LocksHeld
<1>12. LockedReadsAreFresh'
  BY <1>1, <1>2, <1>6 DEF IInv, LockedReadsAreFresh
<1>13. WaitsUpward'
  <2>1. SUFFICES ASSUME NEW s \in Tx, NEW w \in User, NEW v \in User,
                        Active(s)', lock'[w] = s, v \in Missing(s)'
                 PROVE  w < v
    BY DEF WaitsUpward
  <2>2. CASE s = t /\ w = u
    BY <1>1, <1>5, <2>1, <2>2
  <2>3. CASE s = t /\ w # u
    BY <1>1, <1>2, <1>5, <2>1, <2>3 DEF IInv, WaitsUpward
  <2>4. CASE s # t
    <3>1. w # u
      BY <1>1, <2>1, <2>4
    <3>2. QED
      BY <1>1, <1>2, <1>4, <2>1, <2>4, <3>1 DEF IInv, WaitsUpward
  <2>5. QED
    BY <2>2, <2>3, <2>4
<1>14. TransfersAreSerial'
  BY <1>1, <1>2 DEF IInv, TransfersAreSerial
<1>15. QED
  BY <1>1, <1>8, <1>9, <1>10, <1>11, <1>12, <1>13, <1>14, LedgersKept DEF IInv

LEMMA CapKeeps ==
  ASSUME IInv, NEW t \in Tx, Cap(t)
  PROVE  IInv'
<1> DEFINE r == txn[t].req
           new == txn'[t]
<1>1. Active(t) /\ ledger' = ledger /\ lock' = lock /\ clock' = clock
  BY DEF Cap
<1>2. txn[t] \in Working /\ r \in Request /\ r.user \in User
  BY <1>1, WorkShape DEF IInv
<1>3. Smaller(r.amount, Balance(ledger[r.user])) \in Nat
  <2>1. Balance(ledger[r.user]) \in Nat
    BY <1>2, BalanceIsNat DEF IInv, TypeOK, LastExists
  <2>2. r.amount \in Nat
    BY <1>2
  <2>3. QED
    BY <2>1, <2>2 DEF Smaller
<1>4. /\ txn' \in [Tx -> Working \cup {Idle}]
      /\ \A s \in Tx : s # t => txn'[s] = txn[s]
      /\ new.req = txn[t].req /\ new.read = txn[t].read
      /\ new.seen = txn[t].seen /\ new.stamp = txn[t].stamp
      /\ new \in Working
  <2>1. new = Capped(txn[t], Smaller(r.amount, Balance(ledger[r.user])))
    BY DEF Cap, IInv, TypeOK
  <2>2. new \in Working /\ new.req = txn[t].req /\ new.read = txn[t].read
        /\ new.seen = txn[t].seen /\ new.stamp = txn[t].stamp
    BY <1>2, <1>3, <2>1 DEF Capped, Working
  <2>3. QED
    BY <2>2 DEF Cap, IInv, TypeOK
<1>5. \A s \in Tx : Active(s)' <=> Active(s)
  <2>1. new # Idle
    BY <1>4, NotIdle
  <2>2. QED
    BY <1>1, <1>4, <2>1 DEF Active
<1>6. \A s \in Tx : txn'[s].req = txn[s].req /\ txn'[s].read = txn[s].read
                    /\ txn'[s].seen = txn[s].seen /\ txn'[s].stamp = txn[s].stamp
  BY <1>4
<1>7. \A s \in Tx : Missing(s)' = Missing(s)
  BY <1>1, <1>6 DEF Missing
<1>8. TypeOK'
  BY <1>1, <1>4 DEF IInv, TypeOK, Cap
<1>9. LastExists'
  BY <1>1, <1>5, <1>6 DEF IInv, LastExists, HasLast
<1>10. StampsDiffer'
  BY <1>1, <1>5, <1>6 DEF IInv, StampsDiffer
<1>11. LocksHeld'
  BY <1>1, <1>5, <1>6, <1>7 DEF IInv, LocksHeld
<1>12. LockedReadsAreFresh'
  BY <1>1, <1>5, <1>6 DEF IInv, LockedReadsAreFresh
<1>13. WaitsUpward'
  BY <1>1, <1>5, <1>7 DEF IInv, WaitsUpward
<1>14. TransfersAreSerial'
  BY <1>1, <1>5, <1>6 DEF IInv, TransfersAreSerial
<1>15. QED
  BY <1>1, <1>8, <1>9, <1>10, <1>11, <1>12, <1>13, <1>14, LedgersKept DEF IInv

LEMMA LoadedShape ==
  ASSUME NEW request \in Working, NEW u \in User, NEW entries \in SUBSET Entry
  PROVE  /\ Loaded(request, u, entries) \in Working
         /\ Loaded(request, u, entries).req = request.req
         /\ Loaded(request, u, entries).stamp = request.stamp
         /\ Loaded(request, u, entries).read = request.read \cup {u}
         /\ Loaded(request, u, entries).seen = [request.seen EXCEPT ![u] = entries]
<1>1. request.seen \in [User -> SUBSET Entry] /\ request.read \in SUBSET User
  BY DEF Working
<1>2. [request.seen EXCEPT ![u] = entries] \in [User -> SUBSET Entry]
  BY <1>1
<1> DEFINE seen == [request.seen EXCEPT ![u] = entries]
<1>3. seen \in [User -> SUBSET Entry]
  BY <1>2
<1> HIDE DEF seen
<1>4. [request EXCEPT !.read = request.read \cup {u}, !.seen = seen] \in Working
  BY <1>1, <1>3 DEF Working
<1>5. Loaded(request, u, entries) = [request EXCEPT !.read = request.read \cup {u}, !.seen = seen]
  BY DEF Loaded, seen
<1>6. QED
  BY <1>4, <1>5 DEF Working, seen

LEMMA ReadKeeps ==
  ASSUME IInv, NEW t \in Tx, NEW u \in User, Read(t, u)
  PROVE  IInv'
<1> DEFINE r == txn[t].req
           new == txn'[t]
<1>1. /\ Active(t) /\ Missing(t) = {}
      /\ u \in Touched(r) /\ u \notin txn[t].read
      /\ ledger' = ledger /\ lock' = lock /\ clock' = clock
  BY DEF Read
<1>2. txn[t] \in Working /\ r \in Request /\ ledger[u] \in SUBSET Entry
  BY <1>1, WorkShape DEF IInv, TypeOK
<1>3. /\ txn' \in [Tx -> Working \cup {Idle}]
      /\ \A s \in Tx : s # t => txn'[s] = txn[s]
      /\ new \in Working
      /\ new.req = txn[t].req /\ new.stamp = txn[t].stamp
      /\ new.read = txn[t].read \cup {u}
      /\ new.seen[u] = ledger[u]
      /\ \A v \in User \ {u} : new.seen[v] = txn[t].seen[v]
  <2>1. new = Loaded(txn[t], u, ledger[u])
    BY DEF Read, IInv, TypeOK
  <2>2. txn[t].seen \in [User -> SUBSET Entry] /\ txn[t].read \in SUBSET User
    BY <1>2 DEF Working
  <2>3. /\ new.req = txn[t].req /\ new.stamp = txn[t].stamp
        /\ new.read = txn[t].read \cup {u}
        /\ new.seen = [txn[t].seen EXCEPT ![u] = ledger[u]]
        /\ new \in Working
    BY <1>2, <2>1, LoadedShape
  <2>4. QED
    BY <2>2, <2>3 DEF Read, IInv, TypeOK
<1>4. \A s \in Tx : Active(s)' <=> Active(s)
  <2>1. new # Idle
    BY <1>3, NotIdle
  <2>2. QED
    BY <1>1, <1>3, <2>1 DEF Active
<1>5. \A s \in Tx : txn'[s].req = txn[s].req /\ txn'[s].stamp = txn[s].stamp
  BY <1>3
<1>6. \A s \in Tx : Missing(s)' = Missing(s)
  BY <1>1, <1>5 DEF Missing
<1>7. TypeOK'
  BY <1>1, <1>3 DEF IInv, TypeOK, Read
<1>8. LastExists'
  <2>1. SUFFICES ASSUME NEW v \in User, NEW s \in Tx, Active(s)'
                 PROVE  HasLast(txn'[s].seen[v])
    BY <1>1 DEF LastExists, HasLast, IInv
  <2>2. CASE s = t /\ v = u
    BY <1>3, <2>2 DEF IInv, LastExists
  <2>3. CASE ~ (s = t /\ v = u)
    <3>1. txn'[s].seen[v] = txn[s].seen[v]
      BY <1>3, <2>3
    <3>2. QED
      BY <1>4, <2>1, <3>1 DEF IInv, LastExists
  <2>4. QED
    BY <2>2, <2>3
<1>9. StampsDiffer'
  BY <1>1, <1>4, <1>5 DEF IInv, StampsDiffer
<1>10. LocksHeld'
  <2>1. \A s \in Tx, v \in User : lock'[v] = s => Active(s)' /\ v \in Locks(txn'[s].req)
    BY <1>1, <1>4, <1>5 DEF IInv, LocksHeld
  <2>2. ASSUME NEW s \in Tx, Active(s)'
        PROVE  /\ txn'[s].read \subseteq Touched(txn'[s].req)
               /\ txn'[s].read # {} => Missing(s)' = {}
               /\ txn'[s].stamp > 0 /\ txn'[s].req.op \notin StampedOnEntry =>
                    txn'[s].read = Touched(txn'[s].req)
    <3>1. CASE s = t
      <4>1. txn[t].read \subseteq Touched(r)
        BY <1>1 DEF IInv, LocksHeld
      <4>2. ~ (txn[t].stamp > 0 /\ r.op \notin StampedOnEntry)
        BY <1>1 DEF IInv, LocksHeld
      <4>3. QED
        BY <1>1, <1>3, <1>6, <3>1, <4>1, <4>2
    <3>2. CASE s # t
      BY <1>3, <1>4, <1>6, <2>2, <3>2 DEF IInv, LocksHeld
    <3>3. QED
      BY <3>1, <3>2
  <2>3. QED
    BY <2>1, <2>2 DEF LocksHeld
<1>11. LockedReadsAreFresh'
  <2>1. SUFFICES ASSUME NEW s \in Tx, NEW v \in User,
                        Active(s)', lock'[v] = s, v \in txn'[s].read
                 PROVE  UnderLock(txn'[s].seen[v]) = UnderLock(ledger[v])
    BY <1>1 DEF LockedReadsAreFresh, UnderLock
  <2>2. CASE s = t /\ v = u
    BY <1>3, <2>2
  <2>3. CASE ~ (s = t /\ v = u)
    <3>1. txn'[s].seen[v] = txn[s].seen[v] /\ v \in txn[s].read
      BY <1>3, <2>1, <2>3
    <3>2. QED
      BY <1>1, <1>4, <2>1, <3>1 DEF IInv, LockedReadsAreFresh
  <2>4. QED
    BY <2>2, <2>3
<1>12. WaitsUpward'
  BY <1>1, <1>4, <1>6 DEF IInv, WaitsUpward
<1>13. TransfersAreSerial'
  <2>1. SUFFICES ASSUME NEW s \in Tx, Active(s)', txn'[s].req.op = "transfer",
                        NEW v \in txn'[s].read, Carried(ledger[v])
                 PROVE  /\ txn'[s].seen[v] = ledger[v]
                        /\ txn'[s].stamp > 0 => \A e \in ledger[v] : e.stamp < txn'[s].stamp
    BY <1>1 DEF TransfersAreSerial, Carried
  <2>2. CASE s = t /\ v = u
    <3>1. ~ (txn[t].stamp > 0)
      BY <1>1, <1>5, <2>1, <2>2 DEF IInv, LocksHeld, StampedOnEntry
    <3>2. QED
      BY <1>3, <2>2, <3>1
  <2>3. CASE ~ (s = t /\ v = u)
    <3>1. v \in txn[s].read /\ v \in User
      BY <1>3, <1>4, <2>1, <2>3, WorkShape DEF IInv
    <3>2. txn'[s].seen[v] = txn[s].seen[v]
      BY <1>3, <2>3, <3>1
    <3>3. QED
      BY <1>4, <1>5, <2>1, <3>1, <3>2 DEF IInv, TransfersAreSerial
  <2>4. QED
    BY <2>2, <2>3
<1>14. QED
  BY <1>1, <1>7, <1>8, <1>9, <1>10, <1>11, <1>12, <1>13, LedgersKept DEF IInv

LEMMA StampKeeps ==
  ASSUME IInv, NEW t \in Tx, Stamp(t)
  PROVE  IInv'
<1> DEFINE new == txn'[t]
<1>1. /\ Active(t) /\ txn[t].stamp = 0 /\ txn[t].read = Touched(txn[t].req)
      /\ ledger' = ledger /\ lock' = lock /\ clock' = clock + 1
  BY DEF Stamp
<1>2. txn[t] \in Working /\ clock \in Nat
  BY <1>1, WorkShape DEF IInv, TypeOK
<1>3. /\ txn' \in [Tx -> Working \cup {Idle}]
      /\ \A s \in Tx : s # t => txn'[s] = txn[s]
      /\ new \in Working
      /\ new.req = txn[t].req /\ new.read = txn[t].read
      /\ new.seen = txn[t].seen /\ new.stamp = clock + 1
  <2>1. new = Stamped(txn[t], clock + 1)
    BY DEF Stamp, IInv, TypeOK
  <2>2. new \in Working /\ new.req = txn[t].req /\ new.read = txn[t].read
        /\ new.seen = txn[t].seen /\ new.stamp = clock + 1
    BY <1>2, <2>1 DEF Stamped, Working
  <2>3. QED
    BY <2>2 DEF Stamp, IInv, TypeOK
<1>4. \A s \in Tx : Active(s)' <=> Active(s)
  <2>1. new # Idle
    BY <1>3, NotIdle
  <2>2. QED
    BY <1>1, <1>3, <2>1 DEF Active
<1>5. \A s \in Tx : txn'[s].req = txn[s].req /\ txn'[s].read = txn[s].read
                    /\ txn'[s].seen = txn[s].seen
  BY <1>3
<1>6. \A s \in Tx : Missing(s)' = Missing(s)
  BY <1>1, <1>5 DEF Missing
<1>7. TypeOK'
  BY <1>1, <1>2, <1>3 DEF IInv, TypeOK, Stamp
<1>8. LastExists'
  BY <1>1, <1>4, <1>5 DEF IInv, LastExists, HasLast
<1>9. StampsDiffer'
  BY <1>1, <1>2, <1>3, <1>4, StampsAreNat DEF IInv, StampsDiffer
<1>10. LocksHeld'
  <2>1. \A s \in Tx, v \in User : lock'[v] = s => Active(s)' /\ v \in Locks(txn'[s].req)
    BY <1>1, <1>4, <1>5 DEF IInv, LocksHeld
  <2>2. \A s \in Tx : Active(s)' =>
          /\ txn'[s].read \subseteq Touched(txn'[s].req)
          /\ txn'[s].read # {} => Missing(s)' = {}
          /\ txn'[s].stamp > 0 /\ txn'[s].req.op \notin StampedOnEntry =>
               txn'[s].read = Touched(txn'[s].req)
    BY <1>1, <1>3, <1>4, <1>5, <1>6 DEF IInv, LocksHeld
  <2>3. QED
    BY <2>1, <2>2 DEF LocksHeld
<1>11. LockedReadsAreFresh'
  BY <1>1, <1>4, <1>5 DEF IInv, LockedReadsAreFresh
<1>12. WaitsUpward'
  BY <1>1, <1>4, <1>6 DEF IInv, WaitsUpward
<1>13. TransfersAreSerial'
  <2>1. SUFFICES ASSUME NEW s \in Tx, Active(s)', txn'[s].req.op = "transfer",
                        NEW v \in txn'[s].read, Carried(ledger[v])
                 PROVE  /\ txn'[s].seen[v] = ledger[v]
                        /\ txn'[s].stamp > 0 => \A e \in ledger[v] : e.stamp < txn'[s].stamp
    BY <1>1 DEF TransfersAreSerial, Carried
  <2>2. v \in txn[s].read /\ v \in User /\ txn[s].req.op = "transfer" /\ Active(s)
    BY <1>4, <1>5, <2>1, WorkShape DEF IInv
  <2>3. txn'[s].seen[v] = ledger[v]
    BY <1>5, <2>1, <2>2 DEF IInv, TransfersAreSerial
  <2>4. CASE s = t
    <3>1. \A e \in ledger[v] : e.stamp <= clock /\ e.stamp \in Nat
      BY <2>2, StampsAreNat DEF IInv, StampsDiffer
    <3>2. QED
      BY <1>2, <1>3, <2>3, <2>4, <3>1
  <2>5. CASE s # t
    BY <1>3, <2>1, <2>2, <2>3, <2>5 DEF IInv, TransfersAreSerial
  <2>6. QED
    BY <2>4, <2>5
<1>14. QED
  BY <1>1, <1>7, <1>8, <1>9, <1>10, <1>11, <1>12, <1>13, LedgersKept DEF IInv

-----------------------------------------------------------------------------
(* The end of a request *)

LEMMA FinishEffect ==
  ASSUME IInv, NEW t \in Tx, Active(t), Finish(t)
  PROVE  /\ txn' \in [Tx -> Working \cup {Idle}]
         /\ lock' \in [User -> Tx \cup {None}]
         /\ clock' = clock /\ tries' = tries
         /\ ~ Active(t)'
         /\ \A s \in Tx \ {t} : txn'[s] = txn[s] /\ (Active(s)' <=> Active(s))
         /\ \A s \in Tx : Active(s)' => s # t /\ Active(s)
         /\ LocksHeld'
         /\ WaitsUpward'
<1>1. txn' \in [Tx -> Working \cup {Idle}] /\ lock' \in [User -> Tx \cup {None}]
  BY DEF Finish, IInv, TypeOK
<1>2. clock' = clock /\ tries' = tries
  BY DEF Finish
<1>3. txn'[t] = Idle /\ \A s \in Tx \ {t} : txn'[s] = txn[s]
  BY DEF Finish, IInv, TypeOK
<1>4. ~ Active(t)' /\ \A s \in Tx \ {t} : Active(s)' <=> Active(s)
  BY <1>3 DEF Active
<1>5. \A u \in User, s \in Tx : lock'[u] = s <=> (s # t /\ lock[u] = s)
  BY NoneAssumption DEF Finish, IInv, TypeOK
<1>6. ASSUME NEW s \in Tx \ {t}, Active(s)
      PROVE  Missing(s)' = Missing(s)
  <2>1. Locks(txn[s].req) \subseteq User
    BY <1>6, WorkShape DEF IInv
  <2>2. txn'[s].req = txn[s].req /\ \A u \in User : lock'[u] # s <=> lock[u] # s
    BY <1>3, <1>5
  <2>3. QED
    BY <2>1, <2>2 DEF Missing
<1>7. LocksHeld'
  <2>1. \A s \in Tx, v \in User : lock'[v] = s => Active(s)' /\ v \in Locks(txn'[s].req)
    BY <1>3, <1>4, <1>5 DEF IInv, LocksHeld
  <2>2. ASSUME NEW s \in Tx, Active(s)'
        PROVE  /\ txn'[s].read \subseteq Touched(txn'[s].req)
               /\ txn'[s].read # {} => Missing(s)' = {}
               /\ txn'[s].stamp > 0 /\ txn'[s].req.op \notin StampedOnEntry =>
                    txn'[s].read = Touched(txn'[s].req)
    BY <1>3, <1>4, <1>6, <2>2 DEF IInv, LocksHeld
  <2>3. QED
    BY <2>1, <2>2 DEF LocksHeld
<1>8. WaitsUpward'
  <2>1. SUFFICES ASSUME NEW s \in Tx, NEW u \in User, NEW v \in User,
                        Active(s)', lock'[u] = s, v \in Missing(s)'
                 PROVE  u < v
    BY DEF WaitsUpward
  <2>2. s # t /\ Active(s)
    BY <1>4, <2>1
  <2>3. lock[u] = s /\ v \in Missing(s)
    BY <1>5, <1>6, <2>1, <2>2
  <2>4. QED
    BY <2>2, <2>3 DEF IInv, WaitsUpward
<1>9. QED
  BY <1>1, <1>2, <1>3, <1>4, <1>7, <1>8

LEMMA AbortKeeps ==
  ASSUME IInv, NEW t \in Tx, Abort(t)
  PROVE  IInv'
<1>1. Active(t) /\ ledger' = ledger /\ Finish(t)
  BY DEF Abort
<1>2. /\ txn' \in [Tx -> Working \cup {Idle}]
      /\ lock' \in [User -> Tx \cup {None}]
      /\ clock' = clock /\ tries' = tries
      /\ \A s \in Tx \ {t} : txn'[s] = txn[s] /\ (Active(s)' <=> Active(s))
      /\ \A s \in Tx : Active(s)' => s # t /\ Active(s)
      /\ LocksHeld' /\ WaitsUpward'
  BY <1>1, FinishEffect
<1>3. TypeOK'
  BY <1>1, <1>2 DEF IInv, TypeOK
<1>4. LastExists'
  BY <1>1, <1>2 DEF IInv, LastExists, HasLast
<1>5. StampsDiffer'
  BY <1>1, <1>2 DEF IInv, StampsDiffer
<1>6. LockedReadsAreFresh'
  <2>1. \A s \in Tx \ {t}, u \in User : lock'[u] = s => lock[u] = s
    BY <1>1, NoneAssumption DEF Finish, IInv, TypeOK
  <2>2. QED
    BY <1>1, <1>2, <2>1 DEF IInv, LockedReadsAreFresh
<1>7. TransfersAreSerial'
  BY <1>1, <1>2 DEF IInv, TransfersAreSerial
<1>8. QED
  BY <1>1, <1>2, <1>3, <1>4, <1>5, <1>6, <1>7, LedgersKept DEF IInv

\* A request that is ready and locks its wallets holds the locks.
LEMMA ReadyHolds ==
  ASSUME IInv, NEW t \in Tx, Active(t), NEW u \in txn[t].read,
         txn[t].req.op \in Locking
  PROVE  lock[u] = t
<1>1. Missing(t) = {} /\ u \in Touched(txn[t].req)
  BY DEF IInv, LocksHeld
<1>2. QED
  BY <1>1 DEF Missing, Locks

LEMMA CommitKeeps ==
  ASSUME IInv, NEW t \in Tx, Commit(t)
  PROVE  IInv'
<1> DEFINE r == txn[t].req
<1>1. Ready(t) /\ Affordable(t) /\ Finish(t) /\ Active(t) /\ txn[t].stamp > 0
      /\ txn[t].read = Touched(r)
  BY DEF Commit, Ready
<1>2. PICK rank \in {1, 2} :
        /\ Unique(t, rank)
        /\ ledger' = [u \in User |-> IF u \in Touched(r)
                                     THEN ledger[u] \cup Entries(t, u, rank)
                                     ELSE ledger[u]]
  BY DEF Commit, Saved
<1>3. r \in Request /\ txn[t].stamp \in Nat /\ Touched(r) \subseteq User
  BY <1>1, WorkShape DEF IInv
<1>4. /\ txn' \in [Tx -> Working \cup {Idle}]
      /\ lock' \in [User -> Tx \cup {None}]
      /\ clock' = clock /\ tries' = tries
      /\ \A s \in Tx : Active(s)' => s # t /\ Active(s) /\ txn'[s] = txn[s]
      /\ LocksHeld' /\ WaitsUpward'
  BY <1>1, FinishEffect
<1>5. /\ \A u \in Touched(r) : ledger'[u] = ledger[u] \cup Entries(t, u, rank)
      /\ \A u \in User \ Touched(r) : ledger'[u] = ledger[u]
  BY <1>2, <1>3
<1>6. \A u \in Touched(r) :
        /\ Entries(t, u, rank) \subseteq Entry
        /\ Main(t, u, rank) \in Entries(t, u, rank)
        /\ \A e \in Entries(t, u, rank) : e.stamp = txn[t].stamp /\ e.ref = r.ref
        /\ r.extra = 0 => Entries(t, u, rank) = {Main(t, u, rank)}
        /\ r.extra # 0 => /\ r.op = "topup"
                          /\ Entries(t, u, rank) = {Main(t, u, rank), Extra(t, u, 3 - rank)}
  BY <1>1, NewEntries
<1>7. \A u \in User : ledger[u] \in SUBSET Entry
  BY DEF IInv, TypeOK
<1>8. \A u \in User : ledger[u] \subseteq ledger'[u]
  BY <1>5
\* A transfer, and nothing else, leaves a ledger that only transfers wrote.
<1>9. ASSUME NEW u \in User, Carried(ledger'[u])
      PROVE  /\ Carried(ledger[u])
             /\ u \in Touched(r) => r.op = "transfer" /\ lock[u] = t
  <2>1. Carried(ledger[u])
    BY <1>8, <1>9 DEF Carried
  <2>2. ASSUME u \in Touched(r)
        PROVE  r.op = "transfer" /\ lock[u] = t
    <3>1. Main(t, u, rank) \in ledger'[u]
      BY <1>5, <1>6, <2>2
    <3>2. Main(t, u, rank).stamp = txn[t].stamp /\ Main(t, u, rank).kind = Kind(r, u)
      BY DEF Main
    <3>3. Kind(r, u) \in {"TRANSFER_OUT", "TRANSFER_IN"}
      BY <1>1, <1>9, <3>1, <3>2 DEF Carried
    <3>4. r.op = "transfer"
      BY <1>3, <3>3, KindFacts
    <3>5. QED
      BY <1>1, <2>2, <3>4, ReadyHolds DEF Locking
  <2>3. QED
    BY <2>1, <2>2
<1>10. TypeOK'
  <2>1. \A u \in User : ledger'[u] \in SUBSET Entry
    BY <1>5, <1>6, <1>7
  <2>2. QED
    BY <1>2, <1>4, <2>1 DEF IInv, TypeOK
<1>11. LastExists'
  <2>1. SUFFICES ASSUME NEW u \in User
                 PROVE  HasLast(ledger'[u])
    BY <1>4 DEF IInv, LastExists, HasLast
  <2>2. HasLast(ledger[u])
    BY DEF IInv, LastExists
  <2>3. \A f \in ledger[u] : f.stamp # txn[t].stamp
    BY <1>1 DEF IInv, StampsDiffer
  <2>4. CASE u \notin Touched(r)
    BY <1>5, <2>2, <2>4
  <2>5. CASE u \in Touched(r) /\ r.extra = 0
    <3>1. ledger'[u] = ledger[u] \cup {Main(t, u, rank)}
      BY <1>5, <1>6, <2>5
    <3>2. Main(t, u, rank) \in Entry /\ Main(t, u, rank).stamp = txn[t].stamp
      BY <1>6, <2>5
    <3>3. QED
      BY <1>7, <2>2, <2>3, <3>1, <3>2, LastAfterInsert
  <2>6. CASE u \in Touched(r) /\ r.extra # 0
    <3>1. ledger'[u] = ledger[u] \cup {Main(t, u, rank), Extra(t, u, 3 - rank)}
      BY <1>5, <1>6, <2>6
    <3>2. /\ Main(t, u, rank) \in Entry /\ Main(t, u, rank).stamp = txn[t].stamp
          /\ Extra(t, u, 3 - rank) \in Entry /\ Extra(t, u, 3 - rank).stamp = txn[t].stamp
      BY <1>6, <2>6
    <3>3. Main(t, u, rank).rank # Extra(t, u, 3 - rank).rank
      BY DEF Main, Extra
    <3>4. QED
      BY <1>7, <2>2, <2>3, <3>1, <3>2, <3>3, LastAfterTwo
  <2>7. QED
    BY <2>4, <2>5, <2>6
<1>12. StampsDiffer'
  <2>1. \A u \in User : \A e \in ledger'[u] : e \in ledger[u] \/ e.stamp = txn[t].stamp
    BY <1>5, <1>6
  <2>2. txn[t].stamp <= clock
    BY <1>1 DEF IInv, StampsDiffer
  <2>3. ASSUME NEW u \in User, NEW e \in ledger'[u]
        PROVE  e.stamp <= clock'
    BY <1>4, <2>1, <2>2 DEF IInv, StampsDiffer
  <2>4. ASSUME NEW s \in Tx, Active(s)'
        PROVE  /\ txn'[s].stamp <= clock'
               /\ txn'[s].stamp > 0 =>
                    \A u \in User : \A e \in ledger'[u] : e.stamp # txn'[s].stamp
    <3>1. Active(s) /\ txn'[s] = txn[s] /\ s # t
      BY <1>4, <2>4
    <3>2. txn[s].stamp <= clock
      BY <3>1 DEF IInv, StampsDiffer
    <3>3. ASSUME txn[s].stamp > 0, NEW u \in User, NEW e \in ledger'[u]
          PROVE  e.stamp # txn[s].stamp
      <4>1. CASE e \in ledger[u]
        BY <3>1, <3>3, <4>1 DEF IInv, StampsDiffer
      <4>2. CASE e.stamp = txn[t].stamp
        BY <1>1, <3>1, <3>3, <4>2 DEF IInv, StampsDiffer
      <4>3. QED
        BY <2>1, <4>1, <4>2
    <3>4. QED
      BY <1>4, <3>1, <3>2, <3>3
  <2>5. \A s, q \in Tx : Active(s)' /\ Active(q)' /\ s # q /\ txn'[q].stamp > 0 =>
          txn'[s].stamp # txn'[q].stamp
    BY <1>4 DEF IInv, StampsDiffer
  <2>6. QED
    BY <2>3, <2>4, <2>5 DEF StampsDiffer
<1>13. LockedReadsAreFresh'
  <2>1. SUFFICES ASSUME NEW s \in Tx, NEW u \in User,
                        Active(s)', lock'[u] = s, u \in txn'[s].read
                 PROVE  UnderLock(txn'[s].seen[u]) = UnderLock(ledger'[u])
    BY DEF LockedReadsAreFresh, UnderLock
  <2>2. s # t /\ Active(s) /\ txn'[s] = txn[s]
    BY <1>4, <2>1
  <2>3. lock[u] = s
    BY <1>1, <2>1, <2>2, NoneAssumption DEF Finish, IInv, TypeOK
  <2>4. UnderLock(txn[s].seen[u]) = UnderLock(ledger[u])
    BY <2>1, <2>2, <2>3 DEF IInv, LockedReadsAreFresh
  <2>5. CASE u \notin Touched(r)
    BY <1>5, <2>2, <2>4, <2>5
  <2>6. CASE u \in Touched(r)
    <3>1. r.op \notin Locking
      BY <1>1, <2>2, <2>3, <2>6, ReadyHolds
    <3>2. r.extra = 0
      BY <1>6, <2>6, <3>1 DEF Locking
    <3>3. ledger'[u] = ledger[u] \cup {Main(t, u, rank)}
      BY <1>5, <1>6, <2>6, <3>2
    <3>4. Main(t, u, rank).kind = Kind(r, u)
      BY DEF Main
    <3>5. Main(t, u, rank).kind \notin {"TRANSFER_OUT", "TRANSFER_IN", "PURCHASE", "TOPUP"}
      BY <1>3, <3>1, <3>4, KindFacts
    <3>6. UnderLock(ledger'[u]) = UnderLock(ledger[u])
      BY <3>3, <3>5 DEF UnderLock
    <3>7. QED
      BY <2>2, <2>4, <3>6
  <2>7. QED
    BY <2>5, <2>6
<1>14. TransfersConserve'
  <2>1. SUFFICES ASSUME NEW u \in User, NEW e \in ledger'[u], e.kind = "TRANSFER_OUT"
                 PROVE  \E v \in User \ {u} : \E f \in ledger'[v] :
                          f.kind = "TRANSFER_IN" /\ f.ref = e.ref /\ f.amount = -e.amount
    BY DEF TransfersConserve
  <2>2. CASE e \in ledger[u]
    <3>1. PICK v \in User \ {u} : \E f \in ledger[v] :
                 f.kind = "TRANSFER_IN" /\ f.ref = e.ref /\ f.amount = -e.amount
      BY <2>1, <2>2 DEF IInv, TransfersConserve
    <3>2. QED
      BY <1>8, <3>1
  <2>3. CASE e \notin ledger[u]
    <3>1. u \in Touched(r) /\ e \in Entries(t, u, rank)
      BY <1>5, <2>1, <2>3
    <3>2. e = Main(t, u, rank)
      BY <1>6, <2>1, <3>1 DEF Extra
    <3>3. r.op = "transfer" /\ u = r.user
      BY <1>3, <2>1, <3>2, KindFacts DEF Main
    <3>4. r.to \in Touched(r) /\ r.to \in User /\ r.to # u
      BY <1>3, <3>3 DEF Touched
    <3>5. DEFINE f == Main(t, r.to, rank)
    <3>6. f \in ledger'[r.to]
      BY <1>5, <1>6, <3>4
    <3>7. Kind(r, r.to) = "TRANSFER_IN"
      BY <1>3, <3>3, <3>4, KindFacts
    <3>8. e.amount = -txn[t].take /\ f.amount = txn[t].take
      BY <3>2, <3>3, <3>4 DEF Main, Change, Signed, Taking
    <3>9. txn[t].take \in Nat
      BY <1>1, WorkShape DEF IInv
    <3>10. f.kind = "TRANSFER_IN" /\ f.ref = e.ref /\ f.amount = -e.amount
      BY <3>2, <3>7, <3>8, <3>9 DEF Main
    <3>11. QED
      BY <3>4, <3>6, <3>10
  <2>4. QED
    BY <2>2, <2>3
<1>15. PaidOnce'
  <2>1. SUFFICES ASSUME NEW u \in User, NEW e \in ledger'[u], NEW f \in ledger'[u],
                        e # f, e.kind = f.kind, e.ref # None
                 PROVE  e.ref # f.ref
    BY DEF PaidOnce
  <2>2. CASE e \in ledger[u] /\ f \in ledger[u]
    BY <2>1, <2>2 DEF IInv, PaidOnce
  <2>3. CASE e \notin ledger[u] /\ f \in ledger[u]
    <3>1. u \in Touched(r) /\ e \in Entries(t, u, rank)
      BY <1>5, <2>1, <2>3
    <3>2. QED
      BY <1>2, <2>1, <2>3, <3>1 DEF Unique
  <2>4. CASE e \in ledger[u] /\ f \notin ledger[u]
    <3>1. u \in Touched(r) /\ f \in Entries(t, u, rank)
      BY <1>5, <2>1, <2>4
    <3>2. QED
      BY <1>2, <2>1, <2>4, <3>1 DEF Unique
  <2>5. CASE e \notin ledger[u] /\ f \notin ledger[u]
    <3>1. u \in Touched(r) /\ e \in Entries(t, u, rank) /\ f \in Entries(t, u, rank)
      BY <1>5, <2>1, <2>5
    <3>2. r.op = "topup" /\ {e, f} = {Main(t, u, rank), Extra(t, u, 3 - rank)}
      BY <1>6, <2>1, <3>1
    <3>3. Kind(r, u) # "OVERPAYMENT"
      BY <1>3, <3>2, KindFacts
    <3>4. QED
      BY <2>1, <3>2, <3>3 DEF Main, Extra
  <2>6. QED
    BY <2>2, <2>3, <2>4, <2>5
<1>16. TransfersAreSerial'
  <2>1. SUFFICES ASSUME NEW s \in Tx, Active(s)', txn'[s].req.op = "transfer",
                        NEW v \in txn'[s].read, Carried(ledger'[v])
                 PROVE  /\ txn'[s].seen[v] = ledger'[v]
                        /\ txn'[s].stamp > 0 => \A e \in ledger'[v] : e.stamp < txn'[s].stamp
    BY DEF TransfersAreSerial, Carried
  <2>2. s # t /\ Active(s) /\ txn'[s] = txn[s]
    BY <1>4, <2>1
  <2>3. v \in User /\ v \in txn[s].read /\ txn[s].req.op = "transfer"
    BY <2>1, <2>2, WorkShape DEF IInv
  <2>4. lock[v] = s
    BY <2>2, <2>3, ReadyHolds DEF Locking
  <2>5. v \notin Touched(r) /\ Carried(ledger[v])
    BY <1>9, <2>1, <2>2, <2>3, <2>4
  <2>6. ledger'[v] = ledger[v]
    BY <1>5, <2>3, <2>5
  <2>7. QED
    BY <2>2, <2>3, <2>5, <2>6 DEF IInv, TransfersAreSerial
<1>17. TransferredWalletsAddUp'
  <2>1. SUFFICES ASSUME NEW u \in User, Carried(ledger'[u]), NEW e \in ledger'[u]
                 PROVE  e.after = Balance(Before(ledger'[u], e)) + e.amount
    BY DEF TransferredWalletsAddUp, Carried, AddsUp, Before, Earlier, Balance, Last
  <2>2. Carried(ledger[u])
    BY <1>9, <2>1
  <2>3. \A f \in ledger[u] : f.after = Balance(Before(ledger[u], f)) + f.amount
    BY <2>2 DEF IInv, TransferredWalletsAddUp, AddsUp
  <2>4. CASE u \notin Touched(r)
    BY <1>5, <2>1, <2>3, <2>4
  <2>5. CASE u \in Touched(r)
    <3> DEFINE n == Main(t, u, rank)
    <3>1. r.op = "transfer"
      BY <1>9, <2>1, <2>5
    <3>2. ledger'[u] = ledger[u] \cup {n}
      BY <1>5, <1>6, <2>5, <3>1
    <3>3. /\ txn[t].seen[u] = ledger[u]
          /\ \A f \in ledger[u] : f.stamp < txn[t].stamp
      BY <1>1, <2>2, <2>5, <3>1 DEF IInv, TransfersAreSerial
    <3>4. n.stamp = txn[t].stamp /\ n.after = After(t, u) /\ n.amount = Change(t, u)
      BY DEF Main
    <3>5. \A f \in ledger[u] : f.stamp \in Nat
      BY StampsAreNat DEF IInv
    <3>6. CASE e \in ledger[u]
      <4>1. ~ Earlier(n, e)
        BY <1>3, <3>3, <3>4, <3>5, <3>6 DEF Earlier
      <4>2. Before(ledger'[u], e) = Before(ledger[u], e)
        BY <3>2, <4>1 DEF Before
      <4>3. QED
        BY <2>3, <3>6, <4>2
    <3>7. CASE e = n
      <4>1. Before(ledger'[u], n) = ledger[u]
        <5>1. \A f \in ledger[u] : Earlier(f, n)
          BY <3>3, <3>4 DEF Earlier
        <5>2. ~ Earlier(n, n)
          BY <1>3, <3>4 DEF Earlier, Main
        <5>3. QED
          BY <3>2, <5>1, <5>2 DEF Before
      <4>2. After(t, u) = Balance(ledger[u]) + Change(t, u)
        BY <3>3 DEF After
      <4>3. QED
        BY <3>4, <3>7, <4>1, <4>2
    <3>8. QED
      BY <2>1, <3>2, <3>6, <3>7
  <2>6. QED
    BY <2>4, <2>5
<1>18. QED
  BY <1>4, <1>10, <1>11, <1>12, <1>13, <1>14, <1>15, <1>16, <1>17 DEF IInv

-----------------------------------------------------------------------------
(* The theorems *)

LEMMA NextKeeps ==
  ASSUME IInv, [Next]_vars
  PROVE  IInv'
<1>1. CASE Next
  <2>1. CASE \E t \in Tx, r \in Request : Start(t, r)
    BY <2>1, StartKeeps
  <2>2. CASE \E t \in Tx, u \in User : Acquire(t, u) \/ Read(t, u)
    BY <2>2, AcquireKeeps, ReadKeeps
  <2>3. CASE \E t \in Tx : Cap(t) \/ Stamp(t)
    BY <2>3, CapKeeps, StampKeeps
  <2>4. CASE \E t \in Tx : Commit(t) \/ Abort(t)
    BY <2>4, CommitKeeps, AbortKeeps
  <2>5. QED
    BY <1>1, <2>1, <2>2, <2>3, <2>4 DEF Next, Advance
<1>2. CASE UNCHANGED vars
  <2>1. ledger' = ledger /\ lock' = lock /\ clock' = clock /\ tries' = tries /\ txn' = txn
    BY <1>2 DEF vars
  <2>2. (\A t \in Tx : Active(t)' <=> Active(t)) /\ (\A t \in Tx : Missing(t)' = Missing(t))
    BY <2>1 DEF Active, Missing
  <2>3. TypeOK' /\ LastExists' /\ StampsDiffer'
    BY <2>1, <2>2 DEF IInv, TypeOK, LastExists, HasLast, StampsDiffer
  <2>4. LocksHeld' /\ WaitsUpward'
    BY <2>1, <2>2 DEF IInv, LocksHeld, WaitsUpward
  <2>5. LockedReadsAreFresh' /\ TransfersAreSerial'
    BY <2>1, <2>2 DEF IInv, LockedReadsAreFresh, TransfersAreSerial
  <2>6. QED
    BY <2>1, <2>3, <2>4, <2>5, LedgersKept DEF IInv
<1>3. QED
  BY <1>1, <1>2

\* The inductive invariant holds in every state.
THEOREM Invariance == Spec => []IInv
<1>1. Init => IInv
  BY InitIInv
<1>2. IInv /\ [Next]_vars => IInv'
  BY NextKeeps
<1>3. QED
  BY <1>1, <1>2, PTL DEF Spec

\* Ledgers, locks and requests keep their declared shapes; in particular no
\* balance_after is ever negative (_append, InsufficientFunds).
THEOREM TypeCorrect == Spec => []TypeOK
<1>1. IInv => TypeOK
  BY DEF IInv
<1>2. QED
  BY <1>1, Invariance, PTL

\* The lock keeps two requests that take it from working on one balance (lock).
THEOREM LocksExclude == Spec => []LockedReadsAreFresh
<1>1. IInv => LockedReadsAreFresh
  BY DEF IInv
<1>2. QED
  BY <1>1, Invariance, PTL

\* A request waits only for wallets above those it holds (transfer).
THEOREM WaitingGoesUp == Spec => []WaitsUpward
<1>1. IInv => WaitsUpward
  BY DEF IInv
<1>2. QED
  BY <1>1, Invariance, PTL

\* So no two requests wait for each other: two customers who send to each
\* other at once "wait for one another instead of deadlocking" (transfer).
WaitsFor(s, t) == Active(s) /\ \E u \in Missing(s) : IsNext(s, u) /\ lock[u] = t
NoEmbrace == \A s, t \in Tx : ~ (s # t /\ WaitsFor(s, t) /\ WaitsFor(t, s))

THEOREM NoTwoWaitForEachOther == Spec => []NoEmbrace
<1>1. IInv => NoEmbrace
  <2>1. SUFFICES ASSUME IInv, NEW s \in Tx, NEW t \in Tx, WaitsFor(s, t), WaitsFor(t, s)
                 PROVE  FALSE
    BY DEF NoEmbrace
  <2>2. PICK u \in Missing(s) : lock[u] = t
    BY <2>1 DEF WaitsFor
  <2>3. PICK v \in Missing(t) : lock[v] = s
    BY <2>1 DEF WaitsFor
  <2>4. Active(s) /\ Active(t)
    BY <2>1 DEF WaitsFor
  <2>5. u \in User /\ v \in User
    BY <2>1, <2>4, WorkShape DEF IInv, Missing
  <2>6. u < v /\ v < u
    BY <2>1, <2>2, <2>3, <2>4, <2>5 DEF IInv, WaitsUpward
  <2>7. QED
    BY <2>5, <2>6
<1>2. QED
  BY <1>1, Invariance, PTL

\* What a transfer takes from one wallet is in another, always (transfer).
THEOREM TransfersMakeNoMoney == Spec => []TransfersConserve
<1>1. IInv => TransfersConserve
  BY DEF IInv
<1>2. QED
  BY <1>1, Invariance, PTL

\* A reward, a top-up or a surplus is credited once for its reference.
THEOREM ReasonsPayOnce == Spec => []PaidOnce
<1>1. IInv => PaidOnce
  BY DEF IInv
<1>2. QED
  BY <1>1, Invariance, PTL

\* A wallet moved by transfers alone adds up entry by entry, although they run
\* at the same time as everything else (transfer).
THEOREM TransfersAddUp == Spec => []TransferredWalletsAddUp
<1>1. IInv => TransferredWalletsAddUp
  BY DEF IInv
<1>2. QED
  BY <1>1, Invariance, PTL

-----------------------------------------------------------------------------
(* Requests that take turns on a wallet *)

\* No two open requests touch the same wallet of S; on the other wallets, and on
\* different wallets of S, they may overlap in any way.
ApartOn(S) ==
  \A s, t \in Tx : s # t /\ Active(s) /\ Active(t) =>
    Touched(txn[s].req) \cap Touched(txn[t].req) \cap S = {}

Apart == ApartOn(User)

\* No top-up of a wallet of S is paid by more than it asked for.
NoneOverpaidOn(S) == \A r \in Request : Touched(r) \cap S # {} => r.extra = 0

NoneOverpaid == NoneOverpaidOn(User)

Finite == \A u \in User : IsFiniteSet(ledger[u])

\* A request in its turn on the wallets of S works on their ledgers as they are,
\* and after them.
Serial(t, S) ==
  /\ txn[t].read # {} => txn[t].take > 0
  /\ \A u \in Touched(txn[t].req) \cap S :
       /\ u \in txn[t].read => txn[t].seen[u] = ledger[u]
       /\ txn[t].stamp > 0 => \A e \in ledger[u] : e.stamp < txn[t].stamp

BalancedOn(S) == \A u \in S : Balance(ledger[u]) = Replay(ledger[u])

TurnInv(S) ==
  /\ Finite
  /\ BalancedOn(S)
  /\ \A t \in Tx : Active(t) => Serial(t, S)

\* An entry stamped after all the others is the last.
LEMMA BalanceAfterLast ==
  ASSUME NEW old \in SUBSET Entry, NEW e \in Entry,
         \A f \in old : f.stamp < e.stamp
  PROVE  Balance(old \cup {e}) = e.after
<1>1. \A f \in (old \cup {e}) \ {e} : Earlier(f, e)
  BY DEF Earlier
<1>2. \A g \in old : ~ Earlier(e, g)
  BY DEF Earlier, Entry
<1>3. \A g \in old : ~ \A f \in (old \cup {e}) \ {g} : Earlier(f, g)
  <2> SUFFICES ASSUME NEW g \in old, \A f \in (old \cup {e}) \ {g} : Earlier(f, g)
               PROVE  FALSE
    OBVIOUS
  <2>1. e # g
    BY DEF Entry
  <2>2. QED
    BY <1>2, <2>1
<1>4. Last(old \cup {e}) = e
  BY <1>1, <1>3 DEF Last
<1>5. QED
  BY <1>4 DEF Balance

\* What the commit of one entry for each wallet does.
LEMMA CommitEffect ==
  ASSUME IInv, NEW t \in Tx, Commit(t), txn[t].req.extra = 0
  PROVE  /\ Active(t) /\ Finish(t)
         /\ txn[t].read = Touched(txn[t].req) /\ txn[t].stamp > 0
         /\ Affordable(t)
         /\ txn[t].req \in Request /\ Touched(txn[t].req) \subseteq User
         /\ \A u \in Touched(txn[t].req) :
              /\ Main(t, u, 1) \in Entry
              /\ ledger'[u] = ledger[u] \cup {Main(t, u, 1)}
         /\ \A u \in User \ Touched(txn[t].req) : ledger'[u] = ledger[u]
<1> DEFINE r == txn[t].req
<1>1. /\ Active(t) /\ Finish(t) /\ Ready(t)
      /\ txn[t].read = Touched(r) /\ txn[t].stamp > 0 /\ Affordable(t)
  BY DEF Commit, Ready
<1>2. r \in Request /\ Touched(r) \subseteq User
  BY <1>1, WorkShape DEF IInv
<1>3. ledger' = [u \in User |-> IF u \in Touched(r) THEN ledger[u] \cup Entries(t, u, 1)
                                ELSE ledger[u]]
  BY DEF Commit, Saved
<1>4. \A u \in Touched(r) : /\ Entries(t, u, 1) = {Main(t, u, 1)}
                            /\ Entries(t, u, 1) \subseteq Entry
  BY <1>1, NewEntries
<1>5. QED
  BY <1>1, <1>2, <1>3, <1>4

\* The new entry of a wallet, written on the ledger as it was.
LEMMA InsertionBalances ==
  ASSUME IInv, NEW t \in Tx, NEW u \in User, Finite, Balance(ledger[u]) = Replay(ledger[u]),
         Main(t, u, 1) \in Entry, ledger'[u] = ledger[u] \cup {Main(t, u, 1)},
         txn[t].seen[u] = ledger[u], \A e \in ledger[u] : e.stamp < txn[t].stamp
  PROVE  /\ IsFiniteSet(ledger'[u])
         /\ Replay(ledger'[u]) = Replay(ledger[u]) + Change(t, u)
         /\ After(t, u) = Replay(ledger'[u])
         /\ Balance(ledger'[u]) = Replay(ledger'[u])
<1> DEFINE old == ledger[u]
           e == Main(t, u, 1)
<1>1. old \in SUBSET Entry /\ IsFiniteSet(old)
  BY DEF IInv, TypeOK, Finite
<1>2. e.stamp = txn[t].stamp /\ e.amount = Change(t, u) /\ e.after = After(t, u)
  BY DEF Main
<1>3. e \notin old
  BY <1>1, <1>2 DEF Entry
<1>4. IsFiniteSet(old \cup {e})
  BY <1>1, FS_AddElement
<1>5. Replay(old \cup {e}) = Replay(old) + e.amount
  BY <1>1, <1>3, ReplayInsert
<1>6. Balance(old \cup {e}) = e.after
  BY <1>1, <1>2, BalanceAfterLast
<1>7. After(t, u) = Replay(old) + Change(t, u)
  BY DEF After
<1>8. QED
  BY <1>2, <1>4, <1>5, <1>6, <1>7

LEMMA TurnInit ==
  ASSUME Init, NEW S \in SUBSET User
  PROVE  TurnInv(S) /\ \A u \in User : Replay(ledger[u]) = Opening[u]
<1>1. \A t \in Tx : ~ Active(t)
  BY DEF Init, Active, Idle
<1>2. ASSUME NEW u \in User
      PROVE  /\ IsFiniteSet(ledger[u])
             /\ Balance(ledger[u]) = Opening[u] /\ Replay(ledger[u]) = Opening[u]
  <2>1. IsFiniteSet({}) /\ Balance({}) = 0 /\ Replay({}) = 0
    BY FS_EmptySet, ReplayStep DEF Balance
  <2>2. CASE Opening[u] = 0
    BY <2>1, <2>2 DEF Init
  <2>3. CASE Opening[u] # 0
    <3> DEFINE e == FirstEntry(u)
    <3>1. e \in Entry /\ e.amount = Opening[u] /\ e.after = Opening[u]
      BY OpeningAssumption DEF FirstEntry, Entry, TransactionKind
    <3>2. ledger[u] = {} \cup {e}
      BY <2>3 DEF Init
    <3> HIDE DEF e
    <3>3. Replay({} \cup {e}) = Replay({}) + e.amount
      BY <2>1, <3>1, ReplayInsert
    <3>4. Balance({} \cup {e}) = e.after
      BY <3>1, BalanceAfterLast
    <3>5. Opening[u] \in Nat /\ IsFiniteSet({} \cup {e})
      BY <2>1, OpeningAssumption, FS_AddElement
    <3>6. QED
      BY <2>1, <3>1, <3>2, <3>3, <3>4, <3>5
  <2>4. QED
    BY <2>2, <2>3
<1>3. QED
  BY <1>1, <1>2 DEF TurnInv, Finite, BalancedOn

\* Ledgers stay finite, whatever runs: a commit writes one entry or two.
LEMMA FiniteStep ==
  ASSUME IInv, Finite, [Next]_vars
  PROVE  Finite'
<1>1. CASE ledger' = ledger
  BY <1>1 DEF Finite
<1>2. ASSUME NEW t \in Tx, Commit(t)
      PROVE  Finite'
  <2>1. PICK rank \in {1, 2} :
          ledger' = [u \in User |-> IF u \in Saved(t) THEN ledger[u] \cup Entries(t, u, rank)
                                    ELSE ledger[u]]
    BY <1>2 DEF Commit
  <2>2. SUFFICES ASSUME NEW u \in User
                 PROVE  IsFiniteSet(ledger[u] \cup Entries(t, u, rank))
    BY <2>1 DEF Finite
  <2>3. IsFiniteSet(ledger[u] \cup {Main(t, u, rank)})
    BY FS_AddElement DEF Finite
  <2>4. IsFiniteSet((ledger[u] \cup {Main(t, u, rank)}) \cup {Extra(t, u, 3 - rank)})
    BY <2>3, FS_AddElement
  <2>5. \/ ledger[u] \cup Entries(t, u, rank) = ledger[u] \cup {Main(t, u, rank)}
        \/ ledger[u] \cup Entries(t, u, rank) =
             (ledger[u] \cup {Main(t, u, rank)}) \cup {Extra(t, u, 3 - rank)}
    BY DEF Entries
  <2>6. QED
    BY <2>3, <2>4, <2>5
<1>3. QED
  BY <1>1, <1>2 DEF Next, Advance, Start, Acquire, Read, Cap, Stamp, Abort, vars

\* A request that has only begun to work, or goes on working, stays serial.
LEMMA WorkTurn ==
  ASSUME IInv, NEW S \in SUBSET User, TurnInv(S), NEW t \in Tx,
         \/ \E r \in Request : Start(t, r)
         \/ \E u \in User : Acquire(t, u) \/ Read(t, u)
         \/ Cap(t) \/ Stamp(t)
  PROVE  TurnInv(S)'
<1>1. ledger' = ledger
  BY DEF Start, Acquire, Read, Cap, Stamp
<1>2. clock \in Nat
  BY DEF IInv, TypeOK
<1>3. \A u \in User : \A e \in ledger'[u] : e.stamp < clock + 1
  <2> SUFFICES ASSUME NEW u \in User, NEW e \in ledger[u] PROVE e.stamp < clock + 1
    BY <1>1
  <2>1. e.stamp <= clock /\ e.stamp \in Nat
    BY StampsAreNat DEF IInv, StampsDiffer
  <2>2. QED
    BY <1>2, <2>1
<1>4. Active(t)' => Serial(t, S)'
  <2>1. CASE \E r \in Request : Start(t, r)
    <3>1. PICK r \in Request : Start(t, r)
      BY <2>1
    <3>2. /\ txn'[t].req = r /\ txn'[t].read = {}
          /\ txn'[t].stamp \in {0, clock + 1}
      BY <3>1 DEF Start, IInv, TypeOK
    <3>3. Touched(r) \subseteq User
      BY DEF Touched
    <3>4. \A u \in Touched(r) : txn'[t].stamp > 0 => \A e \in ledger'[u] : e.stamp < txn'[t].stamp
      <4>1. txn'[t].stamp > 0 => txn'[t].stamp = clock + 1
        BY <3>2
      <4>2. QED
        BY <1>3, <3>3, <4>1
    <3>5. QED
      BY <3>2, <3>4 DEF Serial
  <2>2. CASE \E u \in User : Acquire(t, u)
    BY <1>1, <2>2 DEF Acquire, TurnInv, Serial, Active
  <2>3. CASE \E u \in User : Read(t, u)
    <3>1. PICK u \in User : Read(t, u)
      BY <2>3
    <3>2. Active(t) /\ txn[t].take > 0 /\ txn[t] \in Working /\ ledger[u] \in SUBSET Entry
      BY <3>1, WorkShape DEF Read, IInv, TypeOK
    <3>3. txn'[t] = Loaded(txn[t], u, ledger[u])
      BY <3>1 DEF Read, IInv, TypeOK
    <3>4. /\ txn'[t].req = txn[t].req /\ txn'[t].stamp = txn[t].stamp
          /\ txn'[t].read = txn[t].read \cup {u}
          /\ txn'[t].seen = [txn[t].seen EXCEPT ![u] = ledger[u]]
      <4>1. u \in User
        BY <3>1, <3>2, WorkShape DEF Read, IInv
      <4>2. QED
        BY <3>2, <3>3, <4>1, LoadedShape
    <3>5. txn'[t].take = txn[t].take
      BY <3>2, <3>3 DEF Loaded, Working
    <3>6. Serial(t, S) /\ txn[t].seen \in [User -> SUBSET Entry] /\ Touched(txn[t].req) \subseteq User
      BY <3>2, WorkShape DEF TurnInv, IInv
    <3>7. QED
      BY <1>1, <3>2, <3>4, <3>5, <3>6 DEF Serial
  <2>4. CASE Cap(t)
    <3>1. Active(t) /\ txn[t] \in Working
      BY <2>4, WorkShape DEF Cap, IInv
    <3>2. Serial(t, S) /\ txn[t].take = 0
      BY <2>4, <3>1 DEF Cap, TurnInv
    <3>3. /\ txn'[t].req = txn[t].req /\ txn'[t].stamp = txn[t].stamp
          /\ txn'[t].read = txn[t].read /\ txn'[t].seen = txn[t].seen
      BY <2>4, <3>1 DEF Cap, Capped, Working, IInv, TypeOK
    <3>4. txn[t].read = {}
      BY <3>2 DEF Serial
    <3>5. QED
      BY <1>1, <3>2, <3>3, <3>4 DEF Serial
  <2>5. CASE Stamp(t)
    <3>1. Active(t) /\ txn[t] \in Working /\ Touched(txn[t].req) \subseteq User
      BY <2>5, WorkShape DEF Stamp, IInv
    <3>2. Serial(t, S)
      BY <3>1 DEF TurnInv
    <3>3. /\ txn'[t].req = txn[t].req /\ txn'[t].take = txn[t].take
          /\ txn'[t].read = txn[t].read /\ txn'[t].seen = txn[t].seen
          /\ txn'[t].stamp = clock + 1
      BY <2>5, <3>1 DEF Stamp, Stamped, Working, IInv, TypeOK
    <3>4. \A u \in Touched(txn[t].req) : \A e \in ledger'[u] : e.stamp < txn'[t].stamp
      BY <1>3, <3>1, <3>3
    <3>5. QED
      BY <1>1, <3>2, <3>3, <3>4 DEF Serial
  <2>6. QED
    BY <2>1, <2>2, <2>3, <2>4, <2>5
<1>5. \A s \in Tx \ {t} : txn'[s] = txn[s]
  BY DEF Start, Acquire, Read, Cap, Stamp, IInv, TypeOK
<1>6. ASSUME NEW s \in Tx \ {t}, Active(s)'
      PROVE  Serial(s, S)'
  <2>1. Active(s) /\ Serial(s, S)
    BY <1>5, <1>6 DEF Active, TurnInv
  <2>2. QED
    BY <1>1, <1>5, <1>6, <2>1 DEF Serial
<1>7. Finite' /\ BalancedOn(S)'
  BY <1>1 DEF TurnInv, Finite, BalancedOn
<1>8. QED
  BY <1>4, <1>6, <1>7 DEF TurnInv

LEMMA CommitTurn ==
  ASSUME IInv, NEW S \in SUBSET User, TurnInv(S), ApartOn(S), NoneOverpaidOn(S),
         NEW t \in Tx, Commit(t)
  PROVE  /\ TurnInv(S)'
         /\ \A u \in Touched(txn[t].req) \cap S :
              /\ Replay(ledger'[u]) = Replay(ledger[u]) + Change(t, u)
              /\ After(t, u) = Replay(ledger'[u])
<1> DEFINE r == txn[t].req
           ours == Touched(r) \cap S
<1>1. /\ Active(t) /\ Finish(t) /\ r \in Request
      /\ txn[t].read = Touched(r) /\ txn[t].stamp > 0
  BY WorkShape DEF Commit, Ready, IInv
<1>2. \A u \in User \ Touched(r) : ledger'[u] = ledger[u]
  BY DEF Commit, Saved
<1>3. \A u \in ours :
        /\ Main(t, u, 1) \in Entry
        /\ ledger'[u] = ledger[u] \cup {Main(t, u, 1)}
  <2> SUFFICES ASSUME NEW u \in ours
               PROVE  /\ Main(t, u, 1) \in Entry
                      /\ ledger'[u] = ledger[u] \cup {Main(t, u, 1)}
    OBVIOUS
  <2>1. r.extra = 0
    BY <1>1 DEF NoneOverpaidOn
  <2>2. QED
    BY <2>1, CommitEffect
<1>4. \A u \in ours : txn[t].seen[u] = ledger[u] /\ \A e \in ledger[u] : e.stamp < txn[t].stamp
  BY <1>1 DEF TurnInv, Serial
<1>5. \A u \in ours :
        /\ Replay(ledger'[u]) = Replay(ledger[u]) + Change(t, u)
        /\ After(t, u) = Replay(ledger'[u])
        /\ Balance(ledger'[u]) = Replay(ledger'[u])
  <2> SUFFICES ASSUME NEW u \in ours
               PROVE  /\ Replay(ledger'[u]) = Replay(ledger[u]) + Change(t, u)
                      /\ After(t, u) = Replay(ledger'[u])
                      /\ Balance(ledger'[u]) = Replay(ledger'[u])
    OBVIOUS
  <2>1. u \in User /\ Finite /\ Balance(ledger[u]) = Replay(ledger[u])
    BY DEF TurnInv, BalancedOn
  <2>2. QED
    BY <1>3, <1>4, <2>1, InsertionBalances
<1>6. BalancedOn(S)'
  <2> SUFFICES ASSUME NEW u \in S
               PROVE  Balance(ledger'[u]) = Replay(ledger'[u])
    BY DEF BalancedOn
  <2>1. CASE u \in Touched(r)
    BY <1>5, <2>1
  <2>2. CASE u \notin Touched(r)
    BY <1>2, <2>2 DEF TurnInv, BalancedOn
  <2>3. QED
    BY <2>1, <2>2
<1>7. Finite'
  BY FiniteStep DEF TurnInv, Next, Advance
<1>8. ASSUME NEW s \in Tx, Active(s)'
      PROVE  Serial(s, S)'
  <2>1. s # t /\ Active(s) /\ txn'[s] = txn[s]
    BY <1>1, <1>8, FinishEffect
  <2>2. Serial(s, S)
    BY <2>1 DEF TurnInv
  <2>3. Touched(txn[s].req) \cap Touched(r) \cap S = {}
    BY <1>1, <2>1 DEF ApartOn
  <2>4. \A u \in Touched(txn[s].req) \cap S : ledger'[u] = ledger[u]
    BY <1>2, <2>3
  <2>5. QED
    BY <2>1, <2>2, <2>4 DEF Serial
<1>9. QED
  BY <1>5, <1>6, <1>7, <1>8 DEF TurnInv

LEMMA TurnStep ==
  ASSUME IInv, NEW S \in SUBSET User, TurnInv(S), ApartOn(S), NoneOverpaidOn(S),
         [Next]_vars
  PROVE  TurnInv(S)'
<1>1. CASE \E t \in Tx : \/ \E r \in Request : Start(t, r)
                         \/ \E u \in User : Acquire(t, u) \/ Read(t, u)
                         \/ Cap(t) \/ Stamp(t)
  BY <1>1, WorkTurn
<1>2. CASE \E t \in Tx : Commit(t)
  BY <1>2, CommitTurn
<1>3. CASE (\E t \in Tx : Abort(t)) \/ UNCHANGED vars
  <2>1. ledger' = ledger
    BY <1>3 DEF Abort, vars
  <2>2. \A s \in Tx : Active(s)' => Active(s) /\ txn'[s] = txn[s]
    <3>1. CASE \E t \in Tx : Abort(t)
      BY <3>1, FinishEffect DEF Abort
    <3>2. CASE UNCHANGED vars
      BY <3>2 DEF vars, Active
    <3>3. QED
      BY <1>3, <3>1, <3>2
  <2>3. \A s \in Tx : Active(s)' => Serial(s, S)'
    BY <2>1, <2>2 DEF TurnInv, Serial
  <2>4. Finite' /\ BalancedOn(S)'
    BY <2>1 DEF TurnInv, Finite, BalancedOn
  <2>5. QED
    BY <2>3, <2>4 DEF TurnInv
<1>4. QED
  BY <1>1, <1>2, <1>3 DEF Next, Advance

-----------------------------------------------------------------------------
(* Ledgers as accounts *)

LEMMA CommitIsAccount ==
  ASSUME IInv, TurnInv(User), Apart, NoneOverpaid, NEW t \in Tx, Commit(t)
  PROVE  Account!Next
<1> DEFINE r == txn[t].req
           balance == [u \in User |-> Replay(ledger[u])]
           take == txn[t].take
<1>1. Active(t) /\ r \in Request /\ r.extra = 0 /\ take \in Nat
  BY WorkShape DEF Commit, Ready, IInv, NoneOverpaid, NoneOverpaidOn, Touched
<1>2. /\ txn[t].read = Touched(r) /\ Affordable(t)
      /\ \A u \in User \ Touched(r) : ledger'[u] = ledger[u]
  BY <1>1, CommitEffect
<1>3. \A u \in Touched(r) : /\ Replay(ledger'[u]) = Replay(ledger[u]) + Change(t, u)
                            /\ After(t, u) = Replay(ledger'[u])
  BY <1>1, CommitTurn DEF Apart, NoneOverpaid, Touched
<1>4. take > 0
  BY <1>1, <1>2 DEF TurnInv, Serial, Touched
<1>5. \A u \in User : Replay(ledger[u]) \in Int
  BY ReplayIsInt DEF IInv, TypeOK, TurnInv, Finite
<1>6. r.user \in User /\ r.to \in User /\ Touched(r) = {r.user, r.to}
      /\ (r.op = "transfer" <=> r.user # r.to)
  BY <1>1 DEF Touched
<1>7. \A u \in User \ Touched(r) : Replay(ledger'[u]) = Replay(ledger[u])
  BY <1>2
<1>8. CASE r.op \in Taking
  <2>1. Change(t, r.user) = - take
    BY <1>8 DEF Change, Signed
  <2>2. Replay(ledger'[r.user]) = Replay(ledger[r.user]) - take
    BY <1>1, <1>3, <1>5, <1>6, <2>1
  <2>3. Replay(ledger[r.user]) - take >= 0
    BY <1>2, <1>3, <1>6, <2>2 DEF Affordable
  <2>4. take \in 1 .. balance[r.user]
    <3>1. balance[r.user] = Replay(ledger[r.user]) /\ Replay(ledger[r.user]) \in Int
      BY <1>5, <1>6
    <3> HIDE DEF balance
    <3>2. QED
      BY <1>1, <1>4, <2>3, <3>1
  <2>5. CASE r.op = "transfer"
    <3>1. r.to # r.user /\ Change(t, r.to) = take
      BY <1>6, <2>5 DEF Change, Signed
    <3>2. Replay(ledger'[r.to]) = Replay(ledger[r.to]) + take
      BY <1>3, <1>6, <3>1
    <3>3. balance' = [balance EXCEPT ![r.user] = @ - take, ![r.to] = @ + take]
      BY <1>6, <1>7, <2>2, <3>1, <3>2
    <3>4. Account!Move(r.user, r.to)
      BY <2>4, <3>3 DEF Account!Move
    <3>5. QED
      BY <1>6, <3>1, <3>4 DEF Account!Next
  <2>6. CASE r.op # "transfer"
    <3>1. Touched(r) = {r.user}
      BY <1>6, <2>6
    <3>2. balance' = [balance EXCEPT ![r.user] = @ - take]
      BY <1>6, <1>7, <2>2, <3>1
    <3>3. Account!Withdraw(r.user)
      BY <2>4, <3>2 DEF Account!Withdraw
    <3>4. QED
      BY <1>6, <3>3 DEF Account!Next
  <2>7. QED
    BY <2>5, <2>6
<1>9. CASE r.op \notin Taking
  <2>1. Touched(r) = {r.user} /\ Change(t, r.user) = take
    BY <1>6, <1>9 DEF Change, Signed, Taking
  <2>2. Replay(ledger'[r.user]) = Replay(ledger[r.user]) + take
    BY <1>3, <1>6, <2>1
  <2>3. balance' = [balance EXCEPT ![r.user] = Replay(ledger'[r.user])]
    BY <1>6, <1>7, <2>1
  <2>4. balance'[r.user] = Replay(ledger'[r.user]) /\ balance'[r.user] > balance[r.user]
    <3>1. balance[r.user] = Replay(ledger[r.user]) /\ Replay(ledger[r.user]) \in Int
      BY <1>5, <1>6
    <3>2. balance'[r.user] = Replay(ledger'[r.user])
      BY <1>6
    <3> HIDE DEF balance
    <3>3. QED
      BY <1>1, <1>4, <2>2, <3>1, <3>2
  <2>5. Account!Deposit(r.user)
    BY <2>3, <2>4 DEF Account!Deposit
  <2>6. QED
    BY <1>6, <2>5 DEF Account!Next
<1>10. QED
  BY <1>8, <1>9

LEMMA StepIsAccount ==
  ASSUME IInv, TurnInv(User), Apart, NoneOverpaid, [Next]_vars
  PROVE  Account!Next \/ UNCHANGED [u \in User |-> Replay(ledger[u])]
<1>1. CASE ledger' = ledger
  BY <1>1
<1>2. CASE \E t \in Tx : Commit(t)
  BY <1>2, CommitIsAccount
<1>3. QED
  BY <1>1, <1>2 DEF Next, Advance, Start, Acquire, Read, Cap, Stamp, Abort, vars

LEMMA AccountInit ==
  ASSUME Init
  PROVE  Account!Init
<1>1. [u \in User |-> Replay(ledger[u])] = Opening
  BY TurnInit, OpeningAssumption
<1>2. QED
  BY <1>1 DEF Account!Init

-----------------------------------------------------------------------------
(* The theorems that need the sum of a ledger *)

\* As long as the requests on a set of wallets take turns there and none of
\* their top-ups is overpaid, each works on those ledgers as they are and writes
\* after their last entry, whatever runs on the other wallets meanwhile.
THEOREM TakingTurns ==
  ASSUME NEW S \in SUBSET User
  PROVE  NoneOverpaidOn(S) /\ Spec /\ []ApartOn(S) => []TurnInv(S)
<1>1. ASSUME NoneOverpaidOn(S)
      PROVE  Spec /\ []ApartOn(S) => []TurnInv(S)
  <2>1. Init => TurnInv(S)
    BY TurnInit
  <2>2. IInv /\ TurnInv(S) /\ ApartOn(S) /\ [Next]_vars => TurnInv(S)'
    BY <1>1, TurnStep
  <2>3. QED
    BY <2>1, <2>2, Invariance, PTL DEF Spec
<1>2. QED
  BY <1>1

\* Then verify_integrity never finds that the recorded balance of a wallet whose
\* requests take turns differs from the sum of its entries, however many there
\* are: a transfer to it may overlap anything on the wallet it comes from.
THEOREM WalletInTurn ==
  ASSUME NEW u \in User
  PROVE  NoneOverpaidOn({u}) /\ Spec /\ []ApartOn({u}) =>
           [](Balance(ledger[u]) = Replay(ledger[u]))
<1>1. ASSUME NoneOverpaidOn({u})
      PROVE  Spec /\ []ApartOn({u}) => [](Balance(ledger[u]) = Replay(ledger[u]))
  <2>1. {u} \in SUBSET User
    OBVIOUS
  <2>2. Init => TurnInv({u})
    BY <2>1, TurnInit
  <2>3. IInv /\ TurnInv({u}) /\ ApartOn({u}) /\ [Next]_vars => TurnInv({u})'
    BY <1>1, <2>1, TurnStep
  <2>4. TurnInv({u}) => Balance(ledger[u]) = Replay(ledger[u])
    BY DEF TurnInv, BalancedOn
  <2>5. QED
    BY <2>2, <2>3, <2>4, Invariance, PTL DEF Spec
<1>2. QED
  BY <1>1

\* So no wallet at all is found to differ when every wallet's requests take
\* turns.
THEOREM LedgersBalance == NoneOverpaid /\ Spec /\ []Apart => []IntegrityHolds
<1>1. ASSUME NoneOverpaid
      PROVE  Spec /\ []Apart => []IntegrityHolds
  <2>1. Init => TurnInv(User)
    BY TurnInit
  <2>2. IInv /\ TurnInv(User) /\ Apart /\ [Next]_vars => TurnInv(User)'
    BY <1>1, TurnStep DEF NoneOverpaid, Apart
  <2>3. TurnInv(User) => IntegrityHolds
    BY DEF TurnInv, BalancedOn, IntegrityHolds
  <2>4. QED
    BY <2>1, <2>2, <2>3, Invariance, PTL DEF Spec
<1>2. QED
  BY <1>1

\* And the wallets are accounts: every commit is one deposit, one withdrawal of
\* what is there, or one movement between two of them.
THEOREM AccountsImplemented == NoneOverpaid /\ Spec /\ []Apart => KeepsAccount
<1>1. ASSUME NoneOverpaid
      PROVE  Spec /\ []Apart => KeepsAccount
  <2>1. Init => TurnInv(User) /\ Account!Init
    BY TurnInit, AccountInit
  <2>2. IInv /\ TurnInv(User) /\ Apart /\ [Next]_vars => TurnInv(User)'
    BY <1>1, TurnStep DEF NoneOverpaid, Apart
  <2>3. IInv /\ TurnInv(User) /\ Apart /\ [Next]_vars =>
          [Account!Next]_([u \in User |-> Replay(ledger[u])])
    BY <1>1, StepIsAccount
  <2>4. QED
    BY <2>1, <2>2, <2>3, Invariance, PTL DEF Spec, KeepsAccount, Account!Spec
<1>2. QED
  BY <1>1

\* A wallet that only transfers have moved balances with no such condition:
\* whatever else runs, and whoever reads it at the same time.
TransferredWalletsBalance ==
  \A u \in User : Carried(ledger[u]) => Balance(ledger[u]) = Replay(ledger[u])

THEOREM TransfersBalance == Spec => []TransferredWalletsBalance
<1> DEFINE Inv == Finite /\ TransferredWalletsBalance
<1>1. Init => Inv
  BY TurnInit DEF TurnInv, BalancedOn, TransferredWalletsBalance
<1>2. IInv /\ IInv' /\ Inv /\ [Next]_vars => Inv'
  <2> SUFFICES ASSUME IInv, Inv, [Next]_vars PROVE Inv'
    OBVIOUS
  <2>1. Finite'
    BY FiniteStep
  <2>2. CASE ledger' = ledger
    BY <2>1, <2>2 DEF TransferredWalletsBalance, Carried
  <2>3. ASSUME NEW t \in Tx, Commit(t)
        PROVE  TransferredWalletsBalance'
    <3> DEFINE r == txn[t].req
    <3>1. SUFFICES ASSUME NEW u \in User, Carried(ledger'[u])
                   PROVE  Balance(ledger'[u]) = Replay(ledger'[u])
      BY DEF TransferredWalletsBalance, Carried
    <3>2. PICK rank \in {1, 2} :
            ledger' = [v \in User |-> IF v \in Touched(r) THEN ledger[v] \cup Entries(t, v, rank)
                                      ELSE ledger[v]]
      BY <2>3 DEF Commit, Saved
    <3>3. Carried(ledger[u])
      BY <3>1, <3>2 DEF Carried
    <3>4. Balance(ledger[u]) = Replay(ledger[u])
      BY <3>3 DEF TransferredWalletsBalance
    <3>5. CASE u \notin Touched(r)
      BY <3>2, <3>4, <3>5
    <3>6. CASE u \in Touched(r)
      <4>1. /\ Ready(t) /\ Affordable(t) /\ Active(t) /\ txn[t].stamp > 0
            /\ txn[t].read = Touched(r)
        BY <2>3 DEF Commit, Ready
      <4>2. r \in Request /\ Main(t, u, rank) \in Entries(t, u, rank)
        BY <3>6, <4>1, WorkShape, NewEntries DEF IInv
      <4>3. Main(t, u, rank) \in ledger'[u]
        BY <3>2, <3>6, <4>2
      <4>4. Kind(r, u) \in {"TRANSFER_OUT", "TRANSFER_IN"}
        BY <3>1, <4>1, <4>3 DEF Carried, Main
      <4>5. r.op = "transfer" /\ r.extra = 0
        <5>1. r.op = "transfer"
          BY <4>2, <4>4, KindFacts
        <5>2. r.extra \in Nat /\ (r.extra > 0 => r.op = "topup")
          BY <4>2
        <5>3. QED
          BY <5>1, <5>2
      <4>6. Main(t, u, 1) \in Entry /\ ledger'[u] = ledger[u] \cup {Main(t, u, 1)}
        BY <2>3, <3>6, <4>5, CommitEffect
      <4>7. txn[t].seen[u] = ledger[u] /\ \A e \in ledger[u] : e.stamp < txn[t].stamp
        BY <3>3, <3>6, <4>1, <4>5 DEF IInv, TransfersAreSerial
      <4>8. QED
        BY <3>4, <4>6, <4>7, InsertionBalances
    <3>7. QED
      BY <3>5, <3>6
  <2>4. QED
    BY <2>1, <2>2, <2>3 DEF Next, Advance, Start, Acquire, Read, Cap, Stamp, Abort, vars
<1>3. Inv => TransferredWalletsBalance
  OBVIOUS
<1>4. QED
  BY <1>1, <1>2, <1>3, Invariance, PTL DEF Spec

=============================================================================
