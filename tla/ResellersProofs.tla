--------------------------- MODULE ResellersProofs ---------------------------
(***************************************************************************)
(* The ledger and the accounts hold whatever overlaps; the balance holds   *)
(* as long as no save wrote it from a copy that was out of date, because   *)
(* the transaction that writes the row keeps it until its ledger row is    *)
(* visible too.                                                            *)
(***************************************************************************)
EXTENDS Resellers, FiniteSetTheorems, TLAPS

\* What the ledger rows of a session in progress sum to.
Owed(x) ==
  IF x.op \in Selling THEN IF x.pc \in {"deliver", "close"} THEN -Cost ELSE 0
  ELSE IF x.op = "refund" THEN IF x.pc = "close" THEN 0 ELSE -Cost
  ELSE IF x.pc = "close" THEN Moves(x.op) ELSE 0

Whole(x) ==
  \/ x = Idle
  \/ /\ x.pc # "idle" /\ x.op \in Kind \cup {"refund"}
     /\ x.entries = Owed(x)
     /\ x.of \in Topup <=> x.op \in Deciding
     /\ x.pc \in {"load", "save", "write"} => x.op \notin {"trial", "reject"}
     /\ x.pc = "deliver" => x.op \in Selling \cup {"trial"}
     /\ x.pc \in {"save", "write"} => x.copy \in Row /\ (x.op \in Selling => Cost <= x.copy.balance)
     /\ x.pc = "write" => x.want = Changed(x.op, x.copy)
     /\ x.op # "refund" => (x.made = 1 <=> x.pc = "close" /\ x.op \in Selling)
     /\ x.made = 1 => x.kept

\* Sales that were paid for: the delivered ones, but for those given away.
Charged == sold - GivenAway
PaidFor == ~stale => Cost * Charged <= funded

Lock == \A t, u \in Slot : txn[t].flushed # None /\ txn[u].flushed # None => t = u

Making == {t \in Slot : txn[t].made = 1}
Testing == {t \in Slot : txn[t].pc # "idle" /\ txn[t].op = "trial"}

TrialsCounted == trials + Cardinality(Testing) <= TrialLimit + Cardinality(Slot) - 1

Deciders ==
  \A p \in Topup \ contested, t \in Slot :
    txn[t].of = p => topup[p] = "PENDING" /\ \A u \in Slot : txn[u].of = p => u = t

\* What a session sees is the committed ledger and its own movements.
Sees(x) == IF x.flushed # None THEN x.flushed ELSE row
Level(x) ==
  /\ Sees(x).balance = ledger + x.entries
  /\ x.pc = "write" /\ Moves(x.op) # 0 => "balance" \in x.cols
  /\ x.op \in Selling /\ x.pc \in {"deliver", "close"} => Sees(x).balance >= 0

Balanced == ~stale => row.balance = ledger /\ \A t \in Slot : Level(txn[t])

IInv ==
  /\ TypeOK /\ \A t \in Slot : Whole(txn[t])
  /\ Lock /\ LedgerIsTrue /\ AccountsAreSold /\ TrialsCounted /\ Deciders /\ CreditedOnce
  /\ Balanced /\ PaidFor /\ given <= funded

-----------------------------------------------------------------------------
LEMMA Others ==
  ASSUME NEW S, IsFiniteSet(S), NEW A \in SUBSET S, NEW t
  PROVE  /\ Cardinality(A \ {t}) \in Nat
         /\ Cardinality(A) = Cardinality(A \ {t}) + (IF t \in A THEN 1 ELSE 0)
PROOF
  <1>1. IsFiniteSet(A)
    BY FS_Subset
  <1>2. IsFiniteSet(A \ {t}) /\ Cardinality(A \ {t}) \in Nat /\ Cardinality(A) \in Nat
    BY <1>1, FS_RemoveElement, FS_CardinalityType
  <1>3. CASE t \in A
    BY <1>1, <1>2, <1>3, FS_RemoveElement
  <1>4. CASE t \notin A
    <2>1. A \ {t} = A
      BY <1>4
    <2>2. Cardinality(A) = Cardinality(A \ {t})
      BY <2>1
    <2> QED BY <1>2, <1>4, <2>2
  <1> QED BY <1>3, <1>4

LEMMA IdleSession ==
  /\ Idle \in Session /\ Idle.pc = "idle" /\ Idle.flushed = None /\ Idle.entries = 0
  /\ Idle.made = 0 /\ Idle.of = None
BY DEF Idle, Session, Pc, Column

LEMMA RowOfFlushed ==
  ASSUME NEW x \in Session, row \in Row
  PROVE  Sees(x) \in Row
BY DEF Session, Sees

LEMMA InitIInv == Init => IInv
PROOF
  <1> SUFFICES ASSUME Init PROVE IInv OBVIOUS
  <1>1. TypeOK
    <2>1. row \in Row /\ topup \in [Topup -> Decision] /\ credits \in [Topup -> Nat]
      BY DEF Init, Row, Decision
    <2>2. txn \in [Slot -> Session]
      BY IdleSession DEF Init
    <2>3. {ledger, given} \subseteq Int /\ contested \subseteq Topup
      BY DEF Init
    <2>5. stale \in BOOLEAN
      BY DEF Init
    <2>4. /\ {sold, uncancelled, trials, accounts, trouble, funded, orphans} \subseteq Nat
          /\ left \in [{0, 1} -> Nat]
      BY DEF Init
    <2> QED BY <2>1, <2>2, <2>3, <2>4, <2>5 DEF TypeOK
  <1>2. \A t \in Slot : Whole(txn[t])
    BY DEF Init, Whole
  <1>3. Lock /\ Deciders /\ CreditedOnce
    BY IdleSession, NoneAssumption DEF Init, Lock, Deciders, CreditedOnce
  <1>4. LedgerIsTrue /\ PaidFor /\ given <= funded
    <2>1. Charged = 0 /\ sold - GivenAway = 0
      BY DEF Init, Charged, GivenAway
    <2> QED BY <2>1, NumberAssumption DEF Init, LedgerIsTrue, PaidFor
  <1>5. Making = {} /\ Testing = {}
    BY IdleSession DEF Init, Making, Testing
  <1>6. AccountsAreSold
    <2>1. left[1] = 0
      BY DEF Init
    <2>2. Cardinality(Making) = 0
      BY <1>5, FS_EmptySet
    <2>3. accounts = 0 /\ sold = 0 /\ orphans = 0
      BY DEF Init
    <2> QED BY <2>1, <2>2, <2>3 DEF AccountsAreSold, Making
  <1>7. Cardinality(Slot) \in Nat /\ Cardinality(Slot) # 0
    BY NumberAssumption, FS_CardinalityType, FS_EmptySet
  <1>8. TrialsCounted
    BY <1>5, <1>7, FS_EmptySet, NumberAssumption DEF Init, TrialsCounted
  <1>9. Balanced
    BY IdleSession DEF Init, Balanced, Level, Sees
  <1> QED BY <1>1, <1>2, <1>3, <1>4, <1>6, <1>8, <1>9 DEF IInv

(* A step that changes one session, and nothing committed. *)
Moved(t, y) ==
  /\ txn' \in [Slot -> Session] /\ txn'[t] = y /\ \A u \in Slot \ {t} : txn'[u] = txn[u]

LEMMA MovedBy ==
  ASSUME TypeOK, NEW t \in Slot, NEW y \in Session, txn' = [txn EXCEPT ![t] = y]
  PROVE  Moved(t, y)
BY DEF TypeOK, Moved

LEMMA SessionStep ==
  ASSUME IInv, NEW t \in Slot, NEW y, Moved(t, y), Whole(y), UNCHANGED work,
         accounts' \in Nat, orphans' \in Nat, trouble' \in Nat,
         stale' \in BOOLEAN, stale => stale',
         contested' \subseteq Topup, contested \subseteq contested',
         y.flushed # None => txn[t].flushed # None \/ Free(t),
         accounts' - orphans' - y.made = accounts - orphans - txn[t].made,
         y.pc # "idle" /\ y.op = "trial" => t \in Testing \/ trials < TrialLimit,
         y.of \in Topup => \/ y.of = txn[t].of
                           \/ /\ topup[y.of] = "PENDING"
                              /\ y.of \in contested' \/ \A u \in Slot : txn[u].of # y.of,
         ~stale' => Level(y)
  PROVE  IInv'
PROOF
  <1>1. /\ TypeOK /\ \A u \in Slot : Whole(txn[u])
        /\ Lock /\ LedgerIsTrue /\ AccountsAreSold /\ TrialsCounted /\ Deciders /\ CreditedOnce
        /\ Balanced /\ PaidFor /\ given <= funded
    BY DEF IInv
  <1>2. /\ txn' \in [Slot -> Session] /\ txn'[t] = y
        /\ \A u \in Slot : u # t => txn'[u] = txn[u]
    BY DEF Moved
  <1>3. /\ UNCHANGED <<row, ledger, sold, left, uncancelled, trials, topup, given, funded, credits>>
        /\ GivenAway' = GivenAway /\ Charged' = Charged
    BY DEF work, GivenAway, Charged
  <1>4. TypeOK'
    BY <1>1, <1>2, <1>3 DEF TypeOK
  <1>5. \A u \in Slot : Whole(txn'[u])
    BY <1>1, <1>2
  <1>6. Lock'
    BY <1>1, <1>2 DEF Lock, Free
  <1>7. LedgerIsTrue' /\ CreditedOnce' /\ PaidFor' /\ (given <= funded)'
    BY <1>1, <1>3 DEF LedgerIsTrue, CreditedOnce, PaidFor
  <1>8. AccountsAreSold'
    <2>1. /\ Making \ {t} = Making' \ {t}
          /\ t \in Making <=> txn[t].made = 1
          /\ t \in Making' <=> y.made = 1
      BY <1>2 DEF Making
    <2>2. /\ Cardinality(Making) = Cardinality(Making \ {t}) + (IF t \in Making THEN 1 ELSE 0)
          /\ Cardinality(Making \ {t}) \in Nat
      BY Others, NumberAssumption DEF Making
    <2>3. Cardinality(Making') = Cardinality(Making \ {t}) + (IF t \in Making' THEN 1 ELSE 0)
      <3>1. Cardinality(Making') = Cardinality(Making' \ {t}) + (IF t \in Making' THEN 1 ELSE 0)
        BY Others, NumberAssumption DEF Making
      <3> QED BY <3>1, <2>1
    <2>4. y.made \in {0, 1} /\ txn[t].made \in {0, 1} /\ {sold, left[1], accounts, orphans} \subseteq Nat
      BY <1>1, <1>2 DEF TypeOK, Session
    <2>5. accounts = sold + left[1] + orphans + Cardinality(Making)
      BY <1>1 DEF AccountsAreSold, Making
    <2>6. accounts' = sold' + left'[1] + orphans' + Cardinality(Making')
      <3> DEFINE others == Cardinality(Making \ {t})
      <3>1. Cardinality(Making) = others + txn[t].made /\ Cardinality(Making') = others + y.made
        BY <2>1, <2>2, <2>3, <2>4
      <3>2. others \in Nat /\ sold' = sold /\ left' = left
        BY <1>3, <2>2
      <3> HIDE DEF others
      <3> QED BY <2>4, <2>5, <3>1, <3>2
    <2> QED BY <2>6 DEF AccountsAreSold, Making
  <1>9. TrialsCounted'
    <2>1. /\ Testing \ {t} = Testing' \ {t}
          /\ t \in Testing' <=> y.pc # "idle" /\ y.op = "trial"
      BY <1>2 DEF Testing
    <2>2. /\ Cardinality(Testing) = Cardinality(Testing \ {t}) + (IF t \in Testing THEN 1 ELSE 0)
          /\ Cardinality(Testing \ {t}) \in Nat
      BY Others, NumberAssumption DEF Testing
    <2>3. Cardinality(Testing') = Cardinality(Testing \ {t}) + (IF t \in Testing' THEN 1 ELSE 0)
      <3>1. Cardinality(Testing') = Cardinality(Testing' \ {t}) + (IF t \in Testing' THEN 1 ELSE 0)
        BY Others, NumberAssumption DEF Testing
      <3> QED BY <3>1, <2>1
    <2>4. Cardinality(Testing') <= Cardinality(Slot) /\ Cardinality(Slot) \in Nat
      BY NumberAssumption, FS_Subset, FS_CardinalityType DEF Testing
    <2>5. trials \in Nat /\ TrialLimit \in Nat
      BY <1>1, NumberAssumption DEF TypeOK
    <2>6. CASE t \in Testing' /\ t \notin Testing
      BY <1>3, <2>1, <2>4, <2>5, <2>6, <2>3, <2>2 DEF TrialsCounted
    <2>7. CASE ~(t \in Testing' /\ t \notin Testing)
      BY <1>1, <1>3, <2>1, <2>2, <2>3, <2>4, <2>5, <2>7 DEF TrialsCounted
    <2> QED BY <2>6, <2>7
  <1>10. Deciders'
    BY <1>1, <1>2, <1>3 DEF Deciders
  <1>11. Balanced'
    BY <1>1, <1>2, <1>3 DEF Balanced, Level, Sees
  <1> QED BY <1>4, <1>5, <1>6, <1>7, <1>8, <1>9, <1>10, <1>11 DEF IInv

LEMMA Facts ==
  ASSUME IInv, NEW t \in Slot
  PROVE  /\ TypeOK /\ txn[t] \in Session /\ Whole(txn[t]) /\ row \in Row /\ View(t) \in Row
         /\ View(t) = Sees(txn[t]) /\ ledger \in Int /\ stale \in BOOLEAN
         /\ {accounts, orphans, trouble, trials} \subseteq Nat /\ contested \subseteq Topup
         /\ ~stale => row.balance = ledger /\ Level(txn[t])
  BY DEF IInv, TypeOK, View, Sees, Session, Balanced

LEMMA BeginIInv ==
  ASSUME IInv, NEW t \in Slot, NEW op \in Kind, NEW p \in Topup \cup {None},
         NEW pc \in {"load", "deliver", "close"}, txn[t].pc = "idle",
         txn' = [txn EXCEPT ![t] = Starting(op, p, pc)],
         p \in Topup <=> op \in Deciding,
         pc = "load" => op \notin {"trial", "reject"}, pc = "deliver" <=> op = "trial",
         pc = "close" => op = "reject",
         op = "trial" => trials < TrialLimit,
         UNCHANGED <<work, accounts, trouble, orphans, stale>>,
         contested \subseteq contested', contested' \subseteq Topup,
         p \in Topup => topup[p] = "PENDING" /\ (p \in contested' \/ \A u \in Slot : txn[u].of # p)
  PROVE  IInv'
PROOF
  <1> DEFINE y == Starting(op, p, pc)
  <1>1. /\ y.pc = pc /\ y.op = op /\ y.of = p /\ y.copy = None /\ y.want = None /\ y.cols = {}
        /\ y.flushed = None /\ y.entries = 0 /\ y.made = 0 /\ y.kept = FALSE
    BY DEF Starting, Idle
  <1>2. y \in Session
    BY IdleSession DEF Session, Pc, Starting
  <1>3. Moved(t, y)
    BY <1>2, MovedBy, Facts
  <1>4. txn[t] = Idle
    BY Facts DEF Whole
  <1>5. Whole(y)
    BY <1>1, NumberAssumption DEF Whole, Owed, Moves, Selling, Deciding, Editing, Kind
  <1>6. ~stale => Level(y)
    <2>1. ASSUME ~stale PROVE Sees(y).balance = ledger + y.entries
      BY <1>1, <2>1, Facts DEF Sees
    <2> QED BY <1>1, <2>1 DEF Level, Selling
  <1>7. y.flushed = None /\ y.made = 0 /\ y.of = p /\ y.op = op /\ txn[t].made = 0
    BY <1>1, <1>4, IdleSession
  <1> HIDE DEF y
  <1> QED BY <1>3, <1>5, <1>6, <1>7, SessionStep, Facts

LEMMA StartIInv ==
  ASSUME IInv, NEW t \in Slot, NEW op \in Kind, Start(t, op) PROVE IInv'
PROOF
  <1>1. /\ txn[t].pc = "idle" /\ op \notin Deciding \cup {"trial"}
        /\ txn' = [txn EXCEPT ![t] = Starting(op, None, "load")]
        /\ UNCHANGED <<work, accounts, trouble, orphans, stale, contested>>
    BY DEF Start
  <1>2. contested' \subseteq Topup
    BY <1>1, Facts
  <1> QED BY <1>1, <1>2, BeginIInv, NoneAssumption DEF Deciding

LEMMA DecideIInv ==
  ASSUME IInv, NEW t \in Slot, NEW op \in Kind, NEW p \in Topup, Decide(t, op, p) PROVE IInv'
PROOF
  <1> DEFINE pc == IF op = "approve" THEN "load" ELSE "close"
  <1>1. /\ txn[t].pc = "idle" /\ op \in Deciding /\ topup[p] = "PENDING"
        /\ txn' = [txn EXCEPT ![t] = Starting(op, p, pc)]
        /\ contested' = IF \E u \in Slot : txn[u].of = p THEN contested \cup {p} ELSE contested
        /\ UNCHANGED <<work, accounts, trouble, orphans, stale>>
    BY DEF Decide, Pending
  <1>2. /\ contested \subseteq contested' /\ contested' \subseteq Topup
        /\ p \in contested' \/ \A u \in Slot : txn[u].of # p
    BY <1>1, Facts
  <1>3. /\ pc \in {"load", "deliver", "close"} /\ (pc = "load" => op \notin {"trial", "reject"})
        /\ (pc = "deliver" <=> op = "trial") /\ (pc = "close" => op = "reject")
    BY <1>1 DEF Deciding
  <1> HIDE DEF pc
  <1> QED BY <1>1, <1>2, <1>3, BeginIInv DEF Deciding

LEMMA TrialIInv ==
  ASSUME IInv, NEW t \in Slot, Trial(t) PROVE IInv'
PROOF
  <1>1. /\ txn[t].pc = "idle" /\ trials < TrialLimit
        /\ txn' = [txn EXCEPT ![t] = Starting("trial", None, "deliver")]
        /\ UNCHANGED <<work, accounts, trouble, orphans, stale, contested>>
    BY DEF Trial, TrialLeft
  <1>2. contested' \subseteq Topup /\ "trial" \in Kind /\ "trial" \notin Deciding
    BY <1>1, Facts DEF Kind, Deciding
  <1> QED BY <1>1, <1>2, BeginIInv, NoneAssumption

(* A session ends with nothing committed: declined, undone or dead. *)
LEMMA EndIInv ==
  ASSUME IInv, NEW t \in Slot, txn' = [txn EXCEPT ![t] = Idle],
         UNCHANGED <<work, stale, contested>>, trouble' \in Nat,
         accounts' \in Nat, orphans' \in Nat,
         accounts' - orphans' = accounts - orphans - txn[t].made
  PROVE  IInv'
PROOF
  <1>1. Moved(t, Idle)
    BY MovedBy, Facts, IdleSession
  <1>2. Whole(Idle)
    BY DEF Whole
  <1>3. ~stale => Level(Idle)
    BY IdleSession, Facts DEF Level, Sees, TypeOK
  <1>4. /\ UNCHANGED work /\ stale' \in BOOLEAN /\ (stale => stale') /\ stale' = stale
        /\ contested' \subseteq Topup /\ contested \subseteq contested'
    BY Facts
  <1>5. {accounts, orphans, accounts', orphans', txn[t].made} \subseteq Int
    BY Facts DEF Session
  <1>6. accounts' - orphans' - Idle.made = accounts - orphans - txn[t].made
    BY <1>5, IdleSession
  <1>7. Idle.of \notin Topup
    BY IdleSession, NoneAssumption
  <1> QED BY <1>1, <1>2, <1>3, <1>4, <1>6, <1>7, SessionStep, IdleSession

LEMMA DeclinedIInv ==
  ASSUME IInv, NEW t \in Slot, Declined(t) PROVE IInv'
PROOF
  <1>1. /\ txn[t].pc = "load" /\ txn[t].op \in Selling /\ txn' = [txn EXCEPT ![t] = Idle]
        /\ UNCHANGED <<work, accounts, trouble, orphans, stale, contested>>
    BY DEF Declined
  <1>2. txn[t].made = 0
    BY <1>1, Facts, IdleSession DEF Whole, Session, Selling
  <1>3. accounts' - orphans' = accounts - orphans - txn[t].made /\ trouble' \in Nat
        /\ accounts' \in Nat /\ orphans' \in Nat
    BY <1>1, <1>2, Facts
  <1> QED BY <1>1, <1>3, EndIInv

LEMMA DieIInv ==
  ASSUME IInv, NEW t \in Slot, Die(t) PROVE IInv'
PROOF
  <1>1. /\ txn' = [txn EXCEPT ![t] = Idle] /\ UNCHANGED <<work, accounts, stale, contested>>
        /\ orphans' = orphans + txn[t].made /\ trouble' = trouble + 1
    BY DEF Die, Trouble
  <1>2. accounts' - orphans' = accounts - orphans - txn[t].made /\ trouble' \in Nat
        /\ accounts' \in Nat /\ orphans' \in Nat
    BY <1>1, Facts DEF Session
  <1> QED BY <1>1, <1>2, EndIInv

(* A step of a request that has begun. *)
LEMMA RequestStep ==
  ASSUME IInv, NEW t \in Slot, NEW y \in Session, txn' = [txn EXCEPT ![t] = y], Whole(y),
         UNCHANGED work, accounts' \in Nat, orphans' \in Nat, trouble' \in Nat,
         stale' \in BOOLEAN, stale => stale', contested' = contested,
         y.flushed = txn[t].flushed \/ Free(t),
         accounts' - orphans' - y.made = accounts - orphans - txn[t].made,
         txn[t].pc # "idle", y.op = txn[t].op \/ y.op # "trial",
         y.of = txn[t].of, ~stale' => Level(y)
  PROVE  IInv'
PROOF
  <1>1. Moved(t, y)
    BY MovedBy, Facts
  <1>2. y.pc # "idle" /\ y.op = "trial" => t \in Testing
    BY DEF Testing
  <1>3. contested' \subseteq Topup /\ contested \subseteq contested'
    BY Facts
  <1> QED BY <1>1, <1>2, <1>3, SessionStep

LEMMA LoadIInv ==
  ASSUME IInv, NEW t \in Slot, Load(t) PROVE IInv'
PROOF
  <1> DEFINE x == txn[t]
             y == [x EXCEPT !.pc = "save", !.copy = View(t)]
  <1>1. /\ x.pc = "load" /\ (x.op \in Selling => Cost <= View(t).balance)
        /\ UNCHANGED <<work, accounts, trouble, orphans, stale, contested>>
    BY DEF Load, MayCharge
  <1>2. x \in Session /\ View(t) \in Row /\ Whole(x) /\ x # Idle
    BY <1>1, Facts, IdleSession
  <1>3. /\ y \in Session /\ y.pc = "save" /\ y.copy = View(t) /\ y.op = x.op /\ y.of = x.of
        /\ y.flushed = x.flushed /\ y.entries = x.entries /\ y.made = x.made /\ y.kept = x.kept
    BY <1>2 DEF Session, Pc
  <1>4. txn' = [txn EXCEPT ![t] = y]
    BY Facts DEF Load, TypeOK
  <1>5. Whole(y)
    BY <1>1, <1>2, <1>3 DEF Whole, Owed
  <1>6. ~stale => Level(y)
    BY <1>1, <1>3, Facts DEF Level, Sees
  <1> HIDE DEF y
  <1>7. accounts' - orphans' - y.made = accounts - orphans - txn[t].made
    BY <1>1, <1>3
  <1> QED BY <1>1, <1>3, <1>4, <1>5, <1>6, <1>7, RequestStep, Facts

LEMMA ChangedRow ==
  ASSUME NEW op \in (Kind \cup {"refund"}) \ {"trial", "reject"}, NEW r \in Row
  PROVE  /\ Changed(op, r) \in Row /\ Changed(op, r).balance = r.balance + Moves(op)
         /\ Moves(op) \in Int
PROOF
  <1>1. CASE op \in Editing
    <2>1. Moves(op) = 0 /\ Changed(op, r) = [r EXCEPT !.active = op = "unbar"]
      BY <1>1 DEF Changed, Moves, Selling, Editing
    <2> DEFINE open == op = "unbar"
    <2>2. open \in BOOLEAN /\ Changed(op, r) = [r EXCEPT !.active = open]
      BY <2>1
    <2> HIDE DEF open
    <2> QED BY <2>1, <2>2 DEF Row
  <1>2. CASE op \notin Editing
    <2>1. Moves(op) \in Int
      BY <1>2, NumberAssumption DEF Moves, Kind, Selling, Deciding, Editing
    <2>2. Changed(op, r) = [r EXCEPT !.balance = @ + Moves(op)]
      BY <1>2 DEF Changed
    <2> QED BY <2>1, <2>2 DEF Row
  <1> QED BY <1>1, <1>2

LEMMA WrittenIInv ==
  ASSUME IInv, NEW t \in Slot, NEW z \in Session, txn[t].pc \in {"save", "write"},
         z.op = txn[t].op, z.of = txn[t].of, z.flushed = txn[t].flushed,
         z.entries = txn[t].entries, z.made = txn[t].made, z.kept = txn[t].kept,
         z.copy = txn[t].copy,
         z.want = Changed(z.op, z.copy), z.cols = {} \/ Free(t),
         txn' = [txn EXCEPT ![t] = Written(t, z)],
         UNCHANGED <<work, accounts, trouble, orphans, contested>>,
         stale' \in BOOLEAN,
         ~stale' => ~stale /\ ~Outdated(t, z) /\ (Moves(z.op) # 0 => "balance" \in z.cols)
  PROVE  IInv'
PROOF
  <1> DEFINE y == Written(t, z)
             seen == View(t)
  <1>1. /\ Whole(txn[t]) /\ txn[t] # Idle /\ seen \in Row /\ seen = Sees(txn[t])
        /\ ~stale => Level(txn[t])
    BY Facts, IdleSession
  <1>2. /\ z.op \in (Kind \cup {"refund"}) \ {"trial", "reject"} /\ z.copy \in Row
        /\ (z.op \in Selling => Cost <= z.copy.balance)
        /\ (z.op # "refund" => z.made = 0) /\ (z.made = 1 => z.kept)
        /\ z.entries = IF z.op = "refund" THEN -Cost ELSE 0
        /\ z.of \in Topup <=> z.op \in Deciding
    BY <1>1 DEF Whole, Owed, Selling, Session
  <1>3. /\ z.want \in Row /\ z.want.balance = z.copy.balance + Moves(z.op) /\ Moves(z.op) \in Int
    BY <1>2, ChangedRow
  <1>4. Merged(t, z) \in Row
    BY <1>1, <1>3 DEF Merged, Row
  <1>5. /\ y.pc = IF z.op \in Selling THEN "deliver" ELSE "close"
        /\ y.flushed = IF z.cols = {} THEN z.flushed ELSE Merged(t, z)
        /\ y.entries = z.entries + Moves(z.op)
        /\ y.op = z.op /\ y.of = z.of /\ y.made = z.made /\ y.kept = z.kept /\ y.cols = {}
    BY DEF Written, Session
  <1>6. y \in Session
    <2>1. y.entries \in Int /\ y.flushed \in Row \cup {None} /\ y.pc \in Pc
      BY <1>3, <1>4, <1>5 DEF Session, Pc
    <2> DEFINE stage == y.pc
               flush == y.flushed
               sum == y.entries
    <2>2. y = [z EXCEPT !.pc = stage, !.copy = None, !.want = None, !.cols = {},
                        !.flushed = flush, !.entries = sum]
      BY <1>5 DEF Written
    <2>3. stage \in Pc /\ flush \in Row \cup {None} /\ sum \in Int
      BY <2>1
    <2> HIDE DEF y, stage, flush, sum
    <2> QED BY <2>2, <2>3 DEF Session
  <1>7. Whole(y)
    <2>1. y.entries = Owed(y)
      BY <1>2, <1>5, NumberAssumption DEF Owed, Moves, Selling, Kind, Deciding, Editing
    <2> QED BY <1>2, <1>5, <2>1, NumberAssumption DEF Whole, Selling
  <1>8. ASSUME ~stale' PROVE Level(y)
    <2>1. /\ seen.balance = ledger + txn[t].entries
          /\ "balance" \in z.cols => seen.balance = z.copy.balance
          /\ Moves(z.op) # 0 => "balance" \in z.cols
      BY <1>1, <1>8 DEF Level, Outdated
    <2>2. Sees(y).balance = seen.balance + Moves(z.op)
      <3>1. CASE z.cols = {}
        <4>1. Moves(z.op) = 0 /\ Sees(y) = seen
          BY <1>1, <1>5, <2>1, <3>1 DEF Sees
        <4> QED BY <1>1, <4>1 DEF Row
      <3>2. CASE z.cols # {}
        <4>1. Sees(y) = Merged(t, z)
          BY <1>4, <1>5, <3>2, NoneAssumption DEF Sees
        <4>2. Merged(t, z).balance = IF "balance" \in z.cols THEN z.want.balance ELSE seen.balance
          BY DEF Merged
        <4>3. CASE "balance" \in z.cols
          BY <1>3, <2>1, <4>1, <4>2, <4>3
        <4>4. CASE "balance" \notin z.cols
          <5>1. Moves(z.op) = 0 /\ seen.balance \in Int
            BY <1>1, <2>1, <4>4 DEF Row
          <5> QED BY <4>1, <4>2, <4>4, <5>1
        <4> QED BY <4>3, <4>4
      <3> QED BY <3>1, <3>2
    <2>3. Sees(y).balance = ledger + y.entries
      BY <1>3, <1>5, <2>1, <2>2, Facts DEF Session
    <2>4. z.op \in Selling => Sees(y).balance >= 0
      <3> SUFFICES ASSUME z.op \in Selling PROVE Sees(y).balance >= 0
        OBVIOUS
      <3>1. Moves(z.op) = -Cost /\ Cost \in Nat \ {0}
        BY NumberAssumption DEF Moves, Selling
      <3>2. seen.balance = z.copy.balance /\ z.copy.balance \in Int /\ Cost <= z.copy.balance
        BY <1>2, <2>1, <3>1 DEF Row
      <3> QED BY <2>2, <3>1, <3>2
    <2> QED BY <1>5, <2>3, <2>4 DEF Level
  <1>9. y.flushed = txn[t].flushed \/ Free(t)
    BY <1>5
  <1> HIDE DEF y
  <1>10. accounts' - orphans' - y.made = accounts - orphans - txn[t].made
    BY <1>5
  <1>11. txn' = [txn EXCEPT ![t] = y] /\ y.of = txn[t].of /\ y.op = txn[t].op /\ txn[t].pc # "idle"
    BY <1>5 DEF y
  <1>12. accounts' \in Nat /\ orphans' \in Nat /\ trouble' \in Nat
    BY Facts
  <1> QED BY <1>6, <1>7, <1>8, <1>9, <1>10, <1>11, <1>12, RequestStep

LEMMA SaveIInv ==
  ASSUME IInv, NEW t \in Slot, Save(t) PROVE IInv'
PROOF
  <1> DEFINE x == txn[t]
             r == Changed(x.op, x.copy)
             z == [x EXCEPT !.want = r, !.cols = {c \in Column : r[c] # View(t)[c]}]
             now == z.cols = {} \/ Free(t)
             y == [z EXCEPT !.pc = "write"]
  <1>1. /\ x.pc = "save"
        /\ txn' = [txn EXCEPT ![t] = IF now THEN Written(t, z) ELSE y]
        /\ stale' = (stale \/ (now /\ Outdated(t, z)) \/ (Moves(x.op) # 0 /\ "balance" \notin z.cols))
        /\ UNCHANGED <<work, accounts, trouble, orphans, contested>>
    BY DEF Save
  <1>2. x \in Session /\ Whole(x) /\ x # Idle /\ stale \in BOOLEAN
    BY <1>1, Facts, IdleSession
  <1>3. x.op \in (Kind \cup {"refund"}) \ {"trial", "reject"} /\ x.copy \in Row
    BY <1>1, <1>2 DEF Whole
  <1>4. r \in Row
    BY <1>3, ChangedRow
  <1>5. /\ z \in Session /\ z.op = x.op /\ z.of = x.of /\ z.flushed = x.flushed
        /\ z.entries = x.entries /\ z.made = x.made /\ z.copy = x.copy /\ z.kept = x.kept
        /\ z.want = r
    BY <1>2, <1>4 DEF Session
  <1>6. stale' \in BOOLEAN
    BY <1>1, <1>2
  <1>7. CASE now
    <2>1. ~stale' => ~stale /\ ~Outdated(t, z) /\ (Moves(z.op) # 0 => "balance" \in z.cols)
      BY <1>1, <1>5, <1>7
    <2>2. txn' = [txn EXCEPT ![t] = Written(t, z)] /\ (z.cols = {} \/ Free(t))
      BY <1>1, <1>7
    <2> HIDE DEF z, now, r
    <2>3. z.want = Changed(z.op, z.copy)
      BY <1>5 DEF r
    <2> QED BY <1>1, <1>5, <1>6, <2>1, <2>2, <2>3, WrittenIInv
  <1>8. CASE ~now
    <2>1. /\ y \in Session /\ y.pc = "write" /\ y.op = x.op /\ y.of = x.of /\ y.copy = x.copy
          /\ y.want = r /\ y.flushed = x.flushed /\ y.entries = x.entries /\ y.made = x.made
          /\ y.kept = x.kept /\ y.cols = z.cols
      BY <1>5 DEF Session, Pc
    <2>2. txn' = [txn EXCEPT ![t] = y]
      BY <1>1, <1>8
    <2>3. Whole(y)
      BY <1>1, <1>2, <2>1 DEF Whole, Owed
    <2>4. ~stale' => Level(y)
      <3>1. ~stale' => Level(x) /\ (Moves(x.op) # 0 => "balance" \in z.cols)
        BY <1>1, Facts
      <3> HIDE DEF y, z
      <3> QED BY <2>1, <3>1 DEF Level, Sees
    <2> HIDE DEF y
    <2>5. /\ accounts' - orphans' - y.made = accounts - orphans - txn[t].made
          /\ accounts' \in Nat /\ orphans' \in Nat /\ trouble' \in Nat
          /\ (stale => stale') /\ contested' = contested
          /\ txn[t].pc # "idle"
      BY <1>1, <2>1, Facts
    <2> QED BY <1>1, <1>6, <2>1, <2>2, <2>3, <2>4, <2>5, RequestStep
  <1> QED BY <1>7, <1>8

LEMMA WriteIInv ==
  ASSUME IInv, NEW t \in Slot, Write(t) PROVE IInv'
PROOF
  <1>1. /\ txn[t].pc = "write" /\ Free(t) /\ txn' = [txn EXCEPT ![t] = Written(t, txn[t])]
        /\ stale' = (stale \/ Outdated(t, txn[t]))
        /\ UNCHANGED <<work, accounts, trouble, orphans, contested>>
    BY DEF Write
  <1>2. txn[t] \in Session /\ Whole(txn[t]) /\ stale \in BOOLEAN /\ txn[t] # Idle
    BY <1>1, Facts, IdleSession
  <1>3. txn[t].want = Changed(txn[t].op, txn[t].copy)
    BY <1>1, <1>2 DEF Whole
  <1>4. stale' \in BOOLEAN
    BY <1>1, <1>2
  <1>5. ~stale' => /\ ~stale /\ ~Outdated(t, txn[t])
                   /\ (Moves(txn[t].op) # 0 => "balance" \in txn[t].cols)
    BY <1>1, Facts DEF Level
  <1> QED BY <1>1, <1>2, <1>3, <1>4, <1>5, WrittenIInv

LEMMA DeliverIInv ==
  ASSUME IInv, NEW t \in Slot, Deliver(t) PROVE IInv'
PROOF
  <1> DEFINE x == txn[t]
             y == [x EXCEPT !.pc = "close", !.made = 1, !.kept = TRUE]
  <1>1. /\ x.pc = "deliver" /\ x.op \in Selling /\ accounts' = accounts + 1
        /\ UNCHANGED <<work, trouble, orphans, stale, contested>>
    BY DEF Deliver
  <1>2. x \in Session /\ Whole(x) /\ x # Idle
    BY <1>1, Facts, IdleSession
  <1>3. /\ y \in Session /\ y.pc = "close" /\ y.op = x.op /\ y.of = x.of /\ y.made = 1
        /\ y.flushed = x.flushed /\ y.entries = x.entries /\ y.kept = TRUE
    BY <1>2 DEF Session, Pc
  <1>4. txn' = [txn EXCEPT ![t] = y]
    BY Facts DEF Deliver, TypeOK
  <1>5. x.made = 0
    BY <1>1, <1>2 DEF Whole, Session, Selling
  <1>6. Whole(y)
    BY <1>1, <1>2, <1>3 DEF Whole, Owed
  <1>7. ~stale => Level(y)
    BY <1>1, <1>3, Facts DEF Level, Sees
  <1> HIDE DEF y
  <1>8. /\ accounts' - orphans' - y.made = accounts - orphans - txn[t].made
        /\ accounts' \in Nat /\ orphans' \in Nat /\ trouble' \in Nat /\ stale' \in BOOLEAN
    BY <1>1, <1>3, <1>5, Facts
  <1> QED BY <1>1, <1>3, <1>4, <1>6, <1>7, <1>8, RequestStep

LEMMA DeliverTestIInv ==
  ASSUME IInv, NEW t \in Slot, DeliverTest(t) PROVE IInv'
PROOF
  <1> DEFINE x == txn[t]
             y == [x EXCEPT !.pc = "close", !.kept = TRUE]
  <1>1. /\ x.pc = "deliver" /\ x.op = "trial"
        /\ UNCHANGED <<work, accounts, trouble, orphans, stale, contested>>
    BY DEF DeliverTest
  <1>2. x \in Session /\ Whole(x) /\ x # Idle
    BY <1>1, Facts, IdleSession
  <1>3. /\ y \in Session /\ y.pc = "close" /\ y.op = x.op /\ y.of = x.of /\ y.made = x.made
        /\ y.flushed = x.flushed /\ y.entries = x.entries /\ y.kept = TRUE
    BY <1>2 DEF Session, Pc
  <1>4. txn' = [txn EXCEPT ![t] = y]
    BY Facts DEF DeliverTest, TypeOK
  <1>5. Whole(y)
    BY <1>1, <1>2, <1>3 DEF Whole, Owed, Selling, Moves
  <1>6. ~stale => Level(y)
    BY <1>1, <1>3, Facts DEF Level, Sees, Selling
  <1> HIDE DEF y
  <1>7. /\ accounts' - orphans' - y.made = accounts - orphans - txn[t].made
        /\ accounts' \in Nat /\ orphans' \in Nat /\ trouble' \in Nat /\ stale' \in BOOLEAN
    BY <1>1, <1>3, Facts
  <1> QED BY <1>1, <1>3, <1>4, <1>5, <1>6, <1>7, RequestStep

LEMMA NotDeliveredIInv ==
  ASSUME IInv, NEW t \in Slot, NEW made \in {0, 1}, NEW cancels \in BOOLEAN,
         NotDelivered(t, made, cancels)
  PROVE  IInv'
PROOF
  <1> DEFINE x == txn[t]
             keeps == IF cancels THEN 0 ELSE made
             y == [x EXCEPT !.pc = "load", !.op = "refund", !.made = keeps, !.kept = ~cancels]
  <1>1. /\ x.pc = "deliver" /\ x.op \in Selling /\ trouble' = trouble + 1
        /\ accounts' = accounts + made
        /\ orphans' = IF x.op = "sell" /\ ~cancels THEN orphans ELSE orphans + made
        /\ txn' = [txn EXCEPT ![t] = IF x.op # "sell" THEN Idle ELSE y]
        /\ UNCHANGED <<work, stale, contested>>
    BY DEF NotDelivered, Refunding, Trouble
  <1>2. x \in Session /\ Whole(x) /\ x # Idle
    BY <1>1, Facts, IdleSession
  <1>3. x.made = 0
    BY <1>1, <1>2 DEF Whole, Session, Selling
  <1>4. accounts' \in Nat /\ orphans' \in Nat /\ trouble' \in Nat /\ stale' \in BOOLEAN
    BY <1>1, Facts
  <1>5. CASE x.op = "sell"
    <2>1. keeps \in {0, 1} /\ (keeps = 1 => ~cancels)
      OBVIOUS
    <2>2. accounts' - orphans' - keeps = accounts - orphans - x.made
      BY <1>1, <1>3, <1>5, Facts
    <2> HIDE DEF keeps
    <2> DEFINE alive == ~cancels
    <2>3. alive \in BOOLEAN /\ y = [x EXCEPT !.pc = "load", !.op = "refund", !.made = keeps, !.kept = alive]
      OBVIOUS
    <2>4. keeps = 1 => alive
      BY <2>1
    <2> HIDE DEF y, alive
    <2>5. /\ y \in Session /\ y.pc = "load" /\ y.op = "refund" /\ y.of = x.of /\ y.made = keeps
          /\ y.flushed = x.flushed /\ y.entries = x.entries /\ y.kept = alive
      BY <1>2, <2>1, <2>3 DEF Session, Pc
    <2>6. Whole(y)
      BY <1>1, <1>2, <2>4, <2>5 DEF Whole, Owed, Selling, Deciding
    <2>7. ~stale => Level(y)
      BY <2>5, Facts DEF Level, Sees, Selling
    <2>8. txn' = [txn EXCEPT ![t] = y]
      BY <1>1, <1>5 DEF y
    <2>9. accounts' - orphans' - y.made = accounts - orphans - txn[t].made
      BY <2>2, <2>5
    <2> QED BY <1>1, <1>4, <2>5, <2>6, <2>7, <2>8, <2>9, RequestStep
  <1>6. CASE x.op # "sell"
    <2>1. accounts' - orphans' = accounts - orphans - x.made
      BY <1>1, <1>3, <1>6, Facts
    <2> QED BY <1>1, <1>4, <1>6, <2>1, EndIInv
  <1> QED BY <1>5, <1>6

(* The sweep: one refunded order fewer waits, or its account is made again. *)
LEMMA SweptIInv ==
  ASSUME IInv, UNCHANGED <<swept, txn, trouble, stale, contested>>,
         sold' \in Nat, left' \in [{0, 1} -> Nat], accounts' \in Nat, orphans' \in Nat,
         sold' + left'[0] + left'[1] = sold + left[0] + left[1],
         accounts' - orphans' - sold' - left'[1] = accounts - orphans - sold - left[1]
  PROVE  IInv'
PROOF
  <1>1. /\ TypeOK /\ \A u \in Slot : Whole(txn[u])
        /\ Lock /\ LedgerIsTrue /\ AccountsAreSold /\ TrialsCounted /\ Deciders /\ CreditedOnce
        /\ Balanced /\ PaidFor /\ given <= funded
    BY DEF IInv
  <1>2. /\ UNCHANGED <<row, ledger, uncancelled, trials, topup, given, funded, credits>>
        /\ UNCHANGED <<txn, trouble, stale, contested>>
    BY DEF swept
  <1>3. TypeOK'
    BY <1>1, <1>2 DEF TypeOK
  <1>4. Charged' = Charged
    BY <1>1, <1>2, <1>3 DEF Charged, GivenAway, TypeOK
  <1>5. LedgerIsTrue' /\ PaidFor'
    BY <1>1, <1>2, <1>4 DEF LedgerIsTrue, PaidFor, Charged
  <1>6. AccountsAreSold'
    <2>1. Making' = Making /\ Cardinality(Making) \in Nat
      BY <1>2, NumberAssumption, FS_Subset, FS_CardinalityType DEF Making
    <2>2. {sold, left[1], accounts, orphans} \subseteq Nat
      BY <1>1 DEF TypeOK
    <2>3. accounts = sold + left[1] + orphans + Cardinality(Making)
      BY <1>1 DEF AccountsAreSold, Making
    <2>4. left'[1] \in Nat
      OBVIOUS
    <2>5. accounts' = sold' + left'[1] + orphans' + Cardinality(Making)
      BY <2>1, <2>2, <2>3, <2>4
    <2> QED BY <2>1, <2>5 DEF AccountsAreSold, Making
  <1>7. (\A u \in Slot : Whole(txn[u]))' /\ Lock' /\ CreditedOnce' /\ Deciders' /\ (given <= funded)'
    BY <1>1, <1>2 DEF Lock, CreditedOnce, Deciders
  <1>8. TrialsCounted' /\ Balanced'
    BY <1>1, <1>2 DEF TrialsCounted, Testing, Balanced, Level, Sees
  <1> QED BY <1>3, <1>5, <1>6, <1>7, <1>8 DEF IInv

LEMMA DrainIInv ==
  ASSUME IInv, NEW had \in {0, 1}, NEW fresh \in {0, 1}, Drain(had, fresh) PROVE IInv'
PROOF
  <1>1. /\ left[had] > 0 /\ had + fresh > 0 /\ left' = [left EXCEPT ![had] = left[had] - 1]
        /\ sold' = sold + 1 /\ accounts' = accounts + fresh
        /\ orphans' = orphans + had + fresh - 1
        /\ UNCHANGED <<swept, txn, trouble, stale, contested>>
    BY DEF Drain
  <1>2. left \in [{0, 1} -> Nat] /\ {sold, accounts, orphans} \subseteq Nat
    BY DEF IInv, TypeOK
  <1>3. /\ left' \in [{0, 1} -> Nat] /\ sold' \in Nat /\ accounts' \in Nat /\ orphans' \in Nat
    BY <1>1, <1>2
  <1>4. /\ left'[0] = IF had = 0 THEN left[0] - 1 ELSE left[0]
        /\ left'[1] = IF had = 1 THEN left[1] - 1 ELSE left[1]
        /\ {left[0], left[1]} \subseteq Nat
    BY <1>1, <1>2
  <1>5. /\ sold' + left'[0] + left'[1] = sold + left[0] + left[1]
        /\ accounts' - orphans' - sold' - left'[1] = accounts - orphans - sold - left[1]
    BY <1>1, <1>2, <1>4
  <1> QED BY <1>1, <1>3, <1>5, SweptIInv

LEMMA DrainLostIInv ==
  ASSUME IInv, NEW had \in {0, 1}, DrainLost(had) PROVE IInv'
PROOF
  <1>1. /\ left[had] > 0
        /\ left' = [n \in {0, 1} |-> left[n] - (IF n = had THEN 1 ELSE 0) + n]
        /\ accounts' = accounts + 1 /\ orphans' = orphans + had
        /\ UNCHANGED <<swept, sold, txn, trouble, stale, contested>>
    BY DEF DrainLost
  <1>2. left \in [{0, 1} -> Nat] /\ {sold, accounts, orphans, left[0], left[1]} \subseteq Nat
    BY DEF IInv, TypeOK
  <1>3. /\ left'[0] = left[0] - (IF had = 0 THEN 1 ELSE 0)
        /\ left'[1] = left[1] - (IF had = 1 THEN 1 ELSE 0) + 1
    BY <1>1, <1>2
  <1>4. left' \in [{0, 1} -> Nat]
    <2>1. \A n \in {0, 1} : left[n] - (IF n = had THEN 1 ELSE 0) + n \in Nat
      BY <1>1, <1>2
    <2> QED BY <1>1, <2>1
  <1>5. accounts' \in Nat /\ orphans' \in Nat /\ sold' \in Nat
    BY <1>1, <1>2
  <1>6. /\ sold' + left'[0] + left'[1] = sold + left[0] + left[1]
        /\ accounts' - orphans' - sold' - left'[1] = accounts - orphans - sold - left[1]
    BY <1>1, <1>2, <1>3
  <1> QED BY <1>1, <1>4, <1>5, <1>6, SweptIInv

LEMMA CommitIInv ==
  ASSUME IInv, NEW t \in Slot, Commit(t) PROVE IInv'
PROOF
  <1> DEFINE x == txn[t]
             leaves == x.op = "refund" /\ x.kept
  <1>1. /\ TypeOK /\ Lock /\ LedgerIsTrue /\ AccountsAreSold /\ TrialsCounted /\ Deciders
        /\ CreditedOnce /\ Balanced /\ PaidFor /\ given <= funded
        /\ \A u \in Slot : Whole(txn[u])
    BY DEF IInv
  <1>2. /\ x.pc = "close" /\ x \in Session /\ x # Idle /\ Whole(x) /\ View(t) = Sees(x)
        /\ View(t) \in Row
    BY Facts, IdleSession DEF Commit
  <1>3. /\ row' = View(t) /\ ledger' = ledger + x.entries
        /\ sold' = IF x.op \in Selling THEN sold + 1 ELSE sold
        /\ trials' = IF x.op = "trial" THEN trials + 1 ELSE trials
        /\ given' = IF x.op \in {"approve", "take"} THEN given + Moves(x.op) ELSE given
        /\ funded' = IF x.op = "approve" THEN funded + Amount ELSE funded
        /\ left' = IF leaves THEN [left EXCEPT ![x.made] = left[x.made] + 1] ELSE left
        /\ uncancelled' = IF leaves THEN uncancelled + 1 ELSE uncancelled
        /\ UNCHANGED <<accounts, trouble, orphans, stale, contested>>
    BY <1>2 DEF Commit, Whole, Selling
  <1>4. /\ topup' = [p \in Topup |-> IF p # x.of THEN topup[p]
                                     ELSE IF x.op = "approve" THEN "APPROVED" ELSE "REJECTED"]
        /\ credits' = [p \in Topup |-> IF p = x.of /\ x.op = "approve" THEN credits[p] + 1
                                       ELSE credits[p]]
    BY DEF Commit
  <1>5. Moved(t, Idle)
    BY <1>1, MovedBy, IdleSession DEF Commit
  <1>6. /\ txn' \in [Slot -> Session] /\ txn'[t] = Idle
        /\ \A u \in Slot : u # t => txn'[u] = txn[u]
    BY <1>5 DEF Moved
  <1>7. /\ x.op \in Kind \cup {"refund"} /\ x.entries \in Int
        /\ x.entries = IF x.op \in Selling THEN -Cost
                       ELSE IF x.op = "refund" THEN 0 ELSE Moves(x.op)
        /\ x.op # "refund" => x.made = (IF x.op \in Selling THEN 1 ELSE 0)
        /\ x.made \in {0, 1} /\ (x.made = 1 => x.kept)
        /\ (x.of \in Topup <=> x.op \in Deciding)
    BY <1>2 DEF Whole, Owed, Session, Selling
  <1>8. /\ {ledger, given} \subseteq Int /\ {sold, uncancelled, trials, accounts, funded, orphans} \subseteq Nat
        /\ left \in [{0, 1} -> Nat] /\ {left[0], left[1]} \subseteq Nat
        /\ topup \in [Topup -> Decision] /\ credits \in [Topup -> Nat]
    BY <1>1 DEF TypeOK
  <1>9. /\ x.op = "approve" => Moves(x.op) = Amount
        /\ x.op = "take" => Moves(x.op) = -Amount
        /\ x.op \in Kind /\ x.op \notin Selling \cup {"approve", "take"} => Moves(x.op) = 0
        /\ {Cost, Amount} \subseteq Nat \ {0}
    BY NumberAssumption DEF Moves, Kind, Selling, Deciding, Editing
  <1>10. TypeOK'
    <2>1. {ledger', given'} \subseteq Int /\ {sold', uncancelled', trials', funded'} \subseteq Nat
      BY <1>3, <1>7, <1>8, <1>9
    <2>3. left' \in [{0, 1} -> Nat]
      BY <1>3, <1>7, <1>8
    <2>2. topup' \in [Topup -> Decision] /\ credits' \in [Topup -> Nat]
      BY <1>4, <1>8 DEF Decision
    <2> QED BY <1>1, <1>2, <1>3, <1>6, <2>1, <2>2, <2>3 DEF TypeOK
  <1>11. \A u \in Slot : Whole(txn'[u])
    BY <1>1, <1>6 DEF Whole
  <1>12. Lock'
    BY <1>1, <1>6, IdleSession DEF Lock
  <1>22. /\ left'[0] = left[0] + (IF leaves /\ x.made = 0 THEN 1 ELSE 0)
         /\ left'[1] = left[1] + (IF leaves /\ x.made = 1 THEN 1 ELSE 0)
    <2>1. CASE leaves /\ x.made = 0
      BY <1>3, <1>8, <2>1
    <2>2. CASE leaves /\ x.made = 1
      BY <1>3, <1>8, <2>2
    <2>3. CASE ~leaves
      BY <1>3, <1>8, <2>3
    <2> QED BY <1>7, <2>1, <2>2, <2>3
  <1>23. /\ Charged' = IF x.op \in Selling THEN Charged + 1 ELSE Charged
         /\ Charged \in Int
    <2>1. GivenAway' = GivenAway /\ GivenAway \in Int
      BY <1>3, <1>7, <1>8, <1>22 DEF GivenAway
    <2> QED BY <1>3, <1>8, <2>1 DEF Charged
  <1>13. LedgerIsTrue'
    <2>1. Cost * (Charged + 1) = Cost * Charged + Cost /\ Cost * Charged \in Int
      BY <1>9, <1>23
    <2>2. ledger = given - Cost * Charged
      BY <1>1 DEF LedgerIsTrue, Charged
    <2> DEFINE spent == Cost * Charged
               more == Cost * (Charged + 1)
    <2>3. CASE x.op \in Selling
      <3>1. ledger' = ledger - Cost /\ given' = given /\ Charged' = Charged + 1
        BY <1>3, <1>7, <1>8, <1>9, <1>23, <2>3 DEF Selling
      <3>2. ledger - Cost = given - more
        <4>1. more = spent + Cost /\ spent \in Int /\ ledger = given - spent
          BY <2>1, <2>2
        <4> HIDE DEF spent, more
        <4> QED BY <1>8, <1>9, <4>1
      <3> QED BY <3>1, <3>2 DEF LedgerIsTrue, Charged
    <2>4. CASE x.op \notin Selling
      <3>1. ledger' - ledger = given' - given /\ Charged' = Charged
        BY <1>3, <1>7, <1>8, <1>9, <1>23, <2>4
      <3>2. ledger' = given' - spent
        <4>1. spent \in Int /\ ledger = given - spent /\ {ledger', given'} \subseteq Int
          BY <1>10, <2>1, <2>2 DEF TypeOK
        <4> HIDE DEF spent
        <4> QED BY <1>8, <3>1, <4>1
      <3> QED BY <3>1, <3>2 DEF LedgerIsTrue, Charged
    <2> QED BY <2>3, <2>4
  <1>14. AccountsAreSold'
    <2>1. Making' = Making \ {t} /\ (t \in Making <=> x.made = 1)
      BY <1>6, IdleSession DEF Making
    <2>2. /\ Cardinality(Making) = Cardinality(Making \ {t}) + (IF t \in Making THEN 1 ELSE 0)
          /\ Cardinality(Making \ {t}) \in Nat
      BY Others, NumberAssumption DEF Making
    <2>3. Cardinality(Making') = Cardinality(Making \ {t})
      BY <2>1
    <2>4. accounts = sold + left[1] + orphans + Cardinality(Making)
      BY <1>1 DEF AccountsAreSold, Making
    <2>5. x.made = 1 <=> x.op \in Selling \/ (leaves /\ x.made = 1)
      BY <1>7 DEF Selling
    <2>6. x.op \in Selling => ~leaves
      BY DEF Selling
    <2>7. sold' + left'[1] = sold + left[1] + (IF t \in Making THEN 1 ELSE 0)
      BY <1>3, <1>8, <1>22, <2>1, <2>5, <2>6
    <2>8. /\ {sold, sold', left[1], left'[1], accounts, orphans} \subseteq Nat
          /\ accounts' = accounts /\ orphans' = orphans
      BY <1>3, <1>8, <1>10 DEF TypeOK
    <2>9. accounts' = sold' + left'[1] + orphans' + Cardinality(Making')
      BY <2>2, <2>3, <2>4, <2>7, <2>8
    <2> QED BY <2>9 DEF AccountsAreSold, Making
  <1>15. TrialsCounted'
    <2>1. Testing' = Testing \ {t} /\ (t \in Testing <=> x.op = "trial")
      BY <1>2, <1>6, IdleSession DEF Testing
    <2>2. /\ Cardinality(Testing) = Cardinality(Testing \ {t}) + (IF t \in Testing THEN 1 ELSE 0)
          /\ Cardinality(Testing \ {t}) \in Nat
      BY Others, NumberAssumption DEF Testing
    <2>3. Cardinality(Testing') = Cardinality(Testing \ {t})
      BY <2>1
    <2>4. t \in Testing <=> x.op = "trial"
      BY <2>1
    <2>5. Cardinality(Slot) \in Nat /\ TrialLimit \in Nat
      BY NumberAssumption, FS_CardinalityType
    <2> QED BY <1>1, <1>3, <1>8, <2>2, <2>3, <2>4, <2>5 DEF TrialsCounted
  <1>16. Deciders'
    <2> SUFFICES ASSUME NEW p \in Topup \ contested, NEW u \in Slot, txn'[u].of = p
                 PROVE  topup'[p] = "PENDING" /\ \A v \in Slot : txn'[v].of = p => v = u
      BY <1>3 DEF Deciders
    <2>1. u # t
      BY <1>6, IdleSession, NoneAssumption
    <2>2. txn[u].of = p /\ topup[p] = "PENDING" /\ \A v \in Slot : txn[v].of = p => v = u
      BY <1>1, <1>6, <2>1 DEF Deciders
    <2>3. x.of # p
      BY <2>1, <2>2
    <2> QED BY <1>4, <1>6, <2>2, <2>3, IdleSession, NoneAssumption
  <1>17. CreditedOnce'
    <2> SUFFICES ASSUME NEW p \in Topup \ contested
                 PROVE  credits'[p] = IF topup'[p] = "APPROVED" THEN 1 ELSE 0
      BY <1>3 DEF CreditedOnce
    <2>1. credits[p] = IF topup[p] = "APPROVED" THEN 1 ELSE 0
      BY <1>1 DEF CreditedOnce
    <2>2. CASE x.of = p
      <3>1. topup[p] = "PENDING"
        BY <1>1, <2>2 DEF Deciders
      <3> QED BY <1>4, <2>1, <2>2, <3>1
    <2>3. CASE x.of # p
      BY <1>4, <2>1, <2>3
    <2> QED BY <2>2, <2>3
  <1>18. given' <= funded'
    BY <1>1, <1>3, <1>8, <1>9
  <1>19. ASSUME ~stale PROVE row'.balance = ledger'
    BY <1>1, <1>2, <1>3, <1>19 DEF Balanced, Level
  <1>20. Balanced'
    <2> SUFFICES ASSUME ~stale, NEW u \in Slot PROVE Level(txn[u])'
      BY <1>3, <1>19 DEF Balanced
    <2>1. /\ row.balance = ledger /\ Level(txn[u]) /\ Level(x) /\ Whole(txn[u])
          /\ txn[u] \in Session /\ row \in Row
      BY <1>1 DEF Balanced, TypeOK
    <2>2. CASE u = t
      <3>1. row'.balance = ledger' /\ ledger' \in Int
        BY <1>10, <1>19 DEF TypeOK
      <3> QED BY <1>6, <2>2, <3>1, IdleSession DEF Level, Sees
    <2>3. CASE u # t /\ txn[u].flushed = None
      <3>1. txn[u].entries = 0
        <4>1. row.balance = ledger + txn[u].entries
          BY <2>1, <2>3 DEF Level, Sees
        <4>2. txn[u].entries \in Int /\ ledger \in Int
          BY <1>8, <2>1 DEF Session
        <4> QED BY <2>1, <4>1, <4>2
      <3>2. ~(txn[u].op \in Selling /\ txn[u].pc \in {"deliver", "close"})
        BY <1>9, <2>1, <3>1, IdleSession DEF Whole, Owed
      <3>3. row'.balance = ledger' /\ ledger' \in Int
        BY <1>10, <1>19 DEF TypeOK
      <3> QED BY <1>6, <2>1, <2>3, <3>1, <3>2, <3>3 DEF Level, Sees
    <2>4. CASE u # t /\ txn[u].flushed # None
      <3>1. x.flushed = None
        BY <1>1, <2>4 DEF Lock
      <3>2. row' = row
        BY <1>2, <1>3, <3>1 DEF Sees
      <3>3. x.entries = 0
        BY <1>7, <1>8, <2>1, <3>1 DEF Level, Sees
      <3>4. ledger' = ledger
        BY <1>3, <1>8, <3>3
      <3> QED BY <1>6, <2>1, <2>4, <3>2, <3>4 DEF Level, Sees
    <2> QED BY <2>2, <2>3, <2>4
  <1>21. PaidFor'
    <2> SUFFICES ASSUME ~stale PROVE Cost * Charged' <= funded'
      BY <1>3 DEF PaidFor
    <2> DEFINE spent == Cost * Charged
               paid == Cost * Charged'
    <2>0. /\ paid \in Int /\ spent \in Int /\ funded' \in Nat
          /\ {ledger', given'} \subseteq Int
      BY <1>9, <1>10, <1>23 DEF TypeOK
    <2>1. CASE x.op \in Selling
      <3>1. ledger' >= 0
        BY <1>1, <1>2, <1>3, <1>19, <2>1 DEF Balanced, Level
      <3>2. ledger' = given' - paid
        BY <1>13 DEF LedgerIsTrue, Charged
      <3> HIDE DEF paid
      <3>3. paid <= funded'
        BY <1>18, <2>0, <3>1, <3>2
      <3> QED BY <3>3 DEF paid
    <2>2. CASE x.op \notin Selling
      <3>1. Charged' = Charged /\ funded <= funded' /\ spent <= funded
        BY <1>1, <1>3, <1>8, <1>9, <1>23, <2>2 DEF PaidFor
      <3> QED BY <1>8, <2>0, <3>1
    <2> QED BY <2>1, <2>2
  <1> QED
    BY <1>10, <1>11, <1>12, <1>13, <1>14, <1>15, <1>16, <1>17, <1>18, <1>20, <1>21 DEF IInv

LEMMA NextIInv ==
  ASSUME IInv, [Next]_vars PROVE IInv'
PROOF
  <1>1. CASE UNCHANGED vars
    <2>1. /\ UNCHANGED <<swept, sold, left, txn, trouble, accounts, orphans, stale, contested>>
      BY <1>1 DEF vars, work, swept
    <2>2. {sold, left[0], left[1], accounts, orphans} \subseteq Nat /\ left \in [{0, 1} -> Nat]
      BY DEF IInv, TypeOK
    <2> QED BY <2>1, <2>2, SweptIInv
  <1>2. ASSUME NEW t \in Slot, Begin(t) PROVE IInv'
    BY <1>2, StartIInv, DecideIInv, TrialIInv, NumberAssumption DEF Begin
  <1>3. ASSUME NEW t \in Slot, Step(t) PROVE IInv'
    BY <1>3, LoadIInv, DeclinedIInv, SaveIInv, WriteIInv, DeliverIInv, DeliverTestIInv,
       NotDeliveredIInv, CommitIInv DEF Step
  <1>4. ASSUME NEW t \in Slot, Die(t) PROVE IInv'
    BY <1>4, DieIInv
  <1>5. CASE Sweep
    BY <1>5, DrainIInv, DrainLostIInv DEF Sweep
  <1> QED BY <1>1, <1>2, <1>3, <1>4, <1>5 DEF Next

LEMMA Inductive == Spec => []IInv
PROOF
  <1>1. Init => IInv
    BY InitIInv
  <1>2. IInv /\ [Next]_vars => IInv'
    BY NextIInv
  <1> QED BY <1>1, <1>2, PTL DEF Spec

-----------------------------------------------------------------------------
(* Every variable of the reseller's credit keeps its type. *)
THEOREM TypeCorrect == Spec => []TypeOK
PROOF
  <1>1. IInv => TypeOK
    BY DEF IInv
  <1> QED BY <1>1, Inductive, PTL

(* The ledger is what operators gave less what the delivered sales cost, but for
   those delivered after their refund, for any number of sales, corrections,
   decisions and edits at once. *)
THEOREM LedgerIsAlwaysTrue == Spec => []LedgerIsTrue
PROOF
  <1>1. IInv => LedgerIsTrue
    BY DEF IInv
  <1> QED BY <1>1, Inductive, PTL

(* The balance is the ledger's sum while no save wrote it from an old copy. *)
THEOREM BalanceFollowsLedger == Spec => []BalanceIsLedger
PROOF
  <1>1. IInv => BalanceIsLedger
    BY DEF IInv, Balanced, BalanceIsLedger
  <1> QED BY <1>1, Inductive, PTL

(* With the same exception no sale is delivered on credit nobody gave, but for
   those the sweep delivers after their refund. *)
THEOREM SalesStayFunded == Spec => []SalesAreFunded
PROOF
  <1>1. IInv => SalesAreFunded
    <2> SUFFICES ASSUME IInv, ~stale PROVE Cost * sold <= funded + Cost * GivenAway
      BY DEF SalesAreFunded
    <2>1. sold \in Int /\ GivenAway \in Int /\ funded \in Int /\ Cost \in Int
      BY NumberAssumption DEF IInv, TypeOK, GivenAway
    <2>2. Cost * Charged <= funded
      BY DEF IInv, PaidFor
    <2>3. Cost * sold = Cost * Charged + Cost * GivenAway
      BY <2>1 DEF Charged
    <2> DEFINE all == Cost * sold
               charged == Cost * Charged
               away == Cost * GivenAway
    <2>4. {all, charged, away} \subseteq Int
      BY <2>1 DEF Charged
    <2> HIDE DEF all, charged, away
    <2>5. all = charged + away /\ charged <= funded
      BY <2>2, <2>3 DEF all, charged, away
    <2>6. all <= funded + away
      BY <2>1, <2>4, <2>5
    <2> QED BY <2>6 DEF all, away
  <1> QED BY <1>1, Inductive, PTL

(* A top-up is credited once if approved and never if rejected, unless two
   sessions were deciding it at once. *)
THEOREM TopupsCreditOnce == Spec => []CreditedOnce
PROOF
  <1>1. IInv => CreditedOnce
    BY DEF IInv
  <1> QED BY <1>1, Inductive, PTL

(* Test accounts pass the limit by no more than the requests that overlap. *)
THEOREM TrialsStayBounded == Spec => []TrialsBounded
PROOF
  <1>1. IInv => TrialsBounded
    <2> SUFFICES ASSUME IInv PROVE TrialsBounded
      OBVIOUS
    <2>1. Cardinality(Testing) \in Nat /\ Cardinality(Slot) \in Nat /\ TrialLimit \in Nat
      BY NumberAssumption, FS_Subset, FS_CardinalityType DEF Testing
    <2>2. trials \in Nat /\ TrialsCounted
      BY DEF IInv, TypeOK
    <2> QED BY <2>1, <2>2 DEF TrialsCounted, TrialsBounded
  <1> QED BY <1>1, Inductive, PTL

(* No account a sale made goes unaccounted for. *)
THEOREM AccountsAreAlwaysSold == Spec => []AccountsAreSold
PROOF
  <1>1. IInv => AccountsAreSold
    BY DEF IInv
  <1> QED BY <1>1, Inductive, PTL
=============================================================================
