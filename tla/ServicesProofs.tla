---------------------------- MODULE ServicesProofs ----------------------------
(***************************************************************************)
(* A revoked row, copy or change of a row has no account on the panel: the *)
(* three methods that revoke delete there first, and no answer of a panel  *)
(* is about an account that is gone (IInv).                                *)
(*                                                                         *)
(* And a service that one session at a time works on has a row that tells  *)
(* what the panel does: while the session is at it the copy it works on,   *)
(* the change it is about to make and the row it has flushed stand for the *)
(* committed row, which may lag behind the panel (StoryInv).               *)
(***************************************************************************)
EXTENDS Services, TLAPS

Shape(x) ==
  /\ x.pc \in {"answer", "write"} \/ (x.pc = "ask" /\ x.op # "sync") =>
       x.at \in x.todo /\ x.copy[x.at] # None
  /\ x.pc = "answer" /\ x.op \in Reading \cup {"rotate"} => x.seen[x.at] # None
  /\ x.pc = "answer" /\ x.op \notin Deleting \cup {"resume", "restore", "settings"} =>
       x.copy[x.at].state # "REVOKED"
  /\ x.pc = "write" => x.want # None
  /\ x.pc = "pay" => x.op = "return"
  /\ x.pc # "idle" => x.op # None
  /\ x.op = "refund" => x.told = {}
  /\ x.op \in Batch => \A s \in x.todo : x.copy[s] # None
  /\ x.op = "expire" => \A s \in x.todo : x.copy[s].state = "ACTIVE"
  /\ x.op = "sync" => \A s \in x.todo : x.seen[s] # None => x.copy[s].state # "REVOKED"

\* Against the panel's accounts: whatever is revoked has none there.
Safe(x, p) ==
  /\ \A s \in Service :
       /\ x.copy[s] # None /\ x.copy[s].state = "REVOKED" => p[s] = None
       /\ x.rows[s] # None /\ x.rows[s].state = "REVOKED" => p[s] = None
  /\ x.pc = "write" /\ x.want.state = "REVOKED" => p[x.at] = None
  /\ x.op \in Deleting => \A s \in x.told : p[s] = None
  /\ x.op \in Deleting /\ x.pc \in {"answer", "write"} => p[x.at] = None

IInv ==
  /\ TypeOK /\ RevokedHasNoAccount /\ CreditedHasNoAccount
  /\ \A t \in Slot : Shape(txn[t]) /\ Safe(txn[t], panel)

-----------------------------------------------------------------------------
(* What the aggregate's methods make of a row *)

Keeps(r, q) == q \in Row /\ (q.state = "REVOKED" => r.state = "REVOKED")

LEMMA SetState ==
  ASSUME NEW r \in Row, NEW state \in State
  PROVE  [r EXCEPT !.state = state] \in Row /\ [r EXCEPT !.state = state].state = state
BY DEF Row

LEMMA RecordUsageKeeps ==
  ASSUME NEW r \in Row, NEW used \in Nat PROVE Keeps(r, RecordUsage(r, used))
PROOF
  <1> DEFINE x == [r EXCEPT !.used = IF used > r.used THEN used ELSE r.used]
  <1>1. x \in Row /\ x.state = r.state
    BY DEF Row
  <1>2. Exceeding(x) \in State /\ (Exceeding(x) = "REVOKED" => r.state = "REVOKED")
    BY <1>1 DEF Exceeding, Row, State
  <1>3. RecordUsage(r, used) = [x EXCEPT !.state = Exceeding(x)]
    BY DEF RecordUsage
  <1> HIDE DEF x
  <1> QED BY <1>1, <1>2, <1>3, SetState DEF Keeps

LEMMA ResetKeeps == ASSUME NEW r \in Row PROVE Keeps(r, ResetTraffic(r))
BY DEF ResetTraffic, Keeps, Row, State

LEMMA AddTrafficKeeps == ASSUME NEW r \in Row PROVE Keeps(r, AddTraffic(r))
PROOF
  <1> DEFINE x == [r EXCEPT !.quota = r.quota + 1]
  <1>1. x \in Row /\ x.state = r.state
    BY DEF Row
  <1>2. Revived(x, {"EXHAUSTED"}) \in State
        /\ (Revived(x, {"EXHAUSTED"}) = "REVOKED" => r.state = "REVOKED")
    BY <1>1 DEF Revived, Row, State
  <1>3. AddTraffic(r) = [x EXCEPT !.state = Revived(x, {"EXHAUSTED"})]
    BY DEF AddTraffic
  <1> HIDE DEF x
  <1> QED BY <1>1, <1>2, <1>3, SetState DEF Keeps

LEMMA RenewKeeps == ASSUME NEW r \in Row, NEW n \in Nat PROVE Keeps(r, Renew(r, n))
PROOF
  <1> DEFINE x == [r EXCEPT !.expires = Later(r.expires, n)]
             from == {"EXPIRED", "EXHAUSTED"}
  <1>1. Later(r.expires, n) \in Nat
    BY DEF Later, Row
  <1>2. x \in Row /\ x.state = r.state
    BY <1>1 DEF Row
  <1>3. Revived(x, from) \in State /\ (Revived(x, from) = "REVOKED" => r.state = "REVOKED")
    BY <1>2 DEF Revived, Row, State
  <1>4. Renew(r, n) = [x EXCEPT !.state = Revived(x, from)]
    BY DEF Renew
  <1> HIDE DEF x
  <1> QED BY <1>2, <1>3, <1>4, SetState DEF Keeps

LEMMA RenewOntoKeeps == ASSUME NEW r \in Row, NEW n \in Nat PROVE Keeps(r, RenewOnto(r, n))
PROOF
  <1> DEFINE x == [r EXCEPT !.quota = 1, !.used = 0]
  <1>1. x \in Row /\ x.state = r.state /\ RenewOnto(r, n) = Renew(x, n)
    BY DEF Row, RenewOnto
  <1> HIDE DEF x
  <1> QED BY <1>1, RenewKeeps DEF Keeps

LEMMA SuspendKeeps ==
  ASSUME NEW r \in Row, NEW reason \in Reason PROVE Keeps(r, Suspend(r, reason))
BY DEF Suspend, Keeps, Row, State

LEMMA ResumeKeeps == ASSUME NEW r \in Row, NEW n \in Nat PROVE Keeps(r, Resume(r, n))
PROOF
  <1> DEFINE state == IF Expired(r, n) THEN "EXPIRED" ELSE IF Exhausted(r) THEN "EXHAUSTED" ELSE "ACTIVE"
  <1>1. state \in State /\ state # "REVOKED" /\ None \in Reason
    BY DEF State, Reason
  <1>2. Resume(r, n) = [r EXCEPT !.reason = None, !.state = state]
    BY DEF Resume
  <1> HIDE DEF state
  <1> QED BY <1>1, <1>2 DEF Keeps, Row

LEMMA BecomesRow ==
  ASSUME NEW op \in Kind \cup {"return"}, NEW r \in Row, NEW n \in Nat, NEW account,
         op \in Reading \cup {"rotate"} => account \in Account
  PROVE  /\ Becomes(op, r, n, account) \in Row
         /\ Becomes(op, r, n, account).state = "REVOKED" => op \in Deleting \/ r.state = "REVOKED"
PROOF
  <1> USE DEF Becomes, Deleting, Reading
  <1>1. CASE op = "suspend" \/ op = "stop"
    BY <1>1, SuspendKeeps DEF Keeps, Reason
  <1>2. CASE op \in {"resume", "restore"}
    BY <1>2, ResumeKeeps DEF Keeps
  <1>3. CASE op \in Deleting
    <2>1. Becomes(op, r, n, account) = Revoke(r)
      BY <1>3
    <2>2. Revoke(r) \in Row
      BY SetState DEF Revoke, State
    <2> QED BY <1>3, <2>1, <2>2
  <1>4. CASE op = "expire"
    <2>1. Becomes(op, r, n, account) = [r EXCEPT !.state = "EXPIRED"]
      BY <1>4
    <2> HIDE DEF Becomes
    <2>2. [r EXCEPT !.state = "EXPIRED"] \in Row /\ [r EXCEPT !.state = "EXPIRED"].state = "EXPIRED"
      BY SetState DEF State
    <2> QED BY <2>1, <2>2
  <1>5. CASE op = "rotate"
    <2>1. Becomes(op, r, n, account) = [r EXCEPT !.link = account.link] /\ account.link \in Nat
      BY <1>5 DEF Account
    <2> QED BY <2>1 DEF Row
  <1>6. CASE op \in {"extend", "renew"}
    BY <1>6, RenewKeeps, RenewOntoKeeps DEF Keeps
  <1>7. CASE op = "traffic"
    BY <1>7, AddTrafficKeeps DEF Keeps
  <1>8. CASE op = "reset"
    BY <1>8, ResetKeeps DEF Keeps
  <1>9. CASE op \in Reading
    <2>1. account.used \in Nat /\ Becomes(op, r, n, account) = RecordUsage(r, account.used)
      BY <1>9 DEF Account
    <2> QED BY <2>1, RecordUsageKeeps DEF Keeps
  <1>10. CASE op = "settings"
    BY <1>10
  <1> QED BY <1>1, <1>2, <1>3, <1>4, <1>5, <1>6, <1>7, <1>8, <1>9, <1>10
          DEF Kind, Single, Arrears, Sweeps

LEMMA ToldAccount ==
  ASSUME NEW op \in Kind \cup {"return"}, NEW account \in Account \cup {None},
         account # None \/ op \in Deleting, NEW r \in Row, NEW n \in Nat
  PROVE  /\ Told(op, account, r, n) \in Account \cup {None}
         /\ op \in Deleting => Told(op, account, r, n) = None
         /\ op \notin Deleting => Told(op, account, r, n) # None
PROOF
  <1> USE DEF Told, Deleting
  <1>1. CASE op \in Deleting
    <2>1. Told(op, account, r, n) = None
      BY <1>1 DEF Deleted
    <2> QED BY <1>1, <2>1
  <1>2. CASE op \notin Deleting
    <2>1. account \in Account
      BY <1>2
    <2>2. Told(op, account, r, n) \in Account
      <3>1. CASE op \in {"suspend", "stop"}
        <4>1. Told(op, account, r, n) = [account EXCEPT !.on = FALSE]
          BY <3>1
        <4> QED BY <2>1, <4>1, Zenon DEF Account
      <3>5. CASE op \in {"resume", "restore"}
        <4>1. Told(op, account, r, n) = [account EXCEPT !.on = TRUE]
          BY <3>5
        <4> QED BY <2>1, <4>1, Zenon DEF Account
      <3>6. CASE op = "reset"
        BY <2>1, <3>6 DEF Account
      <3>7. CASE op = "rotate"
        BY <2>1, <3>7 DEF Account
      <3>2. CASE op \in {"extend", "renew"}
        <4>1. Later(account.expires, n) \in Nat
          BY <2>1 DEF Later, Account
        <4> DEFINE on == TRUE
        <4>2. on \in BOOLEAN
          OBVIOUS
        <4> HIDE DEF on
        <4>3. [account EXCEPT !.expires = Later(account.expires, n), !.quota = 1,
                              !.used = 0, !.on = on] \in Account
          BY <2>1, <4>1, <4>2 DEF Account
        <4>4. [account EXCEPT !.expires = Later(account.expires, n), !.quota = 1,
                              !.used = 0, !.on = TRUE] \in Account
          BY <4>3 DEF on
        <4>5. [account EXCEPT !.expires = Later(account.expires, n)] \in Account
          BY <2>1, <4>1 DEF Account
        <4> QED BY <3>2, <4>4, <4>5
      <3>3. CASE op = "traffic"
        BY <2>1, <3>3 DEF Account, Row
      <3>4. CASE op \notin {"suspend", "stop", "resume", "restore", "reset", "rotate",
                            "extend", "renew", "traffic"}
        BY <1>2, <2>1, <3>4
      <3> QED BY <3>1, <3>2, <3>3, <3>4, <3>5, <3>6, <3>7
    <2> QED BY <1>2, <2>2, NoneAssumption
  <1> QED BY <1>1, <1>2

-----------------------------------------------------------------------------
(* Sessions *)

LEMMA NothingHeld == Nothing \in [Service -> Row \cup {None}] /\ Nothing \in [Service -> Account \cup {None}]
BY DEF Nothing

LEMMA IdleSafe == ASSUME NEW p PROVE Idle \in Session /\ Shape(Idle) /\ Safe(Idle, p)
PROOF
  <1>1. Idle \in Session
    BY NothingHeld DEF Idle, Session, Pc
  <1>2. Shape(Idle)
    BY NoneAssumption DEF Idle, Shape, Batch
  <1>3. \A s \in Service : Nothing[s] = None
    BY DEF Nothing
  <1>4. Safe(Idle, p)
    BY <1>3 DEF Idle, Safe
  <1> QED BY <1>1, <1>2, <1>4

\* An account that is gone stays gone, so a session that was safe remains so.
LEMMA SafeLater ==
  ASSUME NEW x \in Session, NEW p, NEW q, Shape(x), Safe(x, p),
         \A s \in Service : p[s] = None => q[s] = None
  PROVE  Safe(x, q)
PROOF
  <1>1. x.pc \in {"answer", "write"} => x.at \in Service
    BY DEF Shape, Session
  <1>2. x.told \subseteq Service
    BY DEF Session
  <1> QED BY <1>1, <1>2 DEF Safe

LEMMA SessionStep ==
  ASSUME IInv, NEW t \in Slot, NEW y \in Session, txn' = [txn EXCEPT ![t] = y],
         Shape(y), Safe(y, panel'),
         panel' \in [Service -> Account \cup {None}],
         \A s \in Service : panel[s] = None => panel'[s] = None,
         sub' \in [Service -> Row],
         \A s \in Service : sub'[s].state = "REVOKED" => panel'[s] = None,
         \A s \in credited' : panel'[s] = None,
         now' \in Nat, trouble' \in Nat,
         {owed', credited', undone', mixed', lifted'} \subseteq SUBSET Service
  PROVE  IInv'
PROOF
  <1>1. txn \in [Slot -> Session]
    BY DEF IInv, TypeOK
  <1>2. txn' \in [Slot -> Session]
    BY <1>1
  <1>3. ASSUME NEW u \in Slot PROVE Shape(txn'[u]) /\ Safe(txn'[u], panel')
    <2>1. CASE u = t
      BY <1>1, <2>1
    <2>2. CASE u # t
      <3>1. txn'[u] = txn[u] /\ txn[u] \in Session
        BY <1>1, <2>2
      <3>2. Shape(txn[u]) /\ Safe(txn[u], panel)
        BY DEF IInv
      <3> QED BY <3>1, <3>2, SafeLater
    <2> QED BY <2>1, <2>2
  <1> QED BY <1>2, <1>3 DEF IInv, TypeOK, RevokedHasNoAccount, CreditedHasNoAccount

\* The same, where the panel and the committed rows stay as they are.
LEMMA QuietStep ==
  ASSUME IInv, NEW t \in Slot, NEW y \in Session, txn' = [txn EXCEPT ![t] = y],
         Shape(y), Safe(y, panel), UNCHANGED <<panel, sub, now, credited>>,
         trouble' \in Nat, {owed', undone', mixed', lifted'} \subseteq SUBSET Service
  PROVE  IInv'
PROOF
  <1>1. panel' = panel /\ sub' = sub /\ now' = now /\ credited' = credited
    OBVIOUS
  <1>2. panel \in [Service -> Account \cup {None}] /\ sub \in [Service -> Row] /\ now \in Nat
        /\ credited \in SUBSET Service
    BY DEF IInv, TypeOK
  <1>3. \A s \in Service : sub[s].state = "REVOKED" => panel[s] = None
    BY DEF IInv, RevokedHasNoAccount
  <1>4. \A s \in credited : panel[s] = None
    BY DEF IInv, CreditedHasNoAccount
  <1> QED BY <1>1, <1>2, <1>3, <1>4, SessionStep

\* The sets that only remember.
LEMMA Remembered ==
  ASSUME IInv
  PROVE  /\ owed \in SUBSET Service /\ credited \in SUBSET Service /\ undone \in SUBSET Service
         /\ mixed \in SUBSET Service /\ lifted \in SUBSET Service
         /\ now \in Nat /\ trouble \in Nat
         /\ sub \in [Service -> Row] /\ panel \in [Service -> Account \cup {None}]
BY DEF IInv, TypeOK

LEMMA Here ==
  ASSUME IInv, NEW t \in Slot
  PROVE  txn[t] \in Session /\ Shape(txn[t]) /\ Safe(txn[t], panel)
BY DEF IInv, TypeOK

LEMMA RowIsThere == \A r \in Row : r # None
BY NoneAssumption

LEMMA ViewRow ==
  ASSUME IInv, NEW t \in Slot, NEW s \in Service
  PROVE  View(t, s) \in Row /\ (View(t, s).state = "REVOKED" => panel[s] = None)
PROOF
  <1>1. txn[t].rows[s] \in Row \cup {None} /\ sub[s] \in Row
    BY Here, Remembered DEF Session
  <1>2. txn[t].rows[s] # None /\ txn[t].rows[s].state = "REVOKED" => panel[s] = None
    BY Here DEF Safe
  <1>3. sub[s].state = "REVOKED" => panel[s] = None
    BY DEF IInv, RevokedHasNoAccount
  <1> QED BY <1>1, <1>2, <1>3 DEF View

-----------------------------------------------------------------------------
(* How a session ends *)

LEMMA SkipShape ==
  ASSUME NEW x \in Session, x.pc # "idle", x.at \in Service, x.op \in Listing, NEW p, NEW q,
         Shape(x), Safe(x, p), \A s \in Service : p[s] = None => q[s] = None,
         NEW y, y = [x EXCEPT !.pc = "next", !.todo = @ \ {x.at}, !.at = None,
                              !.copy = [@ EXCEPT ![x.at] = None], !.told = @ \ {x.at}]
  PROVE  y \in Session /\ Shape(y) /\ Safe(y, q)
PROOF
  <1>1. /\ y.pc = "next" /\ y.op = x.op /\ y.todo = x.todo \ {x.at}
        /\ y.told = x.told \ {x.at} /\ y.rows = x.rows /\ y.seen = x.seen
    BY DEF Session
  <1>2. \A s \in Service : y.copy[s] = IF s = x.at THEN None ELSE x.copy[s]
    BY DEF Session
  <1>3. y \in Session
    BY DEF Session, Pc
  <1>4. Safe(x, q)
    BY SafeLater
  <1>5. x.todo \subseteq Service
    BY DEF Session
  <1>6. Shape(y)
    BY <1>1, <1>2, <1>5 DEF Shape, Listing, Arrears, Batch
  <1>7. Safe(y, q)
    BY <1>1, <1>2, <1>4 DEF Safe
  <1> QED BY <1>3, <1>6, <1>7

\* However a session fails: the panel may have deleted more, never less.
LEMMA FailIInv ==
  ASSUME IInv, NEW t \in Slot, NEW gone, gone \subseteq Service, txn[t].pc # "idle",
         txn[t].at \in Service, Fail(t, gone),
         panel' \in [Service -> Account \cup {None}],
         \A s \in Service : panel[s] = None => panel'[s] = None,
         UNCHANGED <<sub, now, owed, credited, mixed>>,
         trouble' \in Nat, lifted' \in SUBSET Service
  PROVE  IInv'
PROOF
  <1> DEFINE x == txn[t]
             z == [x EXCEPT !.pc = "next", !.todo = @ \ {x.at}, !.at = None,
                            !.copy = [@ EXCEPT ![x.at] = None], !.told = @ \ {x.at}]
  <1>1. x \in Session /\ Shape(x) /\ Safe(x, panel)
    BY Here
  <1>2. x.told \subseteq Service
    BY <1>1 DEF Session
  <1>3. undone' \in SUBSET Service
    BY <1>2, Remembered DEF Fail, Skip, Abort
  <1>4. \A s \in Service : sub'[s].state = "REVOKED" => panel'[s] = None
    BY DEF IInv, RevokedHasNoAccount
  <1>5. \A s \in credited' : panel'[s] = None
    BY Remembered DEF IInv, CreditedHasNoAccount
  <1>6. /\ sub' \in [Service -> Row] /\ now' \in Nat
        /\ {owed', credited', undone', mixed', lifted'} \subseteq SUBSET Service
    BY <1>3, Remembered
  <1>7. CASE x.op \in Listing
    <2>1. txn' = [txn EXCEPT ![t] = z]
      BY <1>7 DEF Fail, Skip
    <2>2. x.pc # "idle" /\ x.at \in Service
      OBVIOUS
    <2> HIDE DEF x
    <2>3. z \in Session /\ Shape(z) /\ Safe(z, panel')
      BY <1>1, <1>7, <2>2, SkipShape
    <2> HIDE DEF z
    <2> QED BY <2>1, <2>3, <1>4, <1>5, <1>6, SessionStep
  <1>8. CASE x.op \notin Listing
    <2>1. txn' = [txn EXCEPT ![t] = Idle]
      BY <1>8 DEF Fail, Abort
    <2>2. Idle \in Session /\ Shape(Idle) /\ Safe(Idle, panel')
      BY IdleSafe
    <2> QED BY <2>1, <2>2, <1>4, <1>5, <1>6, SessionStep
  <1> QED BY <1>7, <1>8

LEMMA AbortIInv ==
  ASSUME IInv, NEW t \in Slot, Abort(t, {}), UNCHANGED <<sub, panel, now, owed, credited, mixed>>,
         trouble' \in Nat, lifted' = lifted
  PROVE  IInv'
PROOF
  <1>1. txn' = [txn EXCEPT ![t] = Idle] /\ undone' = undone \cup txn[t].told \cup {}
    BY DEF Abort
  <1>2. undone' \in SUBSET Service
    BY <1>1, Here, Remembered DEF Session
  <1>3. Idle \in Session /\ Shape(Idle) /\ Safe(Idle, panel)
    BY IdleSafe
  <1>4. {owed', undone', mixed', lifted'} \subseteq SUBSET Service
    BY <1>2, Remembered
  <1> QED BY <1>1, <1>3, <1>4, QuietStep

-----------------------------------------------------------------------------
(* Each action *)

LEMMA InitIInv == Init => IInv
PROOF
  <1> SUFFICES ASSUME Init PROVE IInv
    OBVIOUS
  <1> USE DEF Init
  <1>1. "ACTIVE" \in State /\ None \in Reason
    BY DEF State, Reason
  <1>2. sub \in [Service -> Row]
    BY <1>1 DEF Row
  <1>3. panel \in [Service -> Account]
    BY DEF Account
  <1>4. now \in Nat /\ trouble \in Nat /\ {owed, credited, undone, mixed, lifted} \subseteq SUBSET Service
    OBVIOUS
  <1>5. \A t \in Slot : txn[t] \in Session /\ Shape(txn[t]) /\ Safe(txn[t], panel)
    BY IdleSafe
  <1>6. txn \in [Slot -> Session]
    BY IdleSafe
  <1>7. RevokedHasNoAccount /\ CreditedHasNoAccount
    BY DEF RevokedHasNoAccount, CreditedHasNoAccount
  <1>8. TypeOK
    BY <1>2, <1>3, <1>4, <1>6 DEF TypeOK
  <1> QED BY <1>5, <1>7, <1>8 DEF IInv

LEMMA UseIInv == ASSUME IInv, NEW s \in Service, Use(s) PROVE IInv'
PROOF
  <1>1. panel[s] \in Account
    BY Remembered DEF Use, Carries
  <1>2. [panel[s] EXCEPT !.used = @ + 1] \in Account
    BY <1>1 DEF Account
  <1>3. panel' = [panel EXCEPT ![s] = [panel[s] EXCEPT !.used = @ + 1]]
    BY DEF Use
  <1>4. panel' \in [Service -> Account \cup {None}]
    BY <1>2, <1>3, Remembered
  <1>5. \A v \in Service : panel[v] = None => panel'[v] = None
    BY <1>1, <1>3, NoneAssumption, Remembered
  <1>6. UNCHANGED <<sub, now, owed, credited, txn, trouble, undone, mixed, lifted>>
    BY DEF Use
  <1>7. \A t \in Slot : Shape(txn[t]) /\ Safe(txn[t], panel')
    BY <1>5, Here, SafeLater
  <1>8. TypeOK'
    BY <1>4, <1>6 DEF IInv, TypeOK
  <1>9. RevokedHasNoAccount'
    BY <1>5, <1>6 DEF IInv, RevokedHasNoAccount
  <1>10. CreditedHasNoAccount'
    BY <1>5, <1>6, Remembered DEF IInv, CreditedHasNoAccount
  <1> QED BY <1>6, <1>7, <1>8, <1>9, <1>10 DEF IInv

\* A step that touches neither a session, nor the panel, nor a committed row.
LEMMA AsideIInv ==
  ASSUME IInv, UNCHANGED <<sub, panel, txn, credited, trouble, undone, mixed, lifted>>,
         now' \in Nat, owed' \in SUBSET Service
  PROVE  IInv'
BY DEF IInv, TypeOK, RevokedHasNoAccount, CreditedHasNoAccount

LEMMA OrderIInv == ASSUME IInv, NEW s \in Service, OrderRenewal(s) PROVE IInv'
BY AsideIInv, Remembered DEF OrderRenewal

LEMMA PassIInv == ASSUME IInv, Pass PROVE IInv'
BY AsideIInv, Remembered DEF Pass

LEMMA DieIInv == ASSUME IInv, NEW t \in Slot, Die(t) PROVE IInv'
BY AbortIInv, Remembered DEF Die, Trouble

LEMMA DeclinedIInv ==
  ASSUME IInv, NEW t \in Slot, NEW s \in Service, Declined(t, s) PROVE IInv'
BY AbortIInv, Remembered DEF Declined

LEMMA AboutServices ==
  ASSUME NEW op \in Kind, NEW s \in Service, IInv
  PROVE  About(op, s) \subseteq Service
BY DEF About, Kind, Single, Arrears, Sweeps, Lapsed, LongLapsed, ToStop, ToRestore

LEMMA BeginIInv ==
  ASSUME IInv, NEW t \in Slot, NEW op \in Ops, NEW s \in Service, Begin(t, op, s)
  PROVE  IInv'
PROOF
  <1> DEFINE held == IF op \in Batch THEN About(op, s) ELSE {}
             copy == [v \in Service |-> IF v \in held THEN sub[v] ELSE None]
             pc == IF op = "sync" THEN "ask" ELSE "next"
             y == [Idle EXCEPT !.pc = pc, !.op = op, !.todo = About(op, s), !.copy = copy]
  <1>1. op \in Kind
    BY BoundAssumption
  <1>2. About(op, s) \subseteq Service /\ held \subseteq Service
    BY <1>1, AboutServices
  <1>3. txn' = [txn EXCEPT ![t] = y] /\ UNCHANGED <<panel, sub, now, credited, owed, trouble, undone, lifted>>
    BY DEF Begin
  <1>4. copy \in [Service -> Row \cup {None}] /\ pc \in Pc
    BY Remembered DEF Pc
  <1>5. mixed' \in SUBSET Service
    <2>1. mixed' = mixed \cup {v \in held : \E u \in Slot : InHand(u, v)}
      BY DEF Begin
    <2> QED BY <2>1, <1>2, Remembered
  <1>6. \A v \in Service : /\ v \in held => copy[v] = sub[v]
                           /\ v \notin held => copy[v] = None
    OBVIOUS
  <1>7. op = "sync" => held = Service
    BY DEF About, Batch
  <1>8. op = "expire" => held = About(op, s) /\ \A v \in held : sub[v].state = "ACTIVE"
    BY DEF About, Batch, Lapsed
  <1>9. op \in Batch => held = About(op, s)
    OBVIOUS
  <1>10. \A v \in Service : sub[v] # None /\ (sub[v].state = "REVOKED" => panel[v] = None)
    BY Remembered, RowIsThere DEF IInv, RevokedHasNoAccount
  <1>11. pc \in {"ask", "next"} /\ (pc = "ask" <=> op = "sync")
    OBVIOUS
  <1> HIDE DEF held, copy, pc
  <1>12. y \in Session
    BY <1>1, <1>2, <1>4, IdleSafe DEF Session
  <1>13. /\ y.pc = pc /\ y.op = op /\ y.todo = About(op, s) /\ y.copy = copy
         /\ y.seen = Nothing /\ y.told = {} /\ y.rows = Nothing
    BY DEF Idle
  <1>14. \A v \in Service : Nothing[v] = None
    BY DEF Nothing
  <1> HIDE DEF y
  <1>15. op # None
    BY <1>1, NoneAssumption
  <1>16. Shape(y)
    BY <1>2, <1>6, <1>8, <1>9, <1>10, <1>11, <1>13, <1>14, <1>15 DEF Shape
  <1>17. Safe(y, panel)
    BY <1>6, <1>10, <1>11, <1>13, <1>14 DEF Safe
  <1> QED BY <1>3, <1>5, <1>12, <1>16, <1>17, Remembered, QuietStep

LEMMA CommitIInv == ASSUME IInv, NEW t \in Slot, Commit(t) PROVE IInv'
PROOF
  <1> DEFINE x == txn[t]
             z == [x EXCEPT !.copy = Nothing, !.rows = Nothing, !.told = {}]
             y == IF x.todo = {} THEN Idle ELSE z
  <1>1. x \in Session /\ Shape(x) /\ Safe(x, panel)
    BY Here
  <1>2. txn' = [txn EXCEPT ![t] = y] /\ UNCHANGED <<panel, now, credited, trouble, undone, mixed, lifted>>
    BY DEF Commit
  <1>3. sub' = [s \in Service |-> View(t, s)]
    BY DEF Commit
  <1>4. sub' \in [Service -> Row] /\ \A s \in Service : sub'[s].state = "REVOKED" => panel[s] = None
    BY <1>3, ViewRow
  <1>5. owed' \in SUBSET Service
    BY Remembered DEF Commit
  <1>6. x.pc = "next" /\ (x.todo = {} \/ x.op = "clean")
    BY DEF Commit
  <1>7. \A s \in credited : panel'[s] = None
    BY <1>2 DEF IInv, CreditedHasNoAccount
  <1> HIDE DEF x
  <1>8. z \in Session
    BY <1>1, NothingHeld DEF Session
  <1>9. z.pc = x.pc /\ z.op = x.op /\ z.todo = x.todo /\ z.copy = Nothing /\ z.rows = Nothing /\ z.told = {}
    BY <1>1 DEF Session
  <1> HIDE DEF z
  <1>10. Shape(y) /\ Safe(y, panel) /\ y \in Session
    <2>1. CASE x.todo = {}
      BY <2>1, IdleSafe
    <2>2. CASE x.todo # {}
      <3>1. y = z /\ x.op = "clean" /\ z.pc = "next"
        BY <2>2, <1>6, <1>9
      <3>2. \A s \in Service : Nothing[s] = None
        BY DEF Nothing
      <3>3. Shape(z)
        BY <1>1, <1>9, <3>1 DEF Shape, Batch
      <3>4. Safe(z, panel)
        BY <1>9, <3>1, <3>2 DEF Safe
      <3> QED BY <3>1, <3>3, <3>4, <1>8
    <2> QED BY <2>1, <2>2
  <1> HIDE DEF y
  <1>11. /\ panel' \in [Service -> Account \cup {None}] /\ now' \in Nat /\ trouble' \in Nat
         /\ {owed', credited', undone', mixed', lifted'} \subseteq SUBSET Service
    BY <1>2, <1>5, Remembered
  <1>12. panel' = panel
    BY <1>2
  <1> QED BY <1>2, <1>4, <1>7, <1>10, <1>11, <1>12, SessionStep

LEMMA LoadIInv == ASSUME IInv, NEW t \in Slot, NEW s \in Service, Load(t, s) PROVE IInv'
PROOF
  <1> DEFINE x == txn[t]
             pc == IF x.op \in Local THEN "answer" ELSE "ask"
             y == [x EXCEPT !.pc = pc, !.at = s, !.copy = [@ EXCEPT ![s] = View(t, s)]]
  <1>1. x \in Session /\ Shape(x) /\ Safe(x, panel)
    BY Here
  <1>2. View(t, s) \in Row /\ (View(t, s).state = "REVOKED" => panel[s] = None)
    BY ViewRow
  <1>3. txn' = [txn EXCEPT ![t] = y] /\ UNCHANGED <<sub, panel, now, owed, credited, trouble, undone, lifted>>
    BY DEF Load
  <1>4. mixed' \in SUBSET Service
    BY Remembered DEF Load
  <1>5. x.pc = "next" /\ s \in x.todo /\ x.op \notin Batch
    BY DEF Load, Turns
  <1>6. pc \in {"answer", "ask"} /\ (pc = "answer" => x.op = "settings")
    BY <1>5 DEF Local, Batch
  <1> DEFINE row == View(t, s)
  <1>7. row \in Row /\ row # None /\ (row.state = "REVOKED" => panel[s] = None)
    BY <1>2, RowIsThere
  <1> HIDE DEF x, pc, row
  <1> DEFINE copy == [x.copy EXCEPT ![s] = row]
  <1>8. y = [x EXCEPT !.pc = pc, !.at = s, !.copy = copy]
    BY DEF row
  <1>9. /\ copy \in [Service -> Row \cup {None}]
        /\ \A v \in Service : copy[v] = IF v = s THEN row ELSE x.copy[v]
    BY <1>1, <1>7 DEF Session
  <1> HIDE DEF copy, y
  <1>10. /\ y.pc = pc /\ y.at = s /\ y.op = x.op /\ y.todo = x.todo /\ y.told = x.told
         /\ y.rows = x.rows /\ y.want = x.want /\ y.seen = x.seen
         /\ \A v \in Service : y.copy[v] = IF v = s THEN row ELSE x.copy[v]
    BY <1>1, <1>8, <1>9 DEF Session
  <1>11. y \in Session
    BY <1>1, <1>6, <1>8, <1>9 DEF Session, Pc
  <1>12. Shape(y)
    BY <1>1, <1>5, <1>6, <1>7, <1>9, <1>10 DEF Shape, Batch, Reading, Deleting
  <1>13. Safe(y, panel)
    BY <1>1, <1>6, <1>7, <1>9, <1>10 DEF Safe, Deleting
  <1> QED BY <1>3, <1>4, <1>11, <1>12, <1>13, Remembered, QuietStep

LEMMA TurnIInv == ASSUME IInv, NEW t \in Slot, NEW s \in Service, Turn(t, s) PROVE IInv'
PROOF
  <1> DEFINE x == txn[t]
             z == [x EXCEPT !.todo = @ \ {s}]
             w == [x EXCEPT !.pc = "answer", !.at = s]
  <1>1. x \in Session /\ Shape(x) /\ Safe(x, panel)
    BY Here
  <1>2. /\ \/ txn' = [txn EXCEPT ![t] = z]
           \/ txn' = [txn EXCEPT ![t] = w] /\ (x.op = "sync" => x.seen[s] # None)
        /\ UNCHANGED <<sub, panel, now, owed, credited, trouble, undone, mixed, lifted>>
    BY DEF Turn
  <1>3. x.pc = "next" /\ s \in x.todo /\ x.op \in {"sync", "expire"}
    BY DEF Turn, Turns, Batch
  <1> HIDE DEF x
  <1>4. CASE txn' = [txn EXCEPT ![t] = z]
    <2>1. z \in Session /\ z.pc = x.pc /\ z.op = x.op /\ z.todo = x.todo \ {s} /\ z.told = x.told
          /\ z.rows = x.rows /\ z.copy = x.copy /\ z.seen = x.seen
      BY <1>1 DEF Session
    <2> HIDE DEF z
    <2>2. Shape(z) /\ Safe(z, panel)
      BY <1>1, <1>3, <2>1 DEF Shape, Safe
    <2> QED BY <1>2, <1>4, <2>1, <2>2, Remembered, QuietStep
  <1>5. CASE txn' = [txn EXCEPT ![t] = w] /\ (x.op = "sync" => x.seen[s] # None)
    <2>1. /\ w \in Session /\ w.pc = "answer" /\ w.at = s /\ w.op = x.op /\ w.todo = x.todo
          /\ w.told = x.told /\ w.rows = x.rows /\ w.copy = x.copy /\ w.seen = x.seen
      BY <1>1 DEF Session, Pc
    <2> HIDE DEF w
    <2>2. Shape(w)
      BY <1>1, <1>3, <1>5, <2>1 DEF Shape, Batch, Reading
    <2>3. Safe(w, panel)
      BY <1>1, <1>3, <2>1 DEF Safe, Deleting
    <2> QED BY <1>2, <1>5, <2>1, <2>2, <2>3, Remembered, QuietStep
  <1> QED BY <1>2, <1>4, <1>5

LEMMA ReadAllIInv == ASSUME IInv, NEW t \in Slot, ReadAll(t) PROVE IInv'
PROOF
  <1> DEFINE x == txn[t]
             z == [x EXCEPT !.pc = "next", !.seen = panel]
             w == [x EXCEPT !.pc = "next", !.todo = {}]
  <1>1. x \in Session /\ Shape(x) /\ Safe(x, panel)
    BY Here
  <1>2. /\ txn' = [txn EXCEPT ![t] = z] \/ txn' = [txn EXCEPT ![t] = w]
        /\ trouble' \in Nat /\ UNCHANGED <<sub, panel, now, owed, credited, undone, mixed, lifted>>
    <2>1. txn' = [txn EXCEPT ![t] = z] \/ txn' = [txn EXCEPT ![t] = w]
      BY DEF ReadAll
    <2>2. trouble' = trouble \/ trouble' = trouble + 1
      BY DEF ReadAll, Trouble
    <2>3. UNCHANGED <<sub, panel, now, owed, credited, undone, mixed, lifted>>
      BY DEF ReadAll
    <2> HIDE DEF z, w
    <2> QED BY <2>1, <2>2, <2>3, Remembered
  <1>3. x.pc = "ask" /\ x.op = "sync"
    BY DEF ReadAll
  <1>4. panel \in [Service -> Account \cup {None}]
    BY Remembered
  <1> HIDE DEF x
  <1>5. CASE txn' = [txn EXCEPT ![t] = z]
    <2>1. /\ z \in Session /\ z.pc = "next" /\ z.op = x.op /\ z.todo = x.todo /\ z.told = x.told
          /\ z.rows = x.rows /\ z.copy = x.copy /\ z.seen = panel
      BY <1>1, <1>4 DEF Session, Pc
    <2>2. x.todo \subseteq Service
      BY <1>1 DEF Session
    <2> HIDE DEF z
    <2>3. Shape(z)
      BY <1>1, <1>3, <2>1, <2>2 DEF Shape, Safe, Batch
    <2>4. Safe(z, panel)
      BY <1>1, <1>3, <2>1 DEF Safe
    <2> QED BY <1>2, <1>5, <2>1, <2>3, <2>4, Remembered, QuietStep
  <1>6. CASE txn' = [txn EXCEPT ![t] = w]
    <2>1. /\ w \in Session /\ w.pc = "next" /\ w.op = x.op /\ w.todo = {} /\ w.told = x.told
          /\ w.rows = x.rows /\ w.copy = x.copy /\ w.seen = x.seen
      BY <1>1 DEF Session, Pc
    <2> HIDE DEF w
    <2>2. Shape(w) /\ Safe(w, panel)
      BY <1>1, <1>3, <2>1 DEF Shape, Safe
    <2> QED BY <1>2, <1>6, <2>1, <2>2, Remembered, QuietStep
  <1> QED BY <1>2, <1>5, <1>6

\* A panel that answers: what it did, and why the copy was not a revoked one.
LEMMA Effected ==
  ASSUME IInv, NEW t \in Slot, Asking(t), Answers(t), Effect(t),
         NEW s, s = txn[t].at
  PROVE  /\ s \in txn[t].todo /\ s \in Service /\ txn[t].copy[s] \in Row
         /\ Told(txn[t].op, panel[s], txn[t].copy[s], now) \in Account \cup {None}
         /\ panel' \in [Service -> Account \cup {None}]
         /\ \A v \in Service : panel[v] = None => panel'[v] = None
         /\ txn[t].op \in Deleting => panel'[s] = None
         /\ txn[t].op \notin Deleting =>
              /\ Told(txn[t].op, panel[s], txn[t].copy[s], now) # None
              /\ txn[t].copy[s].state # "REVOKED"
         /\ lifted' \in SUBSET Service
PROOF
  <1> DEFINE x == txn[t]
             r == x.copy[s]
             account == Told(x.op, panel[s], r, now)
  <1>1. x \in Session /\ Shape(x) /\ Safe(x, panel)
    BY Here
  <1>2. x.pc = "ask" /\ x.op # "sync"
    BY DEF Asking
  <1>3. s \in x.todo /\ r # None /\ x.op # None
    BY <1>1, <1>2 DEF Shape
  <1>4. s \in Service /\ r \in Row /\ x.op \in Kind \cup {"return"}
    BY <1>1, <1>3 DEF Session
  <1>5. panel[s] # None \/ x.op \in Deleting
    BY DEF Answers
  <1>6. panel[s] \in Account \cup {None} /\ now \in Nat
    BY <1>4, Remembered
  <1>7. /\ account \in Account \cup {None}
        /\ x.op \in Deleting => account = None
        /\ x.op \notin Deleting => account # None
    BY <1>4, <1>5, <1>6, ToldAccount
  <1>8. panel' = [panel EXCEPT ![s] = account]
    BY DEF Effect
  <1>9. lifted' \in SUBSET Service
    BY <1>4, Remembered DEF Effect
  <1>10. x.op \notin Deleting => r.state # "REVOKED"
    BY <1>1, <1>3, <1>4, <1>5 DEF Safe
  <1> HIDE DEF account
  <1>11. panel' \in [Service -> Account \cup {None}]
    BY <1>7, <1>8, Remembered
  <1>12. \A v \in Service : panel[v] = None => panel'[v] = None
    BY <1>4, <1>5, <1>7, <1>8, Remembered
  <1>13. panel'[s] = account
    BY <1>4, <1>8, Remembered
  <1> QED BY <1>3, <1>4, <1>7, <1>9, <1>10, <1>11, <1>12, <1>13 DEF account

LEMMA AskIInv == ASSUME IInv, NEW t \in Slot, Ask(t) PROVE IInv'
PROOF
  <1> DEFINE x == txn[t]
             s == x.at
             account == Told(x.op, panel[s], x.copy[s], now)
             told == IF Tells(x.op) THEN x.told \cup {s} ELSE x.told
             y == [x EXCEPT !.pc = "answer", !.seen = [@ EXCEPT ![s] = account], !.told = told]
  <1>1. x \in Session /\ Shape(x) /\ Safe(x, panel)
    BY Here
  <1>2. /\ Asking(t) /\ Answers(t) /\ Effect(t) /\ txn' = [txn EXCEPT ![t] = y]
        /\ UNCHANGED <<sub, now, owed, credited, trouble, undone, mixed>>
    BY DEF Ask
  <1>3. /\ s \in x.todo /\ s \in Service /\ x.copy[s] \in Row
        /\ account \in Account \cup {None}
        /\ panel' \in [Service -> Account \cup {None}]
        /\ \A v \in Service : panel[v] = None => panel'[v] = None
        /\ x.op \in Deleting => panel'[s] = None
        /\ x.op \notin Deleting => account # None /\ x.copy[s].state # "REVOKED"
        /\ lifted' \in SUBSET Service
    BY <1>2, Effected
  <1>4. x.pc = "ask" /\ x.op # "sync"
    BY <1>2 DEF Asking
  <1>5. x.copy[s] # None
    BY <1>3, RowIsThere
  <1>6. told \subseteq x.told \cup {s} /\ (x.op = "refund" => told = x.told) /\ told \subseteq Service
    BY <1>1, <1>3 DEF Tells, Session
  <1>7. Safe(x, panel')
    BY <1>1, <1>3, SafeLater
  <1>8. /\ \A v \in Service : sub'[v].state = "REVOKED" => panel'[v] = None
        /\ \A v \in credited' : panel'[v] = None
    BY <1>2, <1>3, Remembered DEF IInv, RevokedHasNoAccount, CreditedHasNoAccount
  <1>9. /\ sub' \in [Service -> Row] /\ now' \in Nat /\ trouble' \in Nat
        /\ {owed', credited', undone', mixed', lifted'} \subseteq SUBSET Service
    BY <1>2, <1>3, Remembered
  <1> HIDE DEF x, account, told
  <1>10. y \in Session
    BY <1>1, <1>3, <1>6 DEF Session, Pc
  <1>11. /\ y.pc = "answer" /\ y.op = x.op /\ y.todo = x.todo /\ y.at = s /\ y.copy = x.copy
         /\ y.rows = x.rows /\ y.want = x.want /\ y.told = told /\ y.seen[s] = account
    BY <1>1, <1>3 DEF Session
  <1> HIDE DEF y
  <1>12. Shape(y)
    BY <1>1, <1>3, <1>4, <1>5, <1>6, <1>11 DEF Shape, Reading, Deleting
  <1>13. Safe(y, panel')
    BY <1>3, <1>6, <1>7, <1>11 DEF Safe
  <1> HIDE DEF s
  <1> QED BY <1>2, <1>3, <1>8, <1>9, <1>10, <1>12, <1>13, SessionStep

LEMMA AnswerLostIInv == ASSUME IInv, NEW t \in Slot, AnswerLost(t) PROVE IInv'
PROOF
  <1> DEFINE s == txn[t].at
  <1>1. /\ Asking(t) /\ Answers(t) /\ Effect(t) /\ Fail(t, {s})
        /\ trouble' = trouble + 1 /\ UNCHANGED <<sub, now, owed, credited, mixed>>
    BY DEF AnswerLost, Trouble
  <1>2. /\ s \in Service /\ panel' \in [Service -> Account \cup {None}]
        /\ \A v \in Service : panel[v] = None => panel'[v] = None
        /\ lifted' \in SUBSET Service
    BY <1>1, Effected
  <1>3. txn[t].pc # "idle"
    BY <1>1 DEF Asking
  <1>4. trouble' \in Nat
    BY <1>1, Remembered
  <1> QED BY <1>1, <1>2, <1>3, <1>4, FailIInv

\* A failure that leaves the panel alone.
LEMMA StillFails ==
  ASSUME IInv, NEW t \in Slot, NEW gone \in SUBSET Service, txn[t].pc # "idle",
         txn[t].at \in Service, Fail(t, gone),
         UNCHANGED <<sub, panel, now, owed, credited, mixed, lifted>>, trouble' \in Nat
  PROVE  IInv'
PROOF
  <1>1. /\ panel' \in [Service -> Account \cup {None}] /\ lifted' \in SUBSET Service
        /\ \A v \in Service : panel[v] = None => panel'[v] = None
    BY Remembered
  <1>2. UNCHANGED <<sub, now, owed, credited, mixed>>
    OBVIOUS
  <1> QED BY <1>1, <1>2, FailIInv

LEMMA PanelRefusesIInv == ASSUME IInv, NEW t \in Slot, PanelRefuses(t) PROVE IInv'
PROOF
  <1>1. txn[t].pc = "ask" /\ txn[t].op # "sync"
    BY DEF PanelRefuses, Asking
  <1>2. txn[t].at \in Service
    BY <1>1, Here DEF Shape, Session
  <1>3. trouble' \in Nat
    BY Remembered DEF PanelRefuses, Trouble
  <1>4. Fail(t, {}) /\ UNCHANGED <<sub, panel, now, owed, credited, mixed, lifted>>
    BY DEF PanelRefuses
  <1>5. {} \in SUBSET Service /\ txn[t].pc # "idle"
    BY <1>1
  <1> QED BY <1>2, <1>3, <1>4, <1>5, StillFails

LEMMA RaiseIInv == ASSUME IInv, NEW t \in Slot, Raise(t) PROVE IInv'
PROOF
  <1> DEFINE gone == txn[t].told \cap {txn[t].at}
  <1>1. txn[t].pc = "answer"
    BY DEF Raise
  <1>2. txn[t].at \in Service /\ gone \in SUBSET Service
    BY <1>1, Here DEF Shape, Session
  <1>3. Fail(t, gone) /\ trouble' \in Nat
        /\ UNCHANGED <<sub, panel, now, owed, credited, mixed, lifted>>
    BY Remembered DEF Raise
  <1>4. txn[t].pc # "idle"
    BY <1>1
  <1> HIDE DEF gone
  <1> QED BY <1>2, <1>3, <1>4, StillFails

\* An aggregate changed and about to be written.
Ready(x, p) ==
  /\ x.at \in x.todo /\ x.want \in Row /\ x.op # None
  /\ x.want.state = "REVOKED" => p[x.at] = None
  /\ x.op = "refund" => x.told = {}
  /\ x.op \in Batch => \A s \in x.todo : x.copy[s] # None
  /\ x.op = "expire" => \A s \in x.todo : x.copy[s].state = "ACTIVE"
  /\ x.op = "sync" => \A s \in x.todo : x.seen[s] # None => x.copy[s].state # "REVOKED"
  /\ \A s \in Service :
       /\ x.copy[s] # None /\ x.copy[s].state = "REVOKED" => p[s] = None
       /\ x.rows[s] # None /\ x.rows[s].state = "REVOKED" => p[s] = None
  /\ x.op \in Deleting => \A s \in x.told : p[s] = None

LEMMA MergedRow ==
  ASSUME IInv, NEW t \in Slot, NEW x \in Session, Ready(x, panel)
  PROVE  Merged(t, x) \in Row /\ (Merged(t, x).state = "REVOKED" => panel[x.at] = None)
PROOF
  <1> DEFINE v == View(t, x.at)
  <1>1. x.at \in Service /\ x.want \in Row /\ (x.want.state = "REVOKED" => panel[x.at] = None)
    BY DEF Ready, Session
  <1>2. v \in Row /\ (v.state = "REVOKED" => panel[x.at] = None)
    BY <1>1, ViewRow
  <1>3. Merged(t, x) = [c \in Column |-> IF c \in x.cols THEN x.want[c] ELSE v[c]]
    BY DEF Merged
  <1> HIDE DEF v
  <1>4. Merged(t, x) \in Row
    BY <1>1, <1>2, <1>3 DEF Row, Column
  <1>5. Merged(t, x).state \in {x.want.state, v.state}
    BY <1>3 DEF Column
  <1> QED BY <1>1, <1>2, <1>4, <1>5

LEMMA WrittenSafe ==
  ASSUME IInv, NEW t \in Slot, NEW x \in Session, Ready(x, panel)
  PROVE  Written(t, x) \in Session /\ Shape(Written(t, x)) /\ Safe(Written(t, x), panel)
PROOF
  <1> DEFINE row == Merged(t, x)
             rows == IF Silent(x) THEN x.rows ELSE [x.rows EXCEPT ![x.at] = row]
             y == [x EXCEPT !.at = None, !.want = None, !.cols = {}, !.rows = rows]
             pc == IF x.op = "return" THEN "pay" ELSE "next"
             z == [y EXCEPT !.pc = pc, !.todo = @ \ {x.at}]
             w == [y EXCEPT !.pc = "next", !.op = "return"]
  <1>1. row \in Row /\ (row.state = "REVOKED" => panel[x.at] = None)
    BY MergedRow
  <1>2. /\ x.op # "refund" => Written(t, x) = z
        /\ x.op = "refund" => Written(t, x) \in {Idle, w}
    BY DEF Written
  <1>3. pc \in {"pay", "next"} /\ (pc = "pay" <=> x.op = "return")
    OBVIOUS
  <1> HIDE DEF row
  <1>4. x.at \in Service
    BY DEF Ready, Session
  <1>5. /\ rows \in [Service -> Row \cup {None}]
        /\ \A s \in Service : rows[s] \in {x.rows[s], IF s = x.at THEN row ELSE x.rows[s]}
    BY <1>1, <1>4 DEF Session
  <1> HIDE DEF rows, pc
  <1>6. y \in Session
    BY <1>5 DEF Session
  <1>7. /\ y.pc = x.pc /\ y.op = x.op /\ y.todo = x.todo /\ y.at = None /\ y.copy = x.copy
        /\ y.seen = x.seen /\ y.rows = rows /\ y.told = x.told
    BY DEF Session
  <1> HIDE DEF y
  <1>8. z \in Session /\ w \in Session
    BY <1>3, <1>6 DEF Session, Pc
  <1>9. /\ z.pc = pc /\ z.op = x.op /\ z.todo = x.todo \ {x.at} /\ z.copy = x.copy
        /\ z.seen = x.seen /\ z.rows = rows /\ z.told = x.told
    BY <1>6, <1>7 DEF Session
  <1>10. /\ w.pc = "next" /\ w.op = "return" /\ w.copy = x.copy
         /\ w.rows = rows /\ w.told = x.told
    BY <1>6, <1>7 DEF Session
  <1> HIDE DEF z, w
  <1>11. \A s \in Service : rows[s] # None /\ rows[s].state = "REVOKED" => panel[s] = None
    BY <1>1, <1>5 DEF Ready
  <1>12. Shape(z)
    BY <1>3, <1>9 DEF Ready, Shape
  <1>13. Safe(z, panel)
    BY <1>3, <1>9, <1>11 DEF Ready, Safe
  <1>14. x.op = "refund" => Shape(w)
    BY <1>10, NoneAssumption DEF Shape, Batch
  <1>15. x.op = "refund" => Safe(w, panel)
    BY <1>10, <1>11 DEF Ready, Safe
  <1> QED BY <1>2, <1>8, <1>12, <1>13, <1>14, <1>15, IdleSafe

LEMMA WriteIInv == ASSUME IInv, NEW t \in Slot, Write(t) PROVE IInv'
PROOF
  <1> DEFINE x == txn[t]
  <1>1. x \in Session /\ Shape(x) /\ Safe(x, panel)
    BY Here
  <1>2. x.pc = "write" /\ txn' = [txn EXCEPT ![t] = Written(t, x)]
        /\ UNCHANGED <<sub, panel, now, owed, credited, trouble, undone, mixed, lifted>>
    BY DEF Write
  <1> HIDE DEF x
  <1>3. x.want \in Row
    BY <1>1, <1>2 DEF Shape, Session
  <1>4. Ready(x, panel)
    BY <1>1, <1>2, <1>3 DEF Ready, Shape, Safe
  <1>5. Written(t, x) \in Session /\ Shape(Written(t, x)) /\ Safe(Written(t, x), panel)
    BY <1>1, <1>4, WrittenSafe
  <1> QED BY <1>2, <1>5, Remembered, QuietStep

LEMMA ChangeIInv == ASSUME IInv, NEW t \in Slot, Change(t) PROVE IInv'
PROOF
  <1> DEFINE x == txn[t]
             s == x.at
             r == Becomes(x.op, x.copy[s], now, x.seen[s])
             cols == {c \in Column : r[c] # View(t, s)[c]}
             y == [x EXCEPT !.want = r, !.cols = cols, !.seen = [@ EXCEPT ![s] = None]]
             z == [y EXCEPT !.pc = "write"]
  <1>1. x \in Session /\ Shape(x) /\ Safe(x, panel)
    BY Here
  <1>2. /\ x.pc = "answer"
        /\ txn' = [txn EXCEPT ![t] = Written(t, y)] \/ txn' = [txn EXCEPT ![t] = z]
        /\ UNCHANGED <<sub, panel, now, owed, credited, trouble, undone, mixed, lifted>>
    BY DEF Change
  <1>3. s \in x.todo /\ s \in Service /\ x.copy[s] \in Row /\ x.op # None
        /\ x.op \in Kind \cup {"return"}
    BY <1>1, <1>2 DEF Shape, Session
  <1>4. x.op \in Reading \cup {"rotate"} => x.seen[s] \in Account
    BY <1>1, <1>2, <1>3 DEF Shape, Session
  <1>5. r \in Row /\ (r.state = "REVOKED" => x.op \in Deleting \/ x.copy[s].state = "REVOKED")
    BY <1>3, <1>4, BecomesRow, Remembered
  <1>6. x.copy[s] # None
    BY <1>3, RowIsThere
  <1>7. r.state = "REVOKED" => panel[s] = None
    BY <1>1, <1>2, <1>3, <1>5, <1>6 DEF Safe
  <1>8. cols \subseteq Column
    OBVIOUS
  <1> HIDE DEF x, r, cols
  <1>9. y \in Session
    BY <1>1, <1>3, <1>5, <1>8 DEF Session
  <1>10. /\ y.pc = x.pc /\ y.op = x.op /\ y.todo = x.todo /\ y.at = s /\ y.copy = x.copy
         /\ y.rows = x.rows /\ y.want = r /\ y.told = x.told
         /\ \A v \in Service : y.seen[v] = IF v = s THEN None ELSE x.seen[v]
    BY <1>1, <1>3 DEF Session
  <1> HIDE DEF y, s
  <1>11. x.todo \subseteq Service
    BY <1>1 DEF Session
  <1>12. Ready(y, panel)
    BY <1>1, <1>3, <1>5, <1>7, <1>10, <1>11 DEF Ready, Shape, Safe
  <1>13. CASE txn' = [txn EXCEPT ![t] = Written(t, y)]
    <2>1. Written(t, y) \in Session /\ Shape(Written(t, y)) /\ Safe(Written(t, y), panel)
      BY <1>9, <1>12, WrittenSafe
    <2> QED BY <1>2, <1>13, <2>1, Remembered, QuietStep
  <1>14. CASE txn' = [txn EXCEPT ![t] = z]
    <2>1. z \in Session
      BY <1>9 DEF Session, Pc
    <2>2. /\ z.pc = "write" /\ z.op = y.op /\ z.todo = y.todo /\ z.at = y.at /\ z.copy = y.copy
          /\ z.rows = y.rows /\ z.want = y.want /\ z.told = y.told /\ z.seen = y.seen
      BY <1>9 DEF Session
    <2> HIDE DEF z
    <2>3. y.copy[y.at] # None /\ y.want # None
      BY <1>5, <1>6, <1>10, RowIsThere DEF s
    <2>4. Shape(z)
      BY <1>12, <2>2, <2>3 DEF Ready, Shape
    <2>5. x.op \in Deleting => panel[y.at] = None
      BY <1>1, <1>2, <1>10 DEF Safe, s
    <2>6. Safe(z, panel)
      BY <1>10, <1>12, <2>2, <2>5 DEF Ready, Safe
    <2> QED BY <1>2, <1>14, <2>1, <2>4, <2>6, Remembered, QuietStep
  <1> QED BY <1>2, <1>13, <1>14

LEMMA CreditIInv == ASSUME IInv, NEW t \in Slot, Credit(t) PROVE IInv'
PROOF
  <1> DEFINE x == txn[t]
             y == [x EXCEPT !.pc = "next"]
  <1>1. x \in Session /\ Shape(x) /\ Safe(x, panel)
    BY Here
  <1>2. /\ x.pc = "pay" /\ credited' = credited \cup x.told /\ txn' = [txn EXCEPT ![t] = y]
        /\ UNCHANGED <<sub, panel, now, owed, trouble, undone, mixed, lifted>>
    BY DEF Credit
  <1> HIDE DEF x
  <1>3. x.op = "return" /\ x.told \subseteq Service /\ \A s \in x.told : panel[s] = None
    BY <1>1, <1>2 DEF Shape, Safe, Session, Deleting
  <1>4. /\ \A s \in Service : sub'[s].state = "REVOKED" => panel'[s] = None
        /\ \A s \in credited' : panel'[s] = None
    BY <1>2, <1>3, Remembered DEF IInv, RevokedHasNoAccount, CreditedHasNoAccount
  <1>5. /\ sub' \in [Service -> Row] /\ now' \in Nat /\ trouble' \in Nat
        /\ panel' \in [Service -> Account \cup {None}]
        /\ {owed', credited', undone', mixed', lifted'} \subseteq SUBSET Service
    BY <1>2, <1>3, Remembered
  <1>6. /\ y \in Session /\ y.pc = "next" /\ y.op = x.op /\ y.todo = x.todo /\ y.copy = x.copy
        /\ y.rows = x.rows /\ y.told = x.told /\ y.seen = x.seen
    BY <1>1 DEF Session, Pc
  <1> HIDE DEF y
  <1>7. Shape(y) /\ Safe(y, panel)
    BY <1>1, <1>2, <1>6 DEF Shape, Safe
  <1>8. panel' = panel
    BY <1>2
  <1> QED BY <1>2, <1>4, <1>5, <1>6, <1>7, <1>8, SessionStep

-----------------------------------------------------------------------------
(* The theorems *)

LEMMA NextIInv == IInv /\ [Next]_vars => IInv'
PROOF
  <1> SUFFICES ASSUME IInv, [Next]_vars PROVE IInv'
    OBVIOUS
  <1>1. CASE UNCHANGED vars
    BY <1>1 DEF vars, IInv, TypeOK, RevokedHasNoAccount, CreditedHasNoAccount
  <1>2. ASSUME NEW s \in Service, Use(s) \/ OrderRenewal(s) PROVE IInv'
    BY <1>2, UseIInv, OrderIInv
  <1>3. CASE Pass
    BY <1>3, PassIInv
  <1>4. ASSUME NEW t \in Slot, Step(t) PROVE IInv'
    <2>1. ASSUME NEW s \in Service, Load(t, s) \/ Declined(t, s) \/ Turn(t, s) PROVE IInv'
      BY <2>1, LoadIInv, DeclinedIInv, TurnIInv
    <2>2. CASE ReadAll(t) \/ Ask(t) \/ AnswerLost(t) \/ PanelRefuses(t)
      BY <2>2, ReadAllIInv, AskIInv, AnswerLostIInv, PanelRefusesIInv
    <2>3. CASE Raise(t) \/ Change(t) \/ Write(t) \/ Credit(t) \/ Commit(t)
      BY <2>3, RaiseIInv, ChangeIInv, WriteIInv, CreditIInv, CommitIInv
    <2> QED BY <1>4, <2>1, <2>2, <2>3 DEF Step
  <1>5. ASSUME NEW t \in Slot, Die(t) PROVE IInv'
    BY <1>5, DieIInv
  <1>6. ASSUME NEW t \in Slot, NEW op \in Ops, NEW s \in Service, Begin(t, op, s) PROVE IInv'
    BY <1>6, BeginIInv
  <1> QED BY <1>1, <1>2, <1>3, <1>4, <1>5, <1>6 DEF Next

LEMMA Inductive == Spec => []IInv
BY InitIInv, NextIInv, PTL DEF Spec

\* Rows, accounts and sessions keep their shape through every interleaving of
\* operators, sweeps, renewals and refunds.
THEOREM TypeCorrect == Spec => []TypeOK
PROOF
  <1>1. IInv => TypeOK
    BY DEF IInv
  <1> QED BY <1>1, Inductive, PTL

\* However many sessions change a service at once, and wherever they fail, a
\* revoked row has no account on the panel.
THEOREM RevokedStaysOff == Spec => []RevokedHasNoAccount
PROOF
  <1>1. IInv => RevokedHasNoAccount
    BY DEF IInv
  <1> QED BY <1>1, Inductive, PTL

\* The customer never has both the price of a service back and the service.
THEOREM CreditedStaysOff == Spec => []CreditedHasNoAccount
PROOF
  <1>1. IInv => CreditedHasNoAccount
    BY DEF IInv
  <1> QED BY <1>1, Inductive, PTL

\* After a panel has done something, the aggregate's method refuses only a
\* resume; a copy that is revoked never gets an answer.
THEOREM AnswersAreAccepted == Spec => []DoneIsAccepted
PROOF
  <1>1. IInv => DoneIsAccepted
    BY DEF IInv, DoneIsAccepted, Shape, Refuses
  <1> QED BY <1>1, Inductive, PTL

-----------------------------------------------------------------------------
(* What a row and its account have in common *)

\* A row and an account that tell the same story; l: the account may be on
\* though the row is suspended.
Paired(r, a, l) == ~l => (a.on <=> r.state # "SUSPENDED")
Matching(r, a) ==
  r.expires = a.expires /\ r.quota = a.quota /\ r.link = a.link /\ r.used <= a.used

Agree(r, a, l) ==
  /\ a = None => r.state = "REVOKED"
  /\ a # None => Paired(r, a, l) /\ Matching(r, a)

\* Suspended before and after, or neither.
Stays(r, q) == q.state = "SUSPENDED" <=> r.state = "SUSPENDED"

LEMMA RecordUsageFields ==
  ASSUME NEW r \in Row, NEW used \in Nat, NEW q, q = RecordUsage(r, used)
  PROVE  /\ Stays(r, q) /\ q.expires = r.expires /\ q.quota = r.quota /\ q.link = r.link
         /\ q.used = IF used > r.used THEN used ELSE r.used
PROOF
  <1> DEFINE more == IF used > r.used THEN used ELSE r.used
             x == [r EXCEPT !.used = more]
  <1>1. x \in Row /\ x.state = r.state /\ x.expires = r.expires /\ x.quota = r.quota
        /\ x.link = r.link /\ x.used = more
    BY DEF Row
  <1>2. q = [x EXCEPT !.state = Exceeding(x)]
    BY DEF RecordUsage
  <1> HIDE DEF x, more
  <1>3. /\ q.state = Exceeding(x) /\ q.expires = x.expires /\ q.quota = x.quota
        /\ q.link = x.link /\ q.used = x.used
    BY <1>1, <1>2 DEF Row
  <1> QED BY <1>1, <1>3 DEF Exceeding, Stays, more

LEMMA AddTrafficFields ==
  ASSUME NEW r \in Row, NEW q, q = AddTraffic(r)
  PROVE  /\ Stays(r, q) /\ q.expires = r.expires /\ q.quota = r.quota + 1 /\ q.link = r.link
         /\ q.used = r.used
PROOF
  <1> DEFINE x == [r EXCEPT !.quota = r.quota + 1]
  <1>1. x \in Row /\ x.state = r.state /\ x.expires = r.expires /\ x.quota = r.quota + 1
        /\ x.link = r.link /\ x.used = r.used
    BY DEF Row
  <1>2. q = [x EXCEPT !.state = Revived(x, {"EXHAUSTED"})]
    BY DEF AddTraffic
  <1> HIDE DEF x
  <1>3. /\ q.state = Revived(x, {"EXHAUSTED"}) /\ q.expires = x.expires /\ q.quota = x.quota
        /\ q.link = x.link /\ q.used = x.used
    BY <1>1, <1>2 DEF Row
  <1> QED BY <1>1, <1>3 DEF Revived, Stays

LEMMA RenewFields ==
  ASSUME NEW r \in Row, NEW n \in Nat, NEW q, q = Renew(r, n)
  PROVE  /\ Stays(r, q) /\ q.expires = Later(r.expires, n) /\ q.quota = r.quota
         /\ q.link = r.link /\ q.used = r.used
PROOF
  <1> DEFINE x == [r EXCEPT !.expires = Later(r.expires, n)]
             from == {"EXPIRED", "EXHAUSTED"}
  <1>1. Later(r.expires, n) \in Nat
    BY DEF Later, Row
  <1>2. x \in Row /\ x.state = r.state /\ x.expires = Later(r.expires, n) /\ x.quota = r.quota
        /\ x.link = r.link /\ x.used = r.used
    BY <1>1 DEF Row
  <1>3. q = [x EXCEPT !.state = Revived(x, from)]
    BY DEF Renew
  <1> HIDE DEF x
  <1>4. /\ q.state = Revived(x, from) /\ q.expires = x.expires /\ q.quota = x.quota
        /\ q.link = x.link /\ q.used = x.used
    BY <1>2, <1>3 DEF Row
  <1> QED BY <1>2, <1>4 DEF Revived, Stays

LEMMA RenewOntoFields ==
  ASSUME NEW r \in Row, NEW n \in Nat, NEW q, q = RenewOnto(r, n)
  PROVE  /\ Stays(r, q) /\ q.expires = Later(r.expires, n) /\ q.quota = 1
         /\ q.link = r.link /\ q.used = 0
PROOF
  <1> DEFINE x == [r EXCEPT !.quota = 1, !.used = 0]
  <1>1. x \in Row /\ x.state = r.state /\ x.expires = r.expires /\ x.quota = 1
        /\ x.link = r.link /\ x.used = 0 /\ q = Renew(x, n)
    BY DEF Row, RenewOnto
  <1> HIDE DEF x
  <1> QED BY <1>1, RenewFields DEF Stays

LEMMA ResetFields ==
  ASSUME NEW r \in Row, NEW q, q = ResetTraffic(r)
  PROVE  /\ Stays(r, q) /\ q.expires = r.expires /\ q.quota = r.quota
         /\ q.link = r.link /\ q.used = 0
BY DEF ResetTraffic, Row, Stays

LEMMA SuspendFields ==
  ASSUME NEW r \in Row, NEW reason, NEW q, q = Suspend(r, reason)
  PROVE  /\ q.state = "SUSPENDED" /\ q.expires = r.expires /\ q.quota = r.quota
         /\ q.link = r.link /\ q.used = r.used
BY DEF Suspend, Row

LEMMA ResumeFields ==
  ASSUME NEW r \in Row, NEW n \in Nat, NEW q, q = Resume(r, n)
  PROVE  /\ q.state # "SUSPENDED" /\ q.expires = r.expires /\ q.quota = r.quota
         /\ q.link = r.link /\ q.used = r.used
PROOF
  <1> DEFINE state == IF Expired(r, n) THEN "EXPIRED" ELSE IF Exhausted(r) THEN "EXHAUSTED" ELSE "ACTIVE"
  <1>1. q = [r EXCEPT !.reason = None, !.state = state] /\ state # "SUSPENDED"
    BY DEF Resume
  <1> HIDE DEF state
  <1> QED BY <1>1 DEF Row

\* The customer's traffic is counted on the panel first.
LEMMA AgreeUsed ==
  ASSUME NEW r \in Row, NEW a \in Account, NEW l, Agree(r, a, l),
         NEW b, b = [a EXCEPT !.used = @ + 1]
  PROVE  Agree(r, b, l)
PROOF
  <1>1. a # None /\ b \in Account /\ b # None
    BY NoneAssumption DEF Account
  <1>2. b.on = a.on /\ b.expires = a.expires /\ b.quota = a.quota /\ b.link = a.link
        /\ b.used = a.used + 1
    BY DEF Account
  <1>3. Paired(r, b, l)
    BY <1>1, <1>2 DEF Agree, Paired
  <1>4. Matching(r, b)
    BY <1>1, <1>2 DEF Agree, Matching, Row, Account
  <1> QED BY <1>1, <1>3, <1>4 DEF Agree

\* What the panel is told and what the aggregate becomes keep the two together:
\* for every method that asks a panel, of a row it does not refuse.
Asked == (Kind \cup {"return"}) \ (Local \cup {"sync"})

LEMMA AgreeTold ==
  ASSUME NEW op \in Asked, NEW r \in Row, NEW a \in Account \cup {None}, NEW n \in Nat,
         NEW l \in BOOLEAN, Agree(r, a, l), a # None \/ op \in Deleting, ~Refuses(op, r),
         NEW b, b = Told(op, a, r, n), NEW q, q = Becomes(op, r, n, b),
         NEW m \in BOOLEAN,
         op = "renew" /\ r.state = "SUSPENDED" => m,
         ~(op = "renew" /\ r.state = "SUSPENDED")
           /\ op \notin {"suspend", "stop", "resume", "restore"} => m = l
  PROVE  Agree(q, b, m)
PROOF
  <1>1. CASE op \in Deleting
    <2>1. b = None /\ q = Revoke(r)
      BY <1>1 DEF Told, Deleted, Becomes, Deleting, Reading
    <2>2. q.state = "REVOKED"
      BY <2>1, SetState DEF Revoke, State
    <2> QED BY <2>1, <2>2 DEF Agree
  <1>2. CASE op \notin Deleting
    <2>1. a \in Account /\ a # None /\ Paired(r, a, l) /\ Matching(r, a) /\ r.state # "REVOKED"
      BY <1>2 DEF Agree, Refuses
    <2>2. SUFFICES Paired(q, b, m) /\ Matching(q, b)
      <3>1. b # None
        BY <1>2, <2>1, ToldAccount DEF Asked
      <3> QED BY <3>1 DEF Agree
    <2>3. CASE op \in {"suspend", "stop"}
      <3>1. b = [a EXCEPT !.on = FALSE]
        BY <2>3 DEF Told, Deleting
      <3>2. b.on = FALSE /\ b.expires = a.expires /\ b.quota = a.quota /\ b.link = a.link
            /\ b.used = a.used
        BY <2>1, <3>1 DEF Account
      <3>3. /\ q.state = "SUSPENDED" /\ q.expires = r.expires /\ q.quota = r.quota
            /\ q.link = r.link /\ q.used = r.used
        <4>1. q = Suspend(r, IF op = "suspend" THEN "operator" ELSE "arrears")
          BY <2>3 DEF Becomes, Deleting, Reading
        <4> QED BY <4>1, SuspendFields
      <3>4. Matching(q, b)
        BY <2>1, <3>2, <3>3 DEF Matching
      <3> QED BY <3>2, <3>3, <3>4 DEF Paired
    <2>4. CASE op \in {"resume", "restore"}
      <3>1. b = [a EXCEPT !.on = TRUE]
        BY <2>4 DEF Told, Deleting
      <3>2. b.on = TRUE /\ b.expires = a.expires /\ b.quota = a.quota /\ b.link = a.link
            /\ b.used = a.used
        BY <2>1, <3>1 DEF Account
      <3>3. /\ q.state # "SUSPENDED" /\ q.expires = r.expires /\ q.quota = r.quota
            /\ q.link = r.link /\ q.used = r.used
        <4>1. q = Resume(r, n)
          BY <2>4 DEF Becomes, Deleting, Reading
        <4> QED BY <4>1, ResumeFields
      <3>4. Matching(q, b)
        BY <2>1, <3>2, <3>3 DEF Matching
      <3> QED BY <3>2, <3>3, <3>4 DEF Paired
    <2>5. CASE op = "rotate"
      <3>1. b = [a EXCEPT !.link = @ + 1] /\ q = [r EXCEPT !.link = b.link]
        BY <2>5 DEF Told, Becomes, Deleting, Reading
      <3>2. b.on = a.on /\ b.expires = a.expires /\ b.quota = a.quota /\ b.used = a.used
        BY <2>1, <3>1 DEF Account
      <3>3. /\ q.state = r.state /\ q.expires = r.expires /\ q.quota = r.quota
            /\ q.link = b.link /\ q.used = r.used
        BY <3>1 DEF Row
      <3>4. Matching(q, b)
        BY <2>1, <3>2, <3>3 DEF Matching
      <3> QED BY <2>1, <2>5, <3>2, <3>3, <3>4 DEF Paired
    <2>6. CASE op = "extend"
      <3>1. b = [a EXCEPT !.expires = Later(@, n)] /\ q = Renew(r, n)
        BY <2>6 DEF Told, Becomes, Deleting, Reading
      <3>2. /\ b.on = a.on /\ b.expires = Later(a.expires, n) /\ b.quota = a.quota
            /\ b.link = a.link /\ b.used = a.used
        BY <2>1, <3>1 DEF Account
      <3>3. /\ Stays(r, q) /\ q.expires = Later(r.expires, n) /\ q.quota = r.quota
            /\ q.link = r.link /\ q.used = r.used
        BY <3>1, RenewFields
      <3>4. Matching(q, b)
        BY <2>1, <3>2, <3>3 DEF Matching
      <3> QED BY <2>1, <2>6, <3>2, <3>3, <3>4 DEF Paired, Stays
    <2>7. CASE op = "renew"
      <3>1. /\ b = [a EXCEPT !.expires = Later(@, n), !.quota = 1, !.used = 0, !.on = TRUE]
            /\ q = RenewOnto(r, n)
        BY <2>7 DEF Told, Becomes, Deleting, Reading
      <3>2. /\ b.on = TRUE /\ b.expires = Later(a.expires, n) /\ b.quota = 1
            /\ b.link = a.link /\ b.used = 0
        BY <2>1, <3>1 DEF Account
      <3>3. /\ Stays(r, q) /\ q.expires = Later(r.expires, n) /\ q.quota = 1
            /\ q.link = r.link /\ q.used = 0
        BY <3>1, RenewOntoFields
      <3>4. Matching(q, b)
        BY <2>1, <3>2, <3>3 DEF Matching
      <3> QED BY <2>7, <3>2, <3>3, <3>4 DEF Paired, Stays
    <2>8. CASE op = "traffic"
      <3>1. b = [a EXCEPT !.quota = r.quota + 1] /\ q = AddTraffic(r)
        BY <2>8 DEF Told, Becomes, Deleting, Reading
      <3>2. /\ b.on = a.on /\ b.expires = a.expires /\ b.quota = r.quota + 1
            /\ b.link = a.link /\ b.used = a.used
        BY <2>1, <3>1 DEF Account
      <3>3. /\ Stays(r, q) /\ q.expires = r.expires /\ q.quota = r.quota + 1
            /\ q.link = r.link /\ q.used = r.used
        BY <3>1, AddTrafficFields
      <3>4. Matching(q, b)
        BY <2>1, <3>2, <3>3 DEF Matching
      <3> QED BY <2>1, <2>8, <3>2, <3>3, <3>4 DEF Paired, Stays
    <2>9. CASE op = "reset"
      <3>1. b = [a EXCEPT !.used = 0] /\ q = ResetTraffic(r)
        BY <2>9 DEF Told, Becomes, Deleting, Reading
      <3>2. /\ b.on = a.on /\ b.expires = a.expires /\ b.quota = a.quota
            /\ b.link = a.link /\ b.used = 0
        BY <2>1, <3>1 DEF Account
      <3>3. /\ Stays(r, q) /\ q.expires = r.expires /\ q.quota = r.quota
            /\ q.link = r.link /\ q.used = 0
        BY <3>1, ResetFields
      <3>4. Matching(q, b)
        BY <2>1, <3>2, <3>3 DEF Matching
      <3> QED BY <2>1, <2>9, <3>2, <3>3, <3>4 DEF Paired, Stays
    <2>10. CASE op = "refund"
      <3>1. b = a /\ q = RecordUsage(r, a.used)
        BY <2>10 DEF Told, Becomes, Deleting, Reading
      <3>2. a.used \in Nat
        BY <2>1 DEF Account
      <3>3. /\ Stays(r, q) /\ q.expires = r.expires /\ q.quota = r.quota
            /\ q.link = r.link /\ q.used = IF a.used > r.used THEN a.used ELSE r.used
        BY <3>1, <3>2, RecordUsageFields
      <3>4. Matching(q, b)
        BY <2>1, <3>1, <3>2, <3>3 DEF Matching, Row
      <3> QED BY <2>1, <2>10, <3>1, <3>3, <3>4 DEF Paired, Stays
    <2> QED BY <1>2, <2>3, <2>4, <2>5, <2>6, <2>7, <2>8, <2>9, <2>10
            DEF Asked, Kind, Single, Arrears, Sweeps, Local, Deleting
  <1> QED BY <1>1, <1>2

\* A method with nothing to tell a panel leaves the two as they were; the sync
\* has a reading that the panel has not gone back behind.
LEMMA AgreeLocal ==
  ASSUME NEW op \in Local \cup {"sync"}, NEW r \in Row, NEW a \in Account \cup {None},
         NEW n \in Nat, NEW l \in BOOLEAN, Agree(r, a, l),
         op = "expire" => r.state = "ACTIVE",
         NEW seen, op = "sync" => seen \in Account /\ a # None /\ seen.used <= a.used,
         NEW q, q = Becomes(op, r, n, seen)
  PROVE  Agree(q, a, l)
PROOF
  <1>1. CASE op = "settings"
    <2>1. q = r
      BY <1>1 DEF Becomes, Deleting, Reading
    <2> QED BY <2>1
  <1>2. CASE op = "expire"
    <2>1. q = [r EXCEPT !.state = "EXPIRED"]
      BY <1>2 DEF Becomes, Deleting, Reading
    <2>2. /\ q.state = "EXPIRED" /\ q.expires = r.expires /\ q.quota = r.quota
          /\ q.link = r.link /\ q.used = r.used
      BY <2>1 DEF Row
    <2>3. a # None /\ r.state = "ACTIVE"
      BY <1>2 DEF Agree
    <2>4. Paired(q, a, l)
      BY <2>2, <2>3 DEF Agree, Paired
    <2>5. Matching(q, a)
      BY <2>2, <2>3 DEF Agree, Matching
    <2> QED BY <2>3, <2>4, <2>5 DEF Agree
  <1>3. CASE op = "sync"
    <2>1. q = RecordUsage(r, seen.used) /\ seen.used \in Nat /\ a \in Account
      BY <1>3 DEF Becomes, Deleting, Reading, Account
    <2>2. /\ Stays(r, q) /\ q.expires = r.expires /\ q.quota = r.quota
          /\ q.link = r.link /\ q.used = IF seen.used > r.used THEN seen.used ELSE r.used
      BY <2>1, RecordUsageFields
    <2>3. Paired(q, a, l)
      BY <1>3, <2>2 DEF Agree, Paired, Stays
    <2>4. Matching(q, a)
      BY <1>3, <2>1, <2>2 DEF Agree, Matching, Row, Account
    <2> QED BY <1>3, <2>3, <2>4 DEF Agree
  <1> QED BY <1>1, <1>2, <1>3 DEF Local

-----------------------------------------------------------------------------
(* A service in the hands of one session *)

\* The session's turn at s has come, and is not over.
Working(x, s) == x.at = s /\ (x.pc \in {"answer", "write"} \/ (x.pc = "ask" /\ x.op # "sync"))

\* What the session finds, where r is the committed row.
Found(x, s, r) == IF x.rows[s] # None THEN x.rows[s] ELSE r

\* Of a service that only this session has in hand: the copy it works on is the
\* row it finds; what it will make of the row agrees with what it has told the
\* panel; and if it has told the panel nothing the committed row still does.
Held(x, s, r, a, l, n) ==
  /\ s \notin x.told => Agree(r, a, l)
  /\ Working(x, s) \/ (x.op \in Batch /\ s \in x.todo) => x.copy[s] = Found(x, s, r)
  /\ Working(x, s) /\ x.pc = "answer" /\ ~Refuses(x.op, x.copy[s]) =>
       Agree(Becomes(x.op, x.copy[s], n, x.seen[s]), a, l)
  /\ Working(x, s) /\ x.pc = "write" =>
       /\ Agree(x.want, a, l)
       /\ \A c \in Column \ x.cols : x.want[c] = Found(x, s, r)[c]
  /\ ~(Working(x, s) /\ x.pc \in {"answer", "write"}) => Agree(Found(x, s, r), a, l)
  /\ x.op = "sync" /\ s \in x.todo /\ x.seen[s] # None => a # None /\ x.seen[s].used <= a.used

Form(x) ==
  /\ x.pc = "ask" => x.op \notin Local
  /\ \A s \in Service :
       /\ x.pc = "idle" => x.copy[s] = None
       /\ x.rows[s] # None => x.copy[s] # None
       /\ s \in x.todo /\ x.op # "return" => x.rows[s] = None
       /\ s \in x.todo \cap x.told => x.pc \in {"answer", "write"} /\ x.at = s

Once == \A s \in Service \ mixed : \A t, u \in Slot : InHand(t, s) /\ InHand(u, s) => t = u

StoryInv ==
  /\ \A t \in Slot : Form(txn[t])
  /\ Once
  /\ \A s \in Service \ (mixed \cup undone) :
       /\ (\A t \in Slot : ~InHand(t, s)) => Agree(sub[s], panel[s], s \in lifted)
       /\ \A t \in Slot :
            InHand(t, s) => Held(txn[t], s, sub[s], panel[s], s \in lifted, now)

LEMMA AgreeAlike ==
  ASSUME NEW r, NEW q, NEW a, NEW l, Agree(r, a, l), \A c \in Column : q[c] = r[c]
  PROVE  Agree(q, a, l)
PROOF
  <1>1. /\ q.state = r.state /\ q.expires = r.expires /\ q.quota = r.quota /\ q.link = r.link
        /\ q.used = r.used
    BY DEF Column
  <1> QED BY <1>1 DEF Agree, Paired, Matching

\* A session that leaves s alone leaves what is held of it.
Framed(x, y, s) ==
  /\ y.copy[s] = x.copy[s] /\ y.rows[s] = x.rows[s] /\ y.seen[s] = x.seen[s]
  /\ s \in x.told => s \in y.told
  /\ s \in y.todo => s \in x.todo
  /\ ~Working(x, s) /\ ~Working(y, s)
  /\ y.op \in Batch => y.op = x.op

LEMMA HeldFrame ==
  ASSUME NEW x, NEW y, NEW s, NEW r, NEW a, NEW l, NEW n,
         Held(x, s, r, a, l, n), Framed(x, y, s)
  PROVE  Held(y, s, r, a, l, n)
PROOF
  <1>1. Found(y, s, r) = Found(x, s, r)
    BY DEF Framed, Found
  <1> QED BY <1>1 DEF Framed, Held, Batch

\* One session's step: for each service, it has it in hand from now on, or lets
\* go of it, or has nothing to do with it.
LEMMA StoryStep ==
  ASSUME IInv, StoryInv, NEW t \in Slot, NEW y \in Session, txn' = [txn EXCEPT ![t] = y],
         mixed \subseteq mixed', undone \subseteq undone', now' = now, Form(y),
         \A s \in Service \ mixed' : y.copy[s] # None =>
           txn[t].copy[s] # None \/ \A u \in Slot \ {t} : ~InHand(u, s),
         \A s \in Service \ (mixed' \cup undone') :
           \/ y.copy[s] # None /\ Held(y, s, sub'[s], panel'[s], s \in lifted', now)
           \/ /\ y.copy[s] = None /\ txn[t].copy[s] # None
              /\ Agree(sub'[s], panel'[s], s \in lifted')
           \/ /\ y.copy[s] = None /\ txn[t].copy[s] = None
              /\ sub'[s] = sub[s] /\ panel'[s] = panel[s] /\ (s \in lifted') = (s \in lifted)
  PROVE  StoryInv'
PROOF
  <1>1. /\ txn'[t] = y /\ \A u \in Slot \ {t} : txn'[u] = txn[u]
    BY DEF IInv, TypeOK
  <1>2. \A u \in Slot : Form(txn'[u])
    BY <1>1 DEF StoryInv
  <1>3. Once'
    <2> SUFFICES ASSUME NEW s \in Service \ mixed', NEW u \in Slot, NEW v \in Slot,
                        txn'[u].copy[s] # None, txn'[v].copy[s] # None
                 PROVE  u = v
      BY DEF Once, InHand
    <2> QED BY <1>1 DEF StoryInv, Once, InHand
  <1>4. ASSUME NEW s \in Service \ (mixed' \cup undone')
        PROVE  /\ (\A u \in Slot : txn'[u].copy[s] = None) => Agree(sub'[s], panel'[s], s \in lifted')
               /\ \A u \in Slot : txn'[u].copy[s] # None =>
                    Held(txn'[u], s, sub'[s], panel'[s], s \in lifted', now')
    <2>1. /\ s \in Service \ (mixed \cup undone)
          /\ (\A u \in Slot : txn[u].copy[s] = None) => Agree(sub[s], panel[s], s \in lifted)
          /\ \A u \in Slot : txn[u].copy[s] # None =>
               Held(txn[u], s, sub[s], panel[s], s \in lifted, now)
          /\ \A u, v \in Slot : txn[u].copy[s] # None /\ txn[v].copy[s] # None => u = v
      BY DEF StoryInv, InHand, Once
    <2>2. CASE y.copy[s] # None /\ Held(y, s, sub'[s], panel'[s], s \in lifted', now)
      <3>1. \A u \in Slot \ {t} : txn[u].copy[s] = None
        BY <2>1, <2>2 DEF InHand
      <3> QED BY <1>1, <2>2, <3>1
    <2>3. CASE /\ y.copy[s] = None /\ txn[t].copy[s] # None
               /\ Agree(sub'[s], panel'[s], s \in lifted')
      BY <1>1, <2>1, <2>3
    <2>4. CASE /\ y.copy[s] = None /\ txn[t].copy[s] = None
               /\ sub'[s] = sub[s] /\ panel'[s] = panel[s] /\ (s \in lifted') = (s \in lifted)
      BY <1>1, <2>1, <2>4
    <2> QED BY <2>2, <2>3, <2>4
  <1> QED BY <1>2, <1>3, <1>4 DEF StoryInv, InHand

\* The usual one: a step about one service; s is None if it is about none.
AboutOne(t, y, s) ==
  /\ y \in Session /\ txn' = [txn EXCEPT ![t] = y] /\ Form(y)
  /\ mixed \subseteq mixed' /\ undone \subseteq undone' /\ now' = now /\ sub' = sub
  /\ \A v \in Service \ {s} :
       Framed(txn[t], y, v) /\ panel'[v] = panel[v] /\ (v \in lifted') = (v \in lifted)
  /\ s \in Service \ mixed' /\ y.copy[s] # None =>
       txn[t].copy[s] # None \/ \A u \in Slot \ {t} : ~InHand(u, s)
  /\ s \in Service \ (mixed' \cup undone') =>
       \/ y.copy[s] # None /\ Held(y, s, sub[s], panel'[s], s \in lifted', now)
       \/ /\ y.copy[s] = None /\ txn[t].copy[s] # None
          /\ Agree(sub[s], panel'[s], s \in lifted')

LEMMA OneService ==
  ASSUME IInv, StoryInv, NEW t \in Slot, NEW y, NEW s, AboutOne(t, y, s)
  PROVE  StoryInv'
PROOF
  <1> DEFINE x == txn[t]
  <1> USE DEF AboutOne
  <1>1. \A v \in Service \ mixed' : y.copy[v] # None =>
          txn[t].copy[v] # None \/ \A u \in Slot \ {t} : ~InHand(u, v)
    BY DEF Framed
  <1>2. ASSUME NEW v \in Service \ (mixed' \cup undone'), v # s
        PROVE  \/ y.copy[v] # None /\ Held(y, v, sub'[v], panel'[v], v \in lifted', now)
               \/ /\ y.copy[v] = None /\ txn[t].copy[v] = None
                  /\ sub'[v] = sub[v] /\ panel'[v] = panel[v] /\ (v \in lifted') = (v \in lifted)
    <2>1. Framed(x, y, v) /\ panel'[v] = panel[v] /\ (v \in lifted') = (v \in lifted)
      BY <1>2
    <2>2. CASE y.copy[v] = None
      BY <2>1, <2>2 DEF Framed
    <2>3. CASE y.copy[v] # None
      <3>1. Held(x, v, sub[v], panel[v], v \in lifted, now)
        BY <2>1, <2>3 DEF Framed, StoryInv, InHand
      <3>2. Held(y, v, sub[v], panel[v], v \in lifted, now)
        BY <2>1, <3>1, HeldFrame
      <3> QED BY <2>1, <2>3, <3>2
    <2> QED BY <2>2, <2>3
  <1>3. \A v \in Service \ (mixed' \cup undone') :
          \/ y.copy[v] # None /\ Held(y, v, sub'[v], panel'[v], v \in lifted', now)
          \/ /\ y.copy[v] = None /\ txn[t].copy[v] # None
             /\ Agree(sub'[v], panel'[v], v \in lifted')
          \/ /\ y.copy[v] = None /\ txn[t].copy[v] = None
             /\ sub'[v] = sub[v] /\ panel'[v] = panel[v] /\ (v \in lifted') = (v \in lifted)
    BY <1>2
  <1> HIDE DEF x
  <1> QED BY <1>1, <1>3, StoryStep

-----------------------------------------------------------------------------
(* The story through each action *)

\* What an unmixed, undamaged service is to the session that has it, and is
\* while nobody has it.
LEMMA Mine ==
  ASSUME StoryInv, NEW t \in Slot, NEW s \in Service \ (mixed \cup undone), InHand(t, s)
  PROVE  Held(txn[t], s, sub[s], panel[s], s \in lifted, now)
BY DEF StoryInv

LEMMA Nobodys ==
  ASSUME StoryInv, NEW s \in Service \ (mixed \cup undone), \A t \in Slot : ~InHand(t, s)
  PROVE  Agree(sub[s], panel[s], s \in lifted)
BY DEF StoryInv

LEMMA IdleForm == Form(Idle) /\ \A s \in Service : Idle.copy[s] = None
BY DEF Idle, Form, Nothing, Local

LEMMA StoryInit == Init => StoryInv
PROOF
  <1> SUFFICES ASSUME Init PROVE StoryInv OBVIOUS
  <1>1. \A t \in Slot : txn[t] = Idle
    BY DEF Init
  <1>2. \A t \in Slot, s \in Service : ~InHand(t, s)
    BY <1>1, IdleForm DEF InHand
  <1>3. ASSUME NEW s \in Service PROVE Agree(sub[s], panel[s], s \in lifted)
    <2>1. /\ sub[s].state = "ACTIVE" /\ sub[s].expires = 1 /\ sub[s].quota = 1 /\ sub[s].link = 0
          /\ sub[s].used = 0
          /\ panel[s].on = TRUE /\ panel[s].expires = 1 /\ panel[s].quota = 1
          /\ panel[s].link = 0 /\ panel[s].used = 0
      BY DEF Init
    <2>2. panel[s] # None
      <3>1. panel[s] \in Account
        BY <1>3 DEF Init, Account
      <3> QED BY <3>1, NoneAssumption
    <2>3. Paired(sub[s], panel[s], s \in lifted)
      BY <2>1 DEF Paired
    <2>4. Matching(sub[s], panel[s])
      BY <2>1 DEF Matching
    <2> QED BY <2>2, <2>3, <2>4 DEF Agree
  <1> QED BY <1>1, <1>2, <1>3, IdleForm DEF StoryInv, Once

\* Nothing the story is about changes, but for the clock.
LEMMA StoryAside ==
  ASSUME StoryInv, UNCHANGED <<sub, panel, txn, undone, mixed, lifted>>,
         now' = now \/ \A t \in Slot : txn[t].pc # "answer"
  PROVE  StoryInv'
PROOF
  <1>1. (\A t \in Slot : Form(txn'[t])) /\ Once'
    BY DEF StoryInv, Once, InHand
  <1>2. ASSUME NEW s \in Service \ (mixed' \cup undone')
        PROVE  /\ (\A t \in Slot : txn'[t].copy[s] = None) => Agree(sub'[s], panel'[s], s \in lifted')
               /\ \A t \in Slot : txn'[t].copy[s] # None =>
                    Held(txn'[t], s, sub'[s], panel'[s], s \in lifted', now')
    <2>1. (\A t \in Slot : txn[t].copy[s] = None) => Agree(sub[s], panel[s], s \in lifted)
      BY DEF StoryInv, InHand
    <2>2. ASSUME NEW t \in Slot, txn[t].copy[s] # None
          PROVE  Held(txn[t], s, sub[s], panel[s], s \in lifted, now')
      <3>1. Held(txn[t], s, sub[s], panel[s], s \in lifted, now)
        BY <2>2 DEF StoryInv, InHand
      <3> QED BY <3>1 DEF Held
    <2> QED BY <2>1, <2>2
  <1> QED BY <1>1, <1>2 DEF StoryInv, InHand

LEMMA HeldUsed ==
  ASSUME NEW x \in Session, Shape(x), NEW s \in Service, NEW r \in Row, NEW a \in Account,
         NEW l, NEW n \in Nat, Held(x, s, r, a, l, n), NEW b, b = [a EXCEPT !.used = @ + 1]
  PROVE  Held(x, s, r, b, l, n)
PROOF
  <1>1. b \in Account /\ b # None /\ a # None /\ b.used = a.used + 1
    BY NoneAssumption DEF Account
  <1>2. \A q \in Row : Agree(q, a, l) => Agree(q, b, l)
    BY AgreeUsed
  <1>3. Found(x, s, r) \in Row
    BY DEF Found, Session
  <1>4. ASSUME Working(x, s), x.pc = "answer"
        PROVE  Becomes(x.op, x.copy[s], n, x.seen[s]) \in Row
    <2>1. x.at = s /\ x.copy[s] \in Row /\ x.op \in Kind \cup {"return"}
      BY <1>4 DEF Working, Shape, Session
    <2>2. x.op \in Reading \cup {"rotate"} => x.seen[s] \in Account
      BY <1>4, <2>1 DEF Shape, Session
    <2> QED BY <2>1, <2>2, BecomesRow
  <1>5. x.pc = "write" => x.want \in Row
    BY DEF Shape, Session
  <1>6. x.seen[s] # None => x.seen[s].used \in Nat /\ a.used \in Nat
    BY DEF Session, Account
  <1>7. x.seen[s] # None /\ x.seen[s].used <= a.used => x.seen[s].used <= b.used
    BY <1>1, <1>6
  <1> QED BY <1>1, <1>2, <1>3, <1>4, <1>5, <1>7 DEF Held

LEMMA StoryUse == ASSUME IInv, StoryInv, NEW v \in Service, Use(v) PROVE StoryInv'
PROOF
  <1>1. panel[v] \in Account /\ panel' = [panel EXCEPT ![v] = [panel[v] EXCEPT !.used = @ + 1]]
    BY Remembered DEF Use, Carries
  <1>2. UNCHANGED <<sub, now, txn, undone, mixed, lifted>>
    BY DEF Use
  <1>3. (\A t \in Slot : Form(txn'[t])) /\ Once'
    BY <1>2 DEF StoryInv, Once, InHand
  <1>4. ASSUME NEW s \in Service \ (mixed' \cup undone')
        PROVE  /\ (\A t \in Slot : txn'[t].copy[s] = None) => Agree(sub'[s], panel'[s], s \in lifted')
               /\ \A t \in Slot : txn'[t].copy[s] # None =>
                    Held(txn'[t], s, sub'[s], panel'[s], s \in lifted', now')
    <2>1. (\A t \in Slot : txn[t].copy[s] = None) => Agree(sub[s], panel[s], s \in lifted)
      BY <1>2 DEF StoryInv, InHand
    <2>2. \A t \in Slot : txn[t].copy[s] # None =>
            Held(txn[t], s, sub[s], panel[s], s \in lifted, now)
      BY <1>2 DEF StoryInv, InHand
    <2>3. CASE s # v
      <3>1. panel'[s] = panel[s]
        BY <1>1, <2>3, Remembered
      <3> QED BY <1>2, <2>1, <2>2, <3>1
    <2>4. CASE s = v
      <3>1. /\ panel'[s] = [panel[s] EXCEPT !.used = @ + 1] /\ panel[s] \in Account
            /\ sub[s] \in Row /\ now \in Nat
        BY <1>1, <2>4, Remembered
      <3>2. Agree(sub[s], panel[s], s \in lifted) => Agree(sub[s], panel'[s], s \in lifted)
        BY <3>1, AgreeUsed
      <3>3. \A t \in Slot : Held(txn[t], s, sub[s], panel[s], s \in lifted, now) =>
              Held(txn[t], s, sub[s], panel'[s], s \in lifted, now)
        BY <3>1, Here, HeldUsed
      <3> QED BY <1>2, <2>1, <2>2, <3>2, <3>3
    <2> QED BY <2>3, <2>4
  <1> QED BY <1>3, <1>4 DEF StoryInv, InHand

\* A session dropped: nothing it told the panel is left unmarked.
LEMMA StoryDropped ==
  ASSUME IInv, StoryInv, NEW t \in Slot, txn' = [txn EXCEPT ![t] = Idle],
         UNCHANGED <<sub, now, mixed>>, undone \subseteq undone', txn[t].told \subseteq undone',
         \A s \in Service \ undone' : panel'[s] = panel[s] /\ (s \in lifted') = (s \in lifted)
  PROVE  StoryInv'
PROOF
  <1>1. Idle \in Session /\ Form(Idle) /\ \A s \in Service : Idle.copy[s] = None
    BY IdleSafe, IdleForm
  <1>2. ASSUME NEW s \in Service \ (mixed' \cup undone'), txn[t].copy[s] # None
        PROVE  Agree(sub'[s], panel'[s], s \in lifted')
    <2>1. Held(txn[t], s, sub[s], panel[s], s \in lifted, now)
      BY <1>2, Mine DEF InHand
    <2> QED BY <2>1 DEF Held
  <1>3. \A s \in Service \ (mixed' \cup undone') :
          \/ /\ Idle.copy[s] = None /\ txn[t].copy[s] # None
             /\ Agree(sub'[s], panel'[s], s \in lifted')
          \/ /\ Idle.copy[s] = None /\ txn[t].copy[s] = None
             /\ sub'[s] = sub[s] /\ panel'[s] = panel[s] /\ (s \in lifted') = (s \in lifted)
    BY <1>1, <1>2
  <1> DEFINE y == Idle
  <1>4. /\ y \in Session /\ Form(y) /\ txn' = [txn EXCEPT ![t] = y]
        /\ \A s \in Service : y.copy[s] = None
        /\ mixed \subseteq mixed' /\ now' = now
    BY <1>1
  <1>5. \A s \in Service \ (mixed' \cup undone') :
           \/ y.copy[s] # None /\ Held(y, s, sub'[s], panel'[s], s \in lifted', now)
           \/ /\ y.copy[s] = None /\ txn[t].copy[s] # None
              /\ Agree(sub'[s], panel'[s], s \in lifted')
           \/ /\ y.copy[s] = None /\ txn[t].copy[s] = None
              /\ sub'[s] = sub[s] /\ panel'[s] = panel[s] /\ (s \in lifted') = (s \in lifted)
    BY <1>3
  <1> HIDE DEF y
  <1> QED BY <1>4, <1>5, StoryStep

LEMMA StoryAbort ==
  ASSUME IInv, StoryInv, NEW t \in Slot, Abort(t, {}), UNCHANGED <<sub, panel, now, mixed, lifted>>
  PROVE  StoryInv'
PROOF
  <1>1. txn' = [txn EXCEPT ![t] = Idle] /\ undone' = undone \cup txn[t].told \cup {}
    BY DEF Abort
  <1> QED BY <1>1, StoryDropped

\* A session that leaves s out and goes on to the next.
Without(x, s) ==
  [x EXCEPT !.pc = "next", !.todo = @ \ {s}, !.at = None, !.copy = [@ EXCEPT ![s] = None],
            !.told = @ \ {s}]

LEMMA WithoutOne ==
  ASSUME NEW x \in Session, NEW s \in Service
  PROVE  LET y == Without(x, s) IN
         /\ y \in Session /\ y.pc = "next" /\ y.op = x.op /\ y.todo = x.todo \ {s}
         /\ y.at = None /\ y.told = x.told \ {s} /\ y.rows = x.rows /\ y.seen = x.seen
         /\ \A v \in Service : y.copy[v] = IF v = s THEN None ELSE x.copy[v]
PROOF
  <1> DEFINE copy == [x.copy EXCEPT ![s] = None]
             todo == x.todo \ {s}
             told == x.told \ {s}
             y == [x EXCEPT !.pc = "next", !.todo = todo, !.at = None, !.copy = copy, !.told = told]
  <1>1. todo \in SUBSET Service /\ told \in SUBSET Service
    BY DEF Session
  <1>2. copy \in [Service -> Row \cup {None}]
    BY DEF Session
  <1>3. \A v \in Service : copy[v] = IF v = s THEN None ELSE x.copy[v]
    BY DEF Session
  <1>4. Without(x, s) = y
    BY DEF Without
  <1> HIDE DEF copy, todo, told
  <1>5. y \in Session
    BY <1>1, <1>2 DEF Session, Pc
  <1>6. y.pc = "next" /\ y.todo = todo /\ y.at = None
    BY DEF Session
  <1>7. y.copy = copy /\ y.told = told
    BY DEF Session
  <1>8. y.op = x.op /\ y.rows = x.rows /\ y.seen = x.seen
    BY DEF Session
  <1> HIDE DEF y
  <1> QED BY <1>3, <1>4, <1>5, <1>6, <1>7, <1>8 DEF todo, told

\* A session failed at s: what it told the panel of s is marked.
LEMMA StoryFail ==
  ASSUME IInv, StoryInv, NEW t \in Slot, NEW x, x = txn[t], NEW s \in Service, s = x.at,
         Working(x, s), NEW gone \in SUBSET {s}, Fail(t, gone),
         s \in x.told => s \in gone, UNCHANGED <<sub, now, mixed>>,
         \A v \in Service \ gone : panel'[v] = panel[v] /\ (v \in lifted') = (v \in lifted)
  PROVE  StoryInv'
PROOF
  <1>1. x \in Session /\ Shape(x) /\ Form(x)
    BY Here DEF StoryInv
  <1>2. s \in x.todo /\ x.copy[s] # None
    BY <1>1 DEF Shape, Working
  <1>3. CASE x.op \notin Listing
    <2>1. txn' = [txn EXCEPT ![t] = Idle] /\ undone' = undone \cup x.told \cup gone
      BY <1>3 DEF Fail, Abort
    <2> QED BY <2>1, StoryDropped
  <1>4. CASE x.op \in Listing
    <2> DEFINE y == Without(x, s)
    <2>1. txn' = [txn EXCEPT ![t] = y] /\ undone' = undone \cup gone
      <3>1. Skip(t, gone)
        BY <1>4 DEF Fail
      <3> QED BY <3>1 DEF Skip, Without
    <2>2. /\ y \in Session /\ y.pc = "next" /\ y.op = x.op /\ y.todo = x.todo \ {s}
          /\ y.at = None /\ y.told = x.told \ {s} /\ y.rows = x.rows /\ y.seen = x.seen
          /\ \A v \in Service : y.copy[v] = IF v = s THEN None ELSE x.copy[v]
      BY <1>1, WithoutOne
    <2> HIDE DEF y
    <2>3. Form(y)
      BY <1>1, <1>2, <1>4, <2>2 DEF Form, Listing, Arrears, Working
    <2>4. \A v \in Service \ {s} :
            Framed(x, y, v) /\ panel'[v] = panel[v] /\ (v \in lifted') = (v \in lifted)
      BY <2>2 DEF Framed, Working
    <2>5. ASSUME s \in Service \ (mixed' \cup undone')
          PROVE  y.copy[s] = None /\ x.copy[s] # None /\ Agree(sub[s], panel'[s], s \in lifted')
      <3>1. Held(x, s, sub[s], panel[s], s \in lifted, now)
        BY <1>2, <2>1, <2>5, Mine DEF InHand
      <3>2. s \notin gone /\ s \notin x.told
        BY <2>1, <2>5
      <3>3. Agree(sub[s], panel[s], s \in lifted)
        BY <3>1, <3>2 DEF Held
      <3> QED BY <1>2, <2>2, <3>2, <3>3
    <2>6. mixed \subseteq mixed' /\ undone \subseteq undone' /\ now' = now /\ sub' = sub
      BY <2>1
    <2>7. y \in Session /\ txn' = [txn EXCEPT ![t] = y] /\ y.copy[s] = None
      BY <2>1, <2>2
    <2>8. s \in Service \ (mixed' \cup undone') =>
            \/ y.copy[s] # None /\ Held(y, s, sub[s], panel'[s], s \in lifted', now)
            \/ /\ y.copy[s] = None /\ x.copy[s] # None
               /\ Agree(sub[s], panel'[s], s \in lifted')
      BY <2>5
    <2>9. AboutOne(t, y, s)
      BY <2>3, <2>4, <2>6, <2>7, <2>8 DEF AboutOne
    <2> QED BY <2>9, OneService
  <1> QED BY <1>3, <1>4

LEMMA StoryBegin ==
  ASSUME IInv, StoryInv, NEW t \in Slot, NEW op \in Ops, NEW s \in Service, Begin(t, op, s)
  PROVE  StoryInv'
PROOF
  <1> DEFINE held == IF op \in Batch THEN About(op, s) ELSE {}
             copy == [v \in Service |-> IF v \in held THEN sub[v] ELSE None]
             pc == IF op = "sync" THEN "ask" ELSE "next"
             y == [Idle EXCEPT !.pc = pc, !.op = op, !.todo = About(op, s), !.copy = copy]
  <1>1. op \in Kind /\ About(op, s) \subseteq Service /\ held \subseteq Service
    BY BoundAssumption, AboutServices
  <1>2. /\ txn' = [txn EXCEPT ![t] = y] /\ UNCHANGED <<panel, sub, now, undone, lifted>>
        /\ mixed' = mixed \cup {v \in held : \E u \in Slot : InHand(u, v)}
        /\ txn[t].pc = "idle"
    BY DEF Begin
  <1>3. copy \in [Service -> Row \cup {None}] /\ pc \in Pc
    BY Remembered DEF Pc
  <1>4. \A v \in Service : /\ v \in held => copy[v] = sub[v]
                           /\ v \notin held => copy[v] = None
    OBVIOUS
  <1>5. pc \in {"ask", "next"} /\ (pc = "ask" <=> op = "sync") /\ (op \in Batch => held = About(op, s))
        /\ (op \notin Batch => held = {})
    OBVIOUS
  <1> HIDE DEF held, copy, pc
  <1>6. y \in Session
    BY <1>1, <1>3, IdleSafe DEF Session
  <1>7. /\ y.pc = pc /\ y.op = op /\ y.todo = About(op, s) /\ y.copy = copy /\ y.at = None
        /\ y.seen = Nothing /\ y.told = {} /\ y.rows = Nothing
    BY DEF Idle
  <1>8. \A v \in Service : Nothing[v] = None /\ v # None /\ sub[v] # None
    BY NoneAssumption, Remembered, RowIsThere DEF Nothing
  <1> HIDE DEF y
  <1>9. Form(y)
    BY <1>5, <1>7, <1>8 DEF Form, Local
  <1>10. \A v \in Service : txn[t].copy[v] = None
    BY <1>2 DEF StoryInv, Form
  <1>11. \A v \in Service \ mixed' : y.copy[v] # None => \A u \in Slot : ~InHand(u, v)
    BY <1>2, <1>4, <1>7
  <1>12. ASSUME NEW v \in Service \ (mixed' \cup undone'), y.copy[v] # None
         PROVE  Held(y, v, sub[v], panel[v], v \in lifted, now)
    <2>1. Agree(sub[v], panel[v], v \in lifted)
      BY <1>2, <1>11, <1>12, Nobodys
    <2>2. Found(y, v, sub[v]) = sub[v] /\ y.copy[v] = sub[v] /\ ~Working(y, v)
          /\ y.seen[v] = None
      BY <1>4, <1>7, <1>8, <1>12 DEF Found, Working
    <2> QED BY <2>1, <2>2 DEF Held
  <1>13. \A v \in Service \ (mixed' \cup undone') :
           \/ y.copy[v] # None /\ Held(y, v, sub'[v], panel'[v], v \in lifted', now)
           \/ /\ y.copy[v] = None /\ txn[t].copy[v] # None
              /\ Agree(sub'[v], panel'[v], v \in lifted')
           \/ /\ y.copy[v] = None /\ txn[t].copy[v] = None
              /\ sub'[v] = sub[v] /\ panel'[v] = panel[v] /\ (v \in lifted') = (v \in lifted)
    BY <1>2, <1>10, <1>12
  <1> QED BY <1>2, <1>6, <1>9, <1>11, <1>13, StoryStep

\* At the end the committed row is the one the session found last.
LEMMA StoryCommit == ASSUME IInv, StoryInv, NEW t \in Slot, Commit(t) PROVE StoryInv'
PROOF
  <1> DEFINE x == txn[t]
             z == [x EXCEPT !.copy = Nothing, !.rows = Nothing, !.told = {}]
             y == IF x.todo = {} THEN Idle ELSE z
  <1>1. x \in Session /\ Form(x) /\ x.pc = "next"
    BY Here DEF StoryInv, Commit
  <1>2. /\ txn' = [txn EXCEPT ![t] = y] /\ UNCHANGED <<panel, now, undone, mixed, lifted>>
        /\ sub' = [s \in Service |-> View(t, s)]
    BY DEF Commit
  <1>3. \A s \in Service : sub'[s] = Found(x, s, sub[s])
    BY <1>2 DEF View, Found
  <1> HIDE DEF x
  <1>4. z \in Session /\ Idle \in Session
    BY <1>1, NothingHeld, IdleSafe DEF Session
  <1>5. z.pc = x.pc /\ z.op = x.op /\ z.copy = Nothing /\ z.rows = Nothing /\ z.told = {}
    BY <1>1 DEF Session
  <1>6. \A s \in Service : Nothing[s] = None
    BY DEF Nothing
  <1> HIDE DEF z
  <1>7. y \in Session /\ Form(y) /\ \A s \in Service : y.copy[s] = None
    BY <1>1, <1>4, <1>5, <1>6, IdleForm DEF Form
  <1> HIDE DEF y
  <1>8. ASSUME NEW s \in Service \ (mixed' \cup undone')
        PROVE  \/ x.copy[s] # None /\ Agree(sub'[s], panel'[s], s \in lifted')
               \/ x.copy[s] = None /\ sub'[s] = sub[s]
    <2>1. CASE x.copy[s] # None
      <3>1. Held(x, s, sub[s], panel[s], s \in lifted, now)
        BY <1>2, <2>1, Mine DEF InHand, x
      <3> QED BY <1>1, <1>2, <1>3, <2>1, <3>1 DEF Held
    <2>2. CASE x.copy[s] = None
      BY <1>1, <1>3, <2>2 DEF Form, Found
    <2> QED BY <2>1, <2>2
  <1>9. \A s \in Service \ (mixed' \cup undone') :
          \/ y.copy[s] # None /\ Held(y, s, sub'[s], panel'[s], s \in lifted', now)
          \/ /\ y.copy[s] = None /\ txn[t].copy[s] # None
             /\ Agree(sub'[s], panel'[s], s \in lifted')
          \/ /\ y.copy[s] = None /\ txn[t].copy[s] = None
             /\ sub'[s] = sub[s] /\ panel'[s] = panel[s] /\ (s \in lifted') = (s \in lifted)
    BY <1>2, <1>7, <1>8 DEF x
  <1>10. \A s \in Service \ mixed' : y.copy[s] # None =>
           txn[t].copy[s] # None \/ \A u \in Slot \ {t} : ~InHand(u, s)
    BY <1>7
  <1> QED BY <1>2, <1>7, <1>9, <1>10, StoryStep

LEMMA StoryLoad ==
  ASSUME IInv, StoryInv, NEW t \in Slot, NEW s \in Service, Load(t, s) PROVE StoryInv'
PROOF
  <1> DEFINE x == txn[t]
             pc == IF x.op \in Local THEN "answer" ELSE "ask"
             row == View(t, s)
             y == [x EXCEPT !.pc = pc, !.at = s, !.copy = [@ EXCEPT ![s] = row]]
  <1>1. x \in Session /\ Shape(x) /\ Form(x)
    BY Here DEF StoryInv
  <1>2. row \in Row /\ row # None /\ row = Found(x, s, sub[s])
    BY ViewRow, RowIsThere DEF View, Found
  <1>3. /\ txn' = [txn EXCEPT ![t] = y] /\ UNCHANGED <<sub, panel, now, undone, lifted>>
        /\ mixed' = (IF \E u \in Slot \ {t} : InHand(u, s) THEN mixed \cup {s} ELSE mixed)
    BY DEF Load
  <1>4. x.pc = "next" /\ s \in x.todo /\ x.op \notin Batch /\ s \notin x.told
    BY <1>1 DEF Load, Turns, Form
  <1>5. /\ pc \in {"answer", "ask"} /\ (pc = "answer" => x.op = "settings")
        /\ (pc = "ask" => x.op \notin Local)
    BY <1>4 DEF Local, Batch
  <1> HIDE DEF x, pc, row
  <1>6. /\ y \in Session /\ y.pc = pc /\ y.at = s /\ y.op = x.op /\ y.todo = x.todo
        /\ y.told = x.told /\ y.rows = x.rows /\ y.want = x.want /\ y.seen = x.seen
        /\ \A v \in Service : y.copy[v] = IF v = s THEN row ELSE x.copy[v]
    BY <1>1, <1>2, <1>5 DEF Session, Pc
  <1> HIDE DEF y
  <1>7. Form(y)
    BY <1>1, <1>2, <1>4, <1>5, <1>6 DEF Form
  <1>8. \A v \in Service \ {s} : Framed(x, y, v)
    BY <1>4, <1>6 DEF Framed, Working
  <1>9. s \notin mixed' => \A u \in Slot \ {t} : ~InHand(u, s)
    BY <1>3
  <1>10. ASSUME s \notin mixed' \cup undone'
         PROVE  Held(y, s, sub[s], panel[s], s \in lifted, now)
    <2>1. Agree(sub[s], panel[s], s \in lifted) /\ Agree(row, panel[s], s \in lifted)
      <3>1. s \in Service \ (mixed \cup undone)
        BY <1>3, <1>10
      <3>2. CASE x.copy[s] = None
        <4>1. x.rows[s] = None
          BY <1>1, <3>2 DEF Form
        <4>2. \A u \in Slot : ~InHand(u, s)
          BY <1>9, <1>10, <3>2 DEF InHand, x
        <4> QED BY <1>2, <3>1, <4>1, <4>2, Nobodys DEF Found
      <3>3. CASE x.copy[s] # None
        <4>1. Held(x, s, sub[s], panel[s], s \in lifted, now)
          BY <3>1, <3>3, Mine DEF InHand, x
        <4> QED BY <1>2, <1>4, <4>1 DEF Held, Working
      <3> QED BY <3>2, <3>3
    <2>2. /\ Found(y, s, sub[s]) = row /\ y.copy[s] = row
      BY <1>2, <1>6 DEF Found
    <2>3. y.op = "settings" => Becomes(y.op, y.copy[s], now, y.seen[s]) = row
      BY <2>2 DEF Becomes, Deleting, Reading
    <2>4. y.op \notin Batch /\ y.op # "sync" /\ y.pc # "write" /\ (y.pc = "answer" => y.op = "settings")
      BY <1>4, <1>5, <1>6 DEF Batch
    <2> QED BY <2>1, <2>2, <2>3, <2>4 DEF Held
  <1>11. AboutOne(t, y, s)
    BY <1>2, <1>3, <1>6, <1>7, <1>8, <1>9, <1>10 DEF AboutOne, x
  <1> QED BY <1>11, OneService

LEMMA StoryTurn ==
  ASSUME IInv, StoryInv, NEW t \in Slot, NEW s \in Service, Turn(t, s) PROVE StoryInv'
PROOF
  <1> DEFINE x == txn[t]
             z == [x EXCEPT !.todo = @ \ {s}]
             w == [x EXCEPT !.pc = "answer", !.at = s]
  <1>1. x \in Session /\ Shape(x) /\ Form(x)
    BY Here DEF StoryInv
  <1>2. /\ \/ txn' = [txn EXCEPT ![t] = z]
           \/ txn' = [txn EXCEPT ![t] = w] /\ (x.op = "sync" => x.seen[s] # None)
        /\ UNCHANGED <<sub, panel, now, undone, mixed, lifted>>
    BY DEF Turn
  <1>3. x.pc = "next" /\ s \in x.todo /\ x.op \in {"sync", "expire"} /\ x.copy[s] # None
    BY <1>1 DEF Turn, Turns, Batch, Shape
  <1> HIDE DEF x
  <1>4. CASE txn' = [txn EXCEPT ![t] = z]
    <2>1. z \in Session /\ z.pc = x.pc /\ z.op = x.op /\ z.todo = x.todo \ {s} /\ z.told = x.told
          /\ z.rows = x.rows /\ z.copy = x.copy /\ z.seen = x.seen /\ z.at = x.at
      BY <1>1 DEF Session
    <2> HIDE DEF z
    <2>2. Form(z)
      BY <1>1, <2>1 DEF Form
    <2>3. \A v \in Service : Framed(x, z, v)
      BY <1>3, <2>1 DEF Framed, Working
    <2>4. s \in Service \ (mixed' \cup undone') =>
            z.copy[s] # None /\ Held(z, s, sub[s], panel'[s], s \in lifted', now)
      <3> SUFFICES ASSUME s \in Service \ (mixed \cup undone)
                   PROVE  z.copy[s] # None /\ Held(z, s, sub[s], panel[s], s \in lifted, now)
        BY <1>2
      <3>1. Held(x, s, sub[s], panel[s], s \in lifted, now)
        BY <1>3, Mine DEF InHand, x
      <3> QED BY <1>3, <2>1, <2>3, <3>1, HeldFrame
    <2>5. AboutOne(t, z, s)
      BY <1>2, <1>3, <1>4, <2>1, <2>2, <2>3, <2>4 DEF AboutOne, x
    <2> QED BY <2>5, OneService
  <1>5. CASE txn' = [txn EXCEPT ![t] = w] /\ (x.op = "sync" => x.seen[s] # None)
    <2>1. /\ w \in Session /\ w.pc = "answer" /\ w.at = s /\ w.op = x.op /\ w.todo = x.todo
          /\ w.told = x.told /\ w.rows = x.rows /\ w.copy = x.copy /\ w.seen = x.seen
      BY <1>1 DEF Session, Pc
    <2> HIDE DEF w
    <2>2. Form(w)
      BY <1>1, <1>3, <2>1 DEF Form
    <2>3. \A v \in Service \ {s} : Framed(x, w, v)
      BY <1>3, <2>1 DEF Framed, Working
    <2>4. s \in Service \ (mixed' \cup undone') =>
            w.copy[s] # None /\ Held(w, s, sub[s], panel'[s], s \in lifted', now)
      <3> SUFFICES ASSUME s \in Service \ (mixed \cup undone)
                   PROVE  w.copy[s] # None /\ Held(w, s, sub[s], panel[s], s \in lifted, now)
        BY <1>2
      <3>1. Held(x, s, sub[s], panel[s], s \in lifted, now)
        BY <1>3, Mine DEF InHand, x
      <3>2. /\ x.copy[s] = Found(x, s, sub[s]) /\ Agree(Found(x, s, sub[s]), panel[s], s \in lifted)
            /\ (x.op = "sync" => panel[s] # None /\ x.seen[s].used <= panel[s].used)
            /\ (s \notin x.told => Agree(sub[s], panel[s], s \in lifted))
        BY <1>3, <1>5, <3>1 DEF Held, Batch
      <3>3. /\ x.copy[s] \in Row /\ panel[s] \in Account \cup {None} /\ now \in Nat
            /\ (s \in lifted) \in BOOLEAN /\ (x.op = "sync" => x.seen[s] \in Account)
            /\ (x.op = "expire" => x.copy[s].state = "ACTIVE")
        BY <1>1, <1>3, <1>5, Remembered DEF Session, Shape
      <3>4. Agree(Becomes(x.op, x.copy[s], now, x.seen[s]), panel[s], s \in lifted)
        <4> DEFINE l == s \in lifted
        <4>1. x.op \in Local \cup {"sync"} /\ l \in BOOLEAN /\ Agree(x.copy[s], panel[s], l)
          BY <1>3, <3>2, <3>3 DEF Local
        <4> HIDE DEF l
        <4>2. Agree(Becomes(x.op, x.copy[s], now, x.seen[s]), panel[s], l)
          BY <3>2, <3>3, <4>1, AgreeLocal
        <4> QED BY <4>2 DEF l
      <3>5. Found(w, s, sub[s]) = Found(x, s, sub[s])
        BY <2>1 DEF Found
      <3> QED BY <1>3, <2>1, <3>2, <3>4, <3>5 DEF Held, Working
    <2>5. AboutOne(t, w, s)
      BY <1>2, <1>3, <1>5, <2>1, <2>2, <2>3, <2>4 DEF AboutOne, x
    <2> QED BY <2>5, OneService
  <1> QED BY <1>2, <1>4, <1>5

LEMMA StoryReadAll == ASSUME IInv, StoryInv, NEW t \in Slot, ReadAll(t) PROVE StoryInv'
PROOF
  <1> DEFINE x == txn[t]
             z == [x EXCEPT !.pc = "next", !.seen = panel]
             w == [x EXCEPT !.pc = "next", !.todo = {}]
  <1>1. x \in Session /\ Form(x) /\ x.pc = "ask" /\ x.op = "sync"
    BY Here DEF StoryInv, ReadAll
  <1>2. /\ txn' = [txn EXCEPT ![t] = z] \/ txn' = [txn EXCEPT ![t] = w]
        /\ UNCHANGED <<sub, panel, now, undone, mixed, lifted>>
    BY DEF ReadAll
  <1> HIDE DEF x
  <1>3. /\ z \in Session /\ z.pc = "next" /\ z.op = "sync" /\ z.at = x.at /\ z.todo = x.todo
        /\ z.told = x.told /\ z.rows = x.rows /\ z.copy = x.copy /\ z.seen = panel
    BY <1>1, Remembered DEF Session, Pc
  <1>4. /\ w \in Session /\ w.pc = "next" /\ w.op = "sync" /\ w.at = x.at /\ w.todo = {}
        /\ w.told = x.told /\ w.rows = x.rows /\ w.copy = x.copy
    BY <1>1 DEF Session, Pc
  <1> HIDE DEF z, w
  <1>5. Form(z) /\ Form(w)
    BY <1>1, <1>3, <1>4 DEF Form
  <1>6. ASSUME NEW y \in {z, w}, txn' = [txn EXCEPT ![t] = y] PROVE StoryInv'
    <2>1. y \in Session /\ Form(y) /\ y.copy = x.copy
      BY <1>3, <1>4, <1>5
    <2>2. ASSUME NEW s \in Service \ (mixed' \cup undone'), x.copy[s] # None
          PROVE  Held(y, s, sub[s], panel[s], s \in lifted, now)
      <3>1. Held(x, s, sub[s], panel[s], s \in lifted, now)
        BY <1>2, <2>2, Mine DEF InHand, x
      <3>2. ~Working(x, s) /\ ~Working(y, s) /\ Found(y, s, sub[s]) = Found(x, s, sub[s])
        BY <1>1, <1>3, <1>4 DEF Working, Found
      <3>3. /\ y.told = x.told /\ y.copy = x.copy /\ y.op = "sync" /\ x.op = "sync"
            /\ y.todo \subseteq x.todo /\ (s \in y.todo => y.seen = panel)
        BY <1>1, <1>3, <1>4
      <3>4. panel[s] # None => panel[s].used <= panel[s].used
        <4>1. panel[s] # None => panel[s].used \in Nat
          BY Remembered DEF Account
        <4> QED BY <4>1
      <3> QED BY <3>1, <3>2, <3>3, <3>4 DEF Held, Batch
    <2>3. \A s \in Service \ (mixed' \cup undone') :
            \/ y.copy[s] # None /\ Held(y, s, sub'[s], panel'[s], s \in lifted', now)
            \/ /\ y.copy[s] = None /\ txn[t].copy[s] # None
               /\ Agree(sub'[s], panel'[s], s \in lifted')
            \/ /\ y.copy[s] = None /\ txn[t].copy[s] = None
               /\ sub'[s] = sub[s] /\ panel'[s] = panel[s] /\ (s \in lifted') = (s \in lifted)
      BY <1>2, <2>1, <2>2 DEF x
    <2>4. \A s \in Service \ mixed' : y.copy[s] # None =>
            txn[t].copy[s] # None \/ \A u \in Slot \ {t} : ~InHand(u, s)
      BY <2>1 DEF x
    <2> QED BY <1>2, <1>6, <2>1, <2>3, <2>4, StoryStep
  <1> QED BY <1>2, <1>6

\* The session at the panel: what an Effect leaves alone.
LEMMA EffectElsewhere ==
  ASSUME IInv, StoryInv, NEW t \in Slot, Asking(t), Answers(t), Effect(t), NEW s, s = txn[t].at
  PROVE  /\ Working(txn[t], s) /\ s \in Service
         /\ \A v \in Service \ {s} : panel'[v] = panel[v] /\ (v \in lifted') = (v \in lifted)
         /\ panel'[s] = Told(txn[t].op, panel[s], txn[t].copy[s], now)
PROOF
  <1>1. s \in Service
    BY Effected
  <1>2. panel' = [panel EXCEPT ![s] = Told(txn[t].op, panel[s], txn[t].copy[s], now)]
    BY DEF Effect
  <1>3. \A v \in Service \ {s} : (v \in lifted') = (v \in lifted)
    BY DEF Effect
  <1> QED BY <1>1, <1>2, <1>3, Remembered DEF Working, Asking

LEMMA StoryAsk == ASSUME IInv, StoryInv, NEW t \in Slot, Ask(t) PROVE StoryInv'
PROOF
  <1> DEFINE x == txn[t]
             s == x.at
             b == Told(x.op, panel[s], x.copy[s], now)
             told == IF Tells(x.op) THEN x.told \cup {s} ELSE x.told
             y == [x EXCEPT !.pc = "answer", !.seen = [@ EXCEPT ![s] = b], !.told = told]
  <1>1. x \in Session /\ Shape(x) /\ Form(x)
    BY Here DEF StoryInv
  <1>2. /\ Asking(t) /\ Answers(t) /\ Effect(t) /\ txn' = [txn EXCEPT ![t] = y]
        /\ UNCHANGED <<sub, now, undone, mixed>>
    BY DEF Ask
  <1>3. /\ s \in x.todo /\ s \in Service /\ x.copy[s] \in Row /\ x.copy[s] # None
        /\ b \in Account \cup {None}
    BY <1>2, Effected, RowIsThere
  <1>4. /\ Working(x, s) /\ panel'[s] = b
        /\ \A v \in Service \ {s} : panel'[v] = panel[v] /\ (v \in lifted') = (v \in lifted)
    BY <1>2, EffectElsewhere
  <1>5. x.pc = "ask" /\ x.op # "sync" /\ x.op \notin Local /\ s \notin x.told /\ x.op # None
    BY <1>1, <1>2, <1>3 DEF Asking, Form, Shape
  <1>6. panel[s] # None \/ x.op \in Deleting
    BY <1>2 DEF Answers
  <1>7. /\ lifted' = IF x.op = "renew" /\ x.copy[s].state = "SUSPENDED" THEN lifted \cup {s}
                     ELSE IF x.op \in {"suspend", "stop", "resume", "restore"} THEN lifted \ {s}
                     ELSE lifted
    BY <1>2 DEF Effect
  <1>8. told \subseteq Service /\ x.told \subseteq told /\ told \subseteq x.told \cup {s}
        /\ (s \notin told => x.op = "refund")
    BY <1>1, <1>3 DEF Session, Tells
  <1>9. x.op = "refund" => b = panel[s]
    BY DEF Told, Deleting
  <1> HIDE DEF x, b, told
  <1>10. /\ y \in Session /\ y.pc = "answer" /\ y.op = x.op /\ y.todo = x.todo /\ y.at = s
         /\ y.copy = x.copy /\ y.rows = x.rows /\ y.told = told
         /\ \A v \in Service : y.seen[v] = IF v = s THEN b ELSE x.seen[v]
    BY <1>1, <1>3, <1>8 DEF Session, Pc
  <1> HIDE DEF y
  <1>11. Form(y)
    BY <1>1, <1>3, <1>5, <1>8, <1>10 DEF Form
  <1>12. \A v \in Service \ {s} : Framed(x, y, v)
    BY <1>8, <1>10 DEF Framed, Working
  <1>13. ASSUME s \in Service \ (mixed' \cup undone')
         PROVE  Held(y, s, sub[s], panel'[s], s \in lifted', now)
    <2>1. Held(x, s, sub[s], panel[s], s \in lifted, now)
      BY <1>2, <1>3, <1>13, Mine DEF InHand, x
    <2>2. /\ x.copy[s] = Found(x, s, sub[s]) /\ Agree(x.copy[s], panel[s], s \in lifted)
          /\ Agree(sub[s], panel[s], s \in lifted)
      BY <1>4, <1>5, <2>1 DEF Held
    <2>3. s \notin y.told => Agree(sub[s], panel'[s], s \in lifted')
      BY <1>4, <1>7, <1>8, <1>9, <1>10, <2>2
    <2>4. ~Refuses(x.op, x.copy[s]) => Agree(Becomes(x.op, x.copy[s], now, b), b, s \in lifted')
      <3> DEFINE l == s \in lifted
                 m == s \in lifted'
                 op == x.op
                 q == Becomes(op, x.copy[s], now, b)
      <3>1. /\ l \in BOOLEAN /\ m \in BOOLEAN /\ Agree(x.copy[s], panel[s], l)
            /\ op = "renew" /\ x.copy[s].state = "SUSPENDED" => m
            /\ ~(op = "renew" /\ x.copy[s].state = "SUSPENDED")
                 /\ op \notin {"suspend", "stop", "resume", "restore"} => m = l
        BY <1>7, <2>2
      <3>2. /\ op \in Asked /\ panel[s] \in Account \cup {None} /\ now \in Nat
            /\ b = Told(op, panel[s], x.copy[s], now) /\ q = Becomes(op, x.copy[s], now, b)
            /\ (panel[s] # None \/ op \in Deleting)
        BY <1>1, <1>3, <1>5, <1>6, Remembered DEF Asked, Session, b
      <3> HIDE DEF l, m, op, q
      <3>3. ~Refuses(op, x.copy[s]) => Agree(q, b, m)
        BY <1>3, <3>1, <3>2, AgreeTold
      <3> QED BY <3>3 DEF m, op, q
    <2>5. /\ Found(y, s, sub[s]) = Found(x, s, sub[s]) /\ y.seen[s] = b /\ y.copy[s] = x.copy[s]
          /\ y.op = x.op /\ Working(y, s)
      BY <1>3, <1>10 DEF Found, Working
    <2> QED BY <1>4, <1>5, <1>10, <2>2, <2>3, <2>4, <2>5 DEF Held
  <1>14. s \in Service \ (mixed' \cup undone') =>
           y.copy[s] # None /\ Held(y, s, sub[s], panel'[s], s \in lifted', now)
    BY <1>3, <1>10, <1>13
  <1>15. AboutOne(t, y, s)
    <2> HIDE DEF s
    <2> QED BY <1>2, <1>3, <1>4, <1>10, <1>11, <1>12, <1>14 DEF AboutOne, x
  <1> QED BY <1>15, OneService

LEMMA StoryAnswerLost == ASSUME IInv, StoryInv, NEW t \in Slot, AnswerLost(t) PROVE StoryInv'
PROOF
  <1> DEFINE x == txn[t]
             s == x.at
  <1>1. /\ Asking(t) /\ Answers(t) /\ Effect(t) /\ Fail(t, {s}) /\ UNCHANGED <<sub, now, mixed>>
    BY DEF AnswerLost
  <1>2. /\ Working(x, s) /\ s \in Service
        /\ \A v \in Service \ {s} : panel'[v] = panel[v] /\ (v \in lifted') = (v \in lifted)
    BY <1>1, EffectElsewhere
  <1> QED BY <1>1, <1>2, StoryFail

LEMMA StoryRefused ==
  ASSUME IInv, StoryInv, NEW t \in Slot, PanelRefuses(t) \/ Raise(t) PROVE StoryInv'
PROOF
  <1> DEFINE x == txn[t]
             s == x.at
  <1>1. x \in Session /\ Shape(x) /\ Form(x) /\ UNCHANGED <<sub, panel, now, mixed, lifted>>
    BY Here DEF StoryInv, PanelRefuses, Raise
  <1>2. Working(x, s)
    BY DEF PanelRefuses, Asking, Raise, Working
  <1>3. s \in x.todo /\ s \in Service
    BY <1>1, <1>2 DEF Shape, Session, Working
  <1>4. CASE PanelRefuses(t)
    <2>1. Fail(t, {}) /\ x.pc = "ask"
      BY <1>4 DEF PanelRefuses, Asking
    <2>2. s \notin x.told
      BY <1>1, <1>3, <2>1 DEF Form
    <2> QED BY <1>1, <1>2, <1>3, <2>1, <2>2, StoryFail
  <1>5. CASE Raise(t)
    <2> DEFINE gone == x.told \cap {s}
    <2>1. Fail(t, gone) /\ gone \in SUBSET {s} /\ (s \in x.told => s \in gone)
      BY <1>5 DEF Raise
    <2> HIDE DEF gone
    <2> QED BY <1>1, <1>2, <1>3, <2>1, StoryFail
  <1> QED BY <1>4, <1>5

\* The UPDATE: the row flushed is the aggregate as changed.
LEMMA StoryWritten ==
  ASSUME IInv, StoryInv, NEW t \in Slot, NEW o, o = txn[t], NEW x \in Session, NEW s \in Service,
         Ready(x, panel), x.at = s, Working(o, s), o.pc \in {"answer", "write"},
         x.op = o.op, x.todo = o.todo, x.copy = o.copy, x.rows = o.rows, x.told = o.told,
         \A v \in Service \ {s} : x.seen[v] = o.seen[v],
         s \notin mixed \cup undone =>
           /\ Agree(x.want, panel[s], s \in lifted)
           /\ \A c \in Column \ x.cols : x.want[c] = View(t, s)[c],
         txn' = [txn EXCEPT ![t] = Written(t, x)],
         UNCHANGED <<sub, panel, now, undone, mixed, lifted>>
  PROVE  StoryInv'
PROOF
  <1> DEFINE row == Merged(t, x)
             rows == IF Silent(x) THEN x.rows ELSE [x.rows EXCEPT ![x.at] = row]
             y == [x EXCEPT !.at = None, !.want = None, !.cols = {}, !.rows = rows]
             pc == IF x.op = "return" THEN "pay" ELSE "next"
             z == [y EXCEPT !.pc = pc, !.todo = @ \ {x.at}]
             w == [y EXCEPT !.pc = "next", !.op = "return"]
  <1>1. /\ x.op # "refund" => Written(t, x) = z
        /\ x.op = "refund" => Written(t, x) \in {Idle, w}
    BY DEF Written
  <1>2. row \in Row /\ row # None
    BY MergedRow, RowIsThere
  <1>3. o.copy[s] # None /\ s \in o.todo /\ Form(o)
    BY Here DEF Shape, Working, StoryInv
  <1>4. s \notin mixed \cup undone => \A c \in Column : row[c] = x.want[c]
    BY DEF Merged
  <1>5. Silent(x) => x.cols = {}
    BY DEF Silent
  <1>6. s \notin mixed \cup undone =>
          Agree(IF rows[s] # None THEN rows[s] ELSE sub[s], panel[s], s \in lifted)
    <2> SUFFICES ASSUME s \notin mixed \cup undone
                 PROVE  Agree(IF rows[s] # None THEN rows[s] ELSE sub[s], panel[s], s \in lifted)
      OBVIOUS
    <2>1. Agree(x.want, panel[s], s \in lifted)
      OBVIOUS
    <2>2. CASE Silent(x)
      <3>1. (IF rows[s] # None THEN rows[s] ELSE sub[s]) = View(t, s)
        BY <2>2 DEF View
      <3>2. \A c \in Column : View(t, s)[c] = x.want[c]
        BY <1>5, <2>2
      <3> QED BY <2>1, <3>1, <3>2, AgreeAlike
    <2>3. CASE ~Silent(x)
      <3>1. rows[s] = row
        BY <2>3 DEF Session
      <3> QED BY <1>2, <1>4, <2>1, <3>1, AgreeAlike
    <2> QED BY <2>2, <2>3
  <1> HIDE DEF row
  <1>7. /\ rows \in [Service -> Row \cup {None}]
        /\ \A v \in Service \ {s} : rows[v] = x.rows[v]
    BY <1>2 DEF Session
  <1> HIDE DEF rows, pc
  <1>8. y \in Session /\ y.op = x.op /\ y.todo = x.todo /\ y.at = None /\ y.copy = x.copy
        /\ y.seen = x.seen /\ y.rows = rows /\ y.told = x.told
    BY <1>7 DEF Session
  <1> HIDE DEF y
  <1>9. pc \in {"pay", "next"}
    BY DEF pc
  <1>10. /\ z \in Session /\ z.pc = pc /\ z.op = x.op /\ z.todo = x.todo \ {s} /\ z.copy = o.copy
         /\ z.seen = x.seen /\ z.rows = rows /\ z.told = o.told /\ z.at = None
    BY <1>8, <1>9 DEF Session, Pc
  <1>11. /\ w \in Session /\ w.pc = "next" /\ w.op = "return" /\ w.todo = x.todo /\ w.copy = o.copy
         /\ w.seen = x.seen /\ w.rows = rows /\ w.told = o.told /\ w.at = None
    BY <1>8 DEF Session, Pc
  <1> HIDE DEF z, w
  <1>12. s # None /\ \A v \in Service \ {s} : ~Working(o, v) /\ v # None
    BY NoneAssumption DEF Working
  <1>13. s \notin mixed \cup undone => (s \notin o.told => Agree(sub[s], panel[s], s \in lifted))
    <2> SUFFICES ASSUME s \notin mixed \cup undone
                 PROVE  s \notin o.told => Agree(sub[s], panel[s], s \in lifted)
      OBVIOUS
    <2>1. Held(o, s, sub[s], panel[s], s \in lifted, now)
      BY <1>3, Mine DEF InHand
    <2> QED BY <2>1 DEF Held
  <1>14. CASE txn' = [txn EXCEPT ![t] = z] /\ x.op # "refund"
    <2>1. Form(z)
      <3>1. o.at = s /\ z.pc # "ask" /\ z.pc # "idle"
        BY <1>9, <1>10 DEF Working
      <3> QED BY <1>3, <1>7, <1>10, <3>1 DEF Form
    <2>2. \A v \in Service \ {s} : Framed(o, z, v)
      BY <1>7, <1>10, <1>12 DEF Framed, Working
    <2>3. s \notin mixed \cup undone => Held(z, s, sub[s], panel[s], s \in lifted, now)
      BY <1>6, <1>10, <1>12, <1>13 DEF Held, Working, Found
    <2>4. AboutOne(t, z, s)
      BY <1>3, <1>10, <1>14, <2>1, <2>2, <2>3 DEF AboutOne
    <2> QED BY <2>4, OneService
  <1>15. CASE txn' = [txn EXCEPT ![t] = w] /\ x.op = "refund"
    <2>1. o.told = {}
      BY <1>15 DEF Ready
    <2>2. Form(w)
      BY <1>3, <1>7, <1>11, <2>1 DEF Form
    <2>3. \A v \in Service \ {s} : Framed(o, w, v)
      BY <1>7, <1>11, <1>12 DEF Framed, Working, Batch
    <2>4. s \notin mixed \cup undone => Held(w, s, sub[s], panel[s], s \in lifted, now)
      BY <1>6, <1>11, <1>12, <1>13 DEF Held, Working, Found, Batch
    <2>5. AboutOne(t, w, s)
      BY <1>3, <1>11, <1>15, <2>2, <2>3, <2>4 DEF AboutOne
    <2> QED BY <2>5, OneService
  <1>16. CASE txn' = [txn EXCEPT ![t] = Idle] /\ x.op = "refund"
    <2>1. txn[t].told = {}
      BY <1>16 DEF Ready
    <2> QED BY <1>16, <2>1, StoryDropped
  <1> QED BY <1>1, <1>14, <1>15, <1>16

LEMMA StoryWrite == ASSUME IInv, StoryInv, NEW t \in Slot, Write(t) PROVE StoryInv'
PROOF
  <1> DEFINE x == txn[t]
             s == x.at
  <1>1. x \in Session /\ Shape(x) /\ Safe(x, panel)
    BY Here
  <1>2. /\ x.pc = "write" /\ txn' = [txn EXCEPT ![t] = Written(t, x)]
        /\ UNCHANGED <<sub, panel, now, undone, mixed, lifted>>
    BY DEF Write
  <1>3. Working(x, s) /\ s \in Service /\ x.copy[s] # None /\ x.want \in Row
    BY <1>1, <1>2 DEF Working, Shape, Session
  <1>4. Ready(x, panel)
    BY <1>1, <1>2, <1>3 DEF Ready, Shape, Safe
  <1>5. s \notin mixed \cup undone =>
          /\ Agree(x.want, panel[s], s \in lifted)
          /\ \A c \in Column \ x.cols : x.want[c] = View(t, s)[c]
    <2> SUFFICES ASSUME s \notin mixed \cup undone
                 PROVE  /\ Agree(x.want, panel[s], s \in lifted)
                        /\ \A c \in Column \ x.cols : x.want[c] = View(t, s)[c]
      OBVIOUS
    <2>1. Held(x, s, sub[s], panel[s], s \in lifted, now)
      BY <1>3, Mine DEF InHand
    <2> QED BY <1>2, <1>3, <2>1 DEF Held, Found, View
  <1> HIDE DEF x, s
  <1>6. x = txn[t] /\ x.at = s
    BY DEF x, s
  <1> QED BY <1>1, <1>2, <1>3, <1>4, <1>5, <1>6, StoryWritten

LEMMA StoryChange == ASSUME IInv, StoryInv, NEW t \in Slot, Change(t) PROVE StoryInv'
PROOF
  <1> DEFINE x == txn[t]
             s == x.at
             r == Becomes(x.op, x.copy[s], now, x.seen[s])
             cols == {c \in Column : r[c] # View(t, s)[c]}
             y == [x EXCEPT !.want = r, !.cols = cols, !.seen = [@ EXCEPT ![s] = None]]
             z == [y EXCEPT !.pc = "write"]
  <1>1. x \in Session /\ Shape(x) /\ Safe(x, panel) /\ Form(x)
    BY Here DEF StoryInv
  <1>2. /\ x.pc = "answer" /\ ~Refuses(x.op, x.copy[s])
        /\ txn' = [txn EXCEPT ![t] = Written(t, y)] \/ txn' = [txn EXCEPT ![t] = z]
        /\ UNCHANGED <<sub, panel, now, undone, mixed, lifted>>
    BY DEF Change
  <1>3. s \in x.todo /\ s \in Service /\ x.copy[s] \in Row /\ x.op # None /\ Working(x, s)
        /\ x.op \in Kind \cup {"return"} /\ x.copy[s] # None
    BY <1>1, <1>2 DEF Shape, Session, Working
  <1>4. x.op \in Reading \cup {"rotate"} => x.seen[s] \in Account
    BY <1>1, <1>2, <1>3 DEF Shape, Session
  <1>5. r \in Row /\ (r.state = "REVOKED" => panel[s] = None)
    <2>1. r \in Row /\ (r.state = "REVOKED" => x.op \in Deleting \/ x.copy[s].state = "REVOKED")
      BY <1>3, <1>4, BecomesRow, Remembered
    <2> QED BY <1>1, <1>2, <1>3, <2>1 DEF Safe
  <1>6. /\ cols \subseteq Column /\ \A c \in Column \ cols : r[c] = View(t, s)[c]
    OBVIOUS
  <1>7. s \notin mixed \cup undone =>
          /\ Held(x, s, sub[s], panel[s], s \in lifted, now)
          /\ Agree(r, panel[s], s \in lifted)
    <2> SUFFICES ASSUME s \notin mixed \cup undone
                 PROVE  /\ Held(x, s, sub[s], panel[s], s \in lifted, now)
                        /\ Agree(r, panel[s], s \in lifted)
      OBVIOUS
    <2>1. Held(x, s, sub[s], panel[s], s \in lifted, now)
      BY <1>3, Mine DEF InHand
    <2> QED BY <1>2, <1>3, <2>1 DEF Held
  <1>8. View(t, s) = Found(x, s, sub[s])
    BY DEF View, Found
  <1> HIDE DEF x, r, cols
  <1>9. /\ y \in Session /\ y.pc = "answer" /\ y.op = x.op /\ y.todo = x.todo /\ y.at = s
        /\ y.copy = x.copy /\ y.rows = x.rows /\ y.want = r /\ y.told = x.told /\ y.cols = cols
        /\ \A v \in Service : y.seen[v] = IF v = s THEN None ELSE x.seen[v]
    BY <1>1, <1>2, <1>3, <1>5, <1>6 DEF Session
  <1> HIDE DEF y
  <1>10. Ready(y, panel)
    <2>1. x.todo \subseteq Service
      BY <1>1 DEF Session
    <2> HIDE DEF s
    <2> QED BY <1>1, <1>3, <1>5, <1>9, <2>1 DEF Ready, Shape, Safe
  <1>11. CASE txn' = [txn EXCEPT ![t] = Written(t, y)]
    <2>1. x = txn[t] /\ \A v \in Service \ {s} : y.seen[v] = x.seen[v]
      BY <1>9 DEF x
    <2> HIDE DEF s
    <2>2. s \notin mixed \cup undone =>
            /\ Agree(y.want, panel[s], s \in lifted)
            /\ \A c \in Column \ y.cols : y.want[c] = View(t, s)[c]
      BY <1>6, <1>7, <1>9
    <2> QED BY <1>2, <1>3, <1>9, <1>10, <1>11, <2>1, <2>2, StoryWritten
  <1>12. CASE txn' = [txn EXCEPT ![t] = z]
    <2>1. /\ z \in Session /\ z.pc = "write" /\ z.op = x.op /\ z.todo = x.todo /\ z.at = s
          /\ z.copy = x.copy /\ z.rows = x.rows /\ z.want = r /\ z.told = x.told /\ z.cols = cols
          /\ \A v \in Service : z.seen[v] = IF v = s THEN None ELSE x.seen[v]
      BY <1>9 DEF Session, Pc
    <2> HIDE DEF z, s
    <2>2. Form(z)
      BY <1>1, <1>2, <1>3, <2>1 DEF Form, Working
    <2>3. \A v \in Service \ {s} : Framed(x, z, v)
      BY <1>3, <2>1 DEF Framed, Working
    <2>4. s \notin mixed \cup undone => Held(z, s, sub[s], panel[s], s \in lifted, now)
      <3>1. Found(z, s, sub[s]) = Found(x, s, sub[s]) /\ Working(z, s) /\ z.seen[s] = None
        BY <1>3, <2>1 DEF Found, Working
      <3>2. \A c \in Column \ cols : r[c] = Found(z, s, sub[s])[c]
        BY <1>6, <1>8, <3>1
      <3> QED BY <1>3, <1>7, <2>1, <3>1, <3>2 DEF Held
    <2>5. AboutOne(t, z, s)
      BY <1>2, <1>3, <1>12, <2>1, <2>2, <2>3, <2>4 DEF AboutOne, x
    <2> QED BY <2>5, OneService
  <1> QED BY <1>2, <1>11, <1>12

LEMMA StoryCredit == ASSUME IInv, StoryInv, NEW t \in Slot, Credit(t) PROVE StoryInv'
PROOF
  <1> DEFINE x == txn[t]
             y == [x EXCEPT !.pc = "next"]
  <1>1. x \in Session /\ Form(x) /\ x.pc = "pay"
    BY Here DEF StoryInv, Credit
  <1>2. /\ txn' = [txn EXCEPT ![t] = y] /\ UNCHANGED <<sub, panel, now, undone, mixed, lifted>>
    BY DEF Credit
  <1> HIDE DEF x
  <1>3. /\ y \in Session /\ y.pc = "next" /\ y.op = x.op /\ y.todo = x.todo /\ y.copy = x.copy
        /\ y.rows = x.rows /\ y.told = x.told /\ y.seen = x.seen /\ y.at = x.at
    BY <1>1 DEF Session, Pc
  <1> HIDE DEF y
  <1>4. Form(y) /\ \A v \in Service : Framed(x, y, v)
    BY <1>1, <1>3 DEF Form, Framed, Working
  <1>5. None \notin Service
    BY NoneAssumption
  <1>6. AboutOne(t, y, None)
    BY <1>2, <1>3, <1>4, <1>5 DEF AboutOne, x
  <1> QED BY <1>6, OneService

LEMMA StoryNext == ASSUME IInv, StoryInv, [Next]_vars PROVE StoryInv'
PROOF
  <1>1. CASE UNCHANGED vars
    BY <1>1, StoryAside DEF vars
  <1>2. ASSUME NEW s \in Service, Use(s) \/ OrderRenewal(s) PROVE StoryInv'
    BY <1>2, StoryUse, StoryAside DEF OrderRenewal
  <1>3. CASE Pass
    BY <1>3, StoryAside DEF Pass
  <1>4. ASSUME NEW t \in Slot, Step(t) PROVE StoryInv'
    <2>1. ASSUME NEW s \in Service, Load(t, s) \/ Turn(t, s) PROVE StoryInv'
      BY <2>1, StoryLoad, StoryTurn
    <2>2. ASSUME NEW s \in Service, Declined(t, s) PROVE StoryInv'
      BY <2>2, StoryAbort DEF Declined
    <2>3. CASE ReadAll(t) \/ Ask(t) \/ AnswerLost(t) \/ PanelRefuses(t) \/ Raise(t)
      BY <2>3, StoryReadAll, StoryAsk, StoryAnswerLost, StoryRefused
    <2>4. CASE Change(t) \/ Write(t) \/ Credit(t) \/ Commit(t)
      BY <2>4, StoryChange, StoryWrite, StoryCredit, StoryCommit
    <2> QED BY <1>4, <2>1, <2>2, <2>3, <2>4 DEF Step
  <1>5. ASSUME NEW t \in Slot, Die(t) PROVE StoryInv'
    BY <1>5, StoryAbort DEF Die
  <1>6. ASSUME NEW t \in Slot, NEW op \in Ops, NEW s \in Service, Begin(t, op, s) PROVE StoryInv'
    BY <1>6, StoryBegin
  <1> QED BY <1>1, <1>2, <1>3, <1>4, <1>5, <1>6 DEF Next

\* A service nobody has in hand, that no two sessions ever had at once and no
\* session left half-way, has a row and an account that agree; and one session
\* has a service in hand only with a copy that is the row as it finds it.
THEOREM StoryIsKept == Spec => []StoryInv
PROOF
  <1>1. Init => StoryInv
    BY StoryInit
  <1>2. IInv /\ StoryInv /\ [Next]_vars => StoryInv'
    BY StoryNext
  <1> QED BY <1>1, <1>2, Inductive, PTL DEF Spec

\* An account that is gone has a row that says so, for any number of services
\* and sessions, whatever fails between the panel's answer and the commit, if
\* the service was never in two hands and never left half-way.
THEOREM GoneIsKnown == Spec => []GoneIsRevoked
PROOF
  <1>1. StoryInv => GoneIsRevoked
    BY DEF StoryInv, GoneIsRevoked, Quiet, Agree
  <1> QED BY <1>1, StoryIsKept, PTL

\* Disabled there is suspended here, and the other way round, but for what a
\* paid renewal turned on again.
THEOREM OffIsKnown == Spec => []OffIsSuspended
PROOF
  <1>1. StoryInv => OffIsSuspended
    BY DEF StoryInv, OffIsSuspended, Quiet, Agree, Paired
  <1> QED BY <1>1, StoryIsKept, PTL

\* The date, the cap, the link and the traffic the shop shows are the panel's,
\* with any number of sessions at other services meanwhile.
THEOREM AccountIsTold == Spec => []RowTellsTheAccount
PROOF
  <1>1. StoryInv => RowTellsTheAccount
    <2> SUFFICES ASSUME StoryInv, NEW s \in Service, Quiet(s), panel[s] # None
                 PROVE  /\ \A c \in {"expires", "quota", "link"} : sub[s][c] = panel[s][c]
                        /\ sub[s].used <= panel[s].used
      BY DEF RowTellsTheAccount
    <2>1. Agree(sub[s], panel[s], s \in lifted)
      BY DEF StoryInv, Quiet
    <2> QED BY <2>1 DEF Agree, Matching
  <1> QED BY <1>1, StoryIsKept, PTL
=============================================================================
