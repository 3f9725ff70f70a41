------------------------------- MODULE Services -------------------------------
(***************************************************************************)
(* The life of a delivered service: its subscription row and its account   *)
(* on a panel, and everybody who changes both: operators, the customer,    *)
(* paid renewals, the worker's sweeps, a reseller's arrears, a refund.     *)
(*                                                                         *)
(* A session is one database transaction.  It reads rows without locking   *)
(* them, talks to the panel, applies the aggregate's method to its copy,   *)
(* and at update() reads the row again and writes the columns in which the *)
(* copy differs.  An UPDATE waits for the transaction that updated the row *)
(* before it; what a session wrote is visible to others once it commits,   *)
(* what it did on a panel at once.                                         *)
(***************************************************************************)
EXTENDS Integers, FiniteSets

CONSTANTS
  Service,     \* delivered services, all on one panel
  Ops,         \* the kinds of session of this instance, out of Kind
  Slot,        \* slots for one session each
  Worker,      \* the one the worker's sweeps run in
  Grace,       \* delete_expired_after, in days
  MaxTime, MaxDays, MaxQuota, MaxLink,  \* bounds on the clock and on accounts
  MaxTrouble,  \* bound on the times something goes wrong
  None

\* One service each: an operator's buttons, the customer's settings and
\* refund, a paid renewal.  Many: the worker's sweeps, a reseller's arrears.
Single == {"suspend", "resume", "revoke", "rotate", "extend", "traffic",
           "reset", "settings", "refund", "renew"}
Arrears == {"stop", "restore"}
Sweeps == {"sync", "expire", "clean"}
Kind == Single \cup Arrears \cup Sweeps

ASSUME BoundAssumption ==
  /\ Ops \subseteq Kind
  /\ Worker \in Slot
  /\ {Grace, MaxTime, MaxDays, MaxQuota, MaxLink, MaxTrouble} \subseteq Nat

VARIABLES
  sub,      \* the committed subscription row of each service
  panel,    \* its account on the panel; None once deleted
  now,      \* the day
  owed,     \* services with a paid renewal to deliver
  credited, \* services whose price went back to the customer's wallet
  txn,      \* the session in each slot
  trouble,  \* times something went wrong
  undone,   \* services a panel was told about by a session that never saved it
  mixed,    \* services two sessions had in hand at once
  lifted    \* suspended services that a paid renewal turned on again

vars == <<sub, panel, now, owed, credited, txn, trouble, undone, mixed, lifted>>

-----------------------------------------------------------------------------
(* Rows, accounts, sessions *)

State == {"ACTIVE", "EXPIRED", "EXHAUSTED", "SUSPENDED", "REVOKED"}
Reason == {"operator", "arrears", None}

Row == [state : State, reason : Reason, expires : Nat, used : Nat, quota : Nat, link : Nat]
Column == {"state", "reason", "expires", "used", "quota", "link"}
Account == [on : BOOLEAN, expires : Nat, used : Nat, quota : Nat, link : Nat]

ASSUME NoneAssumption ==
  None \notin Service \cup Row \cup Account \cup Kind \cup {"return", "operator", "arrears"}

Pc == {"idle", "next", "ask", "answer", "write", "pay"}

\* copy: the aggregates read; seen: what the panel answered; want and cols: the
\* aggregate as changed and where it differs from the row; rows: what was
\* flushed; told: services changed on the panel.
Session ==
  [pc : Pc, op : Kind \cup {"return", None}, todo : SUBSET Service, at : Service \cup {None},
   copy : [Service -> Row \cup {None}], seen : [Service -> Account \cup {None}],
   want : Row \cup {None}, cols : SUBSET Column,
   rows : [Service -> Row \cup {None}], told : SUBSET Service]

Nothing == [s \in Service |-> None]

Idle ==
  [pc |-> "idle", op |-> None, todo |-> {}, at |-> None, copy |-> Nothing,
   seen |-> Nothing, want |-> None, cols |-> {}, rows |-> Nothing, told |-> {}]

\* What a SELECT of t finds: the row t has flushed, or the committed one.
View(t, s) == IF txn[t].rows[s] # None THEN txn[t].rows[s] ELSE sub[s]

\* An UPDATE of t need not wait.
Free(t, s) == \A u \in Slot \ {t} : txn[u].rows[s] = None

InHand(t, s) == txn[t].copy[s] # None

-----------------------------------------------------------------------------
(* The aggregate: Subscription *)

Exhausted(r) == r.used >= r.quota
Expired(r, n) == n >= r.expires

Exceeding(r) == IF r.state = "ACTIVE" /\ Exhausted(r) THEN "EXHAUSTED" ELSE r.state
Revived(r, from) == IF r.state \in from /\ ~Exhausted(r) THEN "ACTIVE" ELSE r.state

RecordUsage(r, used) ==
  LET x == [r EXCEPT !.used = IF used > @ THEN used ELSE @]
  IN  [x EXCEPT !.state = Exceeding(x)]

ResetTraffic(r) ==
  [r EXCEPT !.used = 0, !.state = IF @ = "EXHAUSTED" THEN "ACTIVE" ELSE @]

AddTraffic(r) ==
  LET x == [r EXCEPT !.quota = @ + 1] IN [x EXCEPT !.state = Revived(x, {"EXHAUSTED"})]

\* A day's renewal, from now if the date has passed.
Later(expires, n) == (IF expires > n THEN expires ELSE n) + 1

RenewFromNow(r, n) == [r EXCEPT !.expires = n + 1, !.state = "ACTIVE"]   \* mutant
Renew(r, n) ==
  LET x == [r EXCEPT !.expires = Later(@, n)]
  IN  [x EXCEPT !.state = Revived(x, {"EXPIRED", "EXHAUSTED"})]

\* A paid one brings the package's own allowance.
RenewOnto(r, n) == Renew([r EXCEPT !.quota = 1, !.used = 0], n)

SuspendActive(r, reason) ==   \* mutant
  IF r.state # "ACTIVE" THEN r ELSE [r EXCEPT !.state = "SUSPENDED", !.reason = reason]
Suspend(r, reason) ==
  IF r.state = "SUSPENDED" THEN r ELSE [r EXCEPT !.state = "SUSPENDED", !.reason = reason]

Resume(r, n) ==
  [r EXCEPT !.reason = None,
            !.state = IF Expired(r, n) THEN "EXPIRED"
                      ELSE IF Exhausted(r) THEN "EXHAUSTED" ELSE "ACTIVE"]

\* Terminal.
RevokeActive(r) == IF r.state = "ACTIVE" THEN [r EXCEPT !.state = "REVOKED"] ELSE r   \* mutant
Revoke(r) == [r EXCEPT !.state = "REVOKED"]

Deleting == {"revoke", "clean", "return"}
Reading == {"sync", "refund"}

\* What the method says to a row it will not change.
Refuses(op, r) ==
  \/ r.state = "REVOKED" /\ op \notin Deleting
  \/ op \in {"resume", "restore"} /\ r.state # "SUSPENDED"

\* The row after op's method at n, given what the panel answered.
Becomes(op, r, n, account) ==
  CASE op = "suspend"               -> Suspend(r, "operator")
    [] op = "stop"                  -> Suspend(r, "arrears")
    [] op \in {"resume", "restore"} -> Resume(r, n)
    [] op \in Deleting              -> Revoke(r)
    [] op = "expire"                -> [r EXCEPT !.state = "EXPIRED"]
    [] op = "rotate"                -> [r EXCEPT !.link = account.link]
    [] op = "extend"                -> Renew(r, n)
    [] op = "renew"                 -> RenewOnto(r, n)
    [] op = "traffic"               -> AddTraffic(r)
    [] op = "reset"                 -> ResetTraffic(r)
    [] op \in Reading               -> RecordUsage(r, account.used)
    [] OTHER                        -> r

-----------------------------------------------------------------------------
(* The panel *)

\* Methods with nothing to ask of a panel.
RowsFirst == {"expire", "settings", "revoke"}   \* mutant
Local == {"expire", "settings"}

Deleted(account) == None

\* The account after op's call at n, where the aggregate's copy is r.
Told(op, account, r, n) ==
  CASE op \in {"suspend", "stop"}   -> [account EXCEPT !.on = FALSE]
    [] op \in {"resume", "restore"} -> [account EXCEPT !.on = TRUE]
    [] op \in Deleting              -> Deleted(account)
    [] op = "rotate"                -> [account EXCEPT !.link = @ + 1]
    [] op = "extend"                -> [account EXCEPT !.expires = Later(@, n)]
    [] op = "renew"                 -> [account EXCEPT !.expires = Later(@, n), !.quota = 1,
                                                       !.used = 0, !.on = TRUE]
    [] op = "traffic"               -> [account EXCEPT !.quota = r.quota + 1]
    [] op = "reset"                 -> [account EXCEPT !.used = 0]
    [] OTHER                        -> account

Carries(account) ==
  account # None /\ account.on /\ now < account.expires /\ account.used < account.quota

\* The customer uses the service.
Use(s) ==
  /\ Carries(panel[s])
  /\ panel' = [panel EXCEPT ![s].used = @ + 1]
  /\ UNCHANGED <<sub, now, owed, credited, txn, trouble, undone, mixed, lifted>>

\* A day passes: not while a panel's answer is on its way into the row.
Pass ==
  /\ now < MaxTime
  /\ \A t \in Slot : txn[t].pc # "answer"
  /\ now' = now + 1
  /\ UNCHANGED <<sub, panel, owed, credited, txn, trouble, undone, mixed, lifted>>

-----------------------------------------------------------------------------
(* Sessions begin *)

\* A suspended card has no renew button, and a revoked one shows as suspended.
OrderRenewal(s) ==
  /\ "renew" \in Ops
  /\ s \notin owed
  /\ sub[s].state \notin {"SUSPENDED", "REVOKED"}
  /\ panel[s] # None => panel[s].expires < MaxDays
  /\ owed' = owed \cup {s}
  /\ UNCHANGED <<sub, panel, now, credited, txn, trouble, undone, mixed, lifted>>

Busy(op) == \E t \in Slot : txn[t].op = op

\* list_lapsed; list_lapsed_before; list_for_reseller.
Ended == {s \in Service : sub[s].state = "EXHAUSTED" /\ Expired(sub[s], now)}   \* mutant
Lapsed == {s \in Service : sub[s].state = "ACTIVE" /\ Expired(sub[s], now)}
LongLapsed ==
  {s \in Service : sub[s].state \in {"EXPIRED", "EXHAUSTED"} /\ Expired(sub[s], now - Grace)}
ToStop == {s \in Service : sub[s].state = "ACTIVE"}
ToRestore == {s \in Service : sub[s].state = "SUSPENDED" /\ sub[s].reason = "arrears"}

\* The services a session of kind op is about.
About(op, s) ==
  CASE op = "sync"    -> Service
    [] op = "expire"  -> Lapsed
    [] op = "clean"   -> LongLapsed
    [] op = "stop"    -> ToStop
    [] op = "restore" -> ToRestore
    [] op = "renew"   -> {s} \cap owed
    [] OTHER          -> {s}

\* A reseller's balance moves in one transaction at a time, an order is delivered
\* by one.
Alone(op) ==
  /\ op \in Arrears => \A o \in Arrears : ~Busy(o)
  /\ op = "renew" => ~Busy("renew")

\* The bounds of the instance.
Within(op, s) ==
  /\ op = "extend" => (panel[s] # None => panel[s].expires < MaxDays)
  /\ op = "traffic" => sub[s].quota < MaxQuota
  /\ op = "rotate" => (panel[s] # None => panel[s].link < MaxLink)

\* These two read every row they are about before anything else.
Batch == {"sync", "expire"}

Begin(t, op, s) ==
  /\ txn[t].pc = "idle"
  /\ op \in Sweeps => t = Worker
  /\ Alone(op) /\ Within(op, s)
  /\ About(op, s) # {}
  /\ LET held == IF op \in Batch THEN About(op, s) ELSE {}
     IN  /\ txn' = [txn EXCEPT ![t] = [Idle EXCEPT
                      !.pc = IF op = "sync" THEN "ask" ELSE "next",
                      !.op = op, !.todo = About(op, s),
                      !.copy = [v \in Service |-> IF v \in held THEN sub[v] ELSE None]]]
         /\ mixed' = mixed \cup {v \in held : \E u \in Slot : InHand(u, v)}
  /\ UNCHANGED <<sub, panel, now, owed, credited, trouble, undone, lifted>>

-----------------------------------------------------------------------------
(* How a session ends *)

\* Rolled back: the rows stay as they were, the panel does not.
Abort(t, gone) ==
  /\ txn' = [txn EXCEPT ![t] = Idle]
  /\ undone' = undone \cup txn[t].told \cup gone

\* Lists log the failure of one service and go on with the others.
Listing == Arrears \cup {"expire", "clean"}

Skip(t, gone) ==
  /\ txn' = [txn EXCEPT ![t].pc = "next", ![t].todo = @ \ {txn[t].at}, ![t].at = None,
                        ![t].copy = [@ EXCEPT ![txn[t].at] = None],
                        ![t].told = @ \ {txn[t].at}]
  /\ undone' = undone \cup gone

Fail(t, gone) == IF txn[t].op \in Listing THEN Skip(t, gone) ELSE Abort(t, gone)

Saved(t) == {s \in Service : txn[t].rows[s] # None}

\* The clean-up commits after every service, the others once.
Commit(t) ==
  /\ txn[t].pc = "next"
  /\ txn[t].todo = {} \/ (txn[t].op = "clean" /\ Saved(t) # {})
  /\ sub' = [s \in Service |-> View(t, s)]
  /\ owed' = IF txn[t].op = "renew" THEN owed \ txn[t].told ELSE owed
  /\ txn' = [txn EXCEPT ![t] =
       IF @.todo = {} THEN Idle ELSE [@ EXCEPT !.copy = Nothing, !.rows = Nothing, !.told = {}]]
  /\ UNCHANGED <<panel, now, credited, trouble, undone, mixed, lifted>>

Trouble == trouble < MaxTrouble /\ trouble' = trouble + 1

\* The process is killed, the connection lost, or a deadlock with another
\* transaction resolved against this one.
Die(t) ==
  /\ txn[t].pc # "idle"
  /\ Trouble
  /\ Abort(t, {})
  /\ UNCHANGED <<sub, panel, now, owed, credited, mixed, lifted>>

-----------------------------------------------------------------------------
(* A session at work on one service *)

Turns(t, s) == txn[t].pc = "next" /\ s \in txn[t].todo

\* get(): the aggregate is read, where no batch has read it already.
Load(t, s) ==
  LET x == txn[t] IN
  /\ Turns(t, s) /\ x.op \notin Batch
  /\ x.op = "clean" => Saved(t) = {}
  /\ x.op = "refund" => View(t, s).state = "ACTIVE"
  /\ txn' = [txn EXCEPT ![t].pc = IF x.op \in Local THEN "answer" ELSE "ask",
                        ![t].at = s, ![t].copy = [@ EXCEPT ![s] = View(t, s)]]
  /\ mixed' = IF \E u \in Slot \ {t} : InHand(u, s) THEN mixed \cup {s} ELSE mixed
  /\ UNCHANGED <<sub, panel, now, owed, credited, trouble, undone, lifted>>

\* Only an active service may be returned.
Declined(t, s) ==
  /\ Turns(t, s) /\ txn[t].op = "refund" /\ View(t, s).state # "ACTIVE"
  /\ Abort(t, {})
  /\ UNCHANGED <<sub, panel, now, owed, credited, trouble, mixed, lifted>>

\* A batch turns to the next aggregate it holds; one without a reading is
\* passed over.
Turn(t, s) ==
  /\ Turns(t, s) /\ txn[t].op \in Batch
  /\ txn' = IF txn[t].op = "sync" /\ txn[t].seen[s] = None
            THEN [txn EXCEPT ![t].todo = @ \ {s}]
            ELSE [txn EXCEPT ![t].pc = "answer", ![t].at = s]
  /\ UNCHANGED <<sub, panel, now, owed, credited, trouble, undone, mixed, lifted>>

\* bulk_usage: one request for every account, or the node is skipped.
ReadAll(t) ==
  /\ txn[t].pc = "ask" /\ txn[t].op = "sync"
  /\ \/ txn' = [txn EXCEPT ![t].pc = "next", ![t].seen = panel] /\ UNCHANGED trouble
     \/ txn' = [txn EXCEPT ![t].pc = "next", ![t].todo = {}] /\ Trouble
  /\ UNCHANGED <<sub, panel, now, owed, credited, undone, mixed, lifted>>

Asking(t) == txn[t].pc = "ask" /\ txn[t].op # "sync"

\* add_traffic asks its aggregate first; an account that is gone can only be
\* deleted again.
AnswersIfOn(t) ==   \* mutant
  panel[txn[t].at] # None /\ (panel[txn[t].at].on \/ txn[t].op # "renew")
Answers(t) ==
  LET x == txn[t] IN
  /\ x.op = "traffic" => ~Refuses(x.op, x.copy[x.at])
  /\ panel[x.at] # None \/ x.op \in Deleting

Effect(t) ==
  LET x == txn[t]  s == x.at IN
  /\ panel' = [panel EXCEPT ![s] = Told(x.op, @, x.copy[s], now)]
  /\ lifted' = IF x.op = "renew" /\ x.copy[s].state = "SUSPENDED" THEN lifted \cup {s}
               ELSE IF x.op \in {"suspend", "stop", "resume", "restore"} THEN lifted \ {s}
               ELSE lifted

\* get_account tells the panel nothing.
Tells(op) == op # "refund"

Ask(t) ==
  LET x == txn[t]  s == x.at IN
  /\ Asking(t) /\ Answers(t)
  /\ Effect(t)
  /\ txn' = [txn EXCEPT ![t].pc = "answer",
                        ![t].seen = [@ EXCEPT ![s] = Told(x.op, panel[s], x.copy[s], now)],
                        ![t].told = IF Tells(x.op) THEN @ \cup {s} ELSE @]
  /\ UNCHANGED <<sub, now, owed, credited, trouble, undone, mixed>>

\* The panel did it, and the answer is lost.
AnswerLost(t) ==
  /\ Asking(t) /\ Answers(t) /\ Tells(txn[t].op)
  /\ Trouble
  /\ Effect(t)
  /\ Fail(t, {txn[t].at})
  /\ UNCHANGED <<sub, now, owed, credited, mixed>>

\* PanelError, with nothing done there.
PanelRefuses(t) ==
  /\ Asking(t)
  /\ (~Answers(t) /\ UNCHANGED trouble) \/ Trouble
  /\ Fail(t, {})
  /\ UNCHANGED <<sub, panel, now, owed, credited, mixed, lifted>>

\* The aggregate refuses what the panel has done.
Raise(t) ==
  LET x == txn[t]  s == x.at IN
  /\ x.pc = "answer" /\ Refuses(x.op, x.copy[s])
  /\ Fail(t, x.told \cap {s})
  /\ UNCHANGED <<sub, panel, now, owed, credited, trouble, mixed, lifted>>

\* These also stamp last_synced_at, so there is always something to write.
Stamps == {"sync", "refund", "reset"}
Silent(x) == x.cols = {} /\ x.op \notin Stamps

Merged(t, x) == [c \in Column |-> IF c \in x.cols THEN x.want[c] ELSE View(t, x.at)[c]]

CreditFirst(t, x) ==   \* mutant
  LET y == [x EXCEPT !.at = None, !.want = None, !.cols = {},
                     !.rows = IF Silent(x) THEN @ ELSE [@ EXCEPT ![x.at] = Merged(t, x)]]
  IN  IF x.op # "refund" THEN [y EXCEPT !.pc = "next", !.todo = @ \ {x.at}]
      ELSE IF x.want.used > 0 THEN Idle
      ELSE [y EXCEPT !.pc = "pay", !.op = "return", !.told = {x.at}]

\* The session after the UPDATE: a refund goes on, if nothing was used, to the
\* deletion, and from there to the wallet.
Written(t, x) ==
  LET y == [x EXCEPT !.at = None, !.want = None, !.cols = {},
                     !.rows = IF Silent(x) THEN @ ELSE [@ EXCEPT ![x.at] = Merged(t, x)]]
  IN  IF x.op # "refund" THEN [y EXCEPT !.pc = IF x.op = "return" THEN "pay" ELSE "next",
                                        !.todo = @ \ {x.at}]
      ELSE IF x.want.used > 0 THEN Idle
      ELSE [y EXCEPT !.pc = "next", !.op = "return"]

\* The method is applied to the copy; update() reads the row again, and either
\* updates it at once or waits for who did before.
Change(t) ==
  LET x == txn[t]  s == x.at
      r == Becomes(x.op, x.copy[s], now, x.seen[s])
      y == [x EXCEPT !.want = r, !.cols = {c \in Column : r[c] # View(t, s)[c]},
                     !.seen = [@ EXCEPT ![s] = None]] IN
  /\ x.pc = "answer" /\ ~Refuses(x.op, x.copy[s])
  /\ txn' = [txn EXCEPT ![t] = IF Silent(y) \/ Free(t, s) THEN Written(t, y)
                               ELSE [y EXCEPT !.pc = "write"]]
  /\ UNCHANGED <<sub, panel, now, owed, credited, trouble, undone, mixed, lifted>>

Write(t) ==
  /\ txn[t].pc = "write" /\ Free(t, txn[t].at)
  /\ txn' = [txn EXCEPT ![t] = Written(t, txn[t])]
  /\ UNCHANGED <<sub, panel, now, owed, credited, trouble, undone, mixed, lifted>>

\* credit_reward, committed on its own connection under the order's number.
Credit(t) ==
  /\ txn[t].pc = "pay"
  /\ credited' = credited \cup txn[t].told
  /\ txn' = [txn EXCEPT ![t].pc = "next"]
  /\ UNCHANGED <<sub, panel, now, owed, trouble, undone, mixed, lifted>>

-----------------------------------------------------------------------------
Init ==
  /\ sub = [s \in Service |-> [state |-> "ACTIVE", reason |-> None, expires |-> 1,
                               used |-> 0, quota |-> 1, link |-> 0]]
  /\ panel = [s \in Service |-> [on |-> TRUE, expires |-> 1, used |-> 0, quota |-> 1,
                                 link |-> 0]]
  /\ now = 0 /\ trouble = 0
  /\ owed = {} /\ credited = {} /\ undone = {} /\ mixed = {} /\ lifted = {}
  /\ txn = [t \in Slot |-> Idle]

\* Every step of a session but its beginning and its end by accident.
Step(t) ==
  \/ \E s \in Service : Load(t, s) \/ Declined(t, s) \/ Turn(t, s)
  \/ ReadAll(t) \/ Ask(t) \/ AnswerLost(t) \/ PanelRefuses(t) \/ Raise(t)
  \/ Change(t) \/ Write(t) \/ Credit(t) \/ Commit(t)

Next ==
  \/ \E s \in Service : Use(s) \/ OrderRenewal(s)
  \/ Pass
  \/ \E t \in Slot : Step(t) \/ Die(t) \/ \E op \in Ops, s \in Service : Begin(t, op, s)

Spec == Init /\ [][Next]_vars

\* Sessions go on; the worker's tick drains the stuck orders and
\* expires what has lapsed every time round.
FairSpec ==
  /\ Spec
  /\ \A t \in Slot : WF_vars(Step(t))
  /\ \A s \in Service : SF_vars(Begin(Worker, "expire", s)) /\ SF_vars(Begin(Worker, "renew", s))

-----------------------------------------------------------------------------
(* Properties *)

\* Every variable has its type.
TypeOK ==
  /\ sub \in [Service -> Row] /\ panel \in [Service -> Account \cup {None}]
  /\ now \in Nat /\ trouble \in Nat
  /\ {owed, credited, undone, mixed, lifted} \subseteq SUBSET Service
  /\ txn \in [Slot -> Session]

\* A row that says revoked never stands beside an account that still carries
\* the customer's traffic: SubscriptionAdminService.revoke deletes first, and no
\* later session brings an account back.
RevokedHasNoAccount == \A s \in Service : sub[s].state = "REVOKED" => panel[s] = None

\* The price is in the wallet only when the account is gone: UnusedRefund's
\* order of steps, whatever fails between them.
CreditedHasNoAccount == \A s \in credited : panel[s] = None

\* What a panel has done the aggregate accepts: a revoked copy has no account to
\* be read or renewed, so neither the sync's tick nor a paid renewal dies half-way.
\* Only a resume may be refused, when somebody resumed it first.
DoneIsAccepted ==
  \A t \in Slot : txn[t].pc = "answer" /\ Refuses(txn[t].op, txn[t].copy[txn[t].at])
                    => txn[t].op \in {"resume", "restore", "settings"}

\* Nobody is at it, no two sessions ever were, and none was undone half-way.
Quiet(s) == s \notin mixed \cup undone /\ \A t \in Slot : ~InHand(t, s)

\* An account that is gone has a row that says so: only a deletion whose
\* transaction was undone, or a copy written over it, leaves another row.
GoneIsRevoked ==
  \A s \in Service : Quiet(s) /\ panel[s] = None => sub[s].state = "REVOKED"

\* Disabled on the panel means suspended in the shop and the other way round,
\* but for a suspended service that a renewal paid before turned on again.
OffIsSuspended ==
  \A s \in Service : Quiet(s) /\ panel[s] # None /\ s \notin lifted
                       => (panel[s].on <=> sub[s].state # "SUSPENDED")

\* The shop shows the date, the cap and the link the panel serves, and never more
\* traffic than the panel counted.
RowTellsTheAccount ==
  \A s \in Service : Quiet(s) /\ panel[s] # None
    => /\ \A c \in {"expires", "quota", "link"} : sub[s][c] = panel[s][c]
       /\ sub[s].used <= panel[s].used

\* A service past its date does not stay active: the sweep comes to it, whatever
\* else is done to it meanwhile.
LapsedIsClosed ==
  \A s \in Service : sub[s].state = "ACTIVE" /\ now >= sub[s].expires
                       ~> sub[s].state # "ACTIVE" \/ now < sub[s].expires

\* A paid renewal is delivered, unless the service was deleted first.
RenewalIsServed == \A s \in Service : s \in owed ~> s \notin owed \/ panel[s] = None

=============================================================================
