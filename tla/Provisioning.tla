----------------------------- MODULE Provisioning -----------------------------
(***************************************************************************)
(* How paid orders become accounts on remote panels: a request delivers    *)
(* one order, the worker's sweep delivers every stuck one, and panels do   *)
(* things without saying so.                                               *)
(*                                                                         *)
(* A request is one database transaction.  It locks the order's row and    *)
(* reads it, works on copies, talks to a panel, and commits at the end:    *)
(* what it wrote is visible to others only then, what it did on a panel at *)
(* once.  Subscription rows are read without a lock; an UPDATE of one waits*)
(* for the transaction that has updated it.                                *)
(***************************************************************************)
EXTENDS Integers, FiniteSets

CONSTANTS
  Service,     \* orders that buy a new service, which they also name
  Renewal,     \* orders that renew one
  Renews,      \* the service each renewal is for
  Node,        \* servers, each with its panel
  Bound,       \* the servers a service's product may land on
  Dead,        \* servers whose panel never answers
  Caller,      \* slots for one checkout or operator's retry each
  Sweeper,     \* the worker's slot
  Limit,       \* how many stuck orders one sweep takes
  MaxTrouble,  \* bound on the times something goes wrong on a live panel
  None

Order == Service \cup Renewal
Tx == Caller \cup {Sweeper}
Of(o) == IF o \in Renewal THEN Renews[o] ELSE o

ASSUME OrderAssumption ==
  /\ IsFiniteSet(Service \cup Renewal)
  /\ Service \cap Renewal = {} /\ Renews \in [Renewal -> Service]
  /\ Bound \in [Service -> SUBSET Node] /\ Dead \subseteq Node
ASSUME SlotAssumption ==
  Sweeper \notin Caller /\ Limit \in Nat /\ MaxTrouble \in Nat

VARIABLES
  order,     \* order row's state
  paidAt,    \* its paid_at, as a rank; 0 before it is paid
  sub,       \* the subscription row of each service
  panel,     \* days on each service's account on each server; 0 is no account
  lock,      \* the transaction that holds an order's row
  rowLock,   \* the transaction that holds a subscription's row
  txn,       \* the session in each slot
  trouble,   \* times something went wrong on a live panel
  told,      \* times a panel was told to create or extend for an order
  excuse     \* times that was lost: no answer, or the transaction undone

vars == <<order, paidAt, sub, panel, lock, rowLock, txn, trouble, told, excuse>>

-----------------------------------------------------------------------------
(* Rows and sessions *)

State == {"PENDING", "PAID", "PROVISIONING", "FAILED", "ACTIVE"}

\* _TRANSITIONS, for the moves this component makes.
Startable == {"PAID", "FAILED"}
NotAgain(state) == state \in Startable   \* mutant
CanStart(state) == state \in Startable \cup {"PROVISIONING"}
Activable == {"PROVISIONING"}
Retryable == {"PAID", "FAILED", "PROVISIONING"}

\* order_id is the order the row was inserted for, and unique.
Row == [node : Node, days : Nat, orderId : Order]

ASSUME NoneAssumption == None \notin Order \cup Tx \cup Node \cup State \cup Row

Pc == {"idle", "next", "create", "look", "extend", "save", "done"}

\* held is the Subscription being renewed; wrote and rows are what was flushed.
Session ==
  [pc : Pc, todo : SUBSET Order, at : Order \cup {None}, node : Node \cup {None},
   seen : Nat, held : Row \cup {None}, wrote : [Order -> State \cup {None}],
   rows : [Service -> Row \cup {None}], told : SUBSET Order]

Resting(pc) ==
  [pc |-> pc, todo |-> {}, at |-> None, node |-> None, seen |-> 0, held |-> None,
   wrote |-> [o \in Order |-> None], rows |-> [s \in Service |-> None], told |-> {}]

Put(f, x, v) == [f EXCEPT ![x] = v]

\* What a SELECT of t finds: the row t has flushed, or the committed one.
View(t, s) == IF txn[t].rows[s] # None THEN txn[t].rows[s] ELSE sub[s]
ByOrder(t, o) == {s \in Service : View(t, s) # None /\ View(t, s).orderId = o}

-----------------------------------------------------------------------------
(* Orders are paid; requests and sweeps begin *)

\* A service is renewed from the customer's list of services.
Pay(o) ==
  /\ order[o] = "PENDING"
  /\ o \in Renewal => sub[Renews[o]] # None
  /\ order' = [order EXCEPT ![o] = "PAID"]
  /\ paidAt' = [paidAt EXCEPT ![o] = 1 + Cardinality({q \in Order : paidAt[q] > 0})]
  /\ UNCHANGED <<sub, panel, lock, rowLock, txn, trouble, told, excuse>>

Starting(orders) == [Resting("next") EXCEPT !.todo = orders]

\* The checkout, the admin API's retry and the bot's retry button.
Call(t, o) ==
  /\ txn[t].pc = "idle"
  /\ order[o] # "PENDING"
  /\ txn' = [txn EXCEPT ![t] = Starting({o})]
  /\ UNCHANGED <<order, paidAt, sub, panel, lock, rowLock, trouble, told, excuse>>

\* list_stuck: the orders paid first, up to the limit.
Stuck == {o \in Order : order[o] \in Retryable}
Oldest == {o \in Stuck : Cardinality({q \in Stuck : paidAt[q] < paidAt[o]}) < Limit}

BeginSweep ==
  /\ txn[Sweeper].pc = "idle"
  /\ Stuck # {}
  /\ txn' = [txn EXCEPT ![Sweeper] = Starting(Oldest)]
  /\ UNCHANGED <<order, paidAt, sub, panel, lock, rowLock, trouble, told, excuse>>

-----------------------------------------------------------------------------
(* provision: the order is locked and read *)

IsNext(t, o) ==
  /\ txn[t].pc = "next"
  /\ o \in txn[t].todo
  /\ \A q \in txn[t].todo : paidAt[o] <= paidAt[q]

Unlocked(o) == TRUE   \* mutant
Free(o) == lock[o] = None

Claim(t, o) ==
  /\ IsNext(t, o)
  /\ Free(o)
  /\ lock' = [lock EXCEPT ![o] = t]
  /\ UNCHANGED <<order, paidAt, sub, panel, rowLock, told, excuse>>

\* The routine for o is over, having written the order in this state.
Over(s, o, state) ==
  [s EXCEPT !.pc = "next", !.todo = @ \ {o}, !.at = None, !.node = None, !.seen = 0,
            !.held = None, !.wrote = Put(@, o, state)]

\* It is over without a write: the answer was there, or it raised.
Left(s, o) == [s EXCEPT !.pc = "next", !.todo = @ \ {o}, !.at = None, !.node = None,
                        !.seen = 0, !.held = None]

\* A subscription row names the order: answer with it, repairing the order if
\* that is a legal move, raising if not.
AlreadyDelivered(t, o) ==
  /\ Claim(t, o)
  /\ ByOrder(t, o) # {}
  /\ txn' = [txn EXCEPT ![t] = IF order[o] \in Activable THEN Over(@, o, "ACTIVE")
                               ELSE Left(@, o)]
  /\ UNCHANGED trouble

\* start_provisioning refuses the state: a delivered renewal, which no row names.
TurnedAway(t, o) ==
  /\ Claim(t, o)
  /\ ByOrder(t, o) = {}
  /\ ~CanStart(order[o])
  /\ txn' = [txn EXCEPT ![t] = Left(@, o)]
  /\ UNCHANGED trouble

Starts(t, o) ==
  /\ Claim(t, o)
  /\ ByOrder(t, o) = {}
  /\ CanStart(order[o])

\* An order already PROVISIONING is taken up again as it is.
Working(s, o, pc, node, held) ==
  [s EXCEPT !.pc = pc, !.at = o, !.node = node, !.held = held,
            !.wrote = IF order[o] \in Startable THEN Put(@, o, "PROVISIONING") ELSE @]

\* select_node; how loaded the servers are is not modelled, so any of them.
StartCreate(t, o) ==
  /\ o \in Service
  /\ Starts(t, o)
  /\ \E n \in Bound[o] :
       txn' = [txn EXCEPT ![t] = Working(@, o, "create", n, None)]
  /\ UNCHANGED trouble

StartRenew(t, o) ==
  LET held == View(t, Renews[o]) IN
  /\ o \in Renewal
  /\ Starts(t, o)
  /\ held # None
  /\ txn' = [txn EXCEPT ![t] = Working(@, o, "look", held.node, held)]
  /\ UNCHANGED trouble

\* No server has room, or the subscription's server is gone: _fail.
NoServer(t, o) ==
  /\ Starts(t, o)
  /\ trouble < MaxTrouble
  /\ trouble' = trouble + 1
  /\ txn' = [txn EXCEPT ![t] = Over(@, o, "FAILED")]

-----------------------------------------------------------------------------
(* The panel *)

Answers(t) == txn[t].node \notin Dead

Told(x) == [x EXCEPT !.told = @ \cup {x.at}]
WithRow(x, s, row) == [x EXCEPT !.rows = Put(@, s, row)]
SetDays(n, s, d) == panel' = [panel EXCEPT ![n] = Put(@, s, d)]

\* create_account returns the account that is there, or makes it.
CreateEffect(t) ==
  LET s == txn[t].at  n == txn[t].node IN
  /\ txn[t].pc = "create" /\ Answers(t)
  /\ SetDays(n, s, IF panel[n][s] = 0 THEN 1 ELSE panel[n][s])
  /\ told' = IF panel[n][s] = 0 THEN [told EXCEPT ![s] = @ + 1] ELSE told

\* The account is there: insert the subscription and mark the order active.
Created(t) ==
  LET s == txn[t].at
      row == [node |-> txn[t].node, days |-> 1, orderId |-> s] IN
  /\ CreateEffect(t)
  /\ ByOrder(t, s) = {}
  /\ txn' = [txn EXCEPT ![t] = Over(WithRow(Told(@), s, row), s, "ACTIVE")]
  /\ UNCHANGED <<order, paidAt, sub, lock, rowLock, trouble, excuse>>

\* renew, in every adapter: read the expiry, then write it back moved.
Look(t) ==
  /\ txn[t].pc = "look" /\ Answers(t)
  /\ txn' = [txn EXCEPT ![t].pc = "extend",
                        ![t].seen = panel[txn[t].node][Of(txn[t].at)]]
  /\ UNCHANGED <<order, paidAt, sub, panel, lock, rowLock, trouble, told, excuse>>

ExtendEffect(t) ==
  LET o == txn[t].at IN
  /\ txn[t].pc = "extend"
  /\ SetDays(txn[t].node, Of(o), txn[t].seen + 1)
  /\ told' = [told EXCEPT ![o] = @ + 1]

Extended(t) ==
  /\ ExtendEffect(t)
  /\ txn' = [txn EXCEPT ![t] = [Told(@) EXCEPT !.pc = "save"]]
  /\ UNCHANGED <<order, paidAt, sub, lock, rowLock, trouble, excuse>>

\* Subscription.renew gives the copy the new date and the new order; of these
\* subscription_apply writes the date.
Extend(held, o) == [held EXCEPT !.days = @ + 1, !.orderId = o]
Applied(row, held) == [row EXCEPT !.node = held.node, !.days = held.days]

Renewed(t) ==
  LET o == txn[t].at  s == Renews[o]
      row == Applied(View(t, s), Extend(txn[t].held, o)) IN
  /\ txn[t].pc = "save"
  /\ rowLock[s] \in {None, t}
  /\ rowLock' = [rowLock EXCEPT ![s] = t]
  /\ txn' = [txn EXCEPT ![t] = Over(WithRow(@, s, row), o, "ACTIVE")]
  /\ UNCHANGED <<order, paidAt, sub, panel, lock, trouble, told, excuse>>

AtPanel(t) == txn[t].pc \in {"create", "look", "extend"}
Trouble(t) == IF Answers(t) THEN trouble < MaxTrouble /\ trouble' = trouble + 1
              ELSE UNCHANGED trouble

InsertedFirst(t) ==   \* mutant
  LET o == txn[t].at
      row == [node |-> txn[t].node, days |-> 1, orderId |-> o] IN
  /\ AtPanel(t)
  /\ Trouble(t)
  /\ txn' = [txn EXCEPT ![t] = Over(WithRow(@, Of(o), row), o, "FAILED")]
  /\ UNCHANGED <<order, paidAt, sub, panel, lock, rowLock, told, excuse>>

\* A PanelError without an effect: refused, or unreachable.
PanelFails(t) ==
  /\ AtPanel(t)
  /\ Trouble(t)
  /\ txn' = [txn EXCEPT ![t] = Over(@, @.at, "FAILED")]
  /\ UNCHANGED <<order, paidAt, sub, panel, lock, rowLock, told, excuse>>

\* A PanelError although it happened: the answer was lost, or the reset or the
\* resume that follows an extension failed.
AnswerLost(t) ==
  /\ CreateEffect(t) \/ ExtendEffect(t)
  /\ Trouble(t)
  /\ excuse' = [excuse EXCEPT ![txn[t].at] = @ + 1]
  /\ txn' = [txn EXCEPT ![t] = Over(@, @.at, "FAILED")]
  /\ UNCHANGED <<order, paidAt, sub, lock, rowLock>>

\* Anything but a PanelError (credentials that do not decrypt): the sweep and
\* the checkout commit what was written, the order stays PROVISIONING.
PanelRaises(t) ==
  /\ AtPanel(t)
  /\ Trouble(t)
  /\ txn' = [txn EXCEPT ![t] = Left(@, @.at)]
  /\ UNCHANGED <<order, paidAt, sub, panel, lock, rowLock, told, excuse>>

-----------------------------------------------------------------------------
(* The end of a transaction *)

Close(t) ==
  /\ lock' = [o \in Order |-> IF lock[o] = t THEN None ELSE lock[o]]
  /\ rowLock' = [s \in Service |-> IF rowLock[s] = t THEN None ELSE rowLock[s]]
  /\ txn' = [txn EXCEPT ![t] = Resting(IF t = Sweeper THEN "idle" ELSE "done")]

Commit(t) ==
  /\ txn[t].pc = "next" /\ txn[t].todo = {}
  /\ order' = [o \in Order |-> IF txn[t].wrote[o] # None THEN txn[t].wrote[o] ELSE order[o]]
  /\ sub' = [s \in Service |-> View(t, s)]
  /\ Close(t)
  /\ UNCHANGED <<paidAt, panel, trouble, told, excuse>>

RollBack(t) ==
  /\ Close(t)
  /\ excuse' = [o \in Order |-> IF o \in txn[t].told THEN excuse[o] + 1 ELSE excuse[o]]
  /\ UNCHANGED <<order, paidAt, sub, panel, told>>

\* The process is killed, the connection drops, a route raises.
Die(t) ==
  /\ txn[t].pc \notin {"idle", "done"}
  /\ trouble < MaxTrouble
  /\ trouble' = trouble + 1
  /\ RollBack(t)

WaitsFor(t, u) ==
  \/ \E o \in txn[t].todo : IsNext(t, o) /\ lock[o] = u
  \/ txn[t].pc = "save" /\ rowLock[Of(txn[t].at)] = u

\* Two transactions that wait for each other: the database kills one, and the
\* COMMIT of a killed one is a rollback.  The sweep, which would meet the same
\* deadlock again and again, is the victim only within the bound.
Deadlocked(t) ==
  /\ \E u \in Tx \ {t} : WaitsFor(t, u) /\ WaitsFor(u, t)
  /\ IF t = Sweeper THEN trouble < MaxTrouble /\ trouble' = trouble + 1
     ELSE UNCHANGED trouble
  /\ RollBack(t)

-----------------------------------------------------------------------------
Init ==
  /\ order = [o \in Order |-> "PENDING"]
  /\ paidAt = [o \in Order |-> 0]
  /\ sub = [s \in Service |-> None]
  /\ panel = [n \in Node |-> [s \in Service |-> 0]]
  /\ lock = [o \in Order |-> None]
  /\ rowLock = [s \in Service |-> None]
  /\ txn = [t \in Tx |-> Resting("idle")]
  /\ trouble = 0
  /\ told = [o \in Order |-> 0]
  /\ excuse = [o \in Order |-> 0]

Provision(t, o) ==
  \/ AlreadyDelivered(t, o) \/ TurnedAway(t, o)
  \/ StartCreate(t, o) \/ StartRenew(t, o) \/ NoServer(t, o)

AskPanel(t) ==
  \/ Created(t) \/ Look(t) \/ Extended(t) \/ Renewed(t)
  \/ PanelFails(t) \/ AnswerLost(t) \/ PanelRaises(t)

Next ==
  \/ \E o \in Order : Pay(o)
  \/ \E t \in Caller, o \in Order : Call(t, o)
  \/ BeginSweep
  \/ \E t \in Tx, o \in Order : Provision(t, o)
  \/ \E t \in Tx : AskPanel(t) \/ Commit(t) \/ Die(t) \/ Deadlocked(t)

Spec == Init /\ [][Next]_vars

\* The worker ticks, requests that have begun go on, and the database resolves
\* deadlocks; nobody has to pay or to ask for a retry.
FairSpec ==
  /\ Spec
  /\ WF_vars(BeginSweep)
  /\ \A t \in Tx :
       WF_vars((\E o \in Order : Provision(t, o)) \/ AskPanel(t) \/ Commit(t) \/ Deadlocked(t))

-----------------------------------------------------------------------------
(* Properties *)

\* Every row, account and session has its declared shape.
TypeOK ==
  /\ order \in [Order -> State]
  /\ paidAt \in [Order -> Nat]
  /\ sub \in [Service -> Row \cup {None}]
  /\ panel \in [Node -> [Service -> Nat]]
  /\ lock \in [Order -> Tx \cup {None}]
  /\ rowLock \in [Service -> Tx \cup {None}]
  /\ txn \in [Tx -> Session]
  /\ trouble \in Nat
  /\ told \in [Order -> Nat]
  /\ excuse \in [Order -> Nat]

\* No order says delivered unless a panel did what it paid for: not after a
\* refusal, a rollback or a repair from a row (provision, _renew: mark_active
\* is the last thing they do).
ActiveMeansTold == \A o \in Order : order[o] = "ACTIVE" => told[o] >= 1

\* A customer's service has an account behind it: every committed subscription
\* row names a server on which the account exists.
RowsHaveAccounts ==
  \A s \in Service : sub[s] # None => panel[sub[s].node][s] >= 1

\* The row and the order that bought it appear together, whoever died between
\* writing one and the other, so whoever asks again gets the subscription
\* ("so the second caller sees the first one's result", get_for_update).
DeliveredTogether ==
  \A s \in Service : sub[s] # None <=> order[s] = "ACTIVE"

\* Once for each payment, and again only for a cause: a panel acts twice on one
\* order only after an answer or a transaction was lost, however many requests
\* and sweeps ask for it (get_for_update).
ToldAgainForCause == \A o \in Order : told[o] <= 1 + excuse[o]

\* A paid order on servers that answer is delivered, however often it failed,
\* died half-way or met another request, as long as the sweep takes all stuck
\* orders (drain_stuck).
Reachable(o) == Bound[Of(o)] \cap Dead = {}
PaidIsServed ==
  \A o \in Order : Reachable(o) => (order[o] = "PAID") ~> (order[o] = "ACTIVE")

=============================================================================
