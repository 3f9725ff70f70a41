------------------------------ MODULE Broadcasts ------------------------------
(***************************************************************************)
(* Broadcasts from composing to the customers' phones.  A send is one      *)
(* database transaction: it reads the broadcast, marks it SENDING, walks   *)
(* the audience, pushing to Telegram as it goes, and commits the           *)
(* notifications, the counters and SENT together.  What Telegram was told  *)
(* is not undone with the transaction.                                     *)
(*                                                                         *)
(* The row read at the start stays in the session: the re-read before each *)
(* batch answers from it, and each save writes the columns that differ     *)
(* from it, waiting for the transaction that wrote the row before.         *)
(*                                                                         *)
(* A notification has an attempt per channel: the Mini App inbox, always   *)
(* SENT, and Telegram, which waits out the quiet hours.                    *)
(***************************************************************************)
EXTENDS Integers, FiniteSets

CONSTANTS
  Broadcast,  \* of the news or promos categories
  Customer,   \* the audience
  Sender,     \* slots for one send each: a request, or the worker
  Cap,        \* MARKETING_DAILY_CAP
  MaxTrouble, \* bound on the times something goes wrong
  MaxMutes,   \* bound on the customers who turn news off
  None

ASSUME AudienceAssumption ==
  /\ IsFiniteSet(Customer) /\ Customer # {}
  /\ {Cap, MaxTrouble, MaxMutes} \subseteq Nat
  /\ None \notin Broadcast

VARIABLES
  cast,      \* each broadcast's committed row
  note,      \* the Telegram attempt of each committed notification
  phone,     \* how often each customer's phone showed each broadcast
  quiet,     \* whether it is the quiet hours
  muted,     \* customers who turned news off
  earlier,   \* other marketing each customer was sent in the last day
  txn,       \* the session of each send
  op,        \* the session of the operator's cancellation
  trouble,
  again,     \* deliveries whose send was undone
  overtaken, \* broadcasts started or cancelled from a copy out of date
  together   \* sends of two broadcasts were in flight at once

vars == <<cast, note, phone, quiet, muted, earlier, txn, op, trouble, again, overtaken, together>>
causes == <<again, overtaken, together>>

-----------------------------------------------------------------------------
\* NONE: not composed; GONE: the transaction that composed it was undone.
State == {"NONE", "DRAFT", "SENT", "CANCELLED", "GONE"}
Row == [state : State, count : Nat, sent : Nat, suppressed : Nat]

Delivery == {"SENT", "PENDING", "DEFERRED", "FAILED", "SUPPRESSED"}
Absent == "NONE"   \* no notification

Session ==
  [pc : {"idle", "start", "send"}, of : Broadcast \cup {None}, copy : State,
   todo : SUBSET Customer, mine : [Customer -> Delivery \cup {Absent}], suppressed : Nat]

Rest ==
  [pc |-> "idle", of |-> None, copy |-> "NONE", todo |-> {},
   mine |-> [u \in Customer |-> Absent], suppressed |-> 0]

Reading(copy, b) == [Rest EXCEPT !.pc = "start", !.of = b, !.copy = copy]

\* The row is not written by a transaction in flight.
Free(b) == \A y \in Sender : txn[y].pc = "send" => txn[y].of # b

Trouble == trouble < MaxTrouble /\ trouble' = trouble + 1

-----------------------------------------------------------------------------
(* The operator: compose, and cancel from the copy as read *)

Compose(b) ==
  /\ cast[b].state = "NONE" /\ \A x \in Sender : txn[x].of # b
  /\ cast' = [cast EXCEPT ![b].state = "DRAFT"]
  /\ UNCHANGED <<note, phone, quiet, muted, earlier, txn, op, trouble, causes>>

ReadToCancel(b) ==
  /\ op.of = None /\ cast[b].state = "DRAFT"
  /\ op' = [of |-> b, copy |-> cast[b].state]
  /\ UNCHANGED <<cast, note, phone, quiet, muted, earlier, txn, trouble, causes>>

Cancel ==
  LET b == op.of IN
  /\ b # None /\ Free(b)
  /\ cast' = [cast EXCEPT ![b].state = "CANCELLED"]
  /\ op' = [of |-> None, copy |-> "NONE"]
  /\ overtaken' = IF cast[b].state = op.copy THEN overtaken ELSE overtaken \cup {b}
  /\ UNCHANGED <<note, phone, quiet, muted, earlier, txn, trouble, again, together>>

-----------------------------------------------------------------------------
(* send_now *)

\* The read: of a draft, or of the broadcast this same transaction composes.
SendAgain(x, b) ==   \* mutant
  /\ txn[x].pc = "idle" /\ cast[b].state # "GONE"
  /\ \/ cast[b].state # "NONE"
     \/ cast[b].state = "NONE" /\ \A y \in Sender : txn[y].of # b
  /\ txn' = [txn EXCEPT ![x] = Reading(cast[b].state, b)]
  /\ UNCHANGED <<cast, note, phone, quiet, muted, earlier, op, trouble, causes>>
Begin(x, b) ==
  /\ txn[x].pc = "idle"
  /\ \/ cast[b].state = "DRAFT"
     \/ cast[b].state = "NONE" /\ \A y \in Sender : txn[y].of # b
  /\ txn' = [txn EXCEPT ![x] = Reading(cast[b].state, b)]
  /\ UNCHANGED <<cast, note, phone, quiet, muted, earlier, op, trouble, causes>>

\* start and its save, which waits for the row.
Start(x) ==
  LET b == txn[x].of IN
  /\ txn[x].pc = "start" /\ Free(b)
  /\ txn' = [txn EXCEPT ![x].pc = "send", ![x].todo = Customer]
  /\ overtaken' = IF cast[b].state = txn[x].copy THEN overtaken ELSE overtaken \cup {b}
  /\ together' = (together \/ \E y \in Sender : txn[y].pc = "send")
  /\ UNCHANGED <<cast, note, phone, quiet, muted, earlier, op, trouble, again>>

\* dispatch
NoDedupe(b, u) == FALSE   \* mutant
AlreadyTold(b, u) == note[b][u] # Absent

Recent(u) == earlier[u] + Cardinality({b \in Broadcast : note[b][u] # Absent})
OneMore(u) == Recent(u) > Cap   \* mutant
Capped(u) == Recent(u) >= Cap

Refused(b, u) == AlreadyTold(b, u) \/ u \in muted \/ Capped(u)

Skip(x, u) ==
  LET b == txn[x].of IN
  /\ txn[x].pc = "send" /\ u \in txn[x].todo /\ Refused(b, u)
  /\ txn' = [txn EXCEPT ![x].todo = @ \ {u}, ![x].suppressed = @ + 1]
  /\ UNCHANGED <<cast, note, phone, quiet, muted, earlier, op, trouble, causes>>

Told(x, u, attempt) == [txn EXCEPT ![x].todo = @ \ {u}, ![x].mine[u] = attempt]

MayTell(x, u) ==
  txn[x].pc = "send" /\ u \in txn[x].todo /\ ~Refused(txn[x].of, u)

Defer(x, u) ==
  /\ MayTell(x, u) /\ quiet
  /\ txn' = Told(x, u, "DEFERRED")
  /\ UNCHANGED <<cast, note, phone, quiet, muted, earlier, op, trouble, causes>>

Deliver(x, u) ==
  /\ MayTell(x, u) /\ ~quiet
  /\ txn' = Told(x, u, "SENT")
  /\ phone' = [phone EXCEPT ![txn[x].of][u] = @ + 1]
  /\ UNCHANGED <<cast, note, quiet, muted, earlier, op, trouble, causes>>

\* The customer has blocked the bot; or the call fails, its message perhaps
\* delivered all the same.
NotDelivered(x, u, attempt, shown) ==
  /\ MayTell(x, u) /\ ~quiet /\ Trouble
  /\ attempt = "SUPPRESSED" => shown = 0
  /\ txn' = Told(x, u, attempt)
  /\ phone' = [phone EXCEPT ![txn[x].of][u] = @ + shown]
  /\ UNCHANGED <<cast, note, quiet, muted, earlier, op, causes>>

Named(x) == {u \in Customer : txn[x].mine[u] # Absent}

\* complete and save: the columns that differ from the row as read.
Written(x) ==
  LET old == cast[txn[x].of]
      sent == Cardinality(Named(x)) IN
  [state |-> "SENT", count |-> Cardinality(Customer),
   sent |-> IF sent = 0 THEN old.sent ELSE sent,
   suppressed |-> IF txn[x].suppressed = 0 THEN old.suppressed ELSE txn[x].suppressed]

Unmarked(x) ==   \* mutant
  LET b == txn[x].of IN
  /\ txn[x].pc = "send" /\ txn[x].todo = {}
  /\ cast' = [cast EXCEPT ![b] = Written(x)]
  /\ note' = [note EXCEPT ![b] = [u \in Customer |->
                IF txn[x].mine[u] \in {Absent, "FAILED"} THEN @[u] ELSE txn[x].mine[u]]]
  /\ txn' = [txn EXCEPT ![x] = Rest]
  /\ UNCHANGED <<phone, quiet, muted, earlier, op, trouble, causes>>
Finish(x) ==
  LET b == txn[x].of IN
  /\ txn[x].pc = "send" /\ txn[x].todo = {}
  /\ cast' = [cast EXCEPT ![b] = Written(x)]
  /\ note' = [note EXCEPT ![b] = [u \in Customer |->
                IF txn[x].mine[u] = Absent THEN @[u] ELSE txn[x].mine[u]]]
  /\ txn' = [txn EXCEPT ![x] = Rest]
  /\ UNCHANGED <<phone, quiet, muted, earlier, op, trouble, causes>>

\* The process is killed, the request times out or the connection is lost.
Die(x) ==
  LET b == txn[x].of IN
  /\ txn[x].pc # "idle" /\ Trouble
  /\ again' = again \cup {<<b, u>> : u \in {v \in Customer : txn[x].mine[v] \in {"SENT", "FAILED"}}}
  /\ cast' = IF txn[x].copy = "NONE" THEN [cast EXCEPT ![b].state = "GONE"] ELSE cast
  /\ txn' = [txn EXCEPT ![x] = Rest]
  /\ UNCHANGED <<note, phone, quiet, muted, earlier, op, overtaken, together>>

-----------------------------------------------------------------------------
(* The customer, the hours, and the flush of what was deferred *)

Mute(u) ==
  /\ Cardinality(muted) < MaxMutes
  /\ muted' = muted \cup {u}
  /\ UNCHANGED <<cast, note, phone, quiet, earlier, txn, op, trouble, causes>>

Dawn ==
  /\ quiet /\ quiet' = FALSE
  /\ UNCHANGED <<cast, note, phone, muted, earlier, txn, op, trouble, causes>>

\* summarise_state: the first of the ranks some attempt has.
Rank == <<"SENT", "PENDING", "DEFERRED", "FAILED", "SUPPRESSED">>
Summary(attempts) ==
  Rank[CHOOSE i \in 1..5 : Rank[i] \in attempts /\ \A j \in 1..(i - 1) : Rank[j] \notin attempts]

\* due_deferred selects by the summary of the inbox's attempt and Telegram's.
Due ==
  {n \in Broadcast \X Customer :
    /\ ~quiet
    /\ note[n[1]][n[2]] # Absent
    /\ Summary({"SENT", note[n[1]][n[2]]}) = "DEFERRED"}

\* flush_deferred
Flush ==
  /\ note' = [b \in Broadcast |-> [u \in Customer |->
       IF <<b, u>> \notin Due THEN note[b][u] ELSE IF u \in muted THEN "SUPPRESSED" ELSE "SENT"]]
  /\ phone' = [b \in Broadcast |-> [u \in Customer |->
       IF <<b, u>> \in Due /\ u \notin muted THEN phone[b][u] + 1 ELSE phone[b][u]]]
  /\ UNCHANGED <<cast, quiet, muted, earlier, txn, op, trouble, causes>>

-----------------------------------------------------------------------------
Init ==
  /\ cast = [b \in Broadcast |-> [state |-> "NONE", count |-> 0, sent |-> 0, suppressed |-> 0]]
  /\ note = [b \in Broadcast |-> [u \in Customer |-> Absent]]
  /\ phone = [b \in Broadcast |-> [u \in Customer |-> 0]]
  /\ quiet \in BOOLEAN /\ muted = {} /\ earlier \in [Customer -> 0..1]
  /\ txn = [x \in Sender |-> Rest] /\ op = [of |-> None, copy |-> "NONE"]
  /\ trouble = 0 /\ again = {} /\ overtaken = {} /\ together = FALSE

Next ==
  \/ \E b \in Broadcast : Compose(b) \/ ReadToCancel(b)
  \/ Cancel
  \/ \E x \in Sender, b \in Broadcast : Begin(x, b)
  \/ \E x \in Sender : Start(x) \/ Finish(x) \/ Die(x)
  \/ \E x \in Sender, u \in Customer :
       \/ Skip(x, u) \/ Defer(x, u) \/ Deliver(x, u)
       \/ \E attempt \in {"FAILED", "SUPPRESSED"}, shown \in {0, 1} :
            NotDelivered(x, u, attempt, shown)
  \/ \E u \in Customer : Mute(u)
  \/ Dawn \/ Flush

Spec == Init /\ [][Next]_vars

-----------------------------------------------------------------------------
(* Every variable has its type. *)
TypeOK ==
  /\ cast \in [Broadcast -> Row]
  /\ note \in [Broadcast -> [Customer -> Delivery \cup {Absent}]]
  /\ phone \in [Broadcast -> [Customer -> Nat]]
  /\ quiet \in BOOLEAN /\ muted \subseteq Customer /\ earlier \in [Customer -> Nat]
  /\ txn \in [Sender -> Session] /\ op \in [of : Broadcast \cup {None}, copy : State]
  /\ trouble \in 0..MaxTrouble
  /\ again \subseteq Broadcast \X Customer /\ overtaken \subseteq Broadcast
  /\ together \in BOOLEAN

(* Nobody's phone shows a broadcast twice, however often it is sent and
   whoever sends it at once, unless a send that had reached them was undone. *)
NobodyTwice ==
  \A b \in Broadcast, u \in Customer : phone[b][u] > 1 => <<b, u>> \in again

(* What a phone showed is on record, once the send that showed it is over:
   the dedupe check can trust the table. *)
ShownIsRecorded ==
  \A b \in Broadcast, u \in Customer :
    phone[b][u] > 0 /\ <<b, u>> \notin again =>
      \/ note[b][u] \in {"SENT", "FAILED"}
      \/ \E x \in Sender : txn[x].of = b /\ txn[x].mine[u] \in {"SENT", "FAILED"}

(* A finished broadcast's counters tell what became of its whole audience,
   unless it was started or cancelled from a copy out of date. *)
CountersAddUp ==
  \A b \in Broadcast \ overtaken :
    cast[b].state = "SENT" =>
      /\ cast[b].sent + cast[b].suppressed = cast[b].count
      /\ cast[b].sent = Cardinality({u \in Customer : note[b][u] # Absent})

(* A cancelled broadcast has reached nobody, and reaches nobody later, save
   by a send that was undone before the cancellation. *)
CancelledStaysSilent ==
  \A b \in Broadcast \ overtaken :
    cast[b].state = "CANCELLED" =>
      \A u \in Customer : phone[b][u] > 0 => <<b, u>> \in again

(* No customer's phone shows more marketing in a day than the cap, unless two
   broadcasts are being sent at once, or a send that had reached them was
   undone. *)
CapHolds ==
  together \/ \A u \in Customer :
    earlier[u] + Cardinality({b \in Broadcast : phone[b][u] > 0 /\ <<b, u>> \notin again}) <= Cap

=============================================================================
