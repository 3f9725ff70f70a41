--------------------------- MODULE BroadcastsProofs ---------------------------
(***************************************************************************)
(* A broadcast's row is in the hands of one send at a time from the start  *)
(* of the walk to its commit, and what the walk has told is not yet on     *)
(* record: so the dedupe check, which reads committed rows, misses nothing *)
(* of what a phone has shown, save for the sends that were undone.         *)
(*                                                                         *)
(* The walk accounts for each of its audience as told, suppressed or yet   *)
(* to come, so what complete() writes adds up (AuditInv); and while there  *)
(* is one walk at most, its frequency check counts all there is (CapInv).  *)
(***************************************************************************)
EXTENDS Broadcasts, FiniteSetTheorems, TLAPS

Lock ==
  \A x, y \in Sender :
    txn[x].pc = "send" /\ txn[y].pc = "send" /\ txn[x].of = txn[y].of => x = y

Hand ==
  \A x \in Sender :
    /\ txn[x].pc # "idle" => txn[x].of \in Broadcast /\ txn[x].copy \in {"DRAFT", "NONE"}
    /\ \A u \in Customer :
         txn[x].mine[u] # Absent =>
           txn[x].pc = "send" /\ u \notin txn[x].todo /\ note[txn[x].of][u] = Absent

\* A broadcast composed by the send itself is nobody else's.
Own ==
  \A x \in Sender :
    txn[x].pc # "idle" /\ txn[x].copy = "NONE" =>
      /\ cast[txn[x].of].state = "NONE"
      /\ \A y \in Sender : y # x => txn[y].of # txn[x].of

Cancelling == op.of # None => op.copy = "DRAFT" /\ cast[op.of].state # "NONE"

\* Unless it was started from an old copy, a walk is over a broadcast that
\* stands as it was read; and what is on record belongs to a finished send.
Current ==
  \A x \in Sender :
    txn[x].pc = "send" /\ txn[x].of \notin overtaken => cast[txn[x].of].state = txn[x].copy

Noted ==
  \A b \in Broadcast \ overtaken, u \in Customer :
    note[b][u] # Absent => cast[b].state = "SENT"

IInv ==
  /\ TypeOK /\ Lock /\ Hand /\ Own /\ Cancelling /\ Current /\ Noted
  /\ ShownIsRecorded /\ NobodyTwice

-----------------------------------------------------------------------------
(* The inbox is always SENT, and SENT is the first rank: no row is ever
   selected by the flush of deferred notifications. *)
LEMMA InboxHidesDeferred ==
  ASSUME NEW d
  PROVE Summary({"SENT", d}) = "SENT"
PROOF
  <1> DEFINE P(i) == Rank[i] \in {"SENT", d} /\ \A j \in 1..(i - 1) : Rank[j] \notin {"SENT", d}
  <1>1. Rank[1] = "SENT"
    BY DEF Rank
  <1>2. P(1)
    BY <1>1
  <1>3. \A i \in 1..5 : P(i) => i = 1
    BY <1>1
  <1>4. (CHOOSE i \in 1..5 : P(i)) = 1
    <2>1. \E i \in 1..5 : P(i)
      BY <1>2
    <2>2. (CHOOSE i \in 1..5 : P(i)) \in 1..5 /\ P(CHOOSE i \in 1..5 : P(i))
      <3> HIDE DEF P
      <3> QED BY <2>1
    <2> HIDE DEF P
    <2> QED BY <2>2, <1>3
  <1> QED BY <1>1, <1>4 DEF Summary

THEOREM NothingIsDue == Due = {}
PROOF
  <1>1. ASSUME NEW n \in Broadcast \X Customer
        PROVE Summary({"SENT", note[n[1]][n[2]]}) = "SENT"
    BY InboxHidesDeferred
  <1> QED BY <1>1 DEF Due

LEMMA FlushDoesNothing ==
  ASSUME TypeOK, Flush PROVE UNCHANGED vars
PROOF
  <1>1. Due = {} BY NothingIsDue
  <1>2. note' = note BY <1>1 DEF Flush, TypeOK
  <1>3. phone' = phone BY <1>1 DEF Flush, TypeOK
  <1> QED BY <1>2, <1>3 DEF Flush, vars, causes

-----------------------------------------------------------------------------
LEMMA InitIInv == Init => IInv
PROOF
  <1> SUFFICES ASSUME Init PROVE IInv OBVIOUS
  <1> USE DEF Init
  <1>1. Rest \in Session
    BY DEF Rest, Session, Delivery, State, Absent
  <1>2. cast \in [Broadcast -> Row]
    BY DEF Row, State
  <1>3. note \in [Broadcast -> [Customer -> Delivery \cup {Absent}]]
    OBVIOUS
  <1>4. phone \in [Broadcast -> [Customer -> Nat]] /\ earlier \in [Customer -> Nat]
    OBVIOUS
  <1>5. op \in [of : Broadcast \cup {None}, copy : State] /\ trouble \in 0..MaxTrouble
    BY AudienceAssumption DEF State
  <1>6. TypeOK
    BY <1>1, <1>2, <1>3, <1>4, <1>5 DEF TypeOK
  <1>7. \A x \in Sender : txn[x].pc = "idle" /\ \A u \in Customer : txn[x].mine[u] = Absent
    BY DEF Rest
  <1>8. Lock /\ Hand /\ Own /\ Cancelling /\ Current
    BY <1>7 DEF Lock, Hand, Own, Cancelling, Current
  <1>9. Noted /\ ShownIsRecorded /\ NobodyTwice
    BY DEF Noted, ShownIsRecorded, NobodyTwice
  <1> QED BY <1>6, <1>8, <1>9 DEF IInv

LEMMA Quiet ==
  ASSUME IInv, UNCHANGED <<cast, note, phone, txn, op, again, overtaken>>, TypeOK'
  PROVE IInv'
PROOF
  BY DEF IInv, Lock, Hand, Own, Cancelling, Current, Noted, ShownIsRecorded, NobodyTwice

LEMMA ComposeIInv ==
  ASSUME IInv, NEW b \in Broadcast, Compose(b) PROVE IInv'
PROOF
  <1> USE DEF Compose, causes, IInv
  <1>1. TypeOK'
    BY DEF TypeOK, Row, State
  <1>2. \A c \in Broadcast : c # b => cast'[c] = cast[c]
    BY DEF TypeOK
  <1>3. cast'[b].state = "DRAFT" /\ cast[b].state = "NONE"
    BY DEF TypeOK, Row
  <1>4. \A x \in Sender : txn[x].of # b
    OBVIOUS
  <1>5. Lock' /\ Hand' /\ ShownIsRecorded' /\ NobodyTwice'
    BY DEF Lock, Hand, ShownIsRecorded, NobodyTwice
  <1>6. Own'
    BY <1>2, <1>4 DEF Own, Hand
  <1>7. Cancelling'
    BY <1>2, <1>3 DEF Cancelling, TypeOK
  <1>8. Current'
    BY <1>2, <1>4 DEF Current, Hand
  <1>9. Noted'
    BY <1>2, <1>3 DEF Noted
  <1> QED BY <1>1, <1>5, <1>6, <1>7, <1>8, <1>9

LEMMA ReadToCancelIInv ==
  ASSUME IInv, NEW b \in Broadcast, ReadToCancel(b) PROVE IInv'
PROOF
  <1> USE DEF ReadToCancel, causes, IInv
  <1>1. TypeOK'
    BY DEF TypeOK, State
  <1>2. Cancelling'
    BY DEF Cancelling, TypeOK
  <1>3. Lock' /\ Hand' /\ Own' /\ Current' /\ Noted' /\ ShownIsRecorded' /\ NobodyTwice'
    BY DEF Lock, Hand, Own, Current, Noted, ShownIsRecorded, NobodyTwice
  <1> QED BY <1>1, <1>2, <1>3

LEMMA CancelIInv ==
  ASSUME IInv, Cancel PROVE IInv'
PROOF
  <1> USE DEF Cancel, causes, IInv
  <1> DEFINE b == op.of
  <1>1. b \in Broadcast /\ op.copy = "DRAFT" /\ cast[b].state # "NONE"
    BY DEF TypeOK, Cancelling
  <1>2. TypeOK'
    BY <1>1 DEF TypeOK, Row, State
  <1>3. \A c \in Broadcast : c # b => cast'[c] = cast[c]
    BY <1>1 DEF TypeOK
  <1>4. overtaken \subseteq overtaken' /\ (b \notin overtaken' => cast[b].state = "DRAFT")
    BY <1>1
  <1>5. Lock' /\ Hand' /\ ShownIsRecorded' /\ NobodyTwice'
    BY DEF Lock, Hand, ShownIsRecorded, NobodyTwice
  <1>6. Own'
    BY <1>1, <1>3 DEF Own, Hand
  <1>7. Cancelling'
    BY DEF Cancelling
  <1>8. Current'
    BY <1>3, <1>4 DEF Current, Free, Hand
  <1>9. Noted'
    BY <1>3, <1>4 DEF Noted
  <1> QED BY <1>2, <1>5, <1>6, <1>7, <1>8, <1>9

LEMMA BeginIInv ==
  ASSUME IInv, NEW x \in Sender, NEW b \in Broadcast, Begin(x, b) PROVE IInv'
PROOF
  <1> USE DEF Begin, causes, IInv
  <1>1. Rest \in Session
    BY DEF Rest, Session, Delivery, State, Absent
  <1>2. cast[b].state \in {"DRAFT", "NONE"}
    OBVIOUS
  <1>3. Reading(cast[b].state, b) \in Session
    BY <1>1, <1>2 DEF Reading, Session, State
  <1>4. /\ txn'[x] = Reading(cast[b].state, b)
        /\ \A y \in Sender : y # x => txn'[y] = txn[y]
    BY DEF TypeOK
  <1>5. /\ txn'[x].pc = "start" /\ txn'[x].of = b /\ txn'[x].copy = cast[b].state
        /\ \A u \in Customer : txn'[x].mine[u] = Absent
    <2> HIDE DEF Begin
    <2> QED BY <1>4 DEF Reading, Rest
  <1>6. TypeOK'
    BY <1>3 DEF TypeOK
  <1>7. Lock' /\ Current'
    BY <1>4, <1>5 DEF Lock, Current
  <1>8. Hand'
    BY <1>2, <1>4, <1>5 DEF Hand
  <1>9. Own'
    BY <1>4, <1>5 DEF Own
  <1>10. ShownIsRecorded'
    <2> SUFFICES ASSUME NEW c \in Broadcast, NEW u \in Customer,
                        phone[c][u] > 0, <<c, u>> \notin again,
                        note[c][u] \notin {"SENT", "FAILED"}
                 PROVE  \E y \in Sender : txn'[y].of = c /\ txn'[y].mine[u] \in {"SENT", "FAILED"}
      BY DEF ShownIsRecorded
    <2>1. PICK y \in Sender : txn[y].of = c /\ txn[y].mine[u] \in {"SENT", "FAILED"}
      BY DEF ShownIsRecorded
    <2>2. y # x
      BY <2>1 DEF Hand, Absent
    <2> QED BY <2>1, <2>2, <1>4
  <1> QED BY <1>6, <1>7, <1>8, <1>9, <1>10 DEF Cancelling, Noted, NobodyTwice

LEMMA StartedSession ==
  ASSUME NEW r \in Session, NEW r2, r2 = [r EXCEPT !.pc = "send", !.todo = Customer]
  PROVE  /\ r2 \in Session /\ r2.pc = "send" /\ r2.of = r.of /\ r2.copy = r.copy
         /\ r2.mine = r.mine /\ r2.todo = Customer
  BY DEF Session

LEMMA StartIInv ==
  ASSUME IInv, NEW x \in Sender, Start(x) PROVE IInv'
PROOF
  <1> DEFINE b == txn[x].of
  <1>0. /\ TypeOK /\ Lock /\ Hand /\ Own /\ Cancelling /\ Current /\ Noted
        /\ ShownIsRecorded /\ NobodyTwice
    BY DEF IInv
  <1>1. /\ b \in Broadcast /\ txn[x].copy \in {"DRAFT", "NONE"}
        /\ txn[x].pc = "start" /\ txn[x] \in Session
        /\ \A u \in Customer : txn[x].mine[u] = Absent
    BY <1>0 DEF Hand, Start, TypeOK
  <1>2. /\ txn' = [txn EXCEPT ![x] = [txn[x] EXCEPT !.pc = "send", !.todo = Customer]]
        /\ txn'[x] = [txn[x] EXCEPT !.pc = "send", !.todo = Customer]
        /\ \A y \in Sender : y # x => txn'[y] = txn[y]
    BY <1>0 DEF TypeOK, Start
  <1>3. /\ txn'[x].pc = "send" /\ txn'[x].of = b /\ txn'[x].copy = txn[x].copy
        /\ txn'[x].mine = txn[x].mine /\ txn'[x] \in Session
    <2>1. txn[x] \in Session /\ txn'[x] = [txn[x] EXCEPT !.pc = "send", !.todo = Customer]
      BY <1>1, <1>2
    <2> QED BY <2>1, StartedSession
  <1>4. /\ UNCHANGED <<cast, note, phone, quiet, muted, earlier, op, trouble, again>>
        /\ overtaken' = (IF cast[b].state = txn[x].copy THEN overtaken ELSE overtaken \cup {b})
        /\ together' \in BOOLEAN
        /\ \A y \in Sender : txn[y].pc = "send" => txn[y].of # b
    BY <1>0 DEF Start, Free, TypeOK
  <1>5. TypeOK'
    BY <1>0, <1>1, <1>2, <1>3, <1>4 DEF TypeOK
  <1>6. Lock'
    BY <1>0, <1>2, <1>3, <1>4 DEF Lock
  <1>7. Hand'
    BY <1>0, <1>1, <1>2, <1>3, <1>4 DEF Hand
  <1>8. Own'
    BY <1>0, <1>1, <1>2, <1>3, <1>4 DEF Own
  <1>9. Current' /\ Noted'
    BY <1>0, <1>2, <1>3, <1>4 DEF Current, Noted
  <1>10. ShownIsRecorded'
    <2> SUFFICES ASSUME NEW c \in Broadcast, NEW u \in Customer,
                        phone[c][u] > 0, <<c, u>> \notin again,
                        note[c][u] \notin {"SENT", "FAILED"}
                 PROVE  \E y \in Sender : txn'[y].of = c /\ txn'[y].mine[u] \in {"SENT", "FAILED"}
      BY <1>4 DEF ShownIsRecorded
    <2>1. PICK y \in Sender : txn[y].of = c /\ txn[y].mine[u] \in {"SENT", "FAILED"}
      BY <1>0 DEF ShownIsRecorded
    <2> QED BY <2>1, <1>2, <1>3
  <1>11. Cancelling' /\ NobodyTwice'
    BY <1>0, <1>4 DEF Cancelling, NobodyTwice
  <1> QED BY <1>5, <1>6, <1>7, <1>8, <1>9, <1>10, <1>11 DEF IInv

(* A step of the walk: one customer told, or skipped. *)
Walked(x, u, attempt) ==
  /\ txn' \in [Sender -> Session]
  /\ \A y \in Sender : y # x => txn'[y] = txn[y]
  /\ txn'[x].pc = "send" /\ txn'[x].of = txn[x].of /\ txn'[x].copy = txn[x].copy
  /\ txn'[x].todo = txn[x].todo \ {u} /\ txn'[x].mine[u] = attempt
  /\ \A v \in Customer : v # u => txn'[x].mine[v] = txn[x].mine[v]

Shows(b, u, more) ==
  /\ phone' \in [Broadcast -> [Customer -> Nat]]
  /\ phone'[b][u] = phone[b][u] + more
  /\ \A c \in Broadcast, v \in Customer : c # b \/ v # u => phone'[c][v] = phone[c][v]

LEMMA ToldSession ==
  ASSUME txn \in [Sender -> Session], NEW x \in Sender, NEW u \in Customer,
         txn[x].pc = "send", NEW attempt \in Delivery, txn' = Told(x, u, attempt)
  PROVE  Walked(x, u, attempt)
PROOF
  <1> DEFINE r == txn[x]
             r2 == [r EXCEPT !.todo = r.todo \ {u}, !.mine[u] = attempt]
  <1>1. r \in Session
    OBVIOUS
  <1>2. /\ r.todo \ {u} \subseteq Customer /\ r.mine \in [Customer -> Delivery \cup {Absent}]
        /\ [r.mine EXCEPT ![u] = attempt] \in [Customer -> Delivery \cup {Absent}]
    BY <1>1 DEF Session
  <1>3. /\ txn'[x] = [pc |-> r.pc, of |-> r.of, copy |-> r.copy, todo |-> r.todo \ {u},
                      mine |-> [r.mine EXCEPT ![u] = attempt], suppressed |-> r.suppressed]
    BY <1>1 DEF Told, Session
  <1>4. \A y \in Sender : y # x => txn'[y] = txn[y]
    BY DEF Told
  <1>5. txn'[x] \in Session
    BY <1>1, <1>2, <1>3 DEF Session
  <1>6. txn' \in [Sender -> Session]
    <2>1. txn' = [y \in Sender |-> txn'[y]]
      BY DEF Told
    <2> QED BY <2>1, <1>4, <1>5
  <1> QED BY <1>2, <1>3, <1>4, <1>6 DEF Walked

LEMMA SkippedSession ==
  ASSUME txn \in [Sender -> Session], NEW x \in Sender, NEW u \in Customer,
         txn[x].mine[u] = Absent, Skip(x, u)
  PROVE  Walked(x, u, Absent)
PROOF
  <1> DEFINE r == txn[x]
  <1>1. r \in Session /\ r.pc = "send"
    BY DEF Skip
  <1>2. r.todo \ {u} \subseteq Customer /\ r.suppressed + 1 \in Nat
    BY <1>1 DEF Session
  <1>3. /\ txn'[x] = [pc |-> r.pc, of |-> r.of, copy |-> r.copy, todo |-> r.todo \ {u},
                      mine |-> r.mine, suppressed |-> r.suppressed + 1]
    BY <1>1 DEF Skip, Session
  <1>4. \A y \in Sender : y # x => txn'[y] = txn[y]
    BY DEF Skip
  <1>5. txn'[x] \in Session
    BY <1>1, <1>2, <1>3 DEF Session
  <1>6. txn' \in [Sender -> Session]
    <2>1. txn' = [y \in Sender |-> txn'[y]]
      BY DEF Skip
    <2> QED BY <2>1, <1>4, <1>5
  <1> QED BY <1>1, <1>3, <1>4, <1>6 DEF Walked

LEMMA ShownMore ==
  ASSUME phone \in [Broadcast -> [Customer -> Nat]], NEW b \in Broadcast, NEW u \in Customer,
         NEW more \in {0, 1}, phone' = [phone EXCEPT ![b][u] = @ + more]
  PROVE  Shows(b, u, more)
PROOF
  <1>1. phone[b][u] + more \in Nat
    OBVIOUS
  <1>2. [phone[b] EXCEPT ![u] = @ + more] \in [Customer -> Nat]
    BY <1>1
  <1>3. phone' \in [Broadcast -> [Customer -> Nat]]
    BY <1>2
  <1> QED BY <1>3 DEF Shows

LEMMA ShownNoMore ==
  ASSUME phone \in [Broadcast -> [Customer -> Nat]], NEW b \in Broadcast, NEW u \in Customer,
         phone' = phone
  PROVE  Shows(b, u, 0)
  BY DEF Shows

LEMMA WalkIInv ==
  ASSUME IInv, NEW x \in Sender, NEW u \in Customer, NEW attempt \in Delivery \cup {Absent},
         NEW more \in {0, 1},
         txn[x].pc = "send", u \in txn[x].todo, note[txn[x].of][u] = Absent \/ attempt = Absent,
         Walked(x, u, attempt), Shows(txn[x].of, u, more),
         more = 1 => attempt \in {"SENT", "FAILED"},
         trouble' \in 0..MaxTrouble,
         UNCHANGED <<cast, note, quiet, muted, earlier, op, causes>>
  PROVE IInv'
PROOF
  <1> DEFINE b == txn[x].of
  <1>0. /\ TypeOK /\ Lock /\ Hand /\ Own /\ Cancelling /\ Current /\ Noted
        /\ ShownIsRecorded /\ NobodyTwice
    BY DEF IInv
  <1>1. b \in Broadcast /\ txn[x].mine[u] = Absent /\ txn[x] \in Session
    BY <1>0 DEF Hand, TypeOK
  <1>2. \A y \in Sender : y # x => txn'[y] = txn[y]
    BY DEF Walked
  <1>3. /\ txn'[x].pc = "send" /\ txn'[x].of = b /\ txn'[x].copy = txn[x].copy
        /\ txn'[x].todo = txn[x].todo \ {u} /\ txn'[x].mine[u] = attempt
        /\ \A v \in Customer : v # u => txn'[x].mine[v] = txn[x].mine[v]
        /\ txn' \in [Sender -> Session]
    BY DEF Walked
  <1>4. /\ UNCHANGED <<cast, note, quiet, muted, earlier, op>>
        /\ UNCHANGED <<again, overtaken, together>>
    BY DEF causes
  <1>5. /\ phone'[b][u] = phone[b][u] + more /\ phone[b][u] \in Nat
        /\ \A c \in Broadcast, v \in Customer : c # b \/ v # u => phone'[c][v] = phone[c][v]
        /\ phone' \in [Broadcast -> [Customer -> Nat]]
    BY <1>0, <1>1 DEF TypeOK, Shows
  <1>6. TypeOK'
    BY <1>0, <1>3, <1>4, <1>5 DEF TypeOK
  <1>7. Lock' /\ Own' /\ Current' /\ Noted' /\ Cancelling'
    BY <1>0, <1>2, <1>3, <1>4 DEF Lock, Own, Current, Noted, Cancelling
  <1>8. Hand'
    BY <1>0, <1>1, <1>2, <1>3, <1>4 DEF Hand
  <1>9. ShownIsRecorded'
    <2> SUFFICES ASSUME NEW c \in Broadcast, NEW v \in Customer,
                        phone'[c][v] > 0, <<c, v>> \notin again,
                        note[c][v] \notin {"SENT", "FAILED"}
                 PROVE  \E y \in Sender : txn'[y].of = c /\ txn'[y].mine[v] \in {"SENT", "FAILED"}
      BY <1>4 DEF ShownIsRecorded
    <2>1. CASE c = b /\ v = u /\ more = 1
      BY <2>1, <1>3
    <2>2. CASE ~(c = b /\ v = u /\ more = 1)
      <3>1. phone[c][v] > 0
        BY <2>2, <1>5
      <3>2. PICK y \in Sender : txn[y].of = c /\ txn[y].mine[v] \in {"SENT", "FAILED"}
        BY <1>0, <3>1 DEF ShownIsRecorded
      <3>3. y # x \/ v # u
        BY <3>2, <1>1 DEF Absent
      <3> QED BY <3>2, <3>3, <1>2, <1>3
    <2> QED BY <2>1, <2>2
  <1>10. NobodyTwice'
    <2> SUFFICES ASSUME NEW c \in Broadcast, NEW v \in Customer, phone'[c][v] > 1
                 PROVE  <<c, v>> \in again
      BY <1>4 DEF NobodyTwice
    <2>1. CASE c = b /\ v = u /\ more = 1
      <3>1. note[b][u] = Absent
        BY <2>1 DEF Absent
      <3>2. ASSUME NEW y \in Sender, txn[y].of = b, txn[y].mine[u] # Absent PROVE FALSE
        <4>1. txn[y].pc = "send"
          BY <1>0, <3>2 DEF Hand
        <4> QED BY <1>0, <3>2, <4>1, <1>1 DEF Lock
      <3>3. phone[b][u] > 0
        BY <2>1, <1>5
      <3> QED BY <1>0, <2>1, <3>1, <3>2, <3>3, <1>1 DEF ShownIsRecorded, Absent
    <2>2. CASE ~(c = b /\ v = u /\ more = 1)
      BY <1>0, <2>2, <1>5 DEF NobodyTwice
    <2> QED BY <2>1, <2>2
  <1> QED BY <1>6, <1>7, <1>8, <1>9, <1>10 DEF IInv

LEMMA TellIInv ==
  ASSUME IInv, NEW x \in Sender, NEW u \in Customer,
         Skip(x, u) \/ Defer(x, u) \/ Deliver(x, u)
         \/ \E attempt \in {"FAILED", "SUPPRESSED"}, shown \in {0, 1} :
              NotDelivered(x, u, attempt, shown)
  PROVE IInv'
PROOF
  <1>0. /\ TypeOK /\ txn[x].pc = "send" /\ txn[x].of \in Broadcast /\ u \in txn[x].todo
        /\ txn[x] \in Session /\ txn[x].mine[u] = Absent
        /\ phone[txn[x].of] \in [Customer -> Nat]
    BY DEF IInv, Hand, TypeOK, Skip, Defer, Deliver, NotDelivered, MayTell
  <1>1. /\ txn \in [Sender -> Session] /\ phone \in [Broadcast -> [Customer -> Nat]]
        /\ trouble \in 0..MaxTrouble /\ MaxTrouble \in Nat
    BY <1>0, AudienceAssumption DEF TypeOK
  <1>2. CASE Skip(x, u)
    <2>1. /\ phone' = phone /\ trouble' = trouble
          /\ UNCHANGED <<cast, note, quiet, muted, earlier, op, causes>>
      BY <1>2 DEF Skip
    <2>2. Walked(x, u, Absent) /\ Shows(txn[x].of, u, 0)
      BY <1>0, <1>1, <1>2, <2>1, SkippedSession, ShownNoMore
    <2>3. Absent \in Delivery \cup {Absent} /\ 0 \in {0, 1} /\ (0 = 1 => Absent \in {"SENT", "FAILED"})
      OBVIOUS
    <2>4. trouble' \in 0..MaxTrouble
      BY <1>1, <2>1
    <2> DEFINE shown == 0
               attempt == Absent
    <2>5. /\ attempt \in Delivery \cup {Absent} /\ shown \in {0, 1} /\ ~(shown = 1)
          /\ Walked(x, u, attempt) /\ Shows(txn[x].of, u, shown) /\ attempt = Absent
      BY <2>2, <2>3
    <2> HIDE DEF shown, attempt
    <2> QED BY <1>0, <2>1, <2>4, <2>5, WalkIInv
  <1>3. ASSUME NEW attempt \in Delivery, NEW more \in {0, 1},
               MayTell(x, u), txn' = Told(x, u, attempt), Shows(txn[x].of, u, more),
               more = 1 => attempt \in {"SENT", "FAILED"}, trouble' \in 0..MaxTrouble,
               UNCHANGED <<cast, note, quiet, muted, earlier, op, causes>>
        PROVE  IInv'
    <2>1. Walked(x, u, attempt)
      BY <1>0, <1>1, <1>3, ToldSession
    <2>2. note[txn[x].of][u] = Absent
      BY <1>3 DEF MayTell, Refused, AlreadyTold
    <2> QED BY <1>0, <1>3, <2>1, <2>2, WalkIInv
  <1>4. CASE Defer(x, u)
    <2>1. /\ MayTell(x, u) /\ txn' = Told(x, u, "DEFERRED") /\ phone' = phone
          /\ UNCHANGED <<cast, note, quiet, muted, earlier, op, trouble, causes>>
      BY <1>4 DEF Defer
    <2>2. Shows(txn[x].of, u, 0) /\ "DEFERRED" \in Delivery
      BY <1>0, <1>1, <2>1, ShownNoMore DEF Delivery
    <2> QED BY <1>1, <1>3, <2>1, <2>2
  <1>5. CASE Deliver(x, u)
    <2>1. /\ MayTell(x, u) /\ txn' = Told(x, u, "SENT")
          /\ phone' = [phone EXCEPT ![txn[x].of][u] = @ + 1]
          /\ UNCHANGED <<cast, note, quiet, muted, earlier, op, trouble, causes>>
      BY <1>5 DEF Deliver
    <2>2. Shows(txn[x].of, u, 1) /\ "SENT" \in Delivery
      BY <1>0, <1>1, <2>1, ShownMore DEF Delivery
    <2> QED BY <1>1, <1>3, <2>1, <2>2
  <1>6. CASE \E attempt \in {"FAILED", "SUPPRESSED"}, shown \in {0, 1} :
               NotDelivered(x, u, attempt, shown)
    <2>1. PICK attempt \in {"FAILED", "SUPPRESSED"}, shown \in {0, 1} :
            NotDelivered(x, u, attempt, shown)
      BY <1>6
    <2>2. /\ MayTell(x, u) /\ txn' = Told(x, u, attempt)
          /\ phone' = [phone EXCEPT ![txn[x].of][u] = @ + shown]
          /\ UNCHANGED <<cast, note, quiet, muted, earlier, op, causes>>
          /\ trouble' \in 0..MaxTrouble /\ (shown = 1 => attempt = "FAILED")
      BY <1>1, <2>1 DEF NotDelivered, Trouble
    <2>3. Shows(txn[x].of, u, shown) /\ attempt \in Delivery
      BY <1>0, <1>1, <2>2, ShownMore DEF Delivery
    <2> QED BY <1>3, <2>2, <2>3
  <1> QED BY <1>2, <1>4, <1>5, <1>6

LEMMA WrittenRow ==
  ASSUME TypeOK, NEW x \in Sender, txn[x].of \in Broadcast
  PROVE  Written(x) \in Row /\ Written(x).state = "SENT"
PROOF
  <1>1. cast[txn[x].of] \in Row /\ txn[x] \in Session
    BY DEF TypeOK
  <1>2. Cardinality(Customer) \in Nat /\ Cardinality(Named(x)) \in Nat
    <2>1. IsFiniteSet(Customer) /\ Named(x) \subseteq Customer
      BY AudienceAssumption DEF Named
    <2> QED BY <2>1, FS_Subset, FS_CardinalityType
  <1> QED BY <1>1, <1>2 DEF Written, Row, State, Session

LEMMA RestIsIdle ==
  /\ Rest \in Session /\ Rest.pc = "idle" /\ Rest.of = None
  /\ \A u \in Customer : Rest.mine[u] = Absent
BY DEF Rest, Session, Delivery, State, Absent

LEMMA FinishIInv ==
  ASSUME IInv, NEW x \in Sender, Finish(x) PROVE IInv'
PROOF
  <1> DEFINE b == txn[x].of
  <1>0. /\ TypeOK /\ Lock /\ Hand /\ Own /\ Cancelling /\ Current /\ Noted
        /\ ShownIsRecorded /\ NobodyTwice
    BY DEF IInv
  <1>1. txn[x].pc = "send" /\ b \in Broadcast /\ txn[x] \in Session
    BY <1>0 DEF Hand, Finish, TypeOK
  <1>2. txn'[x] = Rest /\ \A y \in Sender : y # x => txn'[y] = txn[y]
    BY <1>0 DEF TypeOK, Finish
  <1>3. cast'[b].state = "SENT" /\ \A c \in Broadcast : c # b => cast'[c] = cast[c]
    BY <1>0, <1>1, WrittenRow DEF TypeOK, Finish
  <1>4. /\ \A u \in Customer :
             note'[b][u] = IF txn[x].mine[u] = Absent THEN note[b][u] ELSE txn[x].mine[u]
        /\ \A c \in Broadcast : c # b => note'[c] = note[c]
        /\ note' \in [Broadcast -> [Customer -> Delivery \cup {Absent}]]
    BY <1>0, <1>1 DEF TypeOK, Finish, Session
  <1>5. UNCHANGED <<phone, quiet, muted, earlier, op, trouble, again, overtaken, together>>
    BY DEF Finish, causes
  <1>6. \A y \in Sender : y # x /\ txn[y].pc = "send" => txn[y].of # b
    BY <1>0, <1>1 DEF Lock
  <1>7. TypeOK'
    <2>1. cast' \in [Broadcast -> Row] /\ txn' \in [Sender -> Session]
      BY <1>0, <1>1, WrittenRow, RestIsIdle DEF TypeOK, Finish
    <2> QED BY <1>0, <1>4, <1>5, <2>1 DEF TypeOK
  <1>8. Lock' /\ Current' /\ Own'
    <2>1. Lock'
      BY <1>0, <1>2, RestIsIdle DEF Lock
    <2>2. Current'
      BY <1>0, <1>2, <1>3, <1>5, <1>6, RestIsIdle DEF Current, Hand
    <2>3. Own'
      <3> SUFFICES ASSUME NEW y \in Sender, txn'[y].pc # "idle", txn'[y].copy = "NONE"
                   PROVE  /\ cast'[txn'[y].of].state = "NONE"
                          /\ \A z \in Sender : z # y => txn'[z].of # txn'[y].of
        BY DEF Own
      <3>1. y # x /\ txn'[y] = txn[y]
        BY <1>2, RestIsIdle
      <3>2. /\ txn[y].of \in Broadcast /\ cast[txn[y].of].state = "NONE"
            /\ \A z \in Sender : z # y => txn[z].of # txn[y].of
        BY <1>0, <3>1 DEF Own, Hand
      <3>3. txn'[x].of # txn[y].of
        BY <1>2, <3>2, RestIsIdle, AudienceAssumption
      <3> QED BY <1>2, <1>3, <3>1, <3>2, <3>3
    <2> QED BY <2>1, <2>2, <2>3
  <1>9. Hand'
    <2> SUFFICES ASSUME NEW y \in Sender
                 PROVE  /\ txn'[y].pc # "idle" =>
                             txn'[y].of \in Broadcast /\ txn'[y].copy \in {"DRAFT", "NONE"}
                        /\ \A u \in Customer :
                             txn'[y].mine[u] # Absent =>
                               /\ txn'[y].pc = "send" /\ u \notin txn'[y].todo
                               /\ note'[txn'[y].of][u] = Absent
      BY DEF Hand
    <2>1. CASE y = x
      BY <1>2, <2>1, RestIsIdle
    <2>2. CASE y # x
      BY <1>0, <1>2, <1>4, <1>6, <2>2 DEF Hand
    <2> QED BY <2>1, <2>2
  <1>10. Cancelling' /\ Noted' /\ NobodyTwice'
    <2>1. Cancelling'
      BY <1>0, <1>3, <1>5 DEF Cancelling, TypeOK
    <2>2. Noted'
      BY <1>0, <1>3, <1>4, <1>5 DEF Noted
    <2> QED BY <2>1, <2>2, <1>0, <1>5 DEF NobodyTwice
  <1>11. ShownIsRecorded'
    <2> SUFFICES ASSUME NEW c \in Broadcast, NEW u \in Customer,
                        phone[c][u] > 0, <<c, u>> \notin again,
                        note'[c][u] \notin {"SENT", "FAILED"}
                 PROVE  \E y \in Sender : txn'[y].of = c /\ txn'[y].mine[u] \in {"SENT", "FAILED"}
      BY <1>5 DEF ShownIsRecorded
    <2>1. note[c][u] \notin {"SENT", "FAILED"}
      BY <1>0, <1>1, <1>4 DEF Hand, Absent
    <2>2. PICK y \in Sender : txn[y].of = c /\ txn[y].mine[u] \in {"SENT", "FAILED"}
      BY <1>0, <2>1 DEF ShownIsRecorded
    <2>3. y # x
      BY <1>4, <2>2 DEF Absent
    <2> QED BY <1>2, <2>2, <2>3
  <1> QED BY <1>7, <1>8, <1>9, <1>10, <1>11 DEF IInv

LEMMA DieIInv ==
  ASSUME IInv, NEW x \in Sender, Die(x) PROVE IInv'
PROOF
  <1> DEFINE b == txn[x].of
  <1>0. /\ TypeOK /\ Lock /\ Hand /\ Own /\ Cancelling /\ Current /\ Noted
        /\ ShownIsRecorded /\ NobodyTwice
    BY DEF IInv
  <1>1. txn[x].pc # "idle" /\ b \in Broadcast /\ txn[x] \in Session
    BY <1>0 DEF Hand, Die, TypeOK
  <1>2. txn'[x] = Rest /\ \A y \in Sender : y # x => txn'[y] = txn[y]
    BY <1>0 DEF TypeOK, Die
  <1>3. /\ \A c \in Broadcast : c # b => cast'[c] = cast[c]
        /\ cast'[b] = cast[b] \/ (txn[x].copy = "NONE" /\ cast'[b].state = "GONE")
    BY <1>0, <1>1 DEF TypeOK, Die, Row
  <1>4. /\ UNCHANGED <<note, phone, quiet, muted, earlier, op, overtaken, together>>
        /\ again \subseteq again' /\ again' \subseteq Broadcast \X Customer
        /\ \A u \in Customer : txn[x].mine[u] \in {"SENT", "FAILED"} => <<b, u>> \in again'
    BY <1>0, <1>1 DEF Die, TypeOK
  <1>5. txn[x].copy = "NONE" =>
          /\ cast[b].state = "NONE" /\ \A y \in Sender : y # x => txn[y].of # b
    BY <1>0, <1>1 DEF Own
  <1>6. TypeOK'
    <2>1. cast' \in [Broadcast -> Row]
      <3>1. cast \in [Broadcast -> Row] /\ [cast[b] EXCEPT !.state = "GONE"] \in Row
        <4>1. cast \in [Broadcast -> Row]
          BY <1>0 DEF TypeOK
        <4>2. cast[b] \in Row
          BY <1>1, <4>1
        <4> QED BY <4>1, <4>2 DEF Row, State
      <3>2. cast' = cast \/ cast' = [cast EXCEPT ![b] = [cast[b] EXCEPT !.state = "GONE"]]
        BY DEF Die
      <3> QED BY <3>1, <3>2
    <2>2. txn' \in [Sender -> Session]
      BY <1>0, RestIsIdle DEF TypeOK, Die
    <2>3. trouble' \in 0..MaxTrouble
      BY <1>0, AudienceAssumption DEF TypeOK, Die, Trouble
    <2> QED BY <1>0, <1>4, <2>1, <2>2, <2>3 DEF TypeOK
  <1>7. Lock' /\ Hand'
    <2>1. Lock'
      BY <1>0, <1>2, RestIsIdle DEF Lock
    <2>2. Hand'
      BY <1>0, <1>2, <1>4, RestIsIdle DEF Hand
    <2> QED BY <2>1, <2>2
  <1>8. Own'
    <2> SUFFICES ASSUME NEW y \in Sender, txn'[y].pc # "idle", txn'[y].copy = "NONE"
                 PROVE  /\ cast'[txn'[y].of].state = "NONE"
                        /\ \A z \in Sender : z # y => txn'[z].of # txn'[y].of
      BY DEF Own
    <2>1. y # x /\ txn'[y] = txn[y]
      BY <1>2, RestIsIdle
    <2>2. /\ txn[y].of \in Broadcast /\ cast[txn[y].of].state = "NONE"
          /\ \A z \in Sender : z # y => txn[z].of # txn[y].of
      BY <1>0, <2>1 DEF Own, Hand
    <2>3. txn'[x].of # txn[y].of
      BY <1>2, <2>2, RestIsIdle, AudienceAssumption
    <2> QED BY <1>2, <1>3, <2>1, <2>2, <2>3
  <1>9. Current'
    BY <1>0, <1>2, <1>3, <1>4, <1>5, RestIsIdle DEF Current, Hand
  <1>10. Cancelling' /\ Noted' /\ NobodyTwice'
    <2>1. Cancelling'
      BY <1>0, <1>3, <1>4 DEF Cancelling, TypeOK
    <2>2. Noted'
      BY <1>0, <1>3, <1>4, <1>5 DEF Noted
    <2>3. NobodyTwice'
      BY <1>0, <1>4 DEF NobodyTwice
    <2> QED BY <2>1, <2>2, <2>3
  <1>11. ShownIsRecorded'
    <2> SUFFICES ASSUME NEW c \in Broadcast, NEW u \in Customer,
                        phone[c][u] > 0, <<c, u>> \notin again',
                        note[c][u] \notin {"SENT", "FAILED"}
                 PROVE  \E y \in Sender : txn'[y].of = c /\ txn'[y].mine[u] \in {"SENT", "FAILED"}
      BY <1>4 DEF ShownIsRecorded
    <2>1. PICK y \in Sender : txn[y].of = c /\ txn[y].mine[u] \in {"SENT", "FAILED"}
      BY <1>0, <1>4 DEF ShownIsRecorded
    <2>2. y # x
      BY <1>4, <2>1
    <2> QED BY <1>2, <2>1, <2>2
  <1> QED BY <1>6, <1>7, <1>8, <1>9, <1>10, <1>11 DEF IInv

LEMMA NextIInv ==
  ASSUME IInv, [Next]_vars PROVE IInv'
PROOF
  <1>1. CASE UNCHANGED vars
    BY <1>1, Quiet DEF vars, TypeOK, IInv
  <1>2. CASE \E u \in Customer : Mute(u)
    BY <1>2, Quiet DEF Mute, TypeOK, IInv, causes
  <1>3. CASE Dawn
    BY <1>3, Quiet DEF Dawn, TypeOK, IInv, causes
  <1>4. CASE Flush
    BY <1>1, <1>4, FlushDoesNothing DEF IInv
  <1>5. CASE \E b \in Broadcast : Compose(b) \/ ReadToCancel(b)
    BY <1>5, ComposeIInv, ReadToCancelIInv
  <1>6. CASE Cancel
    BY <1>6, CancelIInv
  <1>7. CASE \E x \in Sender, b \in Broadcast : Begin(x, b)
    BY <1>7, BeginIInv
  <1>8. CASE \E x \in Sender : Start(x) \/ Finish(x) \/ Die(x)
    BY <1>8, StartIInv, FinishIInv, DieIInv
  <1>9. CASE \E x \in Sender, u \in Customer :
               \/ Skip(x, u) \/ Defer(x, u) \/ Deliver(x, u)
               \/ \E attempt \in {"FAILED", "SUPPRESSED"}, shown \in {0, 1} :
                    NotDelivered(x, u, attempt, shown)
    BY <1>9, TellIInv
  <1> QED BY <1>1, <1>2, <1>3, <1>4, <1>5, <1>6, <1>7, <1>8, <1>9 DEF Next

LEMMA Inductive == Spec => []IInv
PROOF
  <1>1. Init => IInv
    BY InitIInv
  <1>2. IInv /\ [Next]_vars => IInv'
    BY NextIInv
  <1> QED BY <1>1, <1>2, PTL DEF Spec

-----------------------------------------------------------------------------
(* Every variable of the broadcasts keeps its type. *)
THEOREM TypeCorrect == Spec => []TypeOK
PROOF
  <1>1. IInv => TypeOK
    BY DEF IInv
  <1> QED BY <1>1, Inductive, PTL

(* What a phone showed is on record once its send is over, for any number of
   broadcasts, customers and sends at once. *)
THEOREM RecordsAreComplete == Spec => []ShownIsRecorded
PROOF
  <1>1. IInv => ShownIsRecorded
    BY DEF IInv
  <1> QED BY <1>1, Inductive, PTL

(* No phone shows a broadcast twice unless a send that reached it was undone:
   the dedupe check is enough because sends of one broadcast exclude each
   other from the start of the walk to the commit. *)
THEOREM NobodyIsToldTwice == Spec => []NobodyTwice
PROOF
  <1>1. IInv => NobodyTwice
    BY DEF IInv
  <1> QED BY <1>1, Inductive, PTL

(* A cancelled broadcast reaches nobody, save when it was started or cancelled
   from a copy out of date, or by a send undone before. *)
THEOREM CancelledIsSilent == Spec => []CancelledStaysSilent
PROOF
  <1>1. IInv => CancelledStaysSilent
    <2> SUFFICES ASSUME IInv, NEW b \in Broadcast \ overtaken, cast[b].state = "CANCELLED",
                        NEW u \in Customer, phone[b][u] > 0, <<b, u>> \notin again
                 PROVE  FALSE
      BY DEF CancelledStaysSilent
    <2>1. note[b][u] = Absent
      BY DEF IInv, Noted
    <2>2. PICK x \in Sender : txn[x].of = b /\ txn[x].mine[u] \in {"SENT", "FAILED"}
      BY <2>1 DEF IInv, ShownIsRecorded, Absent
    <2>3. txn[x].pc = "send" /\ txn[x].copy \in {"DRAFT", "NONE"}
      BY <2>2 DEF IInv, Hand, Absent
    <2> QED BY <2>2, <2>3 DEF IInv, Current
  <1> QED BY <1>1, Inductive, PTL

(* The flush of deferred notifications never finds one, in any state: the
   inbox's SENT outranks Telegram's DEFERRED in the row's summary. *)
THEOREM NothingIsEverDue == Spec => [](Due = {})
PROOF
  <1>1. Due = {}
    BY NothingIsDue
  <1> QED BY <1>1, PTL

-----------------------------------------------------------------------------
(* What a send makes of its audience *)

\* The customers a session has told, skipped, and has yet to come to.
Count(r) ==
  Cardinality({u \in Customer : r.mine[u] # Absent}) + r.suppressed + Cardinality(r.todo)

\* In a walk that is everybody, before it nobody.
Walking ==
  \A x \in Sender : Count(txn[x]) = IF txn[x].pc = "send" THEN Cardinality(Customer) ELSE 0

\* What complete() writes over: a column the save leaves out is still zero.
Unwritten ==
  \A b \in Broadcast \ overtaken :
    cast[b].state # "SENT" => cast[b].sent = 0 /\ cast[b].suppressed = 0

AuditInv == Walking /\ Unwritten /\ CountersAddUp

LEMMA Countable ==
  ASSUME NEW r \in Session
  PROVE  /\ IsFiniteSet(r.todo) /\ IsFiniteSet({u \in Customer : r.mine[u] # Absent})
         /\ Cardinality(r.todo) \in Nat
         /\ Cardinality({u \in Customer : r.mine[u] # Absent}) \in Nat
         /\ Cardinality(Customer) \in Nat /\ r.suppressed \in Nat
PROOF
  <1>1. r.todo \subseteq Customer /\ r.suppressed \in Nat
    BY DEF Session
  <1>2. {u \in Customer : r.mine[u] # Absent} \subseteq Customer
    OBVIOUS
  <1> QED BY <1>1, <1>2, AudienceAssumption, FS_Subset, FS_CardinalityType

\* Of one who is yet to come, told: one more told, one fewer to come.
LEMMA CountTold ==
  ASSUME NEW r \in Session, NEW q \in Session, NEW u \in r.todo, NEW attempt \in Delivery,
         r.mine[u] = Absent, q.mine = [r.mine EXCEPT ![u] = attempt],
         q.todo = r.todo \ {u}, q.suppressed = r.suppressed
  PROVE  Count(q) = Count(r)
PROOF
  <1> DEFINE Named1 == {v \in Customer : r.mine[v] # Absent}
             Named2 == {v \in Customer : q.mine[v] # Absent}
  <1>1. u \in Customer /\ r.mine \in [Customer -> Delivery \cup {Absent}] /\ attempt # Absent
    BY DEF Session, Delivery, Absent
  <1>2. Named2 = Named1 \cup {u} /\ u \notin Named1
    BY <1>1
  <1>3. Cardinality(Named2) = Cardinality(Named1) + 1
    BY <1>2, Countable, FS_AddElement
  <1>4. Cardinality(q.todo) = Cardinality(r.todo) - 1
    <2>1. IsFiniteSet(r.todo)
      BY Countable
    <2> QED BY <2>1, FS_RemoveElement
  <1>5. Cardinality(Named1) \in Nat /\ Cardinality(r.todo) \in Nat /\ r.suppressed \in Nat
    BY Countable
  <1> HIDE DEF Named1, Named2
  <1>6. Cardinality(Named2) + r.suppressed + Cardinality(q.todo)
          = Cardinality(Named1) + r.suppressed + Cardinality(r.todo)
    BY <1>3, <1>4, <1>5
  <1> QED BY <1>6 DEF Count, Named1, Named2

\* Skipped: one more suppressed.
LEMMA CountSkipped ==
  ASSUME NEW r \in Session, NEW q \in Session, NEW u \in r.todo,
         q.mine = r.mine, q.todo = r.todo \ {u}, q.suppressed = r.suppressed + 1
  PROVE  Count(q) = Count(r)
PROOF
  <1> DEFINE named == Cardinality({v \in Customer : r.mine[v] # Absent})
  <1>1. Cardinality(q.todo) = Cardinality(r.todo) - 1
    <2>1. IsFiniteSet(r.todo)
      BY Countable
    <2> QED BY <2>1, FS_RemoveElement
  <1>2. named \in Nat /\ Cardinality(r.todo) \in Nat /\ r.suppressed \in Nat
    BY Countable
  <1> HIDE DEF named
  <1>3. named + q.suppressed + Cardinality(q.todo) = named + r.suppressed + Cardinality(r.todo)
    BY <1>1, <1>2
  <1> QED BY <1>3 DEF Count, named

LEMMA CountRest ==
  ASSUME NEW r, r.mine = Rest.mine, r.suppressed = 0, r.todo = {} PROVE Count(r) = 0
PROOF
  <1>1. {u \in Customer : r.mine[u] # Absent} = {}
    BY DEF Rest
  <1> QED BY <1>1, FS_EmptySet DEF Count

\* Everything the audit reads stays as it was, but for broadcasts overtaken.
LEMMA AuditQuiet ==
  ASSUME AuditInv, UNCHANGED <<cast, note, txn>>, overtaken \subseteq overtaken'
  PROVE  AuditInv'
PROOF
  <1>1. Walking'
    BY DEF AuditInv, Walking, Count
  <1>2. Unwritten'
    BY DEF AuditInv, Unwritten
  <1>3. CountersAddUp'
    BY DEF AuditInv, CountersAddUp
  <1> QED BY <1>1, <1>2, <1>3 DEF AuditInv

\* A row moved to another state than SENT, its counters left alone.
LEMMA AuditRow ==
  ASSUME AuditInv, IInv, NEW b \in Broadcast, NEW state \in State, state # "SENT",
         cast' = [cast EXCEPT ![b].state = state], UNCHANGED note,
         overtaken \subseteq overtaken', b \notin overtaken' => cast[b].state # "SENT",
         Walking'
  PROVE  AuditInv'
PROOF
  <1>1. /\ cast'[b].state = state /\ cast'[b].sent = cast[b].sent
        /\ cast'[b].suppressed = cast[b].suppressed
        /\ \A c \in Broadcast : c # b => cast'[c] = cast[c]
    BY DEF IInv, TypeOK, Row
  <1>2. Unwritten'
    BY <1>1 DEF AuditInv, Unwritten
  <1>3. CountersAddUp'
    BY <1>1 DEF AuditInv, CountersAddUp
  <1> QED BY <1>2, <1>3 DEF AuditInv

\* One session changed, the rows not.
LEMMA AuditSession ==
  ASSUME AuditInv, NEW x \in Sender, UNCHANGED <<cast, note>>, overtaken \subseteq overtaken',
         \A y \in Sender : y # x => txn'[y] = txn[y],
         Count(txn'[x]) = IF txn'[x].pc = "send" THEN Cardinality(Customer) ELSE 0
  PROVE  AuditInv'
PROOF
  <1>1. Walking'
    <2> SUFFICES ASSUME NEW y \in Sender
                 PROVE  Count(txn'[y]) = IF txn'[y].pc = "send" THEN Cardinality(Customer) ELSE 0
      BY DEF Walking, Count
    <2>1. CASE y = x
      BY <2>1
    <2>2. CASE y # x
      BY <2>2 DEF AuditInv, Walking
    <2> QED BY <2>1, <2>2
  <1>2. Unwritten'
    BY DEF AuditInv, Unwritten
  <1>3. CountersAddUp'
    BY DEF AuditInv, CountersAddUp
  <1> QED BY <1>1, <1>2, <1>3 DEF AuditInv

LEMMA AuditInit == Init => AuditInv
PROOF
  <1> SUFFICES ASSUME Init PROVE AuditInv OBVIOUS
  <1>1. \A x \in Sender : txn[x] = Rest /\ Rest.pc = "idle" /\ Count(Rest) = 0
    BY CountRest DEF Init, Rest
  <1>2. Walking
    BY <1>1 DEF Walking
  <1>3. \A b \in Broadcast : cast[b].state = "NONE" /\ cast[b].sent = 0 /\ cast[b].suppressed = 0
    BY DEF Init
  <1> QED BY <1>2, <1>3 DEF AuditInv, Unwritten, CountersAddUp

LEMMA AuditOperator ==
  ASSUME IInv, AuditInv, (\E b \in Broadcast : Compose(b) \/ ReadToCancel(b)) \/ Cancel
  PROVE  AuditInv'
PROOF
  <1>1. ASSUME NEW b \in Broadcast, Compose(b) PROVE AuditInv'
    <2>1. /\ cast' = [cast EXCEPT ![b].state = "DRAFT"] /\ cast[b].state = "NONE"
          /\ UNCHANGED <<note, txn, overtaken>>
      BY <1>1 DEF Compose, causes
    <2>2. Walking'
      BY <2>1 DEF AuditInv, Walking, Count
    <2> QED BY <2>1, <2>2, AuditRow DEF State
  <1>2. ASSUME NEW b \in Broadcast, ReadToCancel(b) PROVE AuditInv'
    BY <1>2, AuditQuiet DEF ReadToCancel, causes
  <1>3. CASE Cancel
    <2> DEFINE b == op.of
    <2>1. /\ b \in Broadcast /\ op.copy = "DRAFT"
          /\ cast' = [cast EXCEPT ![b].state = "CANCELLED"]
          /\ overtaken' = (IF cast[b].state = op.copy THEN overtaken ELSE overtaken \cup {b})
          /\ UNCHANGED <<note, txn>>
      BY <1>3 DEF Cancel, IInv, TypeOK, Cancelling
    <2>2. Walking'
      BY <2>1 DEF AuditInv, Walking, Count
    <2>3. overtaken \subseteq overtaken' /\ (b \notin overtaken' => cast[b].state # "SENT")
      BY <2>1
    <2> QED BY <2>1, <2>2, <2>3, AuditRow DEF State
  <1> QED BY <1>1, <1>2, <1>3

LEMMA AuditBegin ==
  ASSUME IInv, AuditInv, NEW x \in Sender, NEW b \in Broadcast, Begin(x, b)
  PROVE  AuditInv'
PROOF
  <1>1. /\ txn'[x] = Reading(cast[b].state, b) /\ \A y \in Sender : y # x => txn'[y] = txn[y]
        /\ UNCHANGED <<cast, note, overtaken>>
    BY DEF Begin, IInv, TypeOK, causes
  <1> DEFINE r == Reading(cast[b].state, b)
  <1>2. r.pc = "start" /\ r.mine = Rest.mine /\ r.suppressed = 0 /\ r.todo = {}
    BY DEF Reading, Rest
  <1>3. Count(r) = 0
    <2> HIDE DEF r
    <2> QED BY <1>2, CountRest
  <1>4. txn'[x].pc # "send" /\ Count(txn'[x]) = 0
    BY <1>1, <1>2, <1>3
  <1> QED BY <1>1, <1>4, AuditSession

LEMMA AuditStart ==
  ASSUME IInv, AuditInv, NEW x \in Sender, Start(x) PROVE AuditInv'
PROOF
  <1> DEFINE r == txn[x]
             q == [r EXCEPT !.pc = "send", !.todo = Customer]
  <1>1. r \in Session /\ r.pc = "start" /\ \A u \in Customer : r.mine[u] = Absent
    BY DEF IInv, TypeOK, Hand, Start
  <1>2. /\ txn'[x] = q /\ \A y \in Sender : y # x => txn'[y] = txn[y]
        /\ UNCHANGED <<cast, note>> /\ overtaken \subseteq overtaken'
    BY DEF Start, IInv, TypeOK
  <1>3. /\ q.pc = "send" /\ q.todo = Customer /\ q.mine = r.mine /\ q.suppressed = r.suppressed
    BY <1>1 DEF Session
  <1>4. r.suppressed = 0
    <2>1. Count(r) = 0
      BY <1>1 DEF AuditInv, Walking
    <2> DEFINE m == Cardinality({u \in Customer : r.mine[u] # Absent})
               n == Cardinality(r.todo)
    <2>2. m \in Nat /\ n \in Nat /\ r.suppressed \in Nat
      BY <1>1, Countable
    <2>3. m + r.suppressed + n = 0
      BY <2>1 DEF Count
    <2> HIDE DEF m, n
    <2> QED BY <2>2, <2>3
  <1>5. {u \in Customer : q.mine[u] # Absent} = {}
    BY <1>1, <1>3
  <1>6. Cardinality({}) = 0 /\ Cardinality(Customer) \in Nat
    BY FS_EmptySet, AudienceAssumption, FS_CardinalityType
  <1>7. Count(q) = Cardinality(Customer)
    <2> HIDE DEF q
    <2> QED BY <1>3, <1>4, <1>5, <1>6 DEF Count
  <1> HIDE DEF q
  <1> QED BY <1>2, <1>3, <1>7, AuditSession

LEMMA AuditWalk ==
  ASSUME IInv, AuditInv, NEW x \in Sender, NEW u \in Customer,
         Skip(x, u) \/ Defer(x, u) \/ Deliver(x, u)
         \/ \E attempt \in {"FAILED", "SUPPRESSED"}, shown \in {0, 1} :
              NotDelivered(x, u, attempt, shown)
  PROVE  AuditInv'
PROOF
  <1> DEFINE r == txn[x]
  <1>1. /\ r \in Session /\ r.pc = "send" /\ u \in r.todo /\ r.mine[u] = Absent
        /\ UNCHANGED <<cast, note, overtaken>>
    BY DEF IInv, TypeOK, Hand, Skip, Defer, Deliver, NotDelivered, MayTell, causes
  <1>2. Count(r) = Cardinality(Customer)
    BY <1>1 DEF AuditInv, Walking
  <1>3. TypeOK /\ TypeOK'
    BY TellIInv DEF IInv
  <1>4. txn'[x] \in Session
    BY <1>3 DEF TypeOK
  <1>5. CASE Skip(x, u)
    <2>1. /\ txn'[x] = [r EXCEPT !.todo = @ \ {u}, !.suppressed = @ + 1]
          /\ \A y \in Sender : y # x => txn'[y] = txn[y]
      BY <1>3, <1>5 DEF Skip, TypeOK
    <2>2. /\ txn'[x].pc = "send" /\ txn'[x].mine = r.mine /\ txn'[x].todo = r.todo \ {u}
          /\ txn'[x].suppressed = r.suppressed + 1
      BY <1>1, <2>1 DEF Session
    <2>3. Count(txn'[x]) = Count(r)
      BY <1>1, <1>4, <2>2, CountSkipped
    <2> QED BY <1>1, <1>2, <2>1, <2>2, <2>3, AuditSession
  <1>6. ASSUME NEW attempt \in Delivery, txn' = Told(x, u, attempt) PROVE AuditInv'
    <2>1. /\ txn'[x] = [r EXCEPT !.todo = @ \ {u}, !.mine[u] = attempt]
          /\ \A y \in Sender : y # x => txn'[y] = txn[y]
      BY <1>3, <1>6 DEF Told, TypeOK
    <2>2. /\ txn'[x].pc = "send" /\ txn'[x].mine = [r.mine EXCEPT ![u] = attempt]
          /\ txn'[x].todo = r.todo \ {u} /\ txn'[x].suppressed = r.suppressed
      BY <1>1, <2>1 DEF Session
    <2>3. Count(txn'[x]) = Count(r)
      BY <1>1, <1>4, <2>2, CountTold
    <2> QED BY <1>1, <1>2, <2>1, <2>2, <2>3, AuditSession
  <1> QED BY <1>5, <1>6 DEF Defer, Deliver, NotDelivered, Delivery

\* The commit: everybody was told or skipped, the row had counted nobody yet,
\* and what is on record of the broadcast is what this send told.
LEMMA AuditFinish ==
  ASSUME IInv, AuditInv, NEW x \in Sender, Finish(x) PROVE AuditInv'
PROOF
  <1> DEFINE r == txn[x]
             b == r.of
             told == {u \in Customer : r.mine[u] # Absent}
  <1>1. /\ r \in Session /\ r.pc = "send" /\ b \in Broadcast /\ r.todo = {}
        /\ r.copy \in {"DRAFT", "NONE"} /\ UNCHANGED overtaken
    BY DEF IInv, TypeOK, Hand, Finish, causes
  <1>2. txn'[x] = Rest /\ \A y \in Sender : y # x => txn'[y] = txn[y]
    BY DEF IInv, TypeOK, Finish
  <1>3. Walking'
    <2> SUFFICES ASSUME NEW y \in Sender
                 PROVE  Count(txn'[y]) = IF txn'[y].pc = "send" THEN Cardinality(Customer) ELSE 0
      BY DEF Walking, Count
    <2>1. Count(Rest) = 0 /\ Rest.pc = "idle"
      BY CountRest DEF Rest
    <2> QED BY <1>2, <2>1 DEF AuditInv, Walking
  <1>4. /\ cast'[b] = Written(x) /\ Written(x).state = "SENT"
        /\ \A c \in Broadcast : c # b => cast'[c] = cast[c]
    BY <1>1, WrittenRow DEF IInv, TypeOK, Finish
  <1>5. /\ \A u \in Customer :
             note'[b][u] = IF r.mine[u] = Absent THEN note[b][u] ELSE r.mine[u]
        /\ \A c \in Broadcast : c # b => note'[c] = note[c]
    BY <1>1 DEF IInv, TypeOK, Finish
  <1>6. Unwritten'
    BY <1>1, <1>4 DEF AuditInv, Unwritten
  <1>7. ASSUME b \notin overtaken
        PROVE  /\ cast'[b].sent + cast'[b].suppressed = cast'[b].count
               /\ cast'[b].sent = Cardinality({u \in Customer : note'[b][u] # Absent})
    <2>1. cast[b].state # "SENT"
      BY <1>1, <1>7 DEF IInv, Current
    <2>2. cast[b].sent = 0 /\ cast[b].suppressed = 0 /\ \A u \in Customer : note[b][u] = Absent
      BY <1>1, <1>7, <2>1 DEF AuditInv, Unwritten, IInv, Noted
    <2>3. /\ cast'[b].sent = Cardinality(told) /\ cast'[b].suppressed = r.suppressed
          /\ cast'[b].count = Cardinality(Customer)
      <3>1. Named(x) = told
        BY DEF Named
      <3> HIDE DEF told
      <3> QED BY <1>4, <2>2, <3>1 DEF Written
    <2>4. Cardinality(told) + r.suppressed + Cardinality(r.todo) = Cardinality(Customer)
      BY <1>1 DEF AuditInv, Walking, Count
    <2>5. Cardinality(told) \in Nat /\ r.suppressed \in Nat /\ Cardinality(r.todo) = 0
      BY <1>1, Countable, FS_EmptySet
    <2>6. {u \in Customer : note'[b][u] # Absent} = told
      BY <1>5, <2>2
    <2>7. Cardinality(told) + r.suppressed = Cardinality(Customer)
      <3> HIDE DEF told
      <3> QED BY <2>4, <2>5
    <2> HIDE DEF told
    <2> QED BY <2>3, <2>6, <2>7
  <1>8. CountersAddUp'
    <2> SUFFICES ASSUME NEW c \in Broadcast \ overtaken, cast'[c].state = "SENT"
                 PROVE  /\ cast'[c].sent + cast'[c].suppressed = cast'[c].count
                        /\ cast'[c].sent = Cardinality({u \in Customer : note'[c][u] # Absent})
      BY <1>1 DEF CountersAddUp
    <2>1. CASE c = b
      BY <1>7, <2>1
    <2>2. CASE c # b
      BY <1>4, <1>5, <2>2 DEF AuditInv, CountersAddUp
    <2> QED BY <2>1, <2>2
  <1> QED BY <1>3, <1>6, <1>8 DEF AuditInv

LEMMA AuditDie ==
  ASSUME IInv, AuditInv, NEW x \in Sender, Die(x) PROVE AuditInv'
PROOF
  <1> DEFINE b == txn[x].of
  <1>1. txn'[x] = Rest /\ \A y \in Sender : y # x => txn'[y] = txn[y]
    BY DEF IInv, TypeOK, Die
  <1>2. Count(Rest) = 0 /\ Rest.pc = "idle"
    BY CountRest DEF Rest
  <1>3. UNCHANGED <<note, overtaken>>
    BY DEF Die
  <1>4. CASE txn[x].copy = "NONE"
    <2>1. b \in Broadcast /\ cast[b].state = "NONE"
      BY <1>4 DEF Die, IInv, Hand, Own
    <2>2. cast' = [cast EXCEPT ![b].state = "GONE"]
      BY <1>4 DEF Die
    <2>3. Walking'
      <3> SUFFICES ASSUME NEW y \in Sender
                   PROVE  Count(txn'[y]) = IF txn'[y].pc = "send" THEN Cardinality(Customer) ELSE 0
        BY DEF Walking, Count
      <3> QED BY <1>1, <1>2 DEF AuditInv, Walking
    <2>4. "GONE" \in State /\ "GONE" # "SENT" /\ cast[b].state # "SENT"
      BY <2>1 DEF State
    <2> QED BY <1>3, <2>1, <2>2, <2>3, <2>4, AuditRow
  <1>5. CASE txn[x].copy # "NONE"
    <2>1. cast' = cast
      BY <1>5 DEF Die
    <2>2. Count(txn'[x]) = 0 /\ txn'[x].pc # "send"
      BY <1>1, <1>2
    <2> QED BY <1>1, <1>3, <2>1, <2>2, AuditSession
  <1> QED BY <1>4, <1>5

LEMMA AuditStep ==
  ASSUME IInv, AuditInv, [Next]_vars PROVE AuditInv'
PROOF
  <1>1. CASE UNCHANGED vars
    BY <1>1, AuditQuiet DEF vars
  <1>2. CASE Dawn \/ \E u \in Customer : Mute(u)
    BY <1>2, AuditQuiet DEF Dawn, Mute, causes
  <1>3. CASE Flush
    BY <1>1, <1>3, FlushDoesNothing DEF IInv
  <1>4. CASE Cancel \/ \E b \in Broadcast : Compose(b) \/ ReadToCancel(b)
    BY <1>4, AuditOperator
  <1>5. CASE \E x \in Sender, b \in Broadcast : Begin(x, b)
    BY <1>5, AuditBegin
  <1>6. CASE \E x \in Sender : Start(x) \/ Finish(x) \/ Die(x)
    BY <1>6, AuditStart, AuditFinish, AuditDie
  <1>7. CASE \E x \in Sender, u \in Customer :
               \/ Skip(x, u) \/ Defer(x, u) \/ Deliver(x, u)
               \/ \E attempt \in {"FAILED", "SUPPRESSED"}, shown \in {0, 1} :
                    NotDelivered(x, u, attempt, shown)
    BY <1>7, AuditWalk
  <1> QED BY <1>1, <1>2, <1>3, <1>4, <1>5, <1>6, <1>7 DEF Next

(* The counters of a finished broadcast tell what became of its whole
   audience, however many sends are in flight: a walk counts everybody once,
   and what the save leaves out because it does not differ is zero. *)
THEOREM CountersAreTrue == Spec => []CountersAddUp
PROOF
  <1>1. Init => AuditInv
    BY AuditInit
  <1>2. IInv /\ AuditInv /\ [Next]_vars => AuditInv'
    BY AuditStep
  <1>3. AuditInv => CountersAddUp
    BY DEF AuditInv
  <1> QED BY <1>1, <1>2, <1>3, Inductive, PTL DEF Spec

-----------------------------------------------------------------------------
(* The daily cap, for one broadcast at a time *)

\* The broadcasts a customer is on record for, or has just been told of.
Reaching(u) ==
  {b \in Broadcast :
    note[b][u] # Absent \/ \E x \in Sender : txn[x].of = b /\ txn[x].mine[u] # Absent}

Sparing(u) == IsFiniteSet(Reaching(u)) /\ earlier[u] + Cardinality(Reaching(u)) <= Cap

OneWalk == \A x, y \in Sender : txn[x].pc = "send" /\ txn[y].pc = "send" => x = y

CapInv == together \/ (OneWalk /\ \A u \in Customer : Sparing(u))

\* What other marketing the customers had been sent left room.
WithinCap == \A u \in Customer : earlier[u] <= Cap

\* No more broadcasts than before, and no second walk.
LEMMA Spared ==
  ASSUME TypeOK, CapInv, together' = together, earlier' = earlier, ~together => OneWalk',
         ~together => \A u \in Customer : Reaching(u)' \subseteq Reaching(u)
  PROVE  CapInv'
PROOF
  <1>1. CASE together
    BY <1>1 DEF CapInv
  <1>2. CASE ~together
    <2> SUFFICES ASSUME NEW u \in Customer PROVE Sparing(u)'
      BY <1>2 DEF CapInv
    <2> DEFINE before == Reaching(u)
               after == Reaching(u)'
    <2>1. IsFiniteSet(before) /\ earlier[u] + Cardinality(before) <= Cap
      BY <1>2 DEF CapInv, Sparing
    <2>2. after \subseteq before
      BY <1>2
    <2> HIDE DEF before, after
    <2>3. /\ IsFiniteSet(after) /\ Cardinality(after) <= Cardinality(before)
          /\ Cardinality(after) \in Nat /\ Cardinality(before) \in Nat
      BY <2>1, <2>2, FS_Subset, FS_CardinalityType
    <2>4. earlier[u] \in Nat /\ Cap \in Nat
      BY AudienceAssumption DEF TypeOK
    <2>5. IsFiniteSet(after) /\ earlier[u] + Cardinality(after) <= Cap
      BY <2>1, <2>3, <2>4
    <2> QED BY <2>5 DEF Sparing, after
  <1> QED BY <1>1, <1>2

LEMMA CapQuiet ==
  ASSUME TypeOK, CapInv, UNCHANGED <<note, txn, earlier, together>> PROVE CapInv'
  BY DEF CapInv, OneWalk, Sparing, Reaching

LEMMA CapInit == WithinCap /\ Init => CapInv
PROOF
  <1> SUFFICES ASSUME WithinCap, Init PROVE CapInv OBVIOUS
  <1>1. \A x \in Sender : txn[x].pc = "idle" /\ \A u \in Customer : txn[x].mine[u] = Absent
    BY DEF Init, Rest
  <1>2. ASSUME NEW u \in Customer PROVE Sparing(u)
    <2>1. Reaching(u) = {}
      BY <1>1 DEF Reaching, Init
    <2>2. earlier[u] <= Cap /\ earlier[u] \in Nat
      BY DEF WithinCap, Init
    <2> QED BY <2>1, <2>2, FS_EmptySet DEF Sparing
  <1> QED BY <1>1, <1>2 DEF CapInv, OneWalk

LEMMA CapBegin ==
  ASSUME IInv, CapInv, NEW x \in Sender, NEW b \in Broadcast, Begin(x, b) PROVE CapInv'
PROOF
  <1>1. /\ txn'[x] = Reading(cast[b].state, b) /\ \A y \in Sender : y # x => txn'[y] = txn[y]
        /\ UNCHANGED <<note, earlier, together>>
    BY DEF Begin, IInv, TypeOK, causes
  <1>2. txn'[x].pc = "start" /\ \A u \in Customer : txn'[x].mine[u] = Absent
    BY <1>1 DEF Reading, Rest
  <1>3. ~together => OneWalk'
    BY <1>1, <1>2 DEF CapInv, OneWalk
  <1>4. \A u \in Customer : Reaching(u)' \subseteq Reaching(u)
    BY <1>1, <1>2 DEF Reaching
  <1> QED BY <1>1, <1>3, <1>4, Spared DEF IInv

LEMMA CapStart ==
  ASSUME IInv, CapInv, NEW x \in Sender, Start(x) PROVE CapInv'
PROOF
  <1>1. /\ txn[x] \in Session /\ \A y \in Sender : y # x => txn'[y] = txn[y]
        /\ txn'[x] = [txn[x] EXCEPT !.pc = "send", !.todo = Customer]
        /\ UNCHANGED <<note, earlier>>
        /\ together' = (together \/ \E y \in Sender : txn[y].pc = "send")
    BY DEF Start, IInv, TypeOK
  <1>2. txn'[x].of = txn[x].of /\ txn'[x].mine = txn[x].mine
    BY <1>1, StartedSession
  <1>3. CASE \E y \in Sender : txn[y].pc = "send"
    BY <1>1, <1>3 DEF CapInv
  <1>4. CASE ~\E y \in Sender : txn[y].pc = "send"
    <2>1. OneWalk'
      BY <1>1, <1>4 DEF OneWalk
    <2>2. together' = together
      BY <1>1, <1>4 DEF IInv, TypeOK
    <2>3. \A u \in Customer : Reaching(u)' \subseteq Reaching(u)
      BY <1>1, <1>2 DEF Reaching
    <2> QED BY <1>1, <2>1, <2>2, <2>3, Spared DEF IInv
  <1> QED BY <1>3, <1>4

\* The only walk there is has not told this customer yet, so what is on record
\* is all that reaches them, and the check has counted it.
LEMMA CapTold ==
  ASSUME IInv, CapInv, ~together, NEW x \in Sender, NEW u \in Customer,
         NEW attempt \in Delivery, MayTell(x, u), Walked(x, u, attempt),
         UNCHANGED <<note, earlier, together>>
  PROVE  CapInv'
PROOF
  <1> DEFINE b == txn[x].of
             before == Reaching(u)
             after == Reaching(u)'
  <1>1. /\ b \in Broadcast /\ txn[x].pc = "send" /\ txn[x].mine[u] = Absent
        /\ note[b][u] = Absent /\ ~Capped(u)
    BY DEF MayTell, Refused, AlreadyTold, IInv, Hand
  <1>2. OneWalk /\ \A v \in Customer : Sparing(v)
    BY DEF CapInv
  <1>3. /\ \A y \in Sender : y # x => txn'[y] = txn[y]
        /\ txn'[x].pc = "send" /\ txn'[x].of = b
        /\ \A v \in Customer : v # u => txn'[x].mine[v] = txn[x].mine[v]
    BY DEF Walked
  <1>4. OneWalk'
    BY <1>1, <1>2, <1>3 DEF OneWalk
  <1>5. \A y \in Sender : txn[y].mine[u] = Absent
    BY <1>1, <1>2 DEF OneWalk, IInv, Hand
  <1>6. before = {c \in Broadcast : note[c][u] # Absent}
    BY <1>5 DEF Reaching
  <1>7. after \subseteq before \cup {b}
    BY <1>3 DEF Reaching
  <1>8. Sparing(u)'
    <2>1. IsFiniteSet(before) /\ earlier[u] \in Nat /\ Cap \in Nat
      BY <1>2, AudienceAssumption DEF Sparing, IInv, TypeOK
    <2>2. ~(earlier[u] + Cardinality(before) >= Cap)
      <3> HIDE DEF before
      <3> QED BY <1>1, <1>6 DEF Capped, Recent
    <2> HIDE DEF before, after
    <2>3. Cardinality(before) \in Nat
      BY <2>1, FS_CardinalityType
    <2>4. IsFiniteSet(before \cup {b}) /\ Cardinality(before \cup {b}) <= Cardinality(before) + 1
      <3>1. /\ IsFiniteSet(before \cup {b})
            /\ \/ Cardinality(before \cup {b}) = Cardinality(before)
               \/ Cardinality(before \cup {b}) = Cardinality(before) + 1
        <4> HIDE DEF b
        <4> QED BY <2>1, FS_AddElement
      <3> QED BY <2>3, <3>1
    <2>5. /\ IsFiniteSet(after) /\ Cardinality(after) <= Cardinality(before \cup {b})
          /\ Cardinality(after) \in Nat /\ Cardinality(before \cup {b}) \in Nat
      BY <1>7, <2>4, FS_Subset, FS_CardinalityType
    <2>6. earlier[u] + Cardinality(after) <= Cap
      BY <2>1, <2>2, <2>3, <2>4, <2>5
    <2> QED BY <2>5, <2>6 DEF Sparing, after
  <1>9. ASSUME NEW v \in Customer, v # u PROVE Sparing(v)'
    <2>1. Reaching(v)' = Reaching(v)
      BY <1>3, <1>9 DEF Reaching
    <2> QED BY <1>2, <2>1 DEF Sparing
  <1> QED BY <1>4, <1>8, <1>9 DEF CapInv

LEMMA CapWalk ==
  ASSUME IInv, CapInv, NEW x \in Sender, NEW u \in Customer,
         Skip(x, u) \/ Defer(x, u) \/ Deliver(x, u)
         \/ \E attempt \in {"FAILED", "SUPPRESSED"}, shown \in {0, 1} :
              NotDelivered(x, u, attempt, shown)
  PROVE  CapInv'
PROOF
  <1>1. /\ txn \in [Sender -> Session] /\ txn[x].pc = "send" /\ txn[x].mine[u] = Absent
        /\ UNCHANGED <<note, earlier, together>>
    BY DEF IInv, TypeOK, Hand, Skip, Defer, Deliver, NotDelivered, MayTell, causes
  <1>2. CASE together
    BY <1>1, <1>2 DEF CapInv
  <1>3. CASE ~together /\ Skip(x, u)
    <2>1. Walked(x, u, Absent)
      BY <1>1, <1>3, SkippedSession
    <2>2. /\ \A y \in Sender : y # x => txn'[y] = txn[y]
          /\ txn'[x].pc = "send" /\ txn'[x].of = txn[x].of
          /\ \A v \in Customer : txn'[x].mine[v] = txn[x].mine[v]
      BY <1>1, <2>1 DEF Walked
    <2>3. OneWalk'
      BY <1>1, <1>3, <2>2 DEF CapInv, OneWalk
    <2>4. \A v \in Customer : Reaching(v)' \subseteq Reaching(v)
      BY <1>1, <2>2 DEF Reaching
    <2> QED BY <1>1, <2>3, <2>4, Spared DEF IInv
  <1>4. ASSUME ~together, NEW attempt \in Delivery, MayTell(x, u), txn' = Told(x, u, attempt)
        PROVE  CapInv'
    <2>1. Walked(x, u, attempt)
      BY <1>1, <1>4, ToldSession
    <2> QED BY <1>1, <1>4, <2>1, CapTold
  <1> QED BY <1>2, <1>3, <1>4 DEF Defer, Deliver, NotDelivered, Delivery

\* What the walk told goes on record; or is forgotten.
LEMMA CapOver ==
  ASSUME IInv, CapInv, NEW x \in Sender, Finish(x) \/ Die(x) PROVE CapInv'
PROOF
  <1> DEFINE b == txn[x].of
  <1>1. /\ b \in Broadcast /\ txn'[x] = Rest /\ \A y \in Sender : y # x => txn'[y] = txn[y]
        /\ UNCHANGED <<earlier, together>>
    BY DEF Finish, Die, IInv, TypeOK, Hand, causes
  <1>2. OneWalk => OneWalk'
    BY <1>1, RestIsIdle DEF OneWalk
  <1>3. \A u \in Customer : txn'[x].mine[u] = Absent
    BY <1>1, RestIsIdle
  <1>4. CASE Die(x)
    <2>1. \A u \in Customer : Reaching(u)' \subseteq Reaching(u)
      BY <1>1, <1>3, <1>4 DEF Reaching, Die
    <2> QED BY <1>1, <1>2, <2>1, Spared DEF IInv, CapInv
  <1>5. CASE Finish(x)
    <2>1. /\ \A u \in Customer :
               note'[b][u] = IF txn[x].mine[u] = Absent THEN note[b][u] ELSE txn[x].mine[u]
          /\ \A c \in Broadcast : c # b => note'[c] = note[c]
      BY <1>1, <1>5 DEF IInv, TypeOK, Finish
    <2>2. \A u \in Customer : Reaching(u)' \subseteq Reaching(u)
      BY <1>1, <1>3, <2>1 DEF Reaching
    <2> QED BY <1>1, <1>2, <2>2, Spared DEF IInv, CapInv
  <1> QED BY <1>4, <1>5

LEMMA CapStep ==
  ASSUME IInv, CapInv, [Next]_vars PROVE CapInv'
PROOF
  <1> USE DEF IInv
  <1>1. CASE UNCHANGED vars
    BY <1>1, CapQuiet DEF vars
  <1>2. CASE Dawn \/ \E u \in Customer : Mute(u)
    BY <1>2, CapQuiet DEF Dawn, Mute, causes
  <1>3. CASE Flush
    BY <1>1, <1>3, FlushDoesNothing
  <1>4. CASE Cancel \/ \E b \in Broadcast : Compose(b) \/ ReadToCancel(b)
    BY <1>4, CapQuiet DEF Cancel, Compose, ReadToCancel, causes
  <1> USE DEF Next
  <1>5. CASE \E x \in Sender, b \in Broadcast : Begin(x, b)
    BY <1>5, CapBegin
  <1>6. CASE \E x \in Sender : Start(x) \/ Finish(x) \/ Die(x)
    BY <1>6, CapStart, CapOver
  <1>7. CASE \E x \in Sender, u \in Customer :
               \/ Skip(x, u) \/ Defer(x, u) \/ Deliver(x, u)
               \/ \E attempt \in {"FAILED", "SUPPRESSED"}, shown \in {0, 1} :
                    NotDelivered(x, u, attempt, shown)
    BY <1>7, CapWalk
  <1> QED BY <1>1, <1>2, <1>3, <1>4, <1>5, <1>6, <1>7

(* If nobody was over the cap to begin with, no phone shows more marketing than
   the cap, whatever the cap is: the check of one walk at a time misses nothing
   but what an undone send had shown. *)
THEOREM CapIsKept == WithinCap /\ Spec => []CapHolds
PROOF
  <1>1. WithinCap /\ Init => CapInv
    BY CapInit
  <1>2. IInv /\ CapInv /\ [Next]_vars => CapInv'
    BY CapStep
  <1>3. IInv /\ CapInv => CapHolds
    <2> SUFFICES ASSUME IInv, CapInv, ~together, NEW u \in Customer
                 PROVE  earlier[u] + Cardinality({b \in Broadcast :
                          phone[b][u] > 0 /\ <<b, u>> \notin again}) <= Cap
      BY DEF CapHolds
    <2> DEFINE shown == {b \in Broadcast : phone[b][u] > 0 /\ <<b, u>> \notin again}
               all == Reaching(u)
    <2>1. shown \subseteq all
      BY DEF IInv, ShownIsRecorded, Reaching, Absent
    <2>2. IsFiniteSet(all) /\ earlier[u] + Cardinality(all) <= Cap
      BY DEF CapInv, Sparing
    <2>3. earlier[u] \in Nat /\ Cap \in Nat
      BY AudienceAssumption DEF IInv, TypeOK
    <2> HIDE DEF shown, all
    <2>4. /\ Cardinality(shown) <= Cardinality(all)
          /\ Cardinality(shown) \in Nat /\ Cardinality(all) \in Nat
      BY <2>1, <2>2, FS_Subset, FS_CardinalityType
    <2>5. earlier[u] + Cardinality(shown) <= Cap
      BY <2>2, <2>3, <2>4
    <2> QED BY <2>5 DEF shown
  <1> QED BY <1>1, <1>2, <1>3, Inductive, PTL DEF Spec

=============================================================================
