---------------------------- MODULE CouponsProofs ----------------------------
(***************************************************************************)
(* The counter follows the redemptions: the transaction that wrote the     *)
(* coupon keeps its row until the redemption is visible too, and a release *)
(* deletes the redemption with the decrement, or is counted as unbacked.   *)
(* The uses on record and those decided but not yet visible are bounded    *)
(* together: a checkout that finds room moves from the second to the first,*)
(* and one that is quoted beside another is late.                          *)
(***************************************************************************)
EXTENDS Coupons, FiniteSetTheorems, TLAPS

\* Where a session can be, whoever it is of.
Placed == {"placed", "read", "write", "counted"}
Shape(x, y) ==
  /\ y.flushed # None => y.pc \in {"counted", "begun"}
  /\ x \notin Releaser => y.of = None
  /\ x \in Releaser =>
       y.pc \in {"idle", "read"} /\ (y.of # None <=> y.pc = "read") /\ y.rows \subseteq {y.of}
  /\ x = Editor => y.pc \in {"idle", "read", "write", "counted"}
  /\ x \notin Releaser /\ y.pc \in {"read", "write"} => y.copy \in Row
  /\ x \notin Releaser /\ y.pc = "write" => y.want = Changed(x, y.copy)

\* How far an order's checkout has come, and what the order is by then.
Stage(o) ==
  /\ txn[o].pc = "idle" => o \notin spends /\ \A q \in Order : <<o, q>> \notin raced
  /\ txn[o].pc \in {"idle", "quoted"} => order[o] = "NONE"
  /\ txn[o].pc \in Placed => order[o] = "PENDING"
  /\ txn[o].pc \in {"read", "write"} => o \in spends
  /\ o \in paying => txn[o].pc \in {"begun", "ended"}
  /\ o \in uses => txn[o].pc = "ended" /\ o \in spends
  /\ order[o] = "CANCELLED" => o \in paying
  /\ order[o] = "CANCELLED" /\ o \notin early => txn[o].pc = "ended" /\ o \notin uses
  /\ txn[o].pc = "ended" /\ o \in spends /\ o \notin undone /\ order[o] # "NONE" =>
       o \in uses \/ order[o] = "CANCELLED"

\* Unless it came too early, a release has the redemption in hand, alone.
Release(r) ==
  /\ txn[r].of # None => txn[r].of \in paying
  /\ txn[r].of # None /\ txn[r].of \notin early =>
    /\ txn[r].rows = {txn[r].of} /\ txn[r].of \in uses
    /\ \A s \in Releaser : txn[s].of = txn[r].of => s = r

Lock == \A x, y \in Tx : txn[x].flushed # None /\ txn[y].flushed # None => x = y

\* A session's count against the committed one.
Count(x, y) ==
  /\ x \in Order \cap spends /\ y.pc \in {"counted", "begun"} =>
       y.flushed # None /\ y.flushed.count = coupon.count + 1
  /\ x \in Order \ spends => y.flushed = None
  /\ x \in Order /\ y.pc = "write" => "count" \in y.cols
  /\ x = Editor /\ y.flushed # None => y.flushed.count = coupon.count

Counted ==
  ~stale =>
    /\ coupon.count <= Cardinality(uses) /\ Cardinality(uses) <= coupon.count + unbacked
    /\ \A x \in Tx : Count(x, txn[x])

\* The uses on record and those decided, of everyone and of one customer.
Taken == uses \cup {o \in Order : Counting(o)}
TakenBy(c) == {o \in Taken : Of[o] = c}

Room == ~stale => Cardinality(Taken) <= MaxUses + unbacked + Cardinality(Late)

CustomerRoom == \A c \in Customer : Cardinality(TakenBy(c)) <= PerUser + Cardinality(LateOf(c))

IInv ==
  /\ TypeOK /\ \A x \in Tx : Shape(x, txn[x])
  /\ \A o \in Order : Stage(o)
  /\ \A r \in Releaser : Release(r)
  /\ Lock /\ Counted /\ Room /\ CustomerRoom

-----------------------------------------------------------------------------
LEMMA Kinds ==
  /\ Order \subseteq Tx /\ Releaser \subseteq Tx /\ Editor \in Tx
  /\ Order \cap Releaser = {} /\ Editor \notin Order /\ Editor \notin Releaser
BY LimitAssumption DEF Tx

LEMMA AtRest ==
  ASSUME NEW pc \in Pc
  PROVE  /\ Rest(pc) \in Session /\ Rest(pc).pc = pc /\ Rest(pc).flushed = None
         /\ Rest(pc).of = None /\ Rest(pc).rows = {}
BY DEF Rest, Session

LEMMA Shapely ==
  ASSUME NEW x \in Tx, NEW pc \in {"idle", "quoted", "ended"},
         x \notin Order => pc = "idle"
  PROVE  Shape(x, Rest(pc)) /\ Count(x, Rest(pc))
PROOF
  <1>1. pc \in Pc
    BY DEF Pc
  <1> QED BY <1>1, AtRest, Kinds DEF Shape, Count

LEMMA AllFinite ==
  ASSUME TypeOK
  PROVE  /\ IsFiniteSet(uses) /\ Cardinality(uses) \in Nat
         /\ IsFiniteSet(Taken) /\ Cardinality(Taken) \in Nat
         /\ IsFiniteSet(Late) /\ Cardinality(Late) \in Nat
         /\ \A c : /\ IsFiniteSet(TakenBy(c)) /\ Cardinality(TakenBy(c)) \in Nat
                  /\ IsFiniteSet(LateOf(c)) /\ Cardinality(LateOf(c)) \in Nat
                  /\ UsesOf(c) \in Nat
PROOF
  <1>1. /\ uses \subseteq Order /\ Taken \subseteq Order /\ Late \subseteq Order
        /\ \A c : TakenBy(c) \subseteq Order /\ LateOf(c) \subseteq Order
    BY DEF TypeOK, Taken, Late, TakenBy, LateOf
  <1>2. ASSUME NEW S \in SUBSET Order PROVE IsFiniteSet(S) /\ Cardinality(S) \in Nat
    BY LimitAssumption, FS_Subset, FS_CardinalityType
  <1>3. ASSUME NEW c PROVE UsesOf(c) \in Nat
    <2>1. {o \in uses : Of[o] = c} \subseteq Order
      BY <1>1
    <2> QED BY <1>2, <2>1 DEF UsesOf
  <1> QED BY <1>1, <1>2, <1>3

(* Fewer uses taken, and no fewer excuses, keep the limits. *)
LEMMA StillRoom ==
  ASSUME IInv, TypeOK', stale => stale', unbacked <= unbacked', Taken' \subseteq Taken,
         raced' = raced
  PROVE  Room' /\ CustomerRoom'
PROOF
  <1>1. TypeOK /\ Room /\ CustomerRoom /\ unbacked \in Nat /\ unbacked' \in Nat
    BY DEF IInv, TypeOK
  <1>2. Late' = Late /\ \A c : LateOf(c)' = LateOf(c)
    BY DEF Late, LateOf
  <1>3. Cardinality(Taken') <= Cardinality(Taken) /\ Cardinality(Taken') \in Nat
    BY <1>1, AllFinite, FS_Subset, FS_CardinalityType
  <1>4. Room'
    <2>1. Cardinality(Late)' = Cardinality(Late)
      BY <1>2
    <2> QED BY <1>1, <1>3, <2>1, AllFinite, LimitAssumption DEF Room
  <1>5. ASSUME NEW c \in Customer PROVE (Cardinality(TakenBy(c)) <= PerUser + Cardinality(LateOf(c)))'
    <2>1. TakenBy(c)' \subseteq TakenBy(c)
      BY DEF TakenBy
    <2>2. Cardinality(TakenBy(c)') <= Cardinality(TakenBy(c)) /\ Cardinality(TakenBy(c)') \in Nat
      BY <1>1, <2>1, AllFinite, FS_Subset, FS_CardinalityType
    <2>3. Cardinality(TakenBy(c)) <= PerUser + Cardinality(LateOf(c))
      BY <1>1 DEF CustomerRoom
    <2> QED BY <1>1, <1>2, <2>2, <2>3, AllFinite, LimitAssumption
  <1> QED BY <1>4, <1>5 DEF CustomerRoom

LEMMA InitIInv == Init => IInv
PROOF
  <1> SUFFICES ASSUME Init PROVE IInv OBVIOUS
  <1>1. TypeOK
    <2>1. coupon \in Row /\ order \in [Order -> State]
      BY DEF Init, Row, State
    <2>2. txn \in [Tx -> Session]
      BY AtRest DEF Init, Pc
    <2>3. trouble \in 0..MaxTrouble /\ edits \in 0..MaxEdits
      BY LimitAssumption DEF Init
    <2>4. stale \in BOOLEAN
      BY DEF Init
    <2> QED BY <2>1, <2>2, <2>3, <2>4 DEF Init, TypeOK
  <1>2. \A x \in Tx : txn[x] = Rest("idle") /\ txn[x].pc = "idle" /\ txn[x].flushed = None
                      /\ txn[x].of = None
    BY AtRest DEF Init, Pc
  <1>3. \A x \in Tx : Shape(x, txn[x]) /\ Count(x, txn[x])
    BY <1>2, Shapely
  <1>4. \A o \in Order : Stage(o)
    BY <1>2, Kinds DEF Init, Stage, Placed
  <1>5. (\A r \in Releaser : Release(r)) /\ Lock
    BY <1>2, Kinds DEF Release, Lock
  <1>6. uses = {} /\ Taken = {} /\ \A c : TakenBy(c) = {}
    BY <1>2, Kinds DEF Init, Taken, TakenBy, Counting
  <1>7. Counted
    BY <1>3, <1>6, FS_EmptySet DEF Init, Counted
  <1>8. Room /\ CustomerRoom
    BY <1>1, <1>6, FS_EmptySet, AllFinite, LimitAssumption DEF Init, Room, CustomerRoom
  <1> QED BY <1>1, <1>3, <1>4, <1>5, <1>7, <1>8 DEF IInv

Moved(x, y) ==
  /\ txn' \in [Tx -> Session] /\ txn'[x] = y /\ \A u \in Tx : u # x => txn'[u] = txn[u]

LEMMA MovedBy ==
  ASSUME TypeOK, NEW x \in Tx, NEW y \in Session, txn' = [txn EXCEPT ![x] = y]
  PROVE  Moved(x, y)
BY DEF TypeOK, Moved

LEMMA Facts ==
  ASSUME IInv
  PROVE  /\ TypeOK /\ \A x \in Tx : Shape(x, txn[x]) /\ txn[x] \in Session
         /\ \A o \in Order : Stage(o)
         /\ \A r \in Releaser : Release(r)
         /\ Lock /\ Counted /\ Room /\ CustomerRoom
         /\ coupon \in Row /\ uses \subseteq Order /\ paying \subseteq Order
         /\ order \in [Order -> State] /\ spends \subseteq Order /\ stale \in BOOLEAN
         /\ raced \subseteq Order \X Order /\ unbacked \in Nat
         /\ undone \subseteq Order /\ early \subseteq Order
         /\ trouble \in 0..MaxTrouble /\ edits \in 0..MaxEdits
BY DEF IInv, TypeOK

(* A step that changes one session and nothing committed. *)
LEMMA SessionStep ==
  ASSUME IInv, NEW x \in Tx, NEW y, Moved(x, y),
         UNCHANGED <<coupon, uses, order, paying, spends, raced, unbacked>>,
         trouble' \in 0..MaxTrouble, edits' \in 0..MaxEdits,
         stale' \in BOOLEAN, stale => stale',
         undone \subseteq undone', undone' \subseteq Order,
         early \subseteq early', early' \subseteq Order,
         Shape(x, y),
         x \in Order => \/ /\ y.pc \in Placed /\ txn[x].pc \in Placed
                           /\ y.pc \in {"read", "write"} => x \in spends
                        \/ /\ y.pc = "ended" /\ txn[x].pc \notin {"idle", "ended"}
                           /\ order[x] = "NONE" \/ x \in undone',
         y.flushed = None \/ y.flushed = txn[x].flushed \/ Free(x),
         x \in Releaser /\ y.of # None => y.of \in paying,
         x \in Releaser /\ y.of # None /\ y.of \notin early' =>
           y.rows = {y.of} /\ y.of \in uses /\ \A s \in Releaser : txn[s].of = y.of => s = x,
         ~stale' => Count(x, y)
  PROVE  IInv'
PROOF
  <1>1. /\ txn' \in [Tx -> Session] /\ txn'[x] = y /\ \A u \in Tx : u # x => txn'[u] = txn[u]
    BY DEF Moved
  <1>2. TypeOK'
    BY <1>1, Facts DEF TypeOK
  <1>3. \A u \in Tx : Shape(u, txn'[u])
    BY <1>1, Facts
  <1>4. ASSUME NEW o \in Order PROVE Stage(o)'
    <2>1. CASE o = x
      BY <1>1, <2>1, Facts DEF Stage, Placed
    <2>2. CASE o # x
      BY <1>1, <2>2, Facts, Kinds DEF Stage
    <2> QED BY <2>1, <2>2
  <1>5. ASSUME NEW r \in Releaser PROVE Release(r)'
    BY <1>1, Facts, Kinds DEF Release
  <1>6. Lock'
    BY <1>1, Facts DEF Lock, Free
  <1>7. Counted'
    <2>1. \A u \in Tx : \A z : Count(u, z)' <=> Count(u, z)
      BY DEF Count
    <2> QED BY <1>1, <2>1, Facts DEF Counted
  <1>8. \A o \in Order : Counting(o)' => Counting(o)
    BY <1>1, Facts, Kinds DEF Counting, Placed
  <1>9. Room' /\ CustomerRoom'
    <2>1. Taken' \subseteq Taken
      BY <1>8 DEF Taken
    <2> QED BY <1>2, <2>1, StillRoom, Facts
  <1> QED BY <1>2, <1>3, <1>4, <1>5, <1>6, <1>7, <1>9, Kinds DEF IInv, Shape

LEMMA ReadIInv ==
  ASSUME IInv, NEW x \in Order \cup {Editor}, Read(x) PROVE IInv'
PROOF
  <1> DEFINE y == [txn[x] EXCEPT !.pc = "read", !.copy = coupon]
  <1>1. /\ txn[x].pc = IF x = Editor THEN "idle" ELSE "placed"
        /\ IF x = Editor THEN edits < MaxEdits ELSE x \in spends
        /\ edits' = IF x = Editor THEN edits + 1 ELSE edits
        /\ UNCHANGED <<coupon, uses, order, paying, trouble, spends, raced, unbacked, stale, undone, early>>
    BY DEF Read, causes
  <1>2. x \in Tx /\ txn[x] \in Session /\ Shape(x, txn[x]) /\ x \notin Releaser
    BY Facts, Kinds
  <1>3. /\ y \in Session /\ y.pc = "read" /\ y.copy = coupon /\ y.flushed = txn[x].flushed
        /\ y.of = txn[x].of
    BY <1>2, Facts DEF Session, Pc
  <1>4. txn' = [txn EXCEPT ![x] = y]
    BY <1>2, Facts DEF Read, TypeOK
  <1>5. Shape(x, y)
    BY <1>1, <1>2, <1>3, Facts DEF Shape
  <1>6. Count(x, y)
    BY <1>1, <1>2, <1>3, Kinds DEF Count, Shape
  <1>7. edits' \in 0..MaxEdits
    BY <1>1, Facts, LimitAssumption
  <1>8. Moved(x, y)
    BY <1>2, <1>3, <1>4, MovedBy, Facts
  <1>9. x \in Order => y.pc \in Placed /\ txn[x].pc \in Placed /\ x \in spends
    BY <1>1, <1>3, Kinds DEF Placed
  <1> HIDE DEF y
  <1> QED BY <1>1, <1>2, <1>3, <1>5, <1>6, <1>7, <1>8, <1>9, SessionStep, Facts

LEMMA ChangedRow ==
  ASSUME NEW x, NEW r \in Row
  PROVE  /\ Changed(x, r) \in Row
         /\ Changed(x, r).count = IF x = Editor THEN r.count ELSE r.count + 1
PROOF
  <1>1. CASE x = Editor
    <2> DEFINE open == ~r.open
    <2>1. open \in BOOLEAN /\ Changed(x, r) = [r EXCEPT !.open = open]
      BY <1>1 DEF Changed, Row
    <2> HIDE DEF open
    <2> QED BY <1>1, <2>1 DEF Row
  <1>2. CASE x # Editor
    BY <1>2 DEF Changed, Row
  <1> QED BY <1>1, <1>2

LEMMA WrittenIInv ==
  ASSUME IInv, NEW x \in Order \cup {Editor}, NEW z \in Session,
         txn[x].pc \in {"read", "write"}, z.of = txn[x].of, z.copy = txn[x].copy,
         z.want = Changed(x, z.copy), z.cols = {} \/ Free(x),
         txn' = [txn EXCEPT ![x] = Written(z)],
         UNCHANGED <<coupon, uses, order, paying, trouble, edits, spends, raced, unbacked, undone, early>>,
         stale' \in BOOLEAN,
         ~stale' => ~stale /\ ~Overtaken(x, z),
         ~stale' => (x \in Order => "count" \in z.cols)
  PROVE  IInv'
PROOF
  <1> DEFINE y == Written(z)
  <1>1. x \in Tx /\ txn[x] \in Session /\ Shape(x, txn[x]) /\ x \notin Releaser
    BY Facts, Kinds
  <1>2. /\ z.copy \in Row /\ z.of = None /\ z.want \in Row
        /\ z.want.count = IF x = Editor THEN z.copy.count ELSE z.copy.count + 1
    BY <1>1, ChangedRow DEF Shape
  <1>3. Merged(z) \in Row
    BY <1>2, Facts DEF Merged, Row
  <1>4. /\ y.pc = "counted" /\ y.of = z.of /\ y.cols = {}
        /\ y.flushed = IF z.cols = {} THEN None ELSE Merged(z)
    BY DEF Written, Session
  <1>5. y \in Session
    BY <1>3 DEF Written, Session, Pc
  <1>6. Shape(x, y)
    BY <1>1, <1>2, <1>4, Kinds DEF Shape
  <1>11. x \in Order => x \in spends
    BY Facts DEF Stage
  <1>7. ASSUME ~stale' PROVE Count(x, y)
    <2>1. ~Overtaken(x, z) /\ (x \in Order => "count" \in z.cols)
      BY <1>7
    <2>2. CASE x \in Order
      <3>1. "count" \in z.cols /\ coupon.count = z.copy.count
        BY <2>1, <2>2 DEF Overtaken
      <3>2. Merged(z).count = coupon.count + 1
        BY <1>2, <2>2, <3>1, Kinds DEF Merged
      <3> QED BY <1>3, <1>4, <1>11, <2>2, <3>1, <3>2, Kinds, NoneAssumption DEF Count
    <2>3. CASE x = Editor
      <3>1. "count" \in z.cols => coupon.count = z.copy.count
        BY <2>1 DEF Overtaken
      <3>2. Merged(z).count = coupon.count
        BY <1>2, <2>3, <3>1 DEF Merged
      <3> QED BY <1>4, <2>3, <3>2, Kinds DEF Count
    <2> QED BY <2>2, <2>3
  <1>8. y.flushed = None \/ Free(x)
    BY <1>4
  <1>9. Moved(x, y)
    BY <1>1, <1>5, MovedBy, Facts
  <1>10. x \in Order => y.pc \in Placed /\ txn[x].pc \in Placed
    BY <1>4 DEF Placed
  <1> HIDE DEF y
  <1> QED BY <1>1, <1>6, <1>7, <1>8, <1>9, <1>10, <1>11, SessionStep, Facts

LEMMA UpdateIInv ==
  ASSUME IInv, NEW x \in Order \cup {Editor}, Update(x) PROVE IInv'
PROOF
  <1> DEFINE r == Changed(x, txn[x].copy)
             z == [txn[x] EXCEPT !.want = r, !.cols = {c \in {"count", "open"} : r[c] # coupon[c]}]
             now == z.cols = {} \/ Free(x)
             y == [z EXCEPT !.pc = "write"]
  <1>1. /\ txn[x].pc = "read" /\ txn' = [txn EXCEPT ![x] = IF now THEN Written(z) ELSE y]
        /\ stale' = (stale \/ Overtaken(x, z))
        /\ UNCHANGED <<coupon, uses, order, paying, trouble, edits, spends, raced, unbacked, undone, early>>
    BY DEF Update
  <1>2. x \in Tx /\ txn[x] \in Session /\ Shape(x, txn[x]) /\ x \notin Releaser /\ stale \in BOOLEAN
    BY Facts, Kinds
  <1>3. txn[x].copy \in Row /\ r \in Row
    BY <1>1, <1>2, ChangedRow DEF Shape
  <1>4. /\ z \in Session /\ z.of = txn[x].of /\ z.copy = txn[x].copy /\ z.want = r
        /\ z.flushed = txn[x].flushed
        /\ "count" \in z.cols <=> r.count # coupon.count
    BY <1>2, <1>3 DEF Session
  <1>5. stale' \in BOOLEAN
    BY <1>1, <1>2
  <1>6. ~stale' => ~stale /\ ~Overtaken(x, z) /\ (x \in Order => "count" \in z.cols)
    <2> SUFFICES ASSUME ~stale', x \in Order PROVE "count" \in z.cols
      BY <1>1
    <2>1. coupon.count = z.copy.count
      BY <1>1 DEF Overtaken
    <2>2. r.count = txn[x].copy.count + 1
      BY <1>3, ChangedRow, Kinds
    <2> QED BY <1>3, <1>4, <2>1, <2>2 DEF Row
  <1>7. CASE now
    <2>1. txn' = [txn EXCEPT ![x] = Written(z)] /\ (z.cols = {} \/ Free(x))
      BY <1>1, <1>7
    <2> HIDE DEF z, now, r
    <2>2. z.want = Changed(x, z.copy)
      BY <1>4 DEF r
    <2> QED BY <1>1, <1>4, <1>5, <1>6, <2>1, <2>2, WrittenIInv
  <1>8. CASE ~now
    <2>1. /\ y \in Session /\ y.pc = "write" /\ y.of = txn[x].of /\ y.copy = txn[x].copy
          /\ y.want = r /\ y.flushed = txn[x].flushed /\ y.cols = z.cols
      BY <1>4 DEF Session, Pc
    <2>2. Shape(x, y)
      BY <1>1, <1>2, <1>3, <2>1 DEF Shape
    <2>3. Moved(x, y)
      BY <1>1, <1>2, <1>8, <2>1, MovedBy, Facts
    <2>4. x \in Order => y.pc \in Placed /\ txn[x].pc \in Placed /\ x \in spends
      BY <1>1, <2>1, Facts DEF Placed, Stage
    <2>5. txn[x].flushed = None
      BY <1>1, <1>2 DEF Shape
    <2> HIDE DEF y, z
    <2>6. ~stale' => Count(x, y)
      BY <1>6, <2>1, <2>5 DEF Count
    <2> QED BY <1>1, <1>2, <1>5, <2>1, <2>2, <2>3, <2>4, <2>6, SessionStep, Facts
  <1> QED BY <1>7, <1>8

LEMMA WriteIInv ==
  ASSUME IInv, NEW x \in Order \cup {Editor}, Write(x) PROVE IInv'
PROOF
  <1>1. /\ txn[x].pc = "write" /\ Free(x) /\ txn' = [txn EXCEPT ![x] = Written(txn[x])]
        /\ stale' = (stale \/ Overtaken(x, txn[x]))
        /\ UNCHANGED <<coupon, uses, order, paying, trouble, edits, spends, raced, unbacked, undone, early>>
    BY DEF Write
  <1>2. /\ txn[x] \in Session /\ Shape(x, txn[x]) /\ x \notin Releaser /\ stale \in BOOLEAN
        /\ ~stale => Count(x, txn[x])
    BY Facts, Kinds DEF Counted
  <1>3. txn[x].want = Changed(x, txn[x].copy)
    BY <1>1, <1>2 DEF Shape
  <1>4. stale' \in BOOLEAN
    BY <1>1, <1>2
  <1>5. ~stale' => ~stale /\ ~Overtaken(x, txn[x])
    BY <1>1
  <1>6. ~stale' => (x \in Order => "count" \in txn[x].cols)
    BY <1>1, <1>2 DEF Count
  <1> QED BY <1>1, <1>2, <1>3, <1>4, <1>5, <1>6, WrittenIInv

LEMMA FindIInv ==
  ASSUME IInv, NEW r \in Releaser, NEW o \in Order, Find(r, o) PROVE IInv'
PROOF
  <1> DEFINE y == [Rest("read") EXCEPT !.of = o, !.rows = {o} \cap uses]
  <1>1. /\ txn[r].pc = "idle" /\ txn' = [txn EXCEPT ![r] = y] /\ o \in paying
        /\ early' = IF o \in uses /\ ~Handling(o) THEN early ELSE early \cup {o}
        /\ UNCHANGED <<coupon, uses, order, paying, trouble, edits, spends, raced, unbacked, stale, undone>>
    BY DEF Find
  <1>2. r \in Tx /\ r \notin Order /\ r # Editor
    BY Kinds
  <1>3. /\ y \in Session /\ y.pc = "read" /\ y.of = o /\ y.rows = {o} \cap uses /\ y.flushed = None
    <2> DEFINE rest == Rest("read")
    <2>1. rest \in Session /\ rest.pc = "read" /\ rest.flushed = None
      BY AtRest DEF Pc
    <2> HIDE DEF rest
    <2>2. y = [rest EXCEPT !.of = o, !.rows = {o} \cap uses]
      BY DEF rest
    <2> QED BY <2>1, <2>2 DEF Session
  <1>4. Shape(r, y) /\ Count(r, y)
    BY <1>2, <1>3, NoneAssumption DEF Shape, Count
  <1>5. early \subseteq early' /\ early' \subseteq Order
    BY <1>1, Facts
  <1>6. y.of \notin early' => /\ y.rows = {y.of} /\ y.of \in uses
                              /\ \A s \in Releaser : txn[s].of = y.of => s = r
    BY <1>1, <1>3 DEF Handling
  <1>7. Moved(r, y)
    BY <1>1, <1>2, <1>3, MovedBy, Facts
  <1> HIDE DEF y
  <1> QED BY <1>1, <1>2, <1>3, <1>4, <1>5, <1>6, <1>7, SessionStep, Facts

LEMMA DieIInv ==
  ASSUME IInv, NEW x \in Tx, Die(x) PROVE IInv'
PROOF
  <1> DEFINE pc == IF x \in Order THEN "ended" ELSE "idle"
             y == Rest(pc)
  <1>1. /\ txn[x].pc \notin {"idle", "ended"} /\ txn' = [txn EXCEPT ![x] = y]
        /\ trouble < MaxTrouble /\ trouble' = trouble + 1
        /\ undone' = IF x \in Order /\ order[x] # "NONE" THEN undone \cup {x} ELSE undone
        /\ UNCHANGED <<coupon, uses, order, paying, edits, spends, raced, unbacked, stale, early>>
    BY DEF Die, Trouble
  <1>2. pc \in {"idle", "quoted", "ended"} /\ (x \notin Order => pc = "idle") /\ pc \in Pc
    BY DEF Pc
  <1>3. /\ y \in Session /\ y.pc = pc /\ y.flushed = None /\ y.of = None
        /\ Shape(x, y) /\ Count(x, y)
    <2> HIDE DEF pc
    <2> QED BY <1>2, AtRest, Shapely
  <1>4. undone \subseteq undone' /\ undone' \subseteq Order /\ trouble' \in 0..MaxTrouble
    BY <1>1, Facts, LimitAssumption
  <1>5. x \in Order => y.pc = "ended" /\ (order[x] = "NONE" \/ x \in undone')
    BY <1>1, <1>3
  <1>6. Moved(x, y)
    BY <1>1, <1>3, MovedBy, Facts
  <1> HIDE DEF y
  <1> QED BY <1>1, <1>3, <1>4, <1>5, <1>6, SessionStep, Facts

LEMMA QuoteIInv ==
  ASSUME IInv, NEW o \in Order, NEW took \in BOOLEAN, Quote(o, took) PROVE IInv'
PROOF
  <1>1. /\ txn[o].pc = "idle" /\ coupon.count < MaxUses /\ UsesOf(Of[o]) < PerUser
        /\ txn' = [txn EXCEPT ![o] = Rest("quoted")]
        /\ spends' = IF took THEN spends \cup {o} ELSE spends
        /\ raced' = IF took THEN raced \cup ({o} \X {q \in Order : Counting(q)}) ELSE raced
        /\ UNCHANGED <<coupon, uses, order, paying, trouble, edits, unbacked, stale, undone, early>>
    BY DEF Quote, Redeemable
  <1>2. "quoted" \in Pc /\ o \in Tx /\ Rest("quoted") \in Session
    BY Kinds, AtRest DEF Pc
  <1>3. Moved(o, Rest("quoted"))
    BY <1>1, <1>2, MovedBy, Facts
  <1>4. /\ txn' \in [Tx -> Session] /\ txn'[o] = Rest("quoted")
        /\ \A u \in Tx : u # o => txn'[u] = txn[u]
    BY <1>3 DEF Moved
  <1>5. /\ txn'[o].pc = "quoted" /\ txn'[o].flushed = None /\ Shape(o, txn'[o])
    BY <1>2, <1>4, AtRest, Shapely
  <1>6. TypeOK'
    <2>1. spends' \subseteq Order /\ raced' \subseteq Order \X Order
      BY <1>1, Facts
    <2> QED BY <1>1, <1>4, <2>1, Facts DEF TypeOK
  <1>7. \A u \in Tx : Shape(u, txn'[u])
    BY <1>4, <1>5, Facts
  <1>8. ASSUME NEW p \in Order PROVE Stage(p)'
    <2>1. CASE p = o
      BY <1>1, <1>4, <1>5, <2>1, Facts, Kinds DEF Stage, Placed
    <2>2. CASE p # o
      <3>1. /\ p \in spends' <=> p \in spends
            /\ \A q \in Order : <<p, q>> \in raced' <=> <<p, q>> \in raced
        BY <1>1, <2>2
      <3> QED BY <1>1, <1>4, <2>2, <3>1, Facts, Kinds DEF Stage
    <2> QED BY <2>1, <2>2
  <1>9. (\A r \in Releaser : Release(r)') /\ Lock'
    BY <1>1, <1>4, <1>5, Facts, Kinds DEF Release, Lock
  <1>10. Counted'
    <2> SUFFICES ASSUME ~stale, NEW u \in Tx PROVE Count(u, txn[u])'
      BY <1>1, Facts DEF Counted
    <2>1. Count(u, txn[u])
      BY Facts DEF Counted
    <2>2. CASE u = o
      BY <1>5, <2>2, Kinds DEF Count
    <2>3. CASE u # o
      <3>1. u \in spends' <=> u \in spends
        BY <1>1, <2>3
      <3> QED BY <1>1, <1>4, <2>1, <2>3, <3>1 DEF Count
    <2> QED BY <2>2, <2>3
  <1>11. \A p \in Order : p # o => (Counting(p)' <=> Counting(p))
    BY <1>1, <1>4, Kinds DEF Counting
  <1>12. CASE ~took
    <2>1. ~Counting(o) /\ ~Counting(o)'
      BY <1>1, <1>12, Facts DEF Counting, Stage
    <2>2. Taken' \subseteq Taken
      BY <1>1, <1>11, <2>1 DEF Taken
    <2>3. Room' /\ CustomerRoom'
      BY <1>1, <1>6, <1>12, <2>2, StillRoom, Facts
    <2> QED BY <1>6, <1>7, <1>8, <1>9, <1>10, <2>3 DEF IInv
  <1>13. CASE took
    <2>1. Taken' = Taken \cup {o} /\ o \notin Taken
      <3>1. Counting(o)' /\ ~Counting(o) /\ o \notin uses
        BY <1>1, <1>5, <1>13, Facts DEF Counting, Stage
      <3> QED BY <1>1, <1>11, <3>1 DEF Taken
    <2>2. Cardinality(Taken') = Cardinality(Taken) + 1
      BY <2>1, AllFinite, Facts, FS_AddElement
    <2>3. TypeOK /\ unbacked' = unbacked /\ unbacked \in Nat /\ coupon.count \in Nat
      BY <1>1, Facts DEF Row
    <2>4. o \notin Late /\ \A c : o \notin LateOf(c)
      BY <1>1, Facts DEF Late, LateOf, Stage
    <2>5. Room'
      <3> SUFFICES ASSUME ~stale
                   PROVE  Cardinality(Taken') <= MaxUses + unbacked + Cardinality(Late')
        BY <1>1 DEF Room
      <3>1. CASE \E q \in Order : Counting(q)
        <4>1. Late' = Late \cup {o}
          BY <1>1, <1>13, <3>1 DEF Late
        <4>2. Cardinality(Late') = Cardinality(Late) + 1
          BY <2>3, <2>4, <4>1, AllFinite, FS_AddElement
        <4>3. Cardinality(Taken) <= MaxUses + unbacked + Cardinality(Late)
          BY Facts DEF Room
        <4> QED BY <2>2, <2>3, <4>2, <4>3, AllFinite, LimitAssumption
      <3>2. CASE \A q \in Order : ~Counting(q)
        <4>1. Taken = uses /\ Late' = Late
          BY <1>1, <3>2 DEF Taken, Late
        <4>2. Cardinality(uses) <= coupon.count + unbacked
          BY Facts DEF Counted
        <4> QED BY <1>1, <2>2, <2>3, <4>1, <4>2, AllFinite, LimitAssumption
      <3> QED BY <3>1, <3>2
    <2>6. ASSUME NEW c \in Customer
          PROVE  (Cardinality(TakenBy(c)) <= PerUser + Cardinality(LateOf(c)))'
      <3>1. Cardinality(TakenBy(c)) <= PerUser + Cardinality(LateOf(c))
        BY Facts DEF CustomerRoom
      <3>2. CASE Of[o] # c
        <4>1. TakenBy(c)' = TakenBy(c) /\ LateOf(c)' = LateOf(c)
          BY <1>1, <2>1, <3>2 DEF TakenBy, LateOf
        <4> QED BY <3>1, <4>1
      <3>3. CASE Of[o] = c
        <4>1. TakenBy(c)' = TakenBy(c) \cup {o} /\ o \notin TakenBy(c)
          BY <2>1, <3>3 DEF TakenBy
        <4>2. Cardinality(TakenBy(c)') = Cardinality(TakenBy(c)) + 1
          BY <2>3, <4>1, AllFinite, FS_AddElement
        <4>3. CASE \E q \in Order : Counting(q) /\ Of[q] = c
          <5>1. LateOf(c)' = LateOf(c) \cup {o}
            BY <1>1, <1>13, <3>3, <4>3 DEF LateOf
          <5>2. Cardinality(LateOf(c)') = Cardinality(LateOf(c)) + 1
            BY <2>3, <2>4, <5>1, AllFinite, FS_AddElement
          <5> QED BY <2>3, <3>1, <4>2, <5>2, AllFinite, LimitAssumption
        <4>4. CASE \A q \in Order : Counting(q) => Of[q] # c
          <5>1. TakenBy(c) = {q \in uses : Of[q] = c} /\ LateOf(c)' = LateOf(c)
            BY <1>1, <3>3, <4>4, Facts DEF TakenBy, Taken, LateOf
          <5>2. Cardinality(TakenBy(c)) < PerUser
            BY <1>1, <3>3, <5>1 DEF UsesOf
          <5>3. Cardinality(TakenBy(c)) \in Nat /\ Cardinality(LateOf(c)) \in Nat
            BY <2>3, AllFinite
          <5>4. Cardinality(TakenBy(c)') <= PerUser + Cardinality(LateOf(c))
            BY <4>2, <5>2, <5>3, LimitAssumption
          <5> QED BY <5>1, <5>4
        <4> QED BY <4>3, <4>4
      <3> QED BY <3>2, <3>3
    <2> QED BY <1>6, <1>7, <1>8, <1>9, <1>10, <2>5, <2>6 DEF IInv, CustomerRoom
  <1> QED BY <1>12, <1>13

(* A step of an order and its checkout that leaves the coupon alone. *)
LEMMA OrderStep ==
  ASSUME IInv, NEW o \in Order, NEW y, Moved(o, y),
         UNCHANGED <<coupon, uses, trouble, edits, spends, raced, unbacked, stale, undone, early>>,
         order' \in [Order -> State], paying \subseteq paying', paying' \subseteq Order,
         Shape(o, y), y.flushed = txn[o].flushed,
         Count(o, txn[o]) => Count(o, y),
         \A p \in Order : Stage(p)',
         y.pc \notin {"idle", "ended"} => txn[o].pc \notin {"idle", "ended"}
  PROVE  IInv'
PROOF
  <1>1. /\ txn' \in [Tx -> Session] /\ txn'[o] = y /\ \A u \in Tx : u # o => txn'[u] = txn[u]
    BY DEF Moved
  <1>2. TypeOK'
    BY <1>1, Facts DEF TypeOK
  <1>3. \A u \in Tx : Shape(u, txn'[u])
    BY <1>1, Facts
  <1>4. (\A r \in Releaser : Release(r)') /\ Lock'
    BY <1>1, Facts, Kinds DEF Release, Lock
  <1>5. Counted'
    <2>1. \A u \in Tx : \A z : Count(u, z)' <=> Count(u, z)
      BY DEF Count
    <2> QED BY <1>1, <2>1, Facts DEF Counted
  <1>6. \A p \in Order : Counting(p)' => Counting(p)
    BY <1>1, Kinds DEF Counting
  <1>7. Room' /\ CustomerRoom'
    <2>1. Taken' \subseteq Taken
      BY <1>6 DEF Taken
    <2> QED BY <1>2, <2>1, StillRoom, Facts
  <1> QED BY <1>2, <1>3, <1>4, <1>5, <1>7 DEF IInv

LEMMA PlaceIInv ==
  ASSUME IInv, NEW o \in Order, Place(o) PROVE IInv'
PROOF
  <1> DEFINE y == [txn[o] EXCEPT !.pc = "placed"]
  <1>1. /\ txn[o].pc = "quoted" /\ order' = [order EXCEPT ![o] = "PENDING"]
        /\ txn' = [txn EXCEPT ![o] = y]
        /\ UNCHANGED <<coupon, uses, paying, trouble, edits, spends, raced, unbacked, stale, undone, early>>
    BY Kinds, Facts DEF Place, causes, TypeOK
  <1>2. o \in Tx /\ txn[o] \in Session /\ Shape(o, txn[o]) /\ o \notin Releaser /\ o # Editor
    BY Facts, Kinds
  <1>3. y \in Session /\ y.pc = "placed" /\ y.flushed = txn[o].flushed /\ y.of = txn[o].of
    BY <1>2 DEF Session, Pc
  <1>4. Shape(o, y) /\ Count(o, y)
    BY <1>1, <1>2, <1>3 DEF Shape, Count
  <1>5. Moved(o, y)
    BY <1>1, <1>2, <1>3, MovedBy, Facts
  <1>6. order' \in [Order -> State]
    BY <1>1, Facts DEF State
  <1>7. ASSUME NEW p \in Order PROVE Stage(p)'
    BY <1>1, <1>3, <1>5, Facts, Kinds DEF Stage, Placed, Moved
  <1> HIDE DEF y
  <1> QED BY <1>1, <1>3, <1>4, <1>5, <1>6, <1>7, OrderStep, Facts

LEMMA NothingToCountIInv ==
  ASSUME IInv, NEW o \in Order, NothingToCount(o) PROVE IInv'
PROOF
  <1> DEFINE y == [txn[o] EXCEPT !.pc = "counted"]
  <1>1. /\ txn[o].pc = "placed" /\ o \notin spends /\ txn' = [txn EXCEPT ![o] = y]
        /\ UNCHANGED <<coupon, uses, order, paying, trouble, edits>>
        /\ UNCHANGED <<spends, raced, unbacked, stale, undone, early>>
    BY Kinds, Facts DEF NothingToCount, causes, TypeOK
  <1>2. o \in Tx /\ txn[o] \in Session /\ Shape(o, txn[o]) /\ o \notin Releaser /\ o # Editor
    BY Facts, Kinds
  <1>3. y \in Session /\ y.pc = "counted" /\ y.flushed = txn[o].flushed /\ y.of = txn[o].of
    BY <1>2 DEF Session, Pc
  <1>4. Shape(o, y) /\ Count(o, y)
    BY <1>1, <1>2, <1>3 DEF Shape, Count
  <1>5. Moved(o, y)
    BY <1>1, <1>2, <1>3, MovedBy, Facts
  <1>6. ASSUME NEW p \in Order PROVE Stage(p)'
    BY <1>1, <1>3, <1>5, Facts, Kinds DEF Stage, Placed, Moved
  <1> HIDE DEF y
  <1> QED BY <1>1, <1>3, <1>4, <1>5, <1>6, OrderStep, Facts

LEMMA PayIInv ==
  ASSUME IInv, NEW o \in Order, NEW wallet \in BOOLEAN, Pay(o, wallet) PROVE IInv'
PROOF
  <1> DEFINE y == [txn[o] EXCEPT !.pc = "begun"]
  <1>1. /\ txn[o].pc = "counted" /\ txn' = [txn EXCEPT ![o] = y]
        /\ paying' = IF wallet THEN paying ELSE paying \cup {o}
        /\ order' = IF wallet THEN [order EXCEPT ![o] = "PAID"] ELSE order
        /\ UNCHANGED <<coupon, uses, trouble, edits, spends, raced, unbacked, stale, undone, early>>
    BY Kinds, Facts DEF Pay, causes, TypeOK
  <1>2. o \in Tx /\ txn[o] \in Session /\ Shape(o, txn[o]) /\ o \notin Releaser /\ o # Editor
    BY Facts, Kinds
  <1>3. y \in Session /\ y.pc = "begun" /\ y.flushed = txn[o].flushed /\ y.of = txn[o].of
    BY <1>2 DEF Session, Pc
  <1>4. Shape(o, y) /\ (Count(o, txn[o]) => Count(o, y))
    BY <1>1, <1>2, <1>3 DEF Shape, Count
  <1>5. Moved(o, y)
    BY <1>1, <1>2, <1>3, MovedBy, Facts
  <1>6. order' \in [Order -> State] /\ paying \subseteq paying' /\ paying' \subseteq Order
    BY <1>1, Facts DEF State
  <1>7. ASSUME NEW p \in Order PROVE Stage(p)'
    <2>1. CASE p = o
      <3>1. Stage(o) /\ order[o] = "PENDING"
        BY <1>1, Facts DEF Stage, Placed
      <3>2. order'[o] \in {"PENDING", "PAID"} /\ o \notin uses
        BY <1>1, <3>1, Facts DEF Stage
      <3> QED BY <1>1, <1>3, <1>5, <2>1, <3>2 DEF Stage, Placed, Moved
    <2>2. CASE p # o
      BY <1>1, <1>5, <2>2, Facts, Kinds DEF Stage, Moved
    <2> QED BY <2>1, <2>2
  <1> HIDE DEF y
  <1> QED BY <1>1, <1>3, <1>4, <1>5, <1>6, <1>7, OrderStep

LEMMA ApproveIInv ==
  ASSUME IInv, NEW o \in Order, Approve(o) PROVE IInv'
PROOF
  <1>1. /\ o \in paying /\ order[o] = "PENDING" /\ order' = [order EXCEPT ![o] = "PAID"]
        /\ UNCHANGED <<coupon, uses, paying, txn, trouble, edits, spends, raced, unbacked, stale, undone, early>>
    BY DEF Approve, causes
  <1>2. Shape(o, txn[o]) /\ Moved(o, txn[o])
    BY <1>1, Facts, Kinds DEF Moved, TypeOK
  <1>3. order' \in [Order -> State]
    BY <1>1, Facts DEF State
  <1>4. ASSUME NEW p \in Order PROVE Stage(p)'
    BY <1>1, Facts DEF Stage, Placed
  <1> QED BY <1>1, <1>2, <1>3, <1>4, OrderStep, Facts

LEMMA CommitIInv ==
  ASSUME IInv, NEW o \in Order, Commit(o) PROVE IInv'
PROOF
  <1>1. /\ txn[o].pc = "begun" /\ coupon' = Visible(o) /\ uses' = uses \cup ({o} \cap spends)
        /\ txn' = [txn EXCEPT ![o] = Rest("ended")]
        /\ UNCHANGED <<order, paying, trouble, edits, spends, raced, unbacked, stale, undone, early>>
    BY DEF Commit, causes
  <1>2. o \in Tx /\ Rest("ended") \in Session /\ "ended" \in Pc
    BY Kinds, AtRest DEF Pc
  <1>3. Moved(o, Rest("ended"))
    BY <1>1, <1>2, MovedBy, Facts
  <1>4. /\ txn' \in [Tx -> Session] /\ txn'[o] = Rest("ended")
        /\ \A u \in Tx : u # o => txn'[u] = txn[u]
        /\ txn'[o].pc = "ended" /\ txn'[o].flushed = None /\ Shape(o, txn'[o])
    BY <1>2, <1>3, AtRest, Shapely DEF Moved
  <1>5. o \notin uses /\ IsFiniteSet(uses) /\ Cardinality(uses) \in Nat
    BY <1>1, Facts, AllFinite DEF Stage
  <1>6. coupon' \in Row
    BY <1>1, <1>2, Facts DEF Visible, Session
  <1>7. TypeOK'
    BY <1>1, <1>4, <1>6, Facts DEF TypeOK
  <1>8. \A u \in Tx : Shape(u, txn'[u])
    BY <1>4, Facts
  <1>9. \A p \in Order : Stage(p)'
    BY <1>1, <1>4, Facts, Kinds DEF Stage, Placed
  <1>10. (\A r \in Releaser : Release(r)') /\ Lock'
    BY <1>1, <1>4, Facts, Kinds DEF Release, Lock
  <1>11. Counted'
    <2> SUFFICES ASSUME ~stale
                 PROVE  /\ coupon'.count <= Cardinality(uses')
                        /\ Cardinality(uses') <= coupon'.count + unbacked
                        /\ \A u \in Tx : Count(u, txn[u])'
      BY <1>1 DEF Counted
    <2>1. /\ coupon.count <= Cardinality(uses) /\ Cardinality(uses) <= coupon.count + unbacked
          /\ \A u \in Tx : Count(u, txn[u])
      BY Facts DEF Counted
    <2>2. coupon.count \in Nat /\ unbacked \in Nat
      BY Facts DEF Row
    <2>3. CASE o \in spends
      <3>1. txn[o].flushed # None /\ txn[o].flushed.count = coupon.count + 1
        BY <1>1, <1>2, <2>1, <2>3 DEF Count
      <3>2. Cardinality(uses') = Cardinality(uses) + 1
        <4>1. uses' = uses \cup {o}
          BY <1>1, <2>3
        <4> QED BY <1>5, <4>1, FS_AddElement
      <3>3. coupon'.count = coupon.count + 1
        BY <1>1, <3>1 DEF Visible
      <3>4. ASSUME NEW u \in Tx PROVE Count(u, txn[u])'
        <4>1. CASE u = o
          BY <1>4, <4>1, Kinds DEF Count
        <4>2. CASE u # o
          <5>1. txn[u].flushed = None
            BY <1>2, <3>1, <4>2, Facts DEF Lock
          <5> QED BY <1>1, <1>4, <2>1, <4>2, <5>1 DEF Count
        <4> QED BY <4>1, <4>2
      <3> QED BY <1>5, <2>1, <2>2, <3>2, <3>3, <3>4
    <2>4. CASE o \notin spends
      <3>1. txn[o].flushed = None
        BY <1>2, <2>1, <2>4 DEF Count
      <3>2. uses' = uses /\ coupon' = coupon
        BY <1>1, <2>4, <3>1 DEF Visible
      <3>3. ASSUME NEW u \in Tx PROVE Count(u, txn[u])'
        <4>1. CASE u = o
          BY <1>4, <4>1, Kinds DEF Count
        <4>2. CASE u # o
          BY <1>1, <1>4, <2>1, <3>2, <4>2 DEF Count
        <4> QED BY <4>1, <4>2
      <3> QED BY <2>1, <3>2, <3>3
    <2> QED BY <2>3, <2>4
  <1>12. Taken' \subseteq Taken
    <2>1. \A p \in Order : Counting(p)' => Counting(p)
      BY <1>1, <1>4, Kinds DEF Counting
    <2>2. o \in spends => Counting(o)
      BY <1>1 DEF Counting
    <2> QED BY <1>1, <2>1, <2>2 DEF Taken
  <1>13. Room' /\ CustomerRoom'
    BY <1>1, <1>7, <1>12, StillRoom, Facts
  <1> QED BY <1>7, <1>8, <1>9, <1>10, <1>11, <1>13 DEF IInv

LEMMA CommitEditIInv ==
  ASSUME IInv, CommitEdit PROVE IInv'
PROOF
  <1>1. /\ txn[Editor].pc = "counted" /\ coupon' = Visible(Editor)
        /\ txn' = [txn EXCEPT ![Editor] = Rest("idle")]
        /\ UNCHANGED <<uses, order, paying, trouble, edits, spends, raced, unbacked, stale, undone, early>>
    BY DEF CommitEdit, causes
  <1>2. Editor \in Tx /\ Rest("idle") \in Session /\ "idle" \in Pc /\ Editor \notin Order
        /\ Editor \notin Releaser
    BY Kinds, AtRest DEF Pc
  <1>3. Moved(Editor, Rest("idle"))
    BY <1>1, <1>2, MovedBy, Facts
  <1>4. /\ txn' \in [Tx -> Session] /\ \A u \in Tx : u # Editor => txn'[u] = txn[u]
        /\ txn'[Editor].pc = "idle" /\ txn'[Editor].flushed = None
        /\ Shape(Editor, txn'[Editor])
    BY <1>2, <1>3, AtRest, Shapely DEF Moved
  <1>5. coupon' \in Row
    BY <1>1, <1>2, Facts DEF Visible, Session
  <1>6. TypeOK'
    BY <1>1, <1>4, <1>5, Facts DEF TypeOK
  <1>7. \A u \in Tx : Shape(u, txn'[u])
    BY <1>4, Facts
  <1>8. (\A p \in Order : Stage(p)') /\ (\A r \in Releaser : Release(r)') /\ Lock'
    BY <1>1, <1>2, <1>4, Facts, Kinds DEF Stage, Release, Lock
  <1>9. Counted'
    <2> SUFFICES ASSUME ~stale
                 PROVE  coupon'.count = coupon.count /\ \A u \in Tx : Count(u, txn[u])'
      BY <1>1, Facts DEF Counted
    <2>1. \A u \in Tx : Count(u, txn[u])
      BY Facts DEF Counted
    <2>2. coupon'.count = coupon.count
      BY <1>1, <1>2, <2>1 DEF Count, Visible
    <2> QED BY <1>1, <1>2, <1>4, <2>1, <2>2 DEF Count
  <1>10. Taken' \subseteq Taken
    BY <1>1, <1>2, <1>4, Kinds DEF Taken, Counting
  <1>11. Room' /\ CustomerRoom'
    BY <1>1, <1>6, <1>10, StillRoom, Facts
  <1> QED BY <1>6, <1>7, <1>8, <1>9, <1>11 DEF IInv

LEMMA GiveBackIInv ==
  ASSUME IInv, NEW r \in Releaser, GiveBack(r) PROVE IInv'
PROOF
  <1> DEFINE o == txn[r].of
             rows == txn[r].rows
  <1>1. /\ txn[r].pc = "read" /\ Free(r) /\ order' = [order EXCEPT ![o] = "CANCELLED"]
        /\ uses' = uses \ rows
        /\ coupon' = [coupon EXCEPT !.count = Floored(coupon.count)]
        /\ unbacked' = IF rows \cap uses = {} THEN unbacked + 1 ELSE unbacked
        /\ txn' = [txn EXCEPT ![r] = Rest("idle")]
        /\ UNCHANGED <<paying, trouble, edits, spends, raced, stale, undone, early>>
    BY DEF GiveBack
  <1>2. /\ r \in Tx /\ Rest("idle") \in Session /\ "idle" \in Pc /\ r \notin Order /\ r # Editor
        /\ txn[r] \in Session /\ Shape(r, txn[r]) /\ Release(r)
    BY Kinds, AtRest, Facts DEF Pc
  <1>3. /\ o \in Order /\ rows \subseteq {o} /\ o \in paying
        /\ o \notin early => /\ rows = {o} /\ o \in uses
                             /\ \A s \in Releaser : txn[s].of = o => s = r
    BY <1>1, <1>2 DEF Shape, Session, Release
  <1>4. Moved(r, Rest("idle"))
    BY <1>1, <1>2, MovedBy, Facts
  <1>5. /\ txn' \in [Tx -> Session] /\ \A u \in Tx : u # r => txn'[u] = txn[u]
        /\ txn'[r].pc = "idle" /\ txn'[r].flushed = None /\ txn'[r].of = None
        /\ Shape(r, txn'[r])
    BY <1>2, <1>4, AtRest, Shapely DEF Moved
  <1>6. /\ coupon' \in Row /\ coupon'.count = Floored(coupon.count)
    BY <1>1, Facts DEF Floored, Row
  <1>7. TypeOK'
    <2>1. order' \in [Order -> State] /\ uses' \subseteq Order
      BY <1>1, Facts DEF State
    <2>2. unbacked' \in Nat
      BY <1>1, Facts
    <2> QED BY <1>1, <1>5, <1>6, <2>1, <2>2, Facts DEF TypeOK
  <1>8. \A u \in Tx : Shape(u, txn'[u])
    BY <1>5, Facts
  <1>9. ASSUME NEW p \in Order PROVE Stage(p)'
    <2>1. Stage(p) /\ p # r /\ txn'[p] = txn[p] /\ p \in Tx
      BY <1>2, <1>5, Facts, Kinds
    <2>2. CASE p = o
      <3>1. order'[p] = "CANCELLED" /\ txn[p].pc \in {"begun", "ended"}
        BY <1>1, <1>3, <2>1, <2>2, Facts DEF Stage
      <3>2. p \notin early => txn[p].pc = "ended" /\ p \notin uses'
        BY <1>1, <1>3, <2>1, <2>2 DEF Stage
      <3> QED BY <1>1, <1>3, <2>1, <2>2, <3>1, <3>2 DEF Stage, Placed
    <2>3. CASE p # o
      BY <1>1, <1>3, <2>1, <2>3, Facts DEF Stage
    <2> QED BY <2>2, <2>3
  <1>10. ASSUME NEW s \in Releaser PROVE Release(s)'
    BY <1>1, <1>3, <1>5, Facts, Kinds DEF Release
  <1>11. Lock'
    BY <1>5, Facts DEF Lock
  <1>12. IsFiniteSet(uses) /\ Cardinality(uses) \in Nat
    BY Facts, AllFinite
  <1>13. Counted'
    <2> SUFFICES ASSUME ~stale
                 PROVE  /\ coupon'.count <= Cardinality(uses')
                        /\ Cardinality(uses') <= coupon'.count + unbacked'
                        /\ \A u \in Tx : Count(u, txn[u])'
      BY <1>1 DEF Counted
    <2>1. /\ coupon.count <= Cardinality(uses) /\ Cardinality(uses) <= coupon.count + unbacked
          /\ \A u \in Tx : Count(u, txn[u])
      BY Facts DEF Counted
    <2>2. coupon.count \in Nat /\ unbacked \in Nat
      BY Facts DEF Row
    <2>3. /\ coupon'.count <= Cardinality(uses')
          /\ Cardinality(uses') <= coupon'.count + unbacked'
      <3>1. CASE rows \cap uses = {}
        <4>1. uses' = uses /\ unbacked' = unbacked + 1
          BY <1>1, <3>1
        <4> QED BY <1>6, <1>12, <2>1, <2>2, <4>1 DEF Floored
      <3>2. CASE rows \cap uses # {}
        <4>1. uses' = uses \ {o} /\ o \in uses /\ unbacked' = unbacked
          BY <1>1, <1>3, <3>2
        <4>2. Cardinality(uses') = Cardinality(uses) - 1
          BY <1>12, <4>1, FS_RemoveElement
        <4>3. Cardinality(uses) # 0
          BY <1>12, <4>1, FS_EmptySet
        <4> QED BY <1>6, <1>12, <2>1, <2>2, <4>1, <4>2, <4>3 DEF Floored
      <3> QED BY <3>1, <3>2
    <2>4. \A u \in Tx : u # r => txn[u].flushed = None
      BY <1>1 DEF Free
    <2>5. ASSUME NEW u \in Tx PROVE Count(u, txn[u])'
      <3>1. CASE u = r
        BY <1>2, <3>1 DEF Count
      <3>2. CASE u # r
        BY <1>1, <1>5, <2>1, <2>4, <3>2 DEF Count
      <3> QED BY <3>1, <3>2
    <2> QED BY <2>3, <2>5
  <1>14. Taken' \subseteq Taken
    BY <1>1, <1>2, <1>5, Kinds DEF Taken, Counting
  <1>15. unbacked <= unbacked' /\ unbacked' \in Nat
    BY <1>1, Facts
  <1>16. Room' /\ CustomerRoom'
    BY <1>1, <1>7, <1>14, <1>15, StillRoom, Facts
  <1> QED BY <1>7, <1>8, <1>9, <1>10, <1>11, <1>13, <1>16 DEF IInv

LEMMA NextIInv ==
  ASSUME IInv, [Next]_vars PROVE IInv'
PROOF
  <1>1. CASE UNCHANGED vars
    <2>1. /\ UNCHANGED <<coupon, uses, order, paying, txn, trouble, edits>>
          /\ UNCHANGED <<spends, raced, unbacked, stale, undone, early>>
      BY <1>1 DEF vars
    <2>2. TypeOK' /\ (\A x \in Tx : Shape(x, txn[x])') /\ Lock'
      BY <2>1, Facts DEF TypeOK, Lock
    <2>3. (\A o \in Order : Stage(o)') /\ (\A r \in Releaser : Release(r)')
      BY <2>1, Facts DEF Stage, Release
    <2>4. Counted'
      BY <2>1, Facts DEF Counted, Count
    <2>5. Taken' \subseteq Taken
      BY <2>1 DEF Taken, Counting
    <2>6. Room' /\ CustomerRoom'
      BY <2>1, <2>2, <2>5, StillRoom, Facts
    <2> QED BY <2>2, <2>3, <2>4, <2>6 DEF IInv
  <1>2. CASE \E o \in Order : Place(o) \/ NothingToCount(o) \/ Commit(o) \/ Approve(o)
    BY <1>2, PlaceIInv, NothingToCountIInv, CommitIInv, ApproveIInv
  <1>9. CASE \E o \in Order, took \in BOOLEAN : Quote(o, took)
    BY <1>9, QuoteIInv
  <1>3. CASE \E o \in Order, wallet \in BOOLEAN : Pay(o, wallet)
    BY <1>3, PayIInv
  <1>4. CASE \E x \in Order \cup {Editor} : Read(x) \/ Update(x) \/ Write(x)
    BY <1>4, ReadIInv, UpdateIInv, WriteIInv
  <1>5. CASE CommitEdit
    BY <1>5, CommitEditIInv
  <1>6. CASE \E r \in Releaser, o \in Order : Find(r, o)
    BY <1>6, FindIInv
  <1>7. CASE \E r \in Releaser : GiveBack(r)
    BY <1>7, GiveBackIInv
  <1>8. CASE \E x \in Tx : Die(x)
    BY <1>8, DieIInv
  <1> QED BY <1>1, <1>2, <1>3, <1>4, <1>5, <1>6, <1>7, <1>8, <1>9 DEF Next

LEMMA Inductive == Spec => []IInv
PROOF
  <1>1. Init => IInv
    BY InitIInv
  <1>2. IInv /\ [Next]_vars => IInv'
    BY NextIInv
  <1> QED BY <1>1, <1>2, PTL DEF Spec

-----------------------------------------------------------------------------
(* Every variable of the coupon's life keeps its type. *)
THEOREM TypeCorrect == Spec => []TypeOK
PROOF
  <1>1. IInv => TypeOK
    BY DEF IInv
  <1> QED BY <1>1, Inductive, PTL

(* Unless it was written from an old copy, the counter never exceeds the
   redemptions on record, and lacks at most the uses given back uncounted. *)
THEOREM CounterFollowsRedemptions == Spec => []CountIsRedemptions
PROOF
  <1>1. IInv => CountIsRedemptions
    BY DEF IInv, Counted, CountIsRedemptions
  <1> QED BY <1>1, Inductive, PTL

(* A code goes beyond its limit by no more than one use for each checkout that
   overlapped another and each use given back uncounted. *)
THEOREM LimitIsKept == Spec => []LimitHolds
PROOF
  <1>1. IInv => LimitHolds
    <2> SUFFICES ASSUME IInv, ~stale
                 PROVE  Cardinality(uses) <= MaxUses + unbacked + Cardinality(Late)
      BY DEF LimitHolds
    <2>1. Cardinality(Taken) <= MaxUses + unbacked + Cardinality(Late)
      BY Facts DEF Room
    <2>2. Cardinality(uses) <= Cardinality(Taken)
      BY Facts, AllFinite, FS_Subset DEF Taken
    <2> QED BY <2>1, <2>2, Facts, AllFinite, LimitAssumption
  <1> QED BY <1>1, Inductive, PTL

(* A customer goes beyond theirs by no more than their checkouts that
   overlapped another of their own. *)
THEOREM CustomerLimitIsKept == Spec => []CustomerLimitHolds
PROOF
  <1>1. IInv => CustomerLimitHolds
    <2> SUFFICES ASSUME IInv, NEW c \in Customer
                 PROVE  UsesOf(c) <= PerUser + Cardinality(LateOf(c))
      BY DEF CustomerLimitHolds
    <2>1. Cardinality(TakenBy(c)) <= PerUser + Cardinality(LateOf(c))
      BY Facts DEF CustomerRoom
    <2>2. {o \in uses : Of[o] = c} \subseteq TakenBy(c)
      BY DEF TakenBy, Taken
    <2>3. UsesOf(c) <= Cardinality(TakenBy(c))
      BY <2>2, Facts, AllFinite, FS_Subset DEF UsesOf
    <2> QED BY <2>1, <2>3, Facts, AllFinite, LimitAssumption
  <1> QED BY <1>1, Inductive, PTL

(* An order paid for with the discount has used the code. *)
THEOREM PaidOrdersUseTheCode == Spec => []PaidOrdersAreCounted
PROOF
  <1>1. IInv => PaidOrdersAreCounted
    BY Facts DEF Stage, PaidOrdersAreCounted
  <1> QED BY <1>1, Inductive, PTL

(* An abandoned order gives its use back, unless its release came too early. *)
THEOREM AbandonedGiveBack == Spec => []AbandonedAreGivenBack
PROOF
  <1>1. IInv => AbandonedAreGivenBack
    BY DEF IInv, Stage, AbandonedAreGivenBack
  <1> QED BY <1>1, Inductive, PTL
=============================================================================
