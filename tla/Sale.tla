--------------------------------- MODULE Sale ---------------------------------
(***************************************************************************)
(* What a checkout promises, without requests, snapshots or rows: a sale is *)
(* opened, decided once, and money that was kept may be returned.  The     *)
(* order behind a purchase follows the decision in the same step.          *)
(***************************************************************************)
EXTENDS Integers

CONSTANTS Payment, Purchase

VARIABLES
  outcome,   \* "none", "open", "sold" or "abandoned"
  kept,      \* the customer's money the shop holds for it
  due        \* the order: "none", "waiting", "owed" or "released"

vars == <<outcome, kept, due>>

Init ==
  /\ outcome = [p \in Payment |-> "none"]
  /\ kept = [p \in Payment |-> 0]
  /\ due = [p \in Payment |-> "none"]

\* Only p changes what is kept, and by what the step says.
Keep(p, amount) == kept' = [kept EXCEPT ![p] = amount]

Order(p) ==
  /\ p \in Purchase
  /\ due[p] = "none"
  /\ due' = [due EXCEPT ![p] = "waiting"]
  /\ UNCHANGED <<outcome, kept>>

Open(p) ==
  /\ outcome[p] = "none"
  /\ p \in Purchase => due[p] = "waiting"
  /\ outcome' = [outcome EXCEPT ![p] = "open"]
  /\ UNCHANGED <<kept, due>>

\* Sold at once when it opens (wallet, free) or after it was decided.
Sell(p) ==
  /\ outcome[p] \in {"none", "open"}
  /\ p \in Purchase => due[p] = "waiting"
  /\ outcome' = [outcome EXCEPT ![p] = "sold"]
  /\ kept'[p] > 0 /\ Keep(p, kept'[p])
  /\ due' = IF p \in Purchase THEN [due EXCEPT ![p] = "owed"] ELSE due

Abandon(p) ==
  /\ outcome[p] = "open"
  /\ outcome' = [outcome EXCEPT ![p] = "abandoned"]
  /\ due' = IF p \in Purchase THEN [due EXCEPT ![p] = "released"] ELSE due
  /\ UNCHANGED kept

Return(p) ==
  /\ outcome[p] = "sold"
  /\ 0 <= kept'[p] /\ kept'[p] < kept[p] /\ Keep(p, kept'[p])
  /\ UNCHANGED <<outcome, due>>

Next == \E p \in Payment : Order(p) \/ Open(p) \/ Sell(p) \/ Abandon(p) \/ Return(p)

Spec == Init /\ [][Next]_vars

=============================================================================
