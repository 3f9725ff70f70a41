----------------------------- MODULE MCSettlement -----------------------------
(***************************************************************************)
(* Small instances of Settlement: which checkouts there are, how each is   *)
(* paid, and who works on them.  Every invoice that charges comes to 2, so *)
(* that 1 arriving is short, 2 exact and 3 over.                           *)
(***************************************************************************)
EXTENDS Settlement

CONSTANTS p1, p2, p3, t1, t2

One == {p1}
Two == {p1, p2}
Three == {p1, p2, p3}
Second == {p2}

AllProof == [p \in Payment |-> "proof"]
AllGateway == [p \in Payment |-> "gateway"]
EveryWay ==
  [p \in Payment |-> CASE p = p1 -> "proof" [] p = p2 -> "gateway" [] OTHER -> "wallet"]

Quoted ==
  [p \in Payment |-> CASE Method[p] = "free" -> 0 [] Method[p] = "proof" -> 1 [] OTHER -> 2]

=============================================================================
