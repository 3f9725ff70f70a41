------------------------------- MODULE MCWallet -------------------------------
(***************************************************************************)
(* Small instances of Wallet: two customers and what they ask for.         *)
(***************************************************************************)
EXTENDS Wallet

Ask(op, user, to, amount, extra, ref) ==
  [op |-> op, user |-> user, to |-> to, amount |-> amount, extra |-> extra, ref |-> ref]

There == Ask("transfer", 1, 2, 1, 0, "transfer:a")
Back == Ask("transfer", 2, 1, 2, 0, "transfer:b")
Buy == Ask("purchase", 1, 1, 2, 0, "INV-1")
TopUp == Ask("topup", 2, 2, 1, 0, "INV-2")
Overpaid == Ask("surplus", 1, 1, 1, 0, "INV-1")
Reward == Ask("reward", 1, 1, 1, 0, "referral:1")
Given == Ask("adjust", 2, 2, 1, 0, None)
TakenBack == Ask("takeback", 1, 1, 2, 0, None)

Racing == {There, Back, Buy, Reward}
InTurn == {There, Buy, TopUp, Overpaid, Given, TakenBack}

\* Events are delivered twice, the rest is asked for once.
Redelivered == [r \in Request |-> IF r.op = "reward" THEN 2 ELSE 1]
OneTry == [r \in Request |-> 1]
Holdings == [u \in User |-> IF u = 1 THEN 2 ELSE 1]

=============================================================================
