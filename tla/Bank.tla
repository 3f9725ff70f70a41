--------------------------------- MODULE Bank ---------------------------------
(***************************************************************************)
(* What the wallets promise: accounts that are never overdrawn.  Money     *)
(* comes in, goes out, or moves whole from one account to another.         *)
(***************************************************************************)
EXTENDS Integers

CONSTANTS User, Opening

VARIABLE balance

Init == balance = Opening

Deposit(u) ==
  /\ balance'[u] > balance[u]
  /\ balance' = [balance EXCEPT ![u] = balance'[u]]

Withdraw(u) ==
  \E amount \in 1 .. balance[u] : balance' = [balance EXCEPT ![u] = @ - amount]

Move(u, v) ==
  \E amount \in 1 .. balance[u] :
    balance' = [balance EXCEPT ![u] = @ - amount, ![v] = @ + amount]

Next ==
  \/ \E u \in User : Deposit(u) \/ Withdraw(u)
  \/ \E u, v \in User : u # v /\ Move(u, v)

Spec == Init /\ [][Next]_balance

=============================================================================
