---------------------------- MODULE MCProvisioning ----------------------------
(***************************************************************************)
(* Small instances of Provisioning: renewals renew the service "n1" bought.*)
(***************************************************************************)
EXTENDS Provisioning

CONSTANTS m1, m2

RenewsFirst == [r \in Renewal |-> "n1"]

\* A product that may land on either server, and one bound to the second.
AnyOrSecond == [s \in Service |-> IF s = "n1" THEN {m1, m2} ELSE {m2}]

=============================================================================
