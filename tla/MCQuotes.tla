------------------------------- MODULE MCQuotes -------------------------------
(***************************************************************************)
(* A small catalogue for Quotes: two packages, two campaigns of the same   *)
(* priority, a code that combines and one that does not.                   *)
(***************************************************************************)
EXTENDS Quotes

Volumes == [p \in Package |-> 2 * p]

Percent(points, cap) == [percent |-> TRUE, value |-> points, cap |-> cap]
Fixed(amount) == [percent |-> FALSE, value |-> amount, cap |-> None]

Sales ==
  [c \in Campaign |->
     IF c = 1 THEN [discount |-> Percent(5000, 12), priority |-> 0, covers |-> Package]
     ELSE [discount |-> Percent(3000, None), priority |-> 0, covers |-> {1}]]

Codes ==
  [code \in Code |->
     IF code = "half"
     THEN [discount |-> Percent(5000, None), stacks |-> TRUE, least |-> 0,
           firstOnly |-> FALSE, covers |-> Package]
     ELSE [discount |-> Fixed(9), stacks |-> FALSE, least |-> 20,
           firstOnly |-> TRUE, covers |-> Package]]

Policies ==
  { [step |-> 10, stacking |-> TRUE, ceiling |-> 7000],
    [step |-> 1, stacking |-> TRUE, ceiling |-> 3500] }

=============================================================================
