------------------------------ MODULE MCCoupons ------------------------------
EXTENDS Coupons, TLC
CONSTANTS o1, o2, o3, ann, bob, r1
Owners == (o1 :> ann) @@ (o2 :> ann) @@ (o3 :> bob)
OfAnn == Permutations({o1, o2})
=============================================================================
