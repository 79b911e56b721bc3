---------------------------- MODULE MCBookingFlow ----------------------------
(* Instances of BookingFlow for TLC: the constants that are functions.      *)
EXTENDS BookingInvariant, TLC

CONSTANTS b1, b2, b3, c1, c2, c3, r1, r2, talk, room, ann, bob

OneCrew     == [o \in Offerings |-> {{r1}}]
BothCrews   == [o \in Offerings |-> {{r1}, {r1, r2}}]

At(S)      == [o \in Offerings |-> S]
StartsNear == At({1, 2})   \* two starts whose occupied spans overlap
Zero       == At(0)
Unit       == At(1)
Three      == At(3)
AnySeats   == [r \in Resources |-> 9]
FewerOnR2  == [r \in Resources |-> IF r = r1 THEN 3 ELSE 2]
Anyone     == At({"customer", "staff"})
OnlyCustomers == At({"customer"})

IdSymmetry     == Permutations(Ids)
ClientSymmetry == Permutations(Clients)
EmailSymmetry  == Permutations(Emails)
Symmetry       == IdSymmetry \cup ClientSymmetry \cup EmailSymmetry
=============================================================================
