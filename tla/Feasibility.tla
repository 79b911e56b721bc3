---------------------------- MODULE Feasibility ----------------------------
(***************************************************************************)
(* The preview a manager sees: whether the resources there are can fill    *)
(* what a service needs, whatever the hours and the bookings.              *)
(***************************************************************************)
EXTENDS SlotEngine

\* Mutant: a resource has to be larger than the group.
CanHostFewer(r, group) == Setup[r].capacity = None \/ Setup[r].capacity > group
CanHost(r, group) == Setup[r].capacity = None \/ Setup[r].capacity >= group

FillDemands(svc, offers, group, leftOut) ==
    LET needs == Offer[svc].needs
        fits(need) == {r \in Resources : IsEligible(r, need, svc, offers) /\ CanHost(r, group)}
        alike(need) ==
            IF leftOut /\ need.kind = "employee" THEN <<>>
            ELSE [unit \in 1..need.count |-> InOrder(fits(need), [r \in Resources |-> 0])]
    IN  Concatenated([i \in DOMAIN needs |-> alike(needs[i])])

IsFillable(svc, offers, group, leftOut) ==
    MatchResources(FillDemands(svc, offers, group, leftOut)) # None

\* The biggest group that can be hosted, by halving.
LargestGroup(svc, offers) ==
    LET most == Offer[svc].perBooking
        seek[at \in (1..most) \X (1..most)] ==
            LET low    == at[1]
                high   == at[2]
                middle == (low + high + 1) \div 2
            IN  IF low >= high THEN low
                ELSE seek[IF IsFillable(svc, offers, middle, FALSE)
                          THEN <<middle, high>> ELSE <<low, middle - 1>>]
    IN  IF IsFillable(svc, offers, 1, FALSE) THEN seek[<<1, most>>] ELSE 0

\* Employees who have not joined yet block nothing.
Readiness(svc, offers) ==
    IF IsFillable(svc, offers, 1, FALSE) THEN "ready"
    ELSE IF IsFillable(svc, offers, 1, TRUE) THEN "awaiting-employees"
    ELSE "blocked"
=============================================================================
